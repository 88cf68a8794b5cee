--------------------------- MODULE MCClientLifecycle ---------------------------
(***************************************************************************)
(* Instances of ClientLifecycle: both roles, configurations that are       *)
(* refused, and attach replies that differ from a good one in one field.   *)
(***************************************************************************)
EXTENDS ClientLifecycle, TLC

Stage(kind, stage) == [kind |-> kind, stage |-> stage]
ModuleConfig(stages) == [role |-> "module", named |-> TRUE, stages |-> stages]

Module == ModuleConfig(<<Stage(6401, 1)>>)
Caller == [role |-> "caller", named |-> TRUE, stages |-> <<>>]

MCConfigs ==
  {Module, Caller, [Caller EXCEPT !.named = FALSE], ModuleConfig(<<>>),
   ModuleConfig(<<Stage(6401, 0)>>), ModuleConfig(<<Stage(6401, 1), Stage(6401, 2)>>)}

RunningConfigs == {Module}

(* What a host with slots of 128 bytes and rings of 2 slots writes. *)
Ring(slot, cap, mask) ==
  [magicOK |-> TRUE, slot |-> slot, cap |-> cap, mask |-> mask, slotsOff |-> ringHdrBytes,
   head |-> 1, tail |-> IndexMod - 1]

GoodRing == Ring(128, 2, 1)
In == inboundOff
Out == outboundOff(128, 2)

Good ==
  [whole |-> TRUE, magicOK |-> TRUE, status |-> "OK", fds |-> 3, slot |-> 128, cap |-> 2,
   ctl |-> [magicOK |-> TRUE, versionOK |-> TRUE, slot |-> 128, inline |-> 64, arena |-> 1],
   qp |-> [magicOK |-> TRUE, inOff |-> In, outOff |-> Out,
           rings |-> (In :> GoodRing @@ Out :> GoodRing)]]

WithRing(off, r) == [Good EXCEPT !.qp.rings[off] = r]

(* Larger slots than were announced, a capacity that is no power of two, a *)
(* mask of another capacity, counters too far apart, both offsets the      *)
(* same, an offset outside the mapping or at no ring.                      *)
BadRegions ==
  {[Good EXCEPT !.ctl.versionOK = FALSE], [Good EXCEPT !.ctl.inline = 129],
   [Good EXCEPT !.ctl.arena = 0], [Good EXCEPT !.qp.magicOK = FALSE],
   [Good EXCEPT !.qp.outOff = In], [Good EXCEPT !.qp.outOff = 4096],
   [Good EXCEPT !.qp.inOff = In + 64],
   WithRing(Out, Ring(256, 2, 1)), WithRing(Out, Ring(128, 4, 3)),
   [Good EXCEPT !.ctl.magicOK = FALSE], [Good EXCEPT !.ctl.slot = 0, !.ctl.inline = 0],
   WithRing(In, [GoodRing EXCEPT !.magicOK = FALSE]), WithRing(In, Ring(0, 2, 1)),
   WithRing(Out, [GoodRing EXCEPT !.slotsOff = 128]),
   WithRing(In, Ring(64, 3, 2)), WithRing(In, Ring(64, 4, 7)),
   WithRing(In, [GoodRing EXCEPT !.tail = 2])}

BadReplies ==
  {[Good EXCEPT !.whole = FALSE], [Good EXCEPT !.magicOK = FALSE],
   [Good EXCEPT !.status = "DeniedPolicy"],
   [Good EXCEPT !.status = "DeniedNoSlot", !.fds = 0],
   [Good EXCEPT !.fds = 2], [Good EXCEPT !.fds = 4]}

(* Layouts that validate though they are not the announced one: smaller    *)
(* and more slots in the same bytes, and rings that overlap.               *)
OddRegions ==
  {WithRing(In, Ring(64, 4, 3)), WithRing(Out, Ring(64, 4, 3)),
   [Good EXCEPT !.qp.outOff = In + 64, !.qp.rings = @ @@ In + 64 :> GoodRing]}

MCReplies == {Good} \cup OddRegions \cup BadReplies \cup BadRegions
GoodReplies == {Good, [Good EXCEPT !.status = "DeniedPolicy"]}
===============================================================================
