------------------------------ MODULE MCFramePath ------------------------------
(***************************************************************************)
(* Instances of FramePath: numbers of radix 4, so that 64 bits wrap at     *)
(* 65536, payloads of at most 3 bytes, and geometries with room for two    *)
(* payload bytes, for more than MaxPayload, and without room for a header. *)
(***************************************************************************)
EXTENDS FramePath

MCConfigs == {[slotSize |-> 66, inlineBudget |-> 3], [slotSize |-> 67, inlineBudget |-> 3],
              [slotSize |-> 32, inlineBudget |-> 2]}

MCPayload == {<<>>, <<1>>, <<3, 2>>, <<2, 0, 1>>}

HostFields(corr, ref, len, gen, version) ==
  [WireVersion |-> version, EventKind |-> 3, PrincipalRef |-> 200, CorrelationID |-> corr,
   Seq |-> 40000, LogicalTS |-> 300, PayloadRef |-> ref, PayloadLen |-> len,
   SrcHandle |-> 77, DstHandle |-> 129, Generation |-> gen]

HostFrame(flags, fields) == [magicOK |-> TRUE, frame |-> Frame(flags, fields)]

(* Every combination of pattern and placement with control, more and an    *)
(* unknown bit.                                                            *)
MCFlags ==
  {pattern \cup placement \cup other :
     pattern \in {{FRequest}, {FNotification}, {FReply, FCancel}, {}},
     placement \in SUBSET PlacementMask,
     other \in {{}, {FControl}, {FMore}, {9}}}

(* References around the bounds of the slot and of 64 bits, lengths around *)
(* MaxPayload, generations with and without a lease, and broken prefixes.  *)
MCHostFrames ==
  {HostFrame(flags, HostFields(50000, 64, 2, 0, WireVersion)) : flags \in MCFlags}
  \cup
  {HostFrame({FReply, FInline}, HostFields(1, ref, len, 0, WireVersion)) :
     len \in {1, 2, 3}, ref \in {0, 62, 64, 65, 66, Wrap - 1, Wrap - 2}}
  \cup
  {HostFrame({FNotification} \cup placement, HostFields(corr, 0, len, gen, WireVersion)) :
     placement \in {{}, {FArena}}, len \in {0, 1}, gen \in {0, 7}, corr \in {0, 1}}
  \cup
  {[magicOK |-> ok, frame |-> Frame({FRequest}, HostFields(1, ref, 0, 0, version))] :
     ok \in BOOLEAN, version \in {2, 3}, ref \in {0, 64}}
===============================================================================
