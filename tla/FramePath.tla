------------------------------- MODULE FramePath -------------------------------
(***************************************************************************)
(* The client's data path as bytes: what Publish, Request, Reply and       *)
(* Cancel write into a slot of the outbound ring, and what Poll makes of a *)
(* slot of the inbound one (server-go/bus/client.go, over wire.go).        *)
(*                                                                         *)
(* Each ring is one slot here (module Ring has the counters), which keeps  *)
(* the bytes of its previous frame.  The host is external: it routes a     *)
(* client's frame to the reader, stamped, and sends frames of its own.     *)
(***************************************************************************)
EXTENDS Wire

CONSTANTS
  None,
  Configs,     \* [slotSize, inlineBudget] of an attached client
  Kind, Corr,  \* event kinds and correlation ids, 0 included
  Payload,     \* payloads, sequences of bytes
  HostFrames,  \* frames the host may write: [frame, magicOK]
  MaxFrames    \* bound: frames emitted by clients and by the host

(* What an operation may ask for: a notification has no correlation, every *)
(* other pattern has one, and only a fragment with a payload has more.     *)
Messages ==
  {m \in [pattern : PatternMask, kind : Kind, corr : Corr, payload : Payload \cup {<<>>},
          more : BOOLEAN] :
     /\ (m.pattern = FNotification) = (m.corr = 0)
     /\ m.more => m.pattern \in {FRequest, FReply} /\ m.payload # <<>>}

(* The Go types: uint32 sizes and kinds, uint64 correlations, []byte.      *)
ASSUME PathAssumption ==
  /\ MaxFrames \in Nat
  /\ \A c \in Configs : c.slotSize \in Nat /\ c.inlineBudget \in Nat
  /\ \A kind \in Kind : kind \in Nat /\ kind < Place(4)
  /\ \A corr \in Corr : corr \in Nat /\ corr < Place(8)
  /\ 0 \in Corr
  /\ \A payload \in Payload : payload \in Seq(Nat)
  /\ \A h \in HostFrames : h.magicOK \in BOOLEAN /\ IsFrame(h.frame)
  /\ None \notin Messages

VARIABLES
  config,       \* geometry; never changes
  epochChanged, \* the host has restarted
  out, outFull, \* the outbound slot and whether it holds a committed frame
  in, inFull,   \* the inbound slot, likewise
  pendingRead,  \* the polled slot is not yet given back
  result,       \* what the last call of a client operation returned
  event,        \* what the last Poll returned
  asked,        \* history: the operation behind the frame in out
  meant,        \* history: the operation or the host's frame behind the one in in
  frames        \* frames so far

clientVars == <<pendingRead, result, event>>
vars == <<config, epochChanged, out, outFull, in, inFull, clientVars, asked, meant, frames>>

Slot == 0 .. config.slotSize - 1

(* What an operation asks for. *)
Message(pattern, kind, corr, payload, more) ==
  [pattern |-> pattern, kind |-> kind, corr |-> corr, payload |-> payload, more |-> more]

NoEvent == [type |-> "none", frame |-> None, payload |-> <<>>]

Init ==
  /\ config \in Configs
  /\ epochChanged = FALSE
  /\ out = [i \in Slot |-> 0] /\ outFull = FALSE
  /\ in = [i \in Slot |-> 0] /\ inFull = FALSE
  /\ pendingRead = FALSE
  /\ result = "none"
  /\ event = NoEvent
  /\ asked = None /\ meant = None
  /\ frames = 0

-------------------------------------------------------------------------------
Fields(kind, corr, len) ==
  [WireVersion |-> WireVersion, EventKind |-> kind, PrincipalRef |-> 0, CorrelationID |-> corr,
   Seq |-> 0, LogicalTS |-> 0, PayloadRef |-> IF len > 0 THEN HdrLen ELSE 0, PayloadLen |-> len,
   SrcHandle |-> 1, DstHandle |-> 0, Generation |-> 0]

(* The frame emit builds. *)
EmitFrame(m) ==
  Frame({m.pattern} \cup (IF m.more THEN {FMore} ELSE {})
                    \cup (IF m.payload # <<>> THEN {FInline} ELSE {}),
        Fields(m.kind, m.corr, Len(m.payload)))

TooLarge(m) ==
  m.payload # <<>> /\ \/ Len(m.payload) > config.inlineBudget
                      \/ HdrLen + Len(m.payload) > config.slotSize

WithPayload(bytes, payload) ==
  [i \in DOMAIN bytes |-> IF i >= HdrLen /\ i < HdrLen + Len(payload)
                          THEN payload[i - HdrLen + 1] ELSE bytes[i]]

(* Client.emit.  An encoder that refuses the frame leaves the slot unused. *)
emit(m) ==
  LET f == EmitFrame(m)
  IN  \/ TooLarge(m) /\ result' = "ErrPayload" /\ UNCHANGED <<out, outFull, asked>>
      \/ /\ ~TooLarge(m) /\ epochChanged
         /\ result' = "ErrEpoch" /\ UNCHANGED <<out, outFull, asked>>
      \/ /\ ~TooLarge(m) /\ ~epochChanged /\ outFull
         /\ result' = "ErrWouldBlock" /\ UNCHANGED <<out, outFull, asked>>
      \/ /\ ~TooLarge(m) /\ ~epochChanged /\ ~outFull /\ ~Encodes(f, config.slotSize)
         /\ result' = "Refused" /\ asked' = m /\ UNCHANGED <<out, outFull>>
      \/ /\ ~TooLarge(m) /\ ~epochChanged /\ ~outFull /\ Encodes(f, config.slotSize)
         /\ result' = "OK"
         /\ out' = WithPayload(Encode(f, out), m.payload)
         /\ outFull' = TRUE
         /\ asked' = m

Running == event.type # "panic"

Operation ==
  /\ Running
  /\ frames < MaxFrames
  /\ frames' = frames + 1
  /\ UNCHANGED <<config, epochChanged, in, inFull, pendingRead, event, meant>>

Publish(kind, payload) ==
  Operation /\ emit(Message(FNotification, kind, 0, payload, FALSE))

(* Mutant of BadFragment: an empty fragment may announce another one. *)
BadFragmentCorrOnly(corr, payload, more) == corr = 0

BadFragment(corr, payload, more) == corr = 0 \/ (more /\ payload = <<>>)

(* RequestFragment and ReplyFragment; Request and Reply are the case in    *)
(* which no more follows.                                                  *)
SendFragment(pattern, kind, corr, payload, more) ==
  /\ Operation
  /\ IF BadFragment(corr, payload, more)
     THEN result' = "ErrProtocol" /\ UNCHANGED <<out, outFull, asked>>
     ELSE emit(Message(pattern, kind, corr, payload, more))

Cancel(kind, corr) ==
  /\ Operation
  /\ IF corr = 0
     THEN result' = "ErrProtocol" /\ UNCHANGED <<out, outFull, asked>>
     ELSE emit(Message(FCancel, kind, corr, <<>>, FALSE))

-------------------------------------------------------------------------------
(* Poll fails once the host has restarted. *)
PollEpoch ==
  /\ epochChanged
  /\ Running /\ event.type # "epoch"
  /\ event' = [NoEvent EXCEPT !.type = "epoch"]
  /\ UNCHANGED <<config, epochChanged, out, outFull, in, inFull, pendingRead, result, asked,
                 meant, frames>>

(* The previous event's slot is given back first; it is the only one. *)
PollEmpty ==
  /\ ~epochChanged /\ Running
  /\ pendingRead \/ (~inFull /\ event # NoEvent)
  /\ inFull' = FALSE
  /\ pendingRead' = FALSE
  /\ event' = NoEvent
  /\ UNCHANGED <<config, epochChanged, out, outFull, in, result, asked, meant, frames>>

Readable == ~epochChanged /\ Running /\ ~pendingRead /\ inFull

(* A frame that does not decode is given back at once. *)
PollDrop ==
  /\ Readable
  /\ Decode(in, config.slotSize) # "OK"
  /\ inFull' = FALSE
  /\ event' = [NoEvent EXCEPT !.type = "dropped"]
  /\ UNCHANGED <<config, epochChanged, out, outFull, in, pendingRead, result, asked, meant,
                 frames>>

(* Mutant of InSlot: one byte past the slot is still inside. *)
InSlotOffByOne(f) ==
  /\ FInline \in f.HdrFlags /\ f.field.PayloadLen > 0
  /\ (f.field.PayloadRef + f.field.PayloadLen) % Wrap < config.slotSize

(* When Poll slices a payload out of the slot. *)
InSlot(f) ==
  /\ FInline \in f.HdrFlags /\ f.field.PayloadLen > 0
  /\ (f.field.PayloadRef + f.field.PayloadLen) % Wrap <= config.slotSize

(* slot[PayloadRef : PayloadRef + PayloadLen]; the runtime stops a slice   *)
(* whose end lies before its start.                                        *)
Sliceable(f) == f.field.PayloadRef <= (f.field.PayloadRef + f.field.PayloadLen) % Wrap

PollEvent ==
  /\ Readable
  /\ Decode(in, config.slotSize) = "OK"
  /\ LET f == Parsed(in)
     IN  event' =
           [type    |-> IF InSlot(f) /\ ~Sliceable(f) THEN "panic" ELSE "event",
            frame   |-> f,
            payload |-> IF InSlot(f) /\ Sliceable(f)
                        THEN [i \in 1 .. f.field.PayloadLen |-> in[f.field.PayloadRef + i - 1]]
                        ELSE <<>>]
  /\ pendingRead' = TRUE
  /\ UNCHANGED <<config, epochChanged, out, outFull, in, inFull, result, asked, meant, frames>>

-------------------------------------------------------------------------------
(* The host.  It stamps what it routes and copies the payload. *)
Stamped(f) ==
  [f EXCEPT !.field = [@ EXCEPT !.Seq = 9, !.LogicalTS = 17, !.DstHandle = 2, !.PrincipalRef = 5]]

HostRoute ==
  /\ ~epochChanged
  /\ outFull /\ ~inFull
  /\ LET f == Parsed(out)
     IN  in' = WithPayload(Encode(Stamped(f), in),
                           [i \in 1 .. f.field.PayloadLen |-> out[HdrLen + i - 1]])
  /\ inFull' = TRUE
  /\ outFull' = FALSE
  /\ meant' = [op |-> asked, frame |-> None]
  /\ UNCHANGED <<config, epochChanged, out, clientVars, asked, frames>>

HostSend(h) ==
  /\ ~epochChanged
  /\ ~inFull
  /\ config.slotSize >= HdrLen
  /\ frames < MaxFrames
  /\ in' = [Encode(h.frame, in) EXCEPT ![0] = IF h.magicOK THEN @ ELSE @ + 1]
  /\ inFull' = TRUE
  /\ meant' = [op |-> None, frame |-> h]
  /\ frames' = frames + 1
  /\ UNCHANGED <<config, epochChanged, out, outFull, clientVars, asked>>

HostRestart ==
  /\ ~epochChanged
  /\ epochChanged' = TRUE
  /\ UNCHANGED <<config, out, outFull, in, inFull, clientVars, asked, meant, frames>>

-------------------------------------------------------------------------------
Client ==
  \/ \E kind \in Kind, payload \in Payload :
       \/ Publish(kind, payload)
       \/ \E pattern \in {FRequest, FReply}, corr \in Corr, more \in BOOLEAN :
            SendFragment(pattern, kind, corr, payload, more)
  \/ \E kind \in Kind, corr \in Corr : Cancel(kind, corr)

Poll == PollEpoch \/ PollEmpty \/ PollDrop \/ PollEvent

Next == Client \/ Poll \/ HostRoute \/ (\E h \in HostFrames : HostSend(h)) \/ HostRestart

Spec == Init /\ [][Next]_vars
-------------------------------------------------------------------------------
Polled == event.type \in {"event", "panic"} /\ pendingRead

(* What a reader polls is what the sender asked for, whatever the two      *)
(* slots held before: pattern, kind, correlation, more and payload of an   *)
(* operation, and all fields of a frame of the host (client.go 188-220 and *)
(* 277-305, wire.go 162-218).                                              *)
ReadAsMeant ==
  Polled =>
    LET f == event.frame
    IN  IF meant.op = None
        THEN f = meant.frame.frame
        ELSE /\ f.HdrFlags \cap PatternMask = {meant.op.pattern}
             /\ (FMore \in f.HdrFlags) = meant.op.more
             /\ f.field.EventKind = meant.op.kind
             /\ f.field.CorrelationID = meant.op.corr
             /\ event.payload = meant.op.payload

(* The checks in front of emit leave the encoder nothing to refuse: every  *)
(* operation with legal arguments and room becomes a frame, unless the     *)
(* geometry has slots without room for a header or a budget above          *)
(* MaxPayload (client.go 188-215 and 222-272, wire.go 112-170).            *)
EmitEncodes ==
  result = "Refused" =>
    config.slotSize < HdrLen \/ Len(asked.payload) > MaxPayload

(* Poll's own bounds test and CheckPlacement agree: every payload that     *)
(* CheckPlacement accepts inline is delivered, and one that it refuses is  *)
(* delivered only if it begins within the header; the slice fails only if  *)
(* reference and length wrap (client.go 299-302, wire.go 223-246).         *)
PollBoundsAgree ==
  Polled /\ FInline \in event.frame.HdrFlags =>
    LET n     == event.frame.field
        good  == CheckPlacement(event.frame, config.slotSize, 0) = "OK"
        wraps == n.PayloadRef + n.PayloadLen >= Wrap
    IN  /\ good => event.type = "event" /\ Len(event.payload) = n.PayloadLen
        /\ event.type = "panic" => wraps
        /\ event.payload # <<>> => good \/ n.PayloadRef < HdrLen
===============================================================================
