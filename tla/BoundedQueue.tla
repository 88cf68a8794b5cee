----------------------------- MODULE BoundedQueue -----------------------------
(***************************************************************************)
(* What one direction of a bus queue pair promises its two users: a FIFO   *)
(* of at most Cap whole messages, of which the single consumer may look at *)
(* the oldest one for as long as it likes before releasing it.             *)
(*                                                                         *)
(* server-go/bus/ring.go implements it with two wrapping indices over an   *)
(* array of shared slots; module Ring is shown to refine this module.      *)
(***************************************************************************)
EXTENDS Naturals, Sequences

CONSTANTS
  Cap,     \* slots in the ring
  Msg,     \* the messages a producer may publish
  NoView   \* the consumer holds nothing

VARIABLES
  q,       \* published and not yet released messages, oldest first
  view     \* the message the consumer is reading, or NoView

vars == <<q, view>>

QueueTypeOK ==
  /\ q \in Seq(Msg)
  /\ Len(q) <= Cap
  /\ view \in Msg \cup {NoView}

Init ==
  /\ q \in UNION {[1 .. n -> Msg] : n \in 0 .. Cap}
  /\ view = NoView

(* A message becomes visible to the consumer whole, at the end of the queue. *)
Publish(m) ==
  /\ Len(q) < Cap
  /\ q' = Append(q, m)
  /\ UNCHANGED view

(* The consumer is shown the oldest message; it stays queued. *)
Take ==
  /\ view = NoView
  /\ q # <<>>
  /\ view' = Head(q)
  /\ UNCHANGED q

(* The consumer gives the slot of the message it was shown back. *)
Release ==
  /\ view # NoView
  /\ q' = Tail(q)
  /\ view' = NoView

Next == (\E m \in Msg : Publish(m)) \/ Take \/ Release

Spec == Init /\ [][Next]_vars
===============================================================================
