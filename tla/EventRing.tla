------------------------------- MODULE EventRing -------------------------------
(***************************************************************************)
(* The fixed-capacity ring of agent events (internal/tools/job_events.go). *)
(* Every operation holds the ring's own mutex, so a push is one step and a *)
(* snapshot is a function of one state.                                    *)
(***************************************************************************)
EXTENDS Naturals, Sequences

CONSTANTS Event,     \* the events that can be pushed
          Cap,       \* the capacity given to NewEventRing
          NoEvent    \* a slot never written (a nil []byte)

ASSUME CapIsNat == Cap \in Nat
ASSUME NoEventIsNoEvent == NoEvent \notin Event

VARIABLES buf,       \* the slots, indexed from 0
          head,      \* the slot of the oldest event
          size       \* how many slots are in use

vars == <<buf, head, size>>

Slots == 0 .. Cap - 1

\* Positions past the last slot are those at the front again.
Wrap(i) == i % Cap

-----------------------------------------------------------------------------
\* NewEventRing.
Init == /\ buf = [i \in Slots |-> NoEvent]
        /\ head = 0
        /\ size = 0

\* Slips Push could have: the head stays behind, the size outgrows the ring.
PushWithoutHead(e) ==
  /\ Cap > 0
  /\ buf' = [buf EXCEPT ![Wrap(head + size)] = e]
  /\ size' = (IF size < Cap THEN size + 1 ELSE size)
  /\ UNCHANGED head
PushWithoutFullTest(e) ==
  /\ Cap > 0
  /\ size <= Cap
  /\ buf' = [buf EXCEPT ![Wrap(head + size)] = e]
  /\ size' = size + 1
  /\ UNCHANGED head

\* Push: the new event goes behind the newest one; when the ring is full that
\* is the slot of the oldest, and the head moves on.
Push(e) ==
  IF Cap = 0
  THEN UNCHANGED vars
  ELSE /\ buf' = [buf EXCEPT ![Wrap(head + size)] = e]
       /\ IF size < Cap
          THEN size' = size + 1 /\ UNCHANGED head
          ELSE head' = Wrap(head + 1) /\ UNCHANGED size

Next == \E e \in Event : Push(e)

Spec == Init /\ [][Next]_vars

\* Snapshot: the used slots from the head on, wrapping around.
Snapshot == [i \in 1 .. size |-> buf[Wrap(head + (i - 1))]]

-----------------------------------------------------------------------------
(***************************************************************************)
(* Type invariant: the indices stay in range, the head only leaves slot 0  *)
(* once the ring is full, and exactly the slots in use hold an event.      *)
(***************************************************************************)
TypeOK ==
  /\ buf \in [Slots -> Event \cup {NoEvent}]
  /\ size \in 0 .. Cap
  /\ head = 0 \/ (size = Cap /\ head \in Slots)
  /\ \A i \in Slots : (buf[i] # NoEvent) <=> (i < size)

(***************************************************************************)
(* Through Snapshot the ring is a bounded log: a reader always gets the    *)
(* last Cap events pushed, in order, however often the buffer wrapped      *)
(* around (Push and Snapshot of job_events.go).                            *)
(***************************************************************************)
Log == INSTANCE BoundedLog WITH window <- Snapshot

ImplementsBoundedLog == Log!Spec
=============================================================================
