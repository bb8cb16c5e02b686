------------------------------ MODULE BoundedLog ------------------------------
(***************************************************************************)
(* What an EventRing promises its users (internal/tools/job_events.go:5-6, *)
(* 22, 39): the last Cap events pushed, in the order in which they were    *)
(* pushed.  The ring buffer that implements it is module EventRing; the    *)
(* event pipeline of an agent job is built on this module.                 *)
(***************************************************************************)
EXTENDS Naturals, Sequences

CONSTANTS Event,   \* the events that can be pushed
          Cap      \* how many of them are kept

VARIABLE window    \* the events kept, oldest first

-----------------------------------------------------------------------------
\* A log with one more event, the oldest forgotten if that makes it too long.
Remember(w, e) == LET longer == Append(w, e)
                  IN  IF Len(longer) > Cap THEN Tail(longer) ELSE longer

Init == window = <<>>

Record(e) == window' = Remember(window, e)

Next == \E e \in Event : Record(e)

Spec == Init /\ [][Next]_window
=============================================================================
