---------------------------- MODULE EventRingProofs ----------------------------
(***************************************************************************)
(* Proofs about EventRing, for every capacity (0 and 256 included) and     *)
(* every set of events.                                                    *)
(***************************************************************************)
EXTENDS EventRing, TLAPS

-----------------------------------------------------------------------------
(***************************************************************************)
(* Indices run at most once past the end of the buffer, where reducing     *)
(* modulo the capacity is one subtraction: all the ring's arithmetic.      *)
(***************************************************************************)
LEMMA ModuloOnce ==
  ASSUME NEW n \in Nat \ {0}, NEW x \in Nat, x < n + n
  PROVE  x % n = IF x < n THEN x ELSE x - n
<1>1. CASE x < n
  BY <1>1, SMT
<1>2. CASE x >= n
  BY <1>2, SMT
<1> QED BY <1>1, <1>2, SMT

LEMMA WrapOnce ==
  ASSUME Cap # 0
  PROVE  \A x \in 0 .. Cap + Cap - 1 : Wrap(x) = IF x < Cap THEN x ELSE x - Cap
<1> TAKE x \in 0 .. Cap + Cap - 1
<1>1. Cap \in Nat \ {0} /\ x \in Nat /\ x < Cap + Cap
  BY CapIsNat
<1> QED BY <1>1, ModuloOnce, Zenon DEF Wrap

(***************************************************************************)
(* Advancing the head by one shifts the whole ring by one: the i-th slot   *)
(* after the move is the one that was next, and the last is the old head.  *)
(***************************************************************************)
LEMMA HeadMoves ==
  ASSUME Cap # 0, NEW h \in Slots, NEW i \in 1 .. Cap
  PROVE  /\ Wrap(h + (i - 1)) \in Slots
         /\ i = Cap => Wrap(Wrap(h + 1) + (i - 1)) = h
         /\ i < Cap => /\ Wrap(Wrap(h + 1) + (i - 1)) = Wrap(h + i)
                       /\ Wrap(h + i) # h
<1> USE CapIsNat DEF Slots
<1>1. Wrap(h + (i - 1)) = IF h + (i - 1) < Cap THEN h + (i - 1) ELSE h + (i - 1) - Cap
  BY WrapOnce
<1>2. Wrap(h + 1) = IF h + 1 < Cap THEN h + 1 ELSE 0
  BY WrapOnce
<1>3. Wrap(h + i) = IF h + i < Cap THEN h + i ELSE h + i - Cap
  BY WrapOnce
<1>4. CASE h + 1 < Cap
  <2>1. h + 1 + (i - 1) = h + i
    OBVIOUS
  <2> QED BY <1>1, <1>2, <1>3, <1>4, <2>1
<1>5. CASE h + 1 = Cap
  <2>1. Wrap(0 + (i - 1)) = i - 1
    BY WrapOnce
  <2> QED BY <1>1, <1>2, <1>3, <1>5, <2>1
<1> QED BY <1>4, <1>5

(***************************************************************************)
(* TypeOK is inductive: pushes of job_events.go never leave the buffer and *)
(* keep exactly the slots in use written.                                  *)
(***************************************************************************)
LEMMA PushKeepsType ==
  ASSUME TypeOK, NEW e \in Event, Push(e)
  PROVE  TypeOK'
<1> USE CapIsNat, NoEventIsNoEvent DEF TypeOK, Slots
<1>1. CASE Cap = 0
  BY <1>1 DEF Push, vars
<1>2. CASE Cap # 0 /\ size < Cap
  <2>1. Wrap(head + size) = size
    BY <1>2, WrapOnce
  <2>2. buf' = [buf EXCEPT ![size] = e] /\ size' = size + 1 /\ head' = head
    BY <1>2, <2>1 DEF Push
  <2> QED BY <1>2, <2>2
<1>3. CASE Cap # 0 /\ size = Cap
  <2>1. Wrap(head + size) = head
    BY <1>3, WrapOnce
  <2>2. Wrap(head + 1) \in Slots
    BY <1>3, WrapOnce
  <2>3. buf' = [buf EXCEPT ![head] = e] /\ head' = Wrap(head + 1) /\ size' = size
    BY <1>3, <2>1 DEF Push
  <2> QED BY <1>3, <2>2, <2>3
<1> QED BY <1>1, <1>2, <1>3

(***************************************************************************)
(* The ring's indices are correct in every reachable state.                *)
(***************************************************************************)
THEOREM TypeCorrect == Spec => []TypeOK
<1>1. Init => TypeOK
  BY CapIsNat DEF Init, TypeOK, Slots
<1>2. TypeOK /\ [Next]_vars => TypeOK'
  <2> SUFFICES ASSUME TypeOK, [Next]_vars PROVE TypeOK'
    OBVIOUS
  <2>1. CASE Next
    BY <2>1, PushKeepsType DEF Next
  <2>2. CASE UNCHANGED vars
    BY <2>2 DEF vars, TypeOK
  <2> QED BY <2>1, <2>2
<1> QED BY <1>1, <1>2, PTL DEF Spec

-----------------------------------------------------------------------------
(***************************************************************************)
(* The heart of the refinement: what Snapshot returns after a push is what *)
(* it returned before with the new event behind it, less the oldest event  *)
(* if the ring was full.                                                   *)
(***************************************************************************)
LEMMA PushRecords ==
  ASSUME TypeOK, NEW e \in Event, Push(e)
  PROVE  Log!Record(e)
<1> DEFINE longer == Append(Snapshot, e)
<1>1. CASE Cap = 0
  <2>1. Snapshot' = Snapshot
    BY <1>1 DEF Push, vars, Snapshot
  <2>2. Snapshot = << >> /\ Tail(longer) = << >> /\ Len(longer) > Cap
    BY <1>1 DEF TypeOK, Snapshot
  <2> QED BY <2>1, <2>2 DEF Log!Record, Log!Remember
<1>2. CASE Cap # 0
  <2>1. /\ Cap \in Nat \ {0}
        /\ size \in 0 .. Cap
        /\ head \in 0 .. Cap - 1
        /\ head = 0 \/ size = Cap
        /\ buf \in [0 .. Cap - 1 -> Event \cup {NoEvent}]
        /\ \A i \in 0 .. Cap - 1 : i < size => buf[i] \in Event
    BY <1>2, CapIsNat DEF TypeOK, Slots
  <2>2. \A x \in 0 .. Cap + Cap - 1 : Wrap(x) = IF x < Cap THEN x ELSE x - Cap
    BY <1>2, WrapOnce
  <2> DEFINE At(i) == IF head + (i - 1) < Cap THEN head + (i - 1)
                                              ELSE head + (i - 1) - Cap
  <2>3. \A i \in 1 .. Cap : Wrap(head + (i - 1)) = At(i) /\ At(i) \in 0 .. Cap - 1
    <3>1. ASSUME NEW i \in 1 .. Cap PROVE head + (i - 1) \in 0 .. Cap + Cap - 1
      BY <2>1
    <3> QED BY <2>1, <2>2, <3>1
  <2>4. Snapshot = [i \in 1 .. size |-> buf[At(i)]]
    <3>1. \A i \in 1 .. size : i \in 1 .. Cap
      BY <2>1
    <3> HIDE DEF At
    <3> QED BY <2>3, <3>1 DEF Snapshot
  <2>5. Snapshot \in Seq(Event) /\ Len(Snapshot) = size
    <3>1. ASSUME NEW i \in 1 .. size PROVE buf[At(i)] \in Event
      BY <2>1, <2>3
    <3> QED BY <2>1, <2>4, <3>1
  <2>6. /\ longer \in Seq(Event) /\ Len(longer) = size + 1
        /\ longer = [i \in 1 .. size + 1 |-> IF i = size + 1 THEN e ELSE buf[At(i)]]
    BY <2>1, <2>4, <2>5
  <2>7. CASE size < Cap
    <3>1. head = 0 /\ head + size \in 0 .. Cap + Cap - 1 /\ head + size < Cap
      BY <2>1, <2>7
    <3>2. Wrap(head + size) = size
      BY <2>1, <2>2, <3>1
    <3>3. buf' = [buf EXCEPT ![size] = e] /\ size' = size + 1 /\ head' = head
      BY <1>2, <2>7, <3>2 DEF Push
    <3>4. Snapshot' = [i \in 1 .. size + 1 |-> buf'[Wrap(head + (i - 1))]]
      BY <3>3 DEF Snapshot
    <3>5. ASSUME NEW i \in 1 .. size + 1
          PROVE  buf'[Wrap(head + (i - 1))] = longer[i]
      <4>1. i \in 1 .. Cap /\ At(i) = i - 1
        BY <2>1, <2>7, <3>1
      <4>2. Wrap(head + (i - 1)) = i - 1 /\ i - 1 \in 0 .. Cap - 1
        BY <2>3, <4>1
      <4>3. buf'[i - 1] = IF i - 1 = size THEN e ELSE buf[i - 1]
        BY <2>1, <3>3, <4>2
      <4> QED BY <2>1, <2>6, <4>1, <4>2, <4>3
    <3>6. Snapshot' = longer
      <4> HIDE DEF longer, At
      <4>1. longer = [i \in 1 .. size + 1 |-> longer[i]]
        BY <2>6
      <4> QED BY <3>4, <3>5, <4>1
    <3> QED BY <2>1, <2>6, <2>7, <3>6 DEF Log!Record, Log!Remember
  <2>8. CASE size = Cap
    <3>1. Wrap(head + size) = head
      <4> DEFINE x == head + size
      <4>1. x \in 0 .. Cap + Cap - 1 /\ ~ (x < Cap) /\ x - Cap = head
        BY <2>1, <2>8
      <4>2. Wrap(x) = x - Cap
        <5> HIDE DEF x
        <5> QED BY <2>2, <4>1
      <4> QED BY <4>1, <4>2
    <3>2. /\ buf' = [buf EXCEPT ![head] = e] /\ size' = size
          /\ head' = Wrap(head + 1)
      <4>1. ~ (size < Cap)
        BY <2>1, <2>8
      <4> QED BY <1>2, <3>1, <4>1, Zenon DEF Push
    <3>3. ASSUME NEW i \in 1 .. size
          PROVE  buf'[Wrap(head' + (i - 1))] = longer[i + 1]
      <4>1. i \in 1 .. Cap /\ head \in Slots
        BY <2>1, <2>8 DEF Slots
      <4>2. CASE i = Cap
        <5>1. Wrap(head' + (i - 1)) = head
          BY <1>2, <3>2, <4>1, <4>2, HeadMoves, Zenon
        <5>2. longer[i + 1] = e
          BY <2>1, <2>6, <2>8, <4>2
        <5> QED BY <2>1, <3>2, <5>1, <5>2
      <4>3. CASE i < Cap
        <5>1. i + 1 \in 1 .. Cap /\ (i + 1) - 1 = i
          BY <2>1, <4>1, <4>3
        <5>2. Wrap(head' + (i - 1)) = Wrap(head + i) /\ Wrap(head + i) # head
          BY <1>2, <3>2, <4>1, <4>3, HeadMoves, Zenon
        <5>3. Wrap(head + i) = At(i + 1) /\ At(i + 1) \in 0 .. Cap - 1
          <6> HIDE DEF At
          <6> QED BY <2>3, <5>1
        <5>4. longer[i + 1] = buf[At(i + 1)]
          BY <2>1, <2>6, <2>8, <4>3
        <5> QED BY <2>1, <3>2, <5>2, <5>3, <5>4
      <4> HIDE DEF longer, At
      <4> QED BY <2>1, <4>1, <4>2, <4>3
    <3>4. Snapshot' = [i \in 1 .. size |-> longer[i + 1]]
      <4> HIDE DEF longer
      <4>1. Snapshot' = [i \in 1 .. size |-> buf'[Wrap(head' + (i - 1))]]
        BY <3>2 DEF Snapshot
      <4> QED BY <3>3, <4>1
    <3>5. Tail(longer) = [i \in 1 .. size |-> longer[i + 1]]
      <4> HIDE DEF longer
      <4> QED BY <2>1, <2>6
    <3>6. Len(longer) > Cap
      BY <2>1, <2>6, <2>8
    <3> QED BY <3>4, <3>5, <3>6, Zenon DEF Log!Record, Log!Remember
  <2> QED BY <2>1, <2>7, <2>8
<1> QED BY <1>1, <1>2

(***************************************************************************)
(* For every capacity, readers of the ring see a bounded log.              *)
(***************************************************************************)
THEOREM RingImplementsLog == Spec => ImplementsBoundedLog
<1>1. Init => Log!Init
  BY DEF Init, Log!Init, Snapshot
<1>2. TypeOK /\ [Next]_vars => [Log!Next]_Snapshot
  <2> SUFFICES ASSUME TypeOK, [Next]_vars PROVE [Log!Next]_Snapshot
    OBVIOUS
  <2>1. CASE Next
    BY <2>1, PushRecords DEF Next, Log!Next
  <2>2. CASE UNCHANGED vars
    BY <2>2 DEF vars, Snapshot
  <2> QED BY <2>1, <2>2
<1> QED BY <1>1, <1>2, TypeCorrect, PTL DEF Spec, ImplementsBoundedLog, Log!Spec
=============================================================================
