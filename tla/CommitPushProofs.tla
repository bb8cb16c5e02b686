---------------------------- MODULE CommitPushProofs ----------------------------
(***************************************************************************)
(* Proofs about CommitPush, for any number of calls, edits and pushes of   *)
(* others: what is committed is never lost, and a call that answers        *)
(* "pushed", and had the workspace to itself, has published its work.      *)
(***************************************************************************)
EXTENDS CommitPush, FiniteSetTheorems, FunctionTheorems, SequenceTheorems, TLAPS

Changes == Nat \cup {Markers}
Histories == Seq(SUBSET Changes)

-----------------------------------------------------------------------------
(* Histories *)

\* What a history has is what some commit of it has.
LEMMA HasIsSome ==
  ASSUME NEW h \in Histories, NEW x
  PROVE  x \in Has(h) <=> \E i \in 1 .. Len(h) : x \in h[i]
<1>1. DOMAIN h = 1 .. Len(h)
  BY DEF Histories
<1> QED BY <1>1 DEF Has, ToSet

LEMMA HasIsTyped == ASSUME NEW h \in Histories PROVE Has(h) \in SUBSET Changes
<1>1. \A i \in 1 .. Len(h) : h[i] \in SUBSET Changes
  BY DEF Histories
<1> QED BY <1>1, HasIsSome

\* A commit adds its changes.
LEMMA CommitAdds ==
  ASSUME NEW h \in Histories, NEW m \in SUBSET Changes
  PROVE  Append(h, m) \in Histories /\ Has(Append(h, m)) = Has(h) \cup m
<1> DEFINE k == Append(h, m)
<1>1. /\ k \in Histories /\ Len(h) \in Nat /\ Len(k) = Len(h) + 1 /\ k[Len(h) + 1] = m
      /\ \A i \in 1 .. Len(h) : k[i] = h[i]
  BY DEF Histories
<1> HIDE DEF k
<1>2. \A x : x \in Has(k) <=> \E i \in 1 .. Len(h) + 1 : x \in k[i]
  BY <1>1, HasIsSome
<1>3. \A x : x \in Has(h) <=> \E i \in 1 .. Len(h) : x \in h[i]
  BY HasIsSome
<1>4. \A i : i \in 1 .. Len(h) + 1 <=> i \in 1 .. Len(h) \/ i = Len(h) + 1
  BY <1>1
<1>5. \A x : x \in Has(k) <=> x \in Has(h) \cup m
  BY <1>1, <1>2, <1>3, <1>4
<1> QED BY <1>1, <1>5 DEF k

\* One history on top of another has the changes of both.
LEMMA OnTopAdds ==
  ASSUME NEW h \in Histories, NEW g \in Histories
  PROVE  h \o g \in Histories /\ Has(h \o g) = Has(h) \cup Has(g)
<1> DEFINE k == h \o g
<1>1. /\ k \in Histories /\ Len(h) \in Nat /\ Len(g) \in Nat /\ Len(k) = Len(h) + Len(g)
      /\ \A i \in 1 .. Len(h) : k[i] = h[i]
      /\ \A i \in 1 .. Len(g) : k[Len(h) + i] = g[i]
  BY DEF Histories
<1> HIDE DEF k
<1>2. \A x : x \in Has(k) <=> \E i \in 1 .. Len(h) + Len(g) : x \in k[i]
  BY <1>1, HasIsSome
<1>3. \A x : x \in Has(h) <=> \E i \in 1 .. Len(h) : x \in h[i]
  BY HasIsSome
<1>4. \A x : x \in Has(g) <=> \E i \in 1 .. Len(g) : x \in g[i]
  BY HasIsSome
<1>5. ASSUME NEW x \in Has(k) PROVE x \in Has(h) \cup Has(g)
  <2>1. PICK i \in 1 .. Len(h) + Len(g) : x \in k[i]
    BY <1>2, <1>5
  <2>2. CASE i <= Len(h)
    BY <1>1, <1>3, <2>1, <2>2
  <2>3. CASE ~ (i <= Len(h))
    <3>1. i - Len(h) \in 1 .. Len(g) /\ Len(h) + (i - Len(h)) = i
      BY <1>1, <2>3
    <3> QED BY <1>1, <1>4, <2>1, <3>1
  <2> QED BY <2>2, <2>3
<1>6. ASSUME NEW x \in Has(h) PROVE x \in Has(k)
  <2>1. PICK i \in 1 .. Len(h) : x \in h[i]
    BY <1>3, <1>6
  <2>2. i \in 1 .. Len(h) + Len(g) /\ k[i] = h[i]
    BY <1>1
  <2> QED BY <1>2, <2>1, <2>2
<1>7. ASSUME NEW x \in Has(g) PROVE x \in Has(k)
  <2>1. PICK i \in 1 .. Len(g) : x \in g[i]
    BY <1>4, <1>7
  <2>2. Len(h) + i \in 1 .. Len(h) + Len(g) /\ k[Len(h) + i] = g[i]
    BY <1>1
  <2> QED BY <1>2, <2>1, <2>2
<1> QED BY <1>1, <1>5, <1>6, <1>7 DEF k

\* A push that git accepts loses nothing of the remote.
LEMMA PrefixHasLess ==
  ASSUME NEW h \in Histories, NEW k \in Histories, IsPrefix(h, k)
  PROVE  Has(h) \subseteq Has(k)
<1>1. /\ Len(h) \in Nat /\ Len(k) \in Nat /\ Len(h) <= Len(k)
      /\ SubSeq(h, 1, Len(h)) = SubSeq(k, 1, Len(h))
  BY DEF IsPrefix, Histories
<1>2. ASSUME NEW i \in 1 .. Len(h) PROVE h[i] = k[i] /\ i \in 1 .. Len(k)
  <2>1. SubSeq(h, 1, Len(h))[i] = h[i] /\ SubSeq(k, 1, Len(h))[i] = k[i]
    BY <1>1 DEF Histories
  <2> QED BY <1>1, <2>1
<1> QED BY <1>2, HasIsSome

-----------------------------------------------------------------------------
(* What a rebase takes along *)

\* Mine holds what it is said to hold: the positions that Nth picks are all of
\* those whose commits the remote has not.
LEMMA MineIsAllThatIsLeft ==
  ASSUME head \in Histories, remote \in Histories
  PROVE  Mine \in Histories /\ ToSet(Mine) = ToSet(head) \ ToSet(remote)
<1> DEFINE left == {i \in DOMAIN head : head[i] \notin ToSet(remote)}
           Below(i) == {j \in left : j < i}
           n == Cardinality(left)
           Nth(k) == CHOOSE i \in left : Cardinality(Below(i)) = k - 1
           rank == [i \in left |-> Cardinality(Below(i)) + 1]
<1>1. DOMAIN head = 1 .. Len(head) /\ Len(head) \in Nat
  BY DEF Histories
<1>2. IsFiniteSet(left) /\ n \in Nat /\ left \subseteq Nat
  <2>1. IsFiniteSet(1 .. Len(head))
    BY <1>1, FS_Interval
  <2>2. left \in SUBSET (1 .. Len(head))
    BY <1>1
  <2>3. left \subseteq Nat
    BY <1>1
  <2> HIDE DEF left
  <2>4. IsFiniteSet(left)
    BY <2>1, <2>2, FS_Subset
  <2> QED BY <2>3, <2>4, FS_CardinalityType
<1>3. Mine = [k \in 1 .. n |-> head[Nth(k)]]
  BY DEF Mine
<1>4. head \in [left -> SUBSET Changes] \/ \A i \in left : head[i] \in SUBSET Changes
  BY <1>1 DEF Histories
<1>5. ToSet(head) \ ToSet(remote) = {head[i] : i \in left}
  BY DEF ToSet
<1> HIDE DEF left
<1>6. \A i \in left : IsFiniteSet(Below(i)) /\ Cardinality(Below(i)) \in Nat
  BY <1>2, FS_Subset, FS_CardinalityType
<1>7. ASSUME NEW i \in left, NEW j \in left, i < j
      PROVE  Cardinality(Below(i)) < Cardinality(Below(j))
  <2>1. Below(i) \cup {i} \in SUBSET Below(j) /\ i \notin Below(i)
    <3>1. i \in Nat /\ j \in Nat /\ \A m \in left : m \in Nat
      BY <1>2
    <3>2. i \notin Below(i) /\ i \in Below(j)
      BY <1>7, <3>1
    <3>3. ASSUME NEW m \in Below(i) PROVE m \in Below(j)
      <4>1. m \in left /\ m < i
        OBVIOUS
      <4>2. m < j
        BY <1>7, <3>1, <4>1
      <4> QED BY <4>1, <4>2
    <3> HIDE DEF Below
    <3> QED BY <3>2, <3>3
  <2>2. Cardinality(Below(i) \cup {i}) = Cardinality(Below(i)) + 1
    BY <1>6, <2>1, FS_AddElement
  <2>3. Cardinality(Below(i) \cup {i}) <= Cardinality(Below(j))
    BY <1>6, <2>1, FS_Subset
  <2> HIDE DEF Below
  <2>4. Cardinality(Below(i)) \in Nat /\ Cardinality(Below(j)) \in Nat
    BY <1>6
  <2> QED BY <2>2, <2>3, <2>4
<1>8. ASSUME NEW i \in left PROVE Cardinality(Below(i)) + 1 \in 1 .. n
  <2>1. Below(i) \cup {i} \in SUBSET left /\ i \notin Below(i)
    BY <1>2
  <2>2. Cardinality(Below(i) \cup {i}) = Cardinality(Below(i)) + 1
    BY <1>6, <2>1, FS_AddElement
  <2>3. Cardinality(Below(i) \cup {i}) <= n
    BY <1>2, <2>1, FS_Subset
  <2> QED BY <1>2, <1>6, <2>2, <2>3
<1> HIDE DEF Below
<1>9. rank \in Injection(left, 1 .. n)
  <2>1. rank \in [left -> 1 .. n]
    BY <1>8
  <2>2. ASSUME NEW i \in left, NEW j \in left, rank[i] = rank[j] PROVE i = j
    <3>1. Cardinality(Below(i)) = Cardinality(Below(j))
      BY <1>6, <2>2
    <3>2. ~ (i < j) /\ ~ (j < i)
      BY <1>6, <1>7, <3>1
    <3> QED BY <1>2, <3>2
  <2> HIDE DEF rank
  <2> QED BY <2>1, <2>2 DEF Injection, IsInjective
<1>10. rank \in Surjection(left, 1 .. n)
  <2>1. IsFiniteSet(1 .. n) /\ Cardinality(1 .. n) = n
    BY <1>2, FS_Interval
  <2> HIDE DEF rank
  <2> QED BY <1>2, <1>9, <2>1, FS_Injection
<1>11. ASSUME NEW k \in 1 .. n PROVE Nth(k) \in left /\ rank[Nth(k)] = k
  <2>1. \E i \in left : rank[i] = k
    <3> HIDE DEF rank
    <3> QED BY <1>10 DEF Surjection
  <2>2. \E i \in left : Cardinality(Below(i)) = k - 1
    BY <1>6, <2>1
  <2>3. Nth(k) \in left /\ Cardinality(Below(Nth(k))) = k - 1
    BY <2>2
  <2> QED BY <2>3
<1>12. ASSUME NEW i \in left PROVE rank[i] \in 1 .. n /\ Nth(rank[i]) = i
  <2>1. rank[i] \in 1 .. n
    BY <1>8
  <2>2. Nth(rank[i]) \in left /\ rank[Nth(rank[i])] = rank[i]
    BY <1>11, <2>1
  <2> HIDE DEF rank, Nth
  <2> QED BY <1>9, <2>1, <2>2 DEF Injection, IsInjective
<1> HIDE DEF rank, Nth
<1>13. Mine \in Histories
  <2>1. \A k \in 1 .. n : head[Nth(k)] \in SUBSET Changes
    BY <1>4, <1>11
  <2> HIDE DEF n
  <2> QED BY <1>2, <1>3, <2>1 DEF Histories
<1>14. ToSet(Mine) = {head[Nth(k)] : k \in 1 .. n}
  BY <1>3 DEF ToSet
<1> QED BY <1>5, <1>11, <1>12, <1>13, <1>14

\* So a rebased history has what the remote has and what HEAD had.
LEMMA RebaseKeepsBoth ==
  ASSUME head \in Histories, remote \in Histories
  PROVE  /\ remote \o Mine \in Histories
         /\ Has(remote \o Mine) = Has(remote) \cup Has(head)
<1>1. Mine \in Histories /\ ToSet(Mine) = ToSet(head) \ ToSet(remote)
  BY MineIsAllThatIsLeft
<1>2. Has(remote) \cup Has(Mine) = Has(remote) \cup Has(head)
  BY <1>1 DEF Has
<1> QED BY <1>1, <1>2, OnTopAdds

-----------------------------------------------------------------------------
(* The inductive invariant *)

Types ==
  /\ dirty \in SUBSET Changes /\ staged \in SUBSET Changes
  /\ head \in Histories /\ saved \in Histories \cup {NotRebasing}
  /\ remote \in Histories
  /\ made \in Nat
  /\ pc \in [Calls -> {"idle", "add", "status", "commit", "rev-parse", "push", "pull",
                       "push again", "abort"}]
  /\ ended \in [Calls -> BOOLEAN]
  /\ sha \in [Calls -> Histories]
  /\ answer \in [Calls -> {"none", "pushed", "error"}]
  /\ work \in [Calls -> SUBSET Changes]
  /\ alone \in [Calls -> BOOLEAN]

\* There is no answer before the end, and alone is what it says.
CallsAreInOrder ==
  \A c \in Calls :
    pc[c] # "idle" => /\ answer[c] = "none"
                      /\ alone[c] => \A d \in Calls \ {c} : pc[d] = "idle"

\* Where the work that a call found is while it goes on: what may still be in the
\* tree is in the index once it was added, and in HEAD once it was committed.
WorkIsInHand ==
  \A c \in Calls : alone[c] =>
    /\ pc[c] = "add" => work[c] \subseteq dirty \cup staged \cup Has(head)
    /\ pc[c] \in {"status", "commit"} => work[c] \subseteq staged \cup Has(head)
    /\ pc[c] \in {"add", "status", "commit", "rev-parse"} => sha[c] = <<>>
    /\ pc[c] \in {"rev-parse", "push", "pull", "push again"} =>
         work[c] \cup Has(sha[c]) \subseteq Has(head)

IInv == Types /\ CallsAreInOrder /\ WorkIsInHand /\ PushedIsPublished

-----------------------------------------------------------------------------
LEMMA NothingIsEmpty == <<>> \in Histories /\ Has(<<>>) = {}
<1>1. <<>> \in Histories /\ Len(<<>>) = 0
  BY DEF Histories
<1>2. \A x : x \notin Has(<<>>)
  BY <1>1, HasIsSome
<1> QED BY <1>1, <1>2

\* The change that is made next is one.
LEMMA NextIsChange == ASSUME Types PROVE {made + 1} \in SUBSET Changes /\ made + 1 \in Nat
<1>1. made \in Nat
  BY DEF Types
<1>2. made + 1 \in Nat
  BY <1>1
<1> QED BY <1>2 DEF Changes

LEMMA InitKeeps == Init => IInv
  BY NothingIsEmpty DEF Init, IInv, Types, CallsAreInOrder, WorkIsInHand, PushedIsPublished, Changes

\* Every step keeps the types.
LEMMA TypesStay == Types /\ [Next]_vars => Types'
<1> SUFFICES ASSUME Types, [Next]_vars PROVE Types'
  OBVIOUS
<1> USE DEF treeVars, callVars
<1>1. CASE UNCHANGED vars
  BY <1>1 DEF vars, Types
<1>2. CASE Edits
  BY <1>2, NextIsChange DEF Edits, Types
<1>3. CASE OthersPush
  <2>1. {made + 1} \in SUBSET Changes /\ made + 1 \in Nat
    BY NextIsChange
  <2>2. remote' \in Histories
    BY <1>3, <2>1, CommitAdds DEF OthersPush, Types
  <2> QED BY <1>3, <2>1, <2>2 DEF OthersPush, Types
<1>4. ASSUME NEW c \in Calls, ContextEnds(c) PROVE Types'
  BY <1>4 DEF ContextEnds, Types
<1>5. ASSUME NEW c \in Calls, Starts(c) PROVE Types'
  <2>1. work' \in [Calls -> SUBSET Changes] /\ sha' \in [Calls -> Histories]
    BY <1>5, HasIsTyped, NothingIsEmpty DEF Starts, Types
  <2>2. alone' \in [Calls -> BOOLEAN]
    BY <1>5 DEF Starts, Types
  <2> QED BY <1>5, <2>1, <2>2 DEF Starts, Types
<1>6. ASSUME NEW c \in Calls, CommandFails(c) \/ Adds(c) \/ LooksAtStatus(c) \/ PullFails(c)
      PROVE  Types'
  BY <1>6 DEF CommandFails, Adds, LooksAtStatus, PullFails, Goes, Answers, Types
<1>7. ASSUME NEW c \in Calls, Commits(c) PROVE Types'
  <2>1. head' \in Histories
    BY <1>7, CommitAdds DEF Commits, Types
  <2> QED BY <1>7, <2>1 DEF Commits, Goes, Answers, Types
<1>8. ASSUME NEW c \in Calls, NEW works \in BOOLEAN, RevParses(c, works) PROVE Types'
  <2>1. sha' \in [Calls -> Histories]
    BY <1>8 DEF RevParses, Types
  <2> QED BY <1>8, <2>1 DEF RevParses, Types
<1>9. ASSUME NEW c \in Calls, Pushes(c) \/ AnswerIsLost(c) \/ PushesAgain(c) PROVE Types'
  BY <1>9 DEF Pushes, AnswerIsLost, PushesAgain, Goes, Answers, Types
<1>10. ASSUME NEW c \in Calls, Rebases(c) \/ PullIsKilled(c) PROVE Types'
  <2>1. head' \in Histories
    BY <1>10, RebaseKeepsBoth DEF Rebases, PullIsKilled, Types
  <2> QED BY <1>10, <2>1 DEF Rebases, PullIsKilled, Goes, Types
<1>11. ASSUME NEW c \in Calls, NEW n \in DOMAIN Mine, Conflicts(c, n) PROVE Types'
  <2>1. Mine \in Histories
    BY MineIsAllThatIsLeft DEF Types
  <2>2. n \in 1 .. Len(Mine) /\ Len(Mine) \in Nat
    BY <2>1 DEF Histories
  <2>3. Mine[n] \in SUBSET Changes /\ SubSeq(Mine, 1, n - 1) \in Histories
    BY <2>1, <2>2 DEF Histories
  <2>4. head' \in Histories
    BY <1>11, <2>3, OnTopAdds DEF Conflicts, Types
  <2>5. dirty' \in SUBSET Changes
    BY <1>11, <2>3 DEF Conflicts, Changes
  <2> QED BY <1>11, <2>4, <2>5 DEF Conflicts, Goes, Types
<1>12. ASSUME NEW c \in Calls, Aborts(c) PROVE Types'
  BY <1>12 DEF Aborts, Answers, Types
<1> QED BY <1>1, <1>2, <1>3, <1>4, <1>5, <1>6, <1>7, <1>8, <1>9, <1>10, <1>11, <1>12
        DEF Next, Call

\* A push takes nothing from the remote.
LEMMA RemoteGrows == Types /\ [Next]_vars => Has(remote) \subseteq Has(remote')
<1> SUFFICES ASSUME Types, [Next]_vars PROVE Has(remote) \subseteq Has(remote')
  OBVIOUS
<1>1. CASE remote' = remote
  BY <1>1
<1>2. CASE remote' = head /\ FastForward
  BY <1>2, PrefixHasLess DEF FastForward, Types
<1>3. CASE OthersPush
  BY <1>3, NextIsChange, CommitAdds DEF OthersPush, Types
<1>4. ASSUME NEW c \in Calls, Call(c) PROVE remote' = remote \/ (remote' = head /\ FastForward)
  BY <1>4 DEF Call, Starts, CommandFails, Adds, LooksAtStatus, Commits, RevParses, Pushes, AnswerIsLost,
              Rebases, PullFails, PullIsKilled, Conflicts, Aborts, PushesAgain
<1>5. (Edits \/ UNCHANGED vars \/ \E c \in Calls : ContextEnds(c)) => remote' = remote
  BY DEF Edits, ContextEnds, vars
<1> QED BY <1>1, <1>2, <1>3, <1>4, <1>5 DEF Next

\* Nor does anything that happens take from the branch what was committed on it:
\* a rebase puts it on top of the remote, and while one is stopped it is in saved.
LEMMA BranchStays == Types /\ [Next]_vars => Committed \subseteq Committed'
<1> SUFFICES ASSUME Types, [Next]_vars PROVE Committed \subseteq Committed'
  OBVIOUS
<1> DEFINE Branch == IF saved = NotRebasing THEN head ELSE saved
<1>1. Has(remote) \subseteq Has(remote')
  BY RemoteGrows
<1> SUFFICES Has(Branch) \subseteq Has(remote') \cup Has(Branch')
  BY <1>1 DEF Committed
<1>2. CASE UNCHANGED <<head, saved>>
  BY <1>2
<1>3. ASSUME NEW c \in Calls, Commits(c) PROVE Has(Branch) \subseteq Has(Branch')
  <2>1. Has(head) \subseteq Has(head') /\ saved' = saved
    BY <1>3, CommitAdds DEF Commits, Types
  <2> QED BY <2>1
<1>4. ASSUME NEW c \in Calls, Rebases(c) \/ PullIsKilled(c) PROVE Has(Branch) \subseteq Has(Branch')
  <2>1. Branch = head /\ Branch' = remote \o Mine
    BY <1>4 DEF Rebases, PullIsKilled, CanRebase
  <2>2. Has(remote \o Mine) = Has(remote) \cup Has(head)
    BY RebaseKeepsBoth DEF Types
  <2> HIDE DEF Branch
  <2> QED BY <2>1, <2>2
<1>5. ASSUME NEW c \in Calls, NEW n \in DOMAIN Mine, Conflicts(c, n)
      PROVE  Has(Branch) \subseteq Has(remote') \cup Has(Branch')
  <2>1. Branch = head /\ saved' = head /\ remote' = remote
    BY <1>5 DEF Conflicts, CanRebase
  <2>2. saved' # NotRebasing
    BY <2>1, NotRebasingIsNoHistory DEF Types, Histories, Changes
  <2> QED BY <2>1, <2>2
<1>6. ASSUME NEW c \in Calls, Aborts(c) PROVE Has(Branch) \subseteq Has(Branch')
  BY <1>6 DEF Aborts, treeVars
<1>7. ASSUME NEW c \in Calls,
             \/ Starts(c) \/ CommandFails(c) \/ Adds(c) \/ LooksAtStatus(c)
             \/ Pushes(c) \/ AnswerIsLost(c) \/ PullFails(c) \/ PushesAgain(c) \/ ContextEnds(c)
             \/ \E works \in BOOLEAN : RevParses(c, works)
      PROVE  UNCHANGED <<head, saved>>
  BY <1>7 DEF Starts, CommandFails, Adds, LooksAtStatus, Pushes, AnswerIsLost, PullFails, PushesAgain,
              ContextEnds, RevParses, treeVars
<1>8. CASE Edits \/ OthersPush \/ UNCHANGED vars
  BY <1>2, <1>8 DEF Edits, OthersPush, vars, treeVars
<1> QED BY <1>2, <1>3, <1>4, <1>5, <1>6, <1>7, <1>8 DEF Next, Call

-----------------------------------------------------------------------------
(* The calls *)

\* Nothing that a call does itself disturbs the others: while one runs that has
\* the workspace to itself, none does; and what was published stays so.
OthersKeep(c) ==
  \A d \in Calls \ {c} :
    /\ pc'[d] = pc[d] /\ answer'[d] = answer[d] /\ work'[d] = work[d] /\ sha'[d] = sha[d]
    /\ alone'[d] => alone[d]

LEMMA OthersAreInHand ==
  ASSUME IInv, [Next]_vars, NEW c \in Calls, pc[c] # "idle", OthersKeep(c),
         NEW d \in Calls \ {c}, alone'[d]
  PROVE  /\ pc'[d] = "idle"
         /\ answer'[d] = "pushed" => work'[d] \cup Has(sha'[d]) \subseteq Has(remote')
<1>1. alone[d] /\ pc[d] = "idle"
  BY DEF IInv, CallsAreInOrder, OthersKeep
<1>2. Has(remote) \subseteq Has(remote')
  BY RemoteGrows DEF IInv
<1>3. answer[d] = "pushed" => work[d] \cup Has(sha[d]) \subseteq Has(remote)
  BY <1>1 DEF IInv, PushedIsPublished
<1> QED BY <1>1, <1>2, <1>3 DEF OthersKeep

\* So a step of a call keeps the invariant if it does so for the call itself.
LEMMA OwnStep ==
  ASSUME IInv, [Next]_vars, NEW c \in Calls, pc[c] # "idle", OthersKeep(c),
         alone'[c] => alone[c],
         pc'[c] # "idle" => answer'[c] = "none",
         alone'[c] =>
           /\ pc'[c] = "add" => work'[c] \subseteq dirty' \cup staged' \cup Has(head')
           /\ pc'[c] \in {"status", "commit"} => work'[c] \subseteq staged' \cup Has(head')
           /\ pc'[c] \in {"add", "status", "commit", "rev-parse"} => sha'[c] = <<>>
           /\ pc'[c] \in {"rev-parse", "push", "pull", "push again"} =>
                work'[c] \cup Has(sha'[c]) \subseteq Has(head')
           /\ answer'[c] = "pushed" => work'[c] \cup Has(sha'[c]) \subseteq Has(remote')
  PROVE  IInv'
<1>1. \A d \in Calls \ {c} : alone'[d] =>
        /\ pc'[d] = "idle"
        /\ answer'[d] = "pushed" => work'[d] \cup Has(sha'[d]) \subseteq Has(remote')
  BY OthersAreInHand
<1>2. Types'
  BY TypesStay DEF IInv
<1>3. ASSUME NEW d \in Calls, pc'[d] # "idle"
      PROVE  answer'[d] = "none" /\ (alone'[d] => \A e \in Calls \ {d} : pc'[e] = "idle")
  <2>1. CASE d = c
    BY <1>3, <2>1 DEF IInv, CallsAreInOrder, OthersKeep
  <2>2. CASE d # c
    BY <1>1, <1>3, <2>2 DEF IInv, CallsAreInOrder, OthersKeep
  <2> QED BY <2>1, <2>2
<1>4. CallsAreInOrder'
  BY <1>3 DEF CallsAreInOrder
<1>5. WorkIsInHand' /\ PushedIsPublished'
  BY <1>1 DEF WorkIsInHand, PushedIsPublished
<1> QED BY <1>2, <1>4, <1>5 DEF IInv

LEMMA StepKeeps == IInv /\ [Next]_vars => IInv'
<1> SUFFICES ASSUME IInv, [Next]_vars PROVE IInv'
  OBVIOUS
<1> USE DEF treeVars, callVars
<1>1. Types /\ Types'
  BY TypesStay DEF IInv
<1>2. Has(remote) \subseteq Has(remote')
  BY <1>1, RemoteGrows
<1>3. CASE UNCHANGED vars
  BY <1>3 DEF vars, IInv, Types, CallsAreInOrder, WorkIsInHand, PushedIsPublished, Has
<1>4. CASE Edits
  BY <1>1, <1>4 DEF Edits, IInv, CallsAreInOrder, WorkIsInHand, PushedIsPublished
<1>5. CASE OthersPush
  BY <1>1, <1>2, <1>5 DEF OthersPush, IInv, CallsAreInOrder, WorkIsInHand, PushedIsPublished
<1>6. ASSUME NEW c \in Calls, ContextEnds(c) PROVE IInv'
  BY <1>1, <1>6 DEF ContextEnds, IInv, CallsAreInOrder, WorkIsInHand, PushedIsPublished
<1>7. ASSUME NEW c \in Calls, Starts(c) PROVE IInv'
  <2>1. /\ pc' = [pc EXCEPT ![c] = "add"] /\ sha' = [sha EXCEPT ![c] = <<>>]
        /\ answer' = [answer EXCEPT ![c] = "none"]
        /\ work' = [work EXCEPT ![c] = dirty \cup staged \cup Has(head)]
        /\ alone'[c] <=> \A e \in Calls \ {c} : pc[e] = "idle"
        /\ \A d \in Calls \ {c} : alone'[d] <=> alone[d] /\ pc[d] = "idle"
        /\ UNCHANGED <<dirty, staged, head, remote>>
    BY <1>7 DEF Starts
  <2>2. /\ pc'[c] = "add" /\ sha'[c] = <<>> /\ answer'[c] = "none"
        /\ work'[c] = dirty \cup staged \cup Has(head)
        /\ \A d \in Calls \ {c} : /\ pc'[d] = pc[d] /\ sha'[d] = sha[d]
                                  /\ answer'[d] = answer[d] /\ work'[d] = work[d]
    <3>1. /\ DOMAIN pc = Calls /\ DOMAIN sha = Calls /\ DOMAIN answer = Calls
          /\ DOMAIN work = Calls
      BY <1>1 DEF Types
    <3> QED BY <2>1, <3>1
  <2>3. CallsAreInOrder'
    BY <2>1, <2>2 DEF IInv, CallsAreInOrder
  <2>4. WorkIsInHand' /\ PushedIsPublished'
    BY <2>1, <2>2 DEF IInv, WorkIsInHand, PushedIsPublished
  <2> QED BY <1>1, <2>3, <2>4 DEF IInv
<1>8. ASSUME NEW c \in Calls, pc[c] # "idle",
             NEW to \in {"add", "status", "commit", "rev-parse", "push", "pull", "push again", "abort"},
             Goes(c, to)
      PROVE  /\ pc'[c] = to /\ OthersKeep(c) /\ answer'[c] = "none"
             /\ UNCHANGED <<alone, sha, work>>
  BY <1>1, <1>8 DEF Goes, OthersKeep, IInv, Types, CallsAreInOrder
<1>9. ASSUME NEW c \in Calls, NEW a \in {"pushed", "error"}, Answers(c, a)
      PROVE  /\ pc'[c] = "idle" /\ answer'[c] = a /\ OthersKeep(c)
             /\ UNCHANGED <<alone, sha, work>>
  BY <1>1, <1>9 DEF Answers, OthersKeep, Types
<1>10. ASSUME NEW c \in Calls, CommandFails(c) \/ Aborts(c) PROVE IInv'
  <2>1. pc[c] # "idle" /\ Answers(c, "error")
    BY <1>10 DEF CommandFails, Aborts
  <2> QED BY <1>9, <2>1, OwnStep
<1>11. ASSUME NEW c \in Calls, Adds(c) PROVE IInv'
  <2>1. pc[c] = "add" /\ Goes(c, "status") /\ staged' = staged \cup dirty /\ head' = head
    BY <1>11 DEF Adds
  <2>2. alone[c] => work[c] \subseteq dirty \cup staged \cup Has(head) /\ sha[c] = <<>>
    BY <2>1 DEF IInv, WorkIsInHand
  <2> QED BY <1>8, <2>1, <2>2, OwnStep
<1>12. ASSUME NEW c \in Calls, LooksAtStatus(c) PROVE IInv'
  <2>1. /\ pc[c] = "status" /\ Goes(c, IF staged \cup dirty = {} THEN "push" ELSE "commit")
        /\ UNCHANGED <<staged, head>>
    BY <1>12 DEF LooksAtStatus
  <2>2. alone[c] => work[c] \subseteq staged \cup Has(head) /\ sha[c] = <<>>
    BY <2>1 DEF IInv, WorkIsInHand
  <2>3. CASE staged \cup dirty = {}
    <3>1. Goes(c, "push") /\ staged = {}
      BY <2>1, <2>3
    <3> QED BY <1>8, <2>1, <2>2, <3>1, OwnStep, NothingIsEmpty
  <2>4. CASE staged \cup dirty # {}
    <3>1. Goes(c, "commit")
      BY <2>1, <2>4
    <3> QED BY <1>8, <2>1, <2>2, <3>1, OwnStep
  <2> QED BY <2>3, <2>4
<1>13. ASSUME NEW c \in Calls, Commits(c) PROVE IInv'
  <2>1. pc[c] = "commit" /\ head' = Append(head, staged)
    BY <1>13 DEF Commits
  <2>2. Has(head') = Has(head) \cup staged
    BY <1>1, <2>1, CommitAdds DEF Types
  <2>3. alone[c] => work[c] \subseteq staged \cup Has(head) /\ sha[c] = <<>>
    BY <2>1 DEF IInv, WorkIsInHand
  <2>4. CASE Goes(c, "rev-parse")
    BY <1>8, <2>1, <2>2, <2>3, <2>4, OwnStep, NothingIsEmpty
  <2>5. CASE Answers(c, "error")
    BY <1>9, <2>1, <2>5, OwnStep
  <2> QED BY <1>13, <2>4, <2>5 DEF Commits
<1>14. ASSUME NEW c \in Calls, NEW works \in BOOLEAN, RevParses(c, works) PROVE IInv'
  <2>1. /\ pc[c] = "rev-parse" /\ pc' = [pc EXCEPT ![c] = "push"]
        /\ sha' = (IF works THEN [sha EXCEPT ![c] = head] ELSE sha)
        /\ UNCHANGED <<head, answer, work, alone>>
    BY <1>14 DEF RevParses
  <2>2. pc'[c] = "push" /\ (sha'[c] = head \/ sha'[c] = sha[c]) /\ OthersKeep(c)
    BY <1>1, <2>1 DEF OthersKeep, Types
  <2>3. answer[c] = "none"
    BY <2>1 DEF IInv, CallsAreInOrder
  <2>4. alone[c] => work[c] \cup Has(sha[c]) \subseteq Has(head)
    BY <2>1 DEF IInv, WorkIsInHand
  <2> QED BY <2>1, <2>2, <2>3, <2>4, OwnStep
<1>15. ASSUME NEW c \in Calls, Pushes(c) \/ AnswerIsLost(c) \/ PushesAgain(c) PROVE IInv'
  <2>1. pc[c] \in {"push", "push again"} /\ head' = head
    BY <1>15 DEF Pushes, AnswerIsLost, PushesAgain
  <2>2. alone[c] => work[c] \cup Has(sha[c]) \subseteq Has(head)
    BY <2>1 DEF IInv, WorkIsInHand
  <2>3. CASE remote' = head /\ Answers(c, "pushed")
    BY <1>9, <2>1, <2>2, <2>3, OwnStep
  <2>4. CASE Answers(c, "error")
    BY <1>9, <2>1, <2>4, OwnStep
  <2>5. CASE Goes(c, "pull")
    BY <1>8, <2>1, <2>2, <2>5, OwnStep
  <2> QED BY <1>15, <2>3, <2>4, <2>5 DEF Pushes, AnswerIsLost, PushesAgain
<1>16. ASSUME NEW c \in Calls, Rebases(c) PROVE IInv'
  <2>1. pc[c] = "pull" /\ Goes(c, "push again") /\ head' = remote \o Mine
    BY <1>16 DEF Rebases
  <2>2. alone[c] => work[c] \cup Has(sha[c]) \subseteq Has(head)
    BY <2>1 DEF IInv, WorkIsInHand
  <2>3. Has(head) \subseteq Has(head')
    BY <1>1, <2>1, RebaseKeepsBoth DEF Types
  <2> QED BY <1>8, <2>1, <2>2, <2>3, OwnStep
<1>17. ASSUME NEW c \in Calls, PullFails(c) \/ \E n \in DOMAIN Mine : Conflicts(c, n) PROVE IInv'
  <2>1. pc[c] = "pull" /\ Goes(c, "abort")
    BY <1>17 DEF PullFails, Conflicts
  <2> QED BY <1>8, <2>1, OwnStep
<1>18. ASSUME NEW c \in Calls, PullIsKilled(c) PROVE IInv'
  <2>1. /\ pc[c] = "pull" /\ pc' = [pc EXCEPT ![c] = "abort"]
        /\ UNCHANGED <<sha, answer, work, alone>>
    BY <1>18 DEF PullIsKilled
  <2>2. pc'[c] = "abort" /\ OthersKeep(c) /\ answer[c] = "none"
    BY <1>1, <2>1 DEF OthersKeep, Types, IInv, CallsAreInOrder
  <2> QED BY <2>1, <2>2, OwnStep
<1> QED BY <1>3, <1>4, <1>5, <1>6, <1>7, <1>10, <1>11, <1>12, <1>13, <1>14, <1>15, <1>16, <1>17, <1>18
        DEF Next, Call

-----------------------------------------------------------------------------
(* What follows *)

\* The inductive invariant: types, and where the work of a call is on its way from
\* the tree to the remote.
THEOREM Invariance == Spec => []IInv
  BY InitKeeps, StepKeeps, PTL DEF Spec

\* What is committed, on the branch or by others, is never lost: not by a rejected
\* push, a rebase, its conflict, a context that ends, or other calls at once.
THEOREM NoCommitIsLost == Spec => CommittedIsKept
<1>1. IInv /\ [Next]_vars => [Committed \subseteq Committed']_vars
  BY BranchStays DEF IInv
<1> QED BY <1>1, Invariance, PTL DEF Spec, CommittedIsKept

\* A call that answers "pushed" and had the workspace to itself has published what
\* it found there and all of the commit it names, whatever had become of others.
THEOREM PushedMeansPublished == Spec => []PushedIsPublished
<1>1. IInv => PushedIsPublished
  BY DEF IInv
<1> QED BY <1>1, Invariance, PTL

=============================================================================
