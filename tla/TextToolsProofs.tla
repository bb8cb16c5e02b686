---------------------------- MODULE TextToolsProofs ----------------------------
(***************************************************************************)
(* Proofs about TextTools, and with it about EditText: for any letters,    *)
(* files and arguments of any length, and the tools used in any order.     *)
(*                                                                         *)
(* What strings.Count and strings.Replace find and make is defined by      *)
(* recursion, here and in FlattenSeq.  The lemmas about them go by         *)
(* SetInduction: the set of the numbers for which a fact holds is Nat.     *)
(* Those about the output that arrives and what is cut from it go by the   *)
(* text, one character more at a time (SeqInduction).                      *)
(***************************************************************************)
EXTENDS TextTools, FiniteSetTheorems, SequenceTheorems, WellFoundedInduction, TLAPS

\* Induction, over a set of numbers instead of a predicate.
LEMMA SetInduction ==
  ASSUME NEW I \in SUBSET Nat, 0 \in I, \A n \in I : n + 1 \in I
  PROVE  I = Nat
<1> SUFFICES ASSUME I # Nat PROVE FALSE
  OBVIOUS
<1> DEFINE B == {0 .. k : k \in Nat \ I}
<1>1. B # {}
  OBVIOUS
<1>2. B \subseteq FiniteSubsetsOf(Nat)
  <2>1. ASSUME NEW k \in Nat PROVE IsFiniteSet(0 .. k) /\ 0 .. k \in SUBSET Nat
    BY FS_Interval
  <2> QED BY <2>1 DEF FiniteSubsetsOf
<1>3. IsWellFoundedOn(StrictSubsetOrdering(Nat), FiniteSubsetsOf(Nat))
  BY FS_StrictSubsetOrderingWellFounded
<1>4. \E x \in B : \A y \in B : ~ (<<y, x>> \in StrictSubsetOrdering(Nat))
  BY <1>1, <1>2, <1>3, WFMin
<1>5. PICK k \in Nat \ I : \A j \in Nat \ I : ~ (<<0 .. j, 0 .. k>> \in StrictSubsetOrdering(Nat))
  BY <1>4
<1>6. k # 0 /\ k - 1 \in Nat
  OBVIOUS
<1>7. k - 1 \notin I
  BY <1>6
<1>8. 0 .. (k-1) \subseteq 0 .. k /\ 0 .. (k-1) # 0 .. k /\ 0 .. k \subseteq Nat
  BY <1>6
<1>9. <<0 .. (k-1), 0 .. k>> \in StrictSubsetOrdering(Nat)
  BY <1>8 DEF StrictSubsetOrdering
<1> QED BY <1>5, <1>6, <1>7, <1>9

-----------------------------------------------------------------------------
(* The least and the greatest number of a set *)

\* A finite set of numbers has a greatest.
LEMMA MaxIsGreatest ==
  ASSUME NEW n \in Nat, NEW T \in SUBSET (0 .. n), T # {}
  PROVE  Max(T) \in T /\ \A y \in T : y <= Max(T)
<1> DEFINE I == {m \in Nat : \A R \in SUBSET (0 .. m) : R # {} => \E x \in R : \A y \in R : x >= y}
<1>1. 0 \in I
  <2>1. 0 .. 0 = {0}
    OBVIOUS
  <2>2. ASSUME NEW R \in SUBSET {0}, R # {} PROVE 0 \in R /\ \A y \in R : 0 >= y
    <3>1. PICK x \in R : TRUE
      BY <2>2
    <3>2. \A y \in R : y = 0
      OBVIOUS
    <3> QED BY <3>1, <3>2
  <2> QED BY <2>1, <2>2
<1>2. ASSUME NEW m \in I PROVE m + 1 \in I
  <2> SUFFICES ASSUME NEW R \in SUBSET (0 .. m + 1), R # {}
               PROVE  \E x \in R : \A y \in R : x >= y
    OBVIOUS
  <2>1. CASE m + 1 \in R
    BY <2>1
  <2>2. CASE m + 1 \notin R
    <3>1. R \in SUBSET (0 .. m)
      BY <2>2
    <3> QED BY <3>1
  <2> QED BY <2>1, <2>2
<1>3. I = Nat
  <2> HIDE DEF I
  <2>1. I \in SUBSET Nat
    BY DEF I
  <2> QED BY <2>1, <1>1, <1>2, SetInduction
<1>4. n \in I
  BY <1>3
<1>5. \E x \in T : \A y \in T : x >= y
  BY <1>4
<1>6. Max(T) \in T /\ \A y \in T : Max(T) >= y
  BY <1>5 DEF Max
<1> QED BY <1>6

\* A set of numbers has a least.
LEMMA MinIsLeast ==
  ASSUME NEW T \in SUBSET Nat, T # {}
  PROVE  Min(T) \in T /\ \A y \in T : Min(T) <= y
<1> DEFINE I == {m \in Nat : \A y \in T : m <= y}
<1>1. 0 \in I
  OBVIOUS
<1>2. \E x \in T : \A y \in T : x <= y
  <2> SUFFICES ASSUME \A x \in T : ~ (\A y \in T : x <= y) PROVE FALSE
    OBVIOUS
  <2>1. ASSUME NEW m \in I PROVE m + 1 \in I
    <3>1. m \notin T
      BY <2>1
    <3> QED BY <2>1, <3>1
  <2>2. I = Nat
    <3> HIDE DEF I
    <3>1. I \in SUBSET Nat
      BY DEF I
    <3> QED BY <3>1, <1>1, <2>1, SetInduction
  <2>3. PICK x \in T : TRUE
    OBVIOUS
  <2>4. x + 1 \in I
    BY <2>2, <2>3
  <2> QED BY <2>4, <2>3
<1>3. Min(T) \in T /\ \A y \in T : Min(T) <= y
  BY <1>2 DEF Min
<1> QED BY <1>3

\* The lesser of two numbers.
LEMMA LeastIsLess ==
  ASSUME NEW m \in Nat, NEW n \in Nat
  PROVE  Least(m, n) = IF m <= n THEN m ELSE n
<1>1. {m, n} \in SUBSET Nat /\ {m, n} # {}
  OBVIOUS
<1>2. Min({m, n}) \in {m, n} /\ Min({m, n}) <= m /\ Min({m, n}) <= n
  BY <1>1, MinIsLeast
<1> QED BY <1>2 DEF Least

-----------------------------------------------------------------------------
(* modifiedLines *)

\* The lines counted at the start are the same, and no more are.
LEMMA LeadingIsLongest ==
  ASSUME NEW old, NEW new, Len(old) \in Nat, Len(new) \in Nat
  PROVE  LET lead == Leading(old, new) IN
         /\ lead \in Nat /\ lead <= Len(old) /\ lead <= Len(new)
         /\ SubSeq(old, 1, lead) = SubSeq(new, 1, lead)
         /\ \A n \in Nat : n <= Len(old) /\ n <= Len(new) /\ SubSeq(old, 1, n) = SubSeq(new, 1, n)
                          => n <= lead
<1> DEFINE least == Least(Len(old), Len(new))
           T == {n \in 0 .. least : SubSeq(old, 1, n) = SubSeq(new, 1, n)}
<1>1. least \in Nat /\ least = IF Len(old) <= Len(new) THEN Len(old) ELSE Len(new)
  BY LeastIsLess
<1>2. 0 \in T
  BY <1>1
<1> HIDE DEF least
<1>3. Max(T) \in T /\ \A y \in T : y <= Max(T)
  BY <1>1, <1>2, MaxIsGreatest
<1>4. Leading(old, new) = Max(T)
  BY DEF Leading, least
<1> HIDE DEF T
<1>5. \A n : n \in T <=> n \in 0 .. least /\ SubSeq(old, 1, n) = SubSeq(new, 1, n)
  BY DEF T
<1>6. /\ Max(T) \in Nat /\ Max(T) <= least
      /\ SubSeq(old, 1, Max(T)) = SubSeq(new, 1, Max(T))
  BY <1>1, <1>3, <1>5
<1>7. ASSUME NEW n \in Nat, n <= Len(old), n <= Len(new), SubSeq(old, 1, n) = SubSeq(new, 1, n)
      PROVE  n <= Max(T)
  <2>1. n \in 0 .. least
    BY <1>1, <1>7
  <2> QED BY <2>1, <1>7, <1>3, <1>5
<1> QED BY <1>1, <1>4, <1>6, <1>7

\* So are those counted at the end, of what the start left.
LEMMA TrailingIsLongest ==
  ASSUME NEW old, NEW new, Len(old) \in Nat, Len(new) \in Nat
  PROVE  LET lead == Leading(old, new)
             trail == Trailing(old, new)
         IN  /\ trail \in Nat /\ lead + trail <= Len(old) /\ lead + trail <= Len(new)
             /\ SameAtEnd(old, new, trail)
             /\ \A n \in Nat : lead + n <= Len(old) /\ lead + n <= Len(new) /\ SameAtEnd(old, new, n)
                              => n <= trail
<1> DEFINE lead == Leading(old, new)
           least == Least(Len(old), Len(new))
           T == {n \in 0 .. least - lead : SameAtEnd(old, new, n)}
<1>1. least \in Nat /\ least = IF Len(old) <= Len(new) THEN Len(old) ELSE Len(new)
  BY LeastIsLess
<1>2. lead \in Nat /\ lead <= Len(old) /\ lead <= Len(new)
  BY LeadingIsLongest
<1>3. SameAtEnd(old, new, 0)
  BY DEF SameAtEnd
<1> HIDE DEF least, lead
<1>4. least - lead \in Nat
  BY <1>1, <1>2
<1>5. 0 \in T
  BY <1>3, <1>4
<1>6. Max(T) \in T /\ \A y \in T : y <= Max(T)
  BY <1>4, <1>5, MaxIsGreatest
<1>7. Trailing(old, new) = Max(T)
  BY DEF Trailing, least, lead
<1> HIDE DEF T
<1>8. \A n : n \in T <=> n \in 0 .. least - lead /\ SameAtEnd(old, new, n)
  BY DEF T
<1>9. Max(T) \in Nat /\ Max(T) <= least - lead /\ SameAtEnd(old, new, Max(T))
  BY <1>4, <1>6, <1>8
<1>10. ASSUME NEW n \in Nat, lead + n <= Len(old), lead + n <= Len(new), SameAtEnd(old, new, n)
       PROVE  n <= Max(T)
  <2>1. n \in 0 .. least - lead
    BY <1>1, <1>2, <1>10
  <2> QED BY <2>1, <1>10, <1>6, <1>8
<1> QED BY <1>1, <1>2, <1>7, <1>9, <1>10 DEF lead

\* Kept of RangeIsTheChange.
Keeps(old, new, first, last) ==
  /\ first - 1 <= last /\ first - 1 + Len(old) - last <= Len(new)
  /\ SubSeq(old, 1, first - 1) = SubSeq(new, 1, first - 1)
  /\ SameAtEnd(old, new, Len(old) - last)

\* The range without context keeps what is around it, and no shorter one does.
LEMMA RangeIsLeast ==
  ASSUME NEW old, NEW new, Len(old) \in Nat, Len(new) \in Nat
  PROVE  LET range == ModifiedLines(old, new, 0) IN
         /\ Keeps(old, new, range[1], range[2])
         /\ \A first \in 1 .. Len(old) + 1, last \in 0 .. Len(old) :
              first >= range[1] /\ last <= range[2] /\ Keeps(old, new, first, last)
                => <<first, last>> = range
<1> DEFINE lead == Leading(old, new)
           trail == Trailing(old, new)
           m == Len(old)
           n == Len(new)
<1>1. /\ lead \in Nat /\ lead <= m /\ lead <= n /\ SubSeq(old, 1, lead) = SubSeq(new, 1, lead)
      /\ \A k \in Nat : k <= m /\ k <= n /\ SubSeq(old, 1, k) = SubSeq(new, 1, k) => k <= lead
  BY LeadingIsLongest
<1>2. /\ trail \in Nat /\ lead + trail <= m /\ lead + trail <= n /\ SameAtEnd(old, new, trail)
      /\ \A k \in Nat : lead + k <= m /\ lead + k <= n /\ SameAtEnd(old, new, k) => k <= trail
  BY TrailingIsLongest
<1> HIDE DEF lead, trail
<1>3. m \in Nat /\ n \in Nat
  OBVIOUS
<1>4. Max({lead + 1, 1}) = lead + 1
  <2>1. {lead + 1, 1} \in SUBSET (0 .. lead + 1) /\ {lead + 1, 1} # {} /\ lead + 1 \in Nat
    BY <1>1
  <2>2. Max({lead + 1, 1}) \in {lead + 1, 1} /\ lead + 1 <= Max({lead + 1, 1})
    BY <2>1, MaxIsGreatest
  <2> QED BY <2>2, <1>1
<1>5. Least(m - trail, m) = m - trail
  <2>1. m - trail \in Nat /\ m - trail <= m
    BY <1>1, <1>2, <1>3
  <2> QED BY <2>1, <1>3, LeastIsLess
<1>6. ModifiedLines(old, new, 0) = <<lead + 1, m - trail>>
  <2>1. lead + 1 - 0 = lead + 1 /\ m - trail + 0 = m - trail
    BY <1>1, <1>2, <1>3
  <2> QED BY <2>1, <1>4, <1>5 DEF ModifiedLines, lead, trail
<1>7. Keeps(old, new, lead + 1, m - trail)
  <2>1. lead + 1 - 1 = lead /\ m - (m - trail) = trail
    BY <1>1, <1>2, <1>3
  <2>2. lead + 1 - 1 <= m - trail /\ lead + 1 - 1 + m - (m - trail) <= n
    BY <1>1, <1>2, <1>3
  <2> QED BY <1>1, <1>2, <2>1, <2>2 DEF Keeps
<1>8. ASSUME NEW first \in 1 .. m + 1, NEW last \in 0 .. m,
             first >= lead + 1, last <= m - trail, Keeps(old, new, first, last)
      PROVE  first = lead + 1 /\ last = m - trail
  <2> DEFINE a == first - 1
             b == m - last
  <2>1. a \in Nat /\ b \in Nat /\ a <= m /\ a <= n /\ a >= lead /\ b >= trail
        /\ a + b <= m /\ a + b <= n
    BY <1>1, <1>2, <1>3, <1>8 DEF Keeps
  <2>2. SubSeq(old, 1, a) = SubSeq(new, 1, a) /\ SameAtEnd(old, new, b)
    BY <1>8 DEF Keeps
  <2>3. a <= lead
    BY <1>1, <2>1, <2>2
  <2>4. lead + b <= m /\ lead + b <= n
    BY <1>1, <1>3, <2>1
  <2>5. b <= trail
    BY <1>2, <2>1, <2>2, <2>4
  <2> QED BY <1>1, <1>2, <1>3, <2>1, <2>3, <2>5
<1> QED BY <1>6, <1>7, <1>8

-----------------------------------------------------------------------------
(* Sequences of sequences *)

Chars == Letters \cup {Newline}

\* What the first i sequences make, if f[j] is what each fewer j of them make.
Flat(seqs, f) == [i \in 1 .. Len(seqs) |-> IF i = 1 THEN seqs[i] ELSE f[i - 1] \o seqs[i]]

\* There is such a function, so FlattenSeq chooses one.
LEMMA FlatExists ==
  ASSUME NEW seqs, Len(seqs) \in Nat PROVE \E f : f = Flat(seqs, f)
<1> DEFINE Right(f, n) == \A i \in 1 .. Len(seqs) : i <= n => f[i] = Flat(seqs, f)[i]
           I == {n \in Nat : \E f : Right(f, n)}
<1>1. 0 \in I
  <2>1. Right(<<>>, 0)
    OBVIOUS
  <2> QED BY <2>1
<1>2. ASSUME NEW n \in I PROVE n + 1 \in I
  <2>1. PICK f : Right(f, n)
    BY <1>2
  <2> DEFINE g == Flat(seqs, f)
  <2>2. ASSUME NEW i \in 1 .. Len(seqs), i <= n + 1 PROVE g[i] = Flat(seqs, g)[i]
    <3>1. CASE i = 1
      BY <3>1 DEF Flat
    <3>2. CASE i # 1
      <4>1. i - 1 \in 1 .. Len(seqs) /\ i - 1 <= n
        BY <3>2, <2>2
      <4>2. f[i - 1] = g[i - 1]
        BY <4>1, <2>1
      <4> QED BY <3>2, <4>2 DEF Flat
    <3> QED BY <3>1, <3>2
  <2>3. Right(g, n + 1)
    BY <2>2
  <2> QED BY <2>3
<1>3. I = Nat
  <2> HIDE DEF I
  <2>1. I \in SUBSET Nat
    BY DEF I
  <2> QED BY <2>1, <1>1, <1>2, SetInduction
<1>4. PICK f : Right(f, Len(seqs))
  BY <1>3
<1> DEFINE g == [i \in 1 .. Len(seqs) |-> f[i]]
<1>5. \A i \in 1 .. Len(seqs) : f[i] = Flat(seqs, f)[i]
  BY <1>4
<1>6. \A i \in 1 .. Len(seqs) : i # 1 => i - 1 \in 1 .. Len(seqs)
  OBVIOUS
<1>7. \A i \in 1 .. Len(seqs) : g[i] = Flat(seqs, g)[i]
  BY <1>5, <1>6 DEF Flat
<1>8. g = Flat(seqs, g)
  BY <1>7 DEF Flat
<1> QED BY <1>8

\* What FlattenSeq makes of a sequence, step by step.
LEMMA FlattenStep ==
  ASSUME NEW seqs, Len(seqs) \in Nat \ {0}
  PROVE  \E f : /\ FlattenSeq(seqs) = f[Len(seqs)]
                /\ f[1] = seqs[1]
                /\ \A i \in 2 .. Len(seqs) : f[i] = f[i - 1] \o seqs[i]
<1> DEFINE f == CHOOSE g : g = Flat(seqs, g)
<1>1. f = Flat(seqs, f)
  BY FlatExists
<1>2. FlattenSeq(seqs) = f[Len(seqs)]
  BY DEF FlattenSeq, Flat
<1> HIDE DEF f
<1>3. f[1] = seqs[1]
  BY <1>1 DEF Flat
<1>4. ASSUME NEW i \in 2 .. Len(seqs) PROVE f[i] = f[i - 1] \o seqs[i]
  <2>1. i \in 1 .. Len(seqs) /\ i # 1
    OBVIOUS
  <2>2. f[i] = Flat(seqs, f)[i]
    BY <1>1
  <2> QED BY <2>1, <2>2 DEF Flat
<1> QED BY <1>2, <1>3, <1>4

\* Characters flattened are characters.
LEMMA FlattenType ==
  ASSUME NEW S, NEW seqs \in Seq(Seq(S)), seqs # <<>>
  PROVE  FlattenSeq(seqs) \in Seq(S)
<1>1. Len(seqs) \in Nat \ {0}
  BY EmptySeq
<1>2. PICK f : /\ FlattenSeq(seqs) = f[Len(seqs)]
               /\ f[1] = seqs[1]
               /\ \A i \in 2 .. Len(seqs) : f[i] = f[i - 1] \o seqs[i]
  BY <1>1, FlattenStep
<1>3. \A i \in 1 .. Len(seqs) : seqs[i] \in Seq(S)
  OBVIOUS
<1> DEFINE I == {n \in Nat : n + 1 <= Len(seqs) => f[n + 1] \in Seq(S)}
<1>4. 0 \in I
  BY <1>1, <1>2, <1>3
<1>5. ASSUME NEW n \in I PROVE n + 1 \in I
  <2> DEFINE k == n + 2
  <2>1. n \in Nat /\ (n + 1 <= Len(seqs) => f[n + 1] \in Seq(S))
    BY <1>5
  <2>2. k \in Nat /\ k - 1 = n + 1 /\ n + 1 + 1 = k
    BY <2>1
  <2> HIDE DEF I, k
  <2>3. ASSUME k <= Len(seqs) PROVE f[k] \in Seq(S)
    <3>1. k \in 2 .. Len(seqs) /\ k \in 1 .. Len(seqs) /\ n + 1 <= Len(seqs)
      BY <2>1, <2>2, <2>3, <1>1
    <3>2. f[k] = f[k - 1] \o seqs[k]
      BY <1>2, <3>1
    <3>3. f[k - 1] \in Seq(S)
      BY <2>1, <2>2, <3>1
    <3>4. seqs[k] \in Seq(S)
      BY <1>3, <3>1
    <3>5. f[k - 1] \o seqs[k] \in Seq(S)
      BY <3>3, <3>4
    <3> QED BY <3>2, <3>5
  <2> QED BY <2>1, <2>2, <2>3 DEF I
<1>6. I = Nat
  <2> HIDE DEF I
  <2>1. I \in SUBSET Nat
    BY DEF I
  <2> QED BY <2>1, <1>4, <1>5, SetInduction
<1>7. Len(seqs) - 1 \in Nat /\ Len(seqs) - 1 + 1 = Len(seqs)
  BY <1>1
<1>8. f[Len(seqs) - 1 + 1] \in Seq(S)
  <2>1. Len(seqs) - 1 \in I
    BY <1>6, <1>7
  <2> QED BY <2>1, <1>7
<1> QED BY <1>2, <1>7, <1>8

-----------------------------------------------------------------------------
(* Package strings *)

\* What the matches from i on are, if m[j] are those from each later j on.
From(s, p, m) ==
  [i \in 1 .. Len(s) + 1 |->
     IF i > Len(s) THEN {}
     ELSE IF OccursAt(s, p, i) THEN {i} \cup m[i + Len(p)]
     ELSE m[i + 1]]

\* There is such a function, so Matches chooses one.
LEMMA FromExists ==
  ASSUME NEW S, NEW s \in Seq(S), NEW p \in Seq(S), p # <<>>
  PROVE  \E m : m = From(s, p, m)
<1> DEFINE n == Len(s)
           Back(m, k) == \A i \in 1 .. n + 1 : n + 1 - i <= k => m[i] = From(s, p, m)[i]
           I == {k \in Nat : \E m : Back(m, k)}
<1>1. n \in Nat /\ Len(p) \in Nat /\ Len(p) >= 1
  BY EmptySeq, LenProperties
<1>2. 0 \in I
  <2>1. \A i \in 1 .. n + 1 : n + 1 - i <= 0 => i = n + 1
    BY <1>1
  <2>2. n + 1 \in 1 .. n + 1 /\ n + 1 > n
    BY <1>1
  <2> DEFINE m == [i \in 1 .. n + 1 |-> {}]
  <2>3. m[n + 1] = From(s, p, m)[n + 1]
    BY <2>2 DEF From
  <2>4. Back(m, 0)
    BY <2>1, <2>3
  <2> QED BY <2>4
<1>3. ASSUME NEW k \in I PROVE k + 1 \in I
  <2>1. PICK m : Back(m, k)
    BY <1>3
  <2>2. k \in Nat
    BY <1>3
  <2> DEFINE g == From(s, p, m)
  <2>3. ASSUME NEW i \in 1 .. n + 1, n + 1 - i <= k + 1 PROVE g[i] = From(s, p, g)[i]
    <3>1. CASE i > n
      BY <3>1 DEF From
    <3>2. CASE i <= n /\ OccursAt(s, p, i)
      <4>1. i + Len(p) \in 1 .. n + 1 /\ n + 1 - (i + Len(p)) <= k
        BY <1>1, <2>2, <2>3, <3>2 DEF OccursAt
      <4>2. m[i + Len(p)] = g[i + Len(p)]
        BY <4>1, <2>1
      <4> QED BY <1>1, <3>2, <4>2 DEF From
    <3>3. CASE i <= n /\ ~ OccursAt(s, p, i)
      <4>1. i + 1 \in 1 .. n + 1 /\ n + 1 - (i + 1) <= k
        BY <1>1, <2>2, <2>3, <3>3
      <4>2. m[i + 1] = g[i + 1]
        BY <4>1, <2>1
      <4> QED BY <1>1, <3>3, <4>2 DEF From
    <3> QED BY <1>1, <3>1, <3>2, <3>3
  <2>4. Back(g, k + 1)
    BY <2>3
  <2> QED BY <2>2, <2>4
<1>4. I = Nat
  <2> HIDE DEF I
  <2>1. I \in SUBSET Nat
    BY DEF I
  <2> QED BY <2>1, <1>2, <1>3, SetInduction
<1>5. PICK m : Back(m, n + 1)
  BY <1>1, <1>4
<1> DEFINE g == [i \in 1 .. n + 1 |-> m[i]]
<1>6. ASSUME NEW i \in 1 .. n + 1 PROVE g[i] = From(s, p, g)[i]
  <2>1. n + 1 - i <= n + 1
    BY <1>1
  <2>2. m[i] = From(s, p, m)[i]
    BY <1>5, <2>1
  <2>3. CASE i > n
    BY <2>2, <2>3 DEF From
  <2>4. CASE i <= n /\ OccursAt(s, p, i)
    <3>1. i + Len(p) \in 1 .. n + 1
      BY <1>1, <2>4 DEF OccursAt
    <3> QED BY <1>1, <2>2, <2>4, <3>1 DEF From
  <2>5. CASE i <= n /\ ~ OccursAt(s, p, i)
    <3>1. i + 1 \in 1 .. n + 1
      BY <1>1, <2>5
    <3> QED BY <1>1, <2>2, <2>5, <3>1 DEF From
  <2> QED BY <1>1, <2>3, <2>4, <2>5
<1>7. g = From(s, p, g)
  BY <1>6 DEF From
<1> QED BY <1>7

MatchesFrom(s, p) == CHOOSE m : m = From(s, p, m)

\* The matches of a string that is not empty, step by step from the end.
LEMMA MatchesStep ==
  ASSUME NEW S, NEW s \in Seq(S), NEW p \in Seq(S), p # <<>>
  PROVE  /\ Matches(s, p) = MatchesFrom(s, p)[1]
         /\ MatchesFrom(s, p)[Len(s) + 1] = {}
         /\ \A i \in 1 .. Len(s) : OccursAt(s, p, i) =>
              MatchesFrom(s, p)[i] = {i} \cup MatchesFrom(s, p)[i + Len(p)]
         /\ \A i \in 1 .. Len(s) : ~ OccursAt(s, p, i) =>
              MatchesFrom(s, p)[i] = MatchesFrom(s, p)[i + 1]
<1> DEFINE m == MatchesFrom(s, p)
<1>1. m = From(s, p, m)
  BY FromExists DEF MatchesFrom
<1>2. Matches(s, p) = m[1]
  BY DEF Matches, MatchesFrom, From
<1>3. Len(s) \in Nat
  OBVIOUS
<1>4. ASSUME NEW i \in 1 .. Len(s) + 1
      PROVE  m[i] = IF i > Len(s) THEN {}
                    ELSE IF OccursAt(s, p, i) THEN {i} \cup m[i + Len(p)] ELSE m[i + 1]
  <2>1. m[i] = From(s, p, m)[i]
    BY <1>1
  <2> QED BY <2>1 DEF From
<1>5. m[Len(s) + 1] = {}
  <2>1. Len(s) + 1 \in 1 .. Len(s) + 1 /\ Len(s) + 1 > Len(s)
    BY <1>3
  <2> QED BY <1>4, <2>1
<1>6. \A i \in 1 .. Len(s) : i \in 1 .. Len(s) + 1 /\ ~ (i > Len(s))
  BY <1>3
<1>7. \A i \in 1 .. Len(s) : OccursAt(s, p, i) => m[i] = {i} \cup m[i + Len(p)]
  BY <1>4, <1>6
<1>8. \A i \in 1 .. Len(s) : ~ OccursAt(s, p, i) => m[i] = m[i + 1]
  BY <1>4, <1>6
<1> QED BY <1>2, <1>5, <1>7, <1>8

\* Every match is an occurrence, and every occurrence is a match or overlaps
\* one that starts before it.
LEMMA MatchesCover ==
  ASSUME NEW S, NEW s \in Seq(S), NEW p \in Seq(S), p # <<>>
  PROVE  /\ \A i \in Matches(s, p) : i \in 1 .. Len(s) /\ OccursAt(s, p, i)
         /\ \A j \in 1 .. Len(s) : OccursAt(s, p, j) =>
              \E i \in Matches(s, p) : i <= j /\ j < i + Len(p)
<1>1. Len(s) \in Nat /\ Len(p) \in Nat /\ Len(p) >= 1
  BY EmptySeq, LenProperties
<1> DEFINE n == Len(s)
           m == MatchesFrom(s, p)
<1>2. /\ Matches(s, p) = m[1]
      /\ m[n + 1] = {}
      /\ \A i \in 1 .. n : OccursAt(s, p, i) => m[i] = {i} \cup m[i + Len(p)]
      /\ \A i \in 1 .. n : ~ OccursAt(s, p, i) => m[i] = m[i + 1]
  BY MatchesStep
<1> HIDE DEF m
<1> DEFINE Sound(i) == \A k \in m[i] : k \in i .. n /\ OccursAt(s, p, k)
           Covers(i) == \A j \in i .. n : OccursAt(s, p, j) =>
                          \E k \in m[i] : k <= j /\ j < k + Len(p)
           I == {k \in Nat : \A i \in 1 .. n + 1 : n + 1 - i <= k => Sound(i) /\ Covers(i)}
<1>3. 0 \in I
  <2>1. \A i \in 1 .. n + 1 : n + 1 - i <= 0 => i = n + 1
    BY <1>1
  <2>2. Sound(n + 1) /\ Covers(n + 1)
    BY <1>1, <1>2
  <2> QED BY <2>1, <2>2
<1>4. ASSUME NEW k \in I PROVE k + 1 \in I
  <2>1. k \in Nat /\ \A i \in 1 .. n + 1 : n + 1 - i <= k => Sound(i) /\ Covers(i)
    BY <1>4
  <2>2. ASSUME NEW i \in 1 .. n + 1, n + 1 - i <= k + 1 PROVE Sound(i) /\ Covers(i)
    <3>1. CASE i = n + 1
      BY <1>1, <1>2, <3>1
    <3>2. CASE i <= n /\ OccursAt(s, p, i)
      <4> DEFINE l == i + Len(p)
      <4>1. l \in 1 .. n + 1 /\ n + 1 - l <= k /\ i < l
        BY <1>1, <2>1, <2>2, <3>2 DEF OccursAt
      <4>2. Sound(l) /\ Covers(l)
        BY <2>1, <4>1
      <4>3. i \in 1 .. n
        BY <1>1, <3>2
      <4>4. m[i] = {i} \cup m[l]
        BY <1>2, <3>2, <4>3
      <4> HIDE DEF l
      <4>5. Sound(i)
        BY <1>1, <3>2, <4>1, <4>2, <4>3, <4>4
      <4>6. ASSUME NEW j \in i .. n, OccursAt(s, p, j)
            PROVE  \E x \in m[i] : x <= j /\ j < x + Len(p)
        <5>1. CASE j < i + Len(p)
          BY <4>4, <5>1, <4>3
        <5>2. CASE j >= i + Len(p)
          <6>1. j \in l .. n
            BY <5>2, <4>1, <4>3, <1>1 DEF l
          <6>2. PICK x \in m[l] : x <= j /\ j < x + Len(p)
            BY <4>2, <4>6, <6>1
          <6> QED BY <6>2, <4>4
        <5> QED BY <5>1, <5>2, <4>3, <1>1
      <4> QED BY <4>5, <4>6
    <3>3. CASE i <= n /\ ~ OccursAt(s, p, i)
      <4> DEFINE l == i + 1
      <4>1. l \in 1 .. n + 1 /\ n + 1 - l <= k /\ i < l
        BY <1>1, <2>1, <2>2, <3>3
      <4>2. Sound(l) /\ Covers(l)
        BY <2>1, <4>1
      <4>3. i \in 1 .. n
        BY <1>1, <3>3
      <4>4. m[i] = m[l]
        BY <1>2, <3>3, <4>3
      <4>5. \A j \in i .. n : OccursAt(s, p, j) => j \in l .. n
        BY <1>1, <3>3, <4>3
      <4> HIDE DEF l
      <4>6. Sound(i)
        BY <1>1, <4>1, <4>2, <4>3, <4>4
      <4>7. Covers(i)
        BY <4>2, <4>4, <4>5
      <4> QED BY <4>6, <4>7
    <3> QED BY <1>1, <3>1, <3>2, <3>3
  <2> HIDE DEF Sound, Covers
  <2> QED BY <2>1, <2>2
<1>5. I = Nat
  <2> HIDE DEF I
  <2>1. I \in SUBSET Nat
    BY DEF I
  <2> QED BY <2>1, <1>3, <1>4, SetInduction
<1>6. Sound(1) /\ Covers(1)
  <2> HIDE DEF Sound, Covers
  <2>1. n + 1 \in I /\ 1 \in 1 .. n + 1 /\ n + 1 - 1 <= n + 1
    BY <1>1, <1>5
  <2> QED BY <2>1
<1> QED BY <1>2, <1>6

\* If Count finds one, that is the first occurrence, and the others overlap it.
LEMMA OneIsFound ==
  ASSUME NEW S, NEW s \in Seq(S), NEW p \in Seq(S), Count(s, p) = 1
  PROVE  \E m \in 1 .. Len(s) + 1 :
           /\ Matches(s, p) = {m} /\ OccursAt(s, p, m)
           /\ \A i \in 1 .. Len(s) + 1 : OccursAt(s, p, i) =>
                m <= i /\ (i = m \/ i < m + Len(p))
<1> DEFINE n == Len(s)
<1>1. n \in Nat /\ Len(p) \in Nat
  OBVIOUS
<1>2. CASE p = <<>>
  <2>1. Matches(s, p) = 1 .. n + 1
    BY <1>2 DEF Matches
  <2>2. n + 1 = 1
    BY <1>1, <2>1, FS_Interval DEF Count
  <2>3. n = 0 /\ 1 .. n + 1 = {1}
    BY <1>1, <2>2
  <2>4. SubSeq(s, 1, 1 + Len(p) - 1) = p /\ 1 + Len(p) - 1 <= n
    <3>1. Len(p) = 0 /\ 1 + Len(p) - 1 = 0
      BY <1>2, EmptySeq
    <3>2. SubSeq(s, 1, 0) = <<>>
      BY SubSeqEmpty
    <3> QED BY <3>1, <3>2, <1>1, <1>2
  <2>5. OccursAt(s, p, 1)
    BY <2>4 DEF OccursAt
  <2> QED BY <2>1, <2>3, <2>5
<1>3. CASE p # <<>>
  <2>1. Len(p) >= 1
    BY <1>3, EmptySeq
  <2>2. /\ \A i \in Matches(s, p) : i \in 1 .. n /\ OccursAt(s, p, i)
        /\ \A j \in 1 .. n : OccursAt(s, p, j) =>
             \E i \in Matches(s, p) : i <= j /\ j < i + Len(p)
    BY <1>3, MatchesCover
  <2>3. IsFiniteSet(Matches(s, p))
    <3>1. IsFiniteSet(1 .. n) /\ Matches(s, p) \subseteq 1 .. n
      BY <1>1, <2>2, FS_Interval
    <3> QED BY <3>1, FS_Subset
  <2>4. PICK m : Matches(s, p) = {m}
    BY <2>3, FS_Singleton DEF Count
  <2>5. m \in 1 .. n /\ OccursAt(s, p, m)
    BY <2>2, <2>4
  <2>6. ASSUME NEW i \in 1 .. n + 1, OccursAt(s, p, i)
        PROVE  m <= i /\ (i = m \/ i < m + Len(p))
    <3>1. i \in 1 .. n
      BY <1>1, <2>1, <2>6 DEF OccursAt
    <3> QED BY <2>2, <2>4, <2>6, <3>1
  <2>7. m \in 1 .. n + 1
    BY <1>1, <2>5
  <2> QED BY <2>4, <2>5, <2>6, <2>7
<1> QED BY <1>2, <1>3

-----------------------------------------------------------------------------
(* One replacement *)

\* What stands for the characters up to the i-th after p at m gave way to r.
Upto(s, m, p, r, i) ==
  IF i < m THEN SubSeq(s, 1, i)
  ELSE (SubSeq(s, 1, m - 1) \o r)
         \o SubSeq(s, m + Len(p), IF i <= Len(s) THEN i ELSE Len(s))

\* What Replacing writes for the i-th character.
PieceOf(s, m, p, r, i) ==
  (IF i \in {m} THEN r ELSE <<>>)
    \o (IF i <= Len(s) /\ \A k \in {m} : i \notin k .. k + Len(p) - 1 THEN <<s[i]>> ELSE <<>>)

\* Concatenation is associative.
LEMMA ConcatChars == \A x, y, z \in Seq(Chars) : (x \o y) \o z = x \o (y \o z)
BY ConcatAssociative

\* Each character adds what Replacing writes for it.
LEMMA UptoStep ==
  ASSUME NEW s \in Seq(Chars), NEW p \in Seq(Chars), NEW r \in Seq(Chars),
         NEW m \in 1 .. Len(s) + 1, m + Len(p) - 1 <= Len(s),
         NEW i \in 1 .. Len(s) + 1
  PROVE  Upto(s, m, p, r, i) = Upto(s, m, p, r, i - 1) \o PieceOf(s, m, p, r, i)
<1> DEFINE n == Len(s)
           l == Len(p)
           A == SubSeq(s, 1, m - 1)
           Ar == A \o r
           kept == i <= n /\ i \notin m .. m + l - 1
           tail == IF kept THEN <<s[i]>> ELSE <<>>
           e == IF i <= n THEN i ELSE n
           e1 == IF i - 1 <= n THEN i - 1 ELSE n
<1>1. n \in Nat /\ l \in Nat /\ m + l - 1 <= n /\ i >= 1 /\ i <= n + 1 /\ m >= 1 /\ m <= n + 1
      /\ i \in Nat /\ m \in Nat
  OBVIOUS
<1>2. \A k \in 1 .. n : s[k] \in Chars
  OBVIOUS
<1>3. A \in Seq(Chars)
  <2>1. \A k \in 1 .. m - 1 : s[k] \in Chars
    BY <1>1, <1>2
  <2> QED BY <1>1, <2>1, SubSeqProperties
<1>4. Ar \in Seq(Chars)
  <2> HIDE DEF A
  <2> QED BY <1>3
<1>5. PieceOf(s, m, p, r, i) = (IF i = m THEN r ELSE <<>>) \o tail
  BY DEF PieceOf
<1>6. e1 = i - 1
  BY <1>1
<1>7. /\ i < m => Upto(s, m, p, r, i) = SubSeq(s, 1, i)
      /\ ~ (i < m) => Upto(s, m, p, r, i) = Ar \o SubSeq(s, m + l, e)
  BY DEF Upto
<1>8. /\ i - 1 < m => Upto(s, m, p, r, i - 1) = SubSeq(s, 1, i - 1)
      /\ ~ (i - 1 < m) => Upto(s, m, p, r, i - 1) = Ar \o SubSeq(s, m + l, i - 1)
  BY <1>6 DEF Upto
<1>9. kept => s[i] \in Chars
  BY <1>1, <1>2
<1>10. tail \in Seq(Chars)
  BY <1>9
<1> HIDE DEF A, Ar, tail, e
<1>11. CASE i < m
  <2>1. kept
    BY <1>1, <1>11
  <2>2. PieceOf(s, m, p, r, i) = <<s[i]>>
    <3>1. i # m /\ tail = <<s[i]>>
      BY <1>1, <1>11, <2>1 DEF tail
    <3>2. <<s[i]>> \in Seq(Chars)
      BY <2>1, <1>9
    <3> QED BY <1>5, <3>1, <3>2, ConcatEmptySeq
  <2>3. 1 \in 1 .. n /\ i \in 1 .. n
    BY <1>1, <1>11
  <2>4. SubSeq(s, 1, i) = SubSeq(s, 1, i - 1) \o <<s[i]>>
    BY <2>3, SubSeqRecursiveSecond
  <2>5. i - 1 < m
    BY <1>1, <1>11
  <2>6. Upto(s, m, p, r, i) = SubSeq(s, 1, i)
    BY <1>7, <1>11, Zenon
  <2>7. Upto(s, m, p, r, i - 1) = SubSeq(s, 1, i - 1)
    BY <1>8, <2>5, Zenon
  <2> QED BY <2>2, <2>4, <2>6, <2>7, Zenon
<1>12. CASE i = m
  <2>1. Upto(s, m, p, r, i - 1) = A
    BY <1>1, <1>8, <1>12 DEF A
  <2>2. PieceOf(s, m, p, r, i) = r \o tail
    BY <1>5, <1>12
  <2>3. A \o (r \o tail) = Ar \o tail
    <3>1. (A \o r) \o tail = A \o (r \o tail)
      BY ConcatChars, <1>3, <1>10
    <3> QED BY <3>1 DEF Ar
  <2>4. SubSeq(s, m + l, e) = tail
    <3>1. CASE kept
      <4>1. l = 0 /\ i <= n /\ e = i /\ m + l = i
        BY <1>1, <1>12, <3>1 DEF e
      <4>2. SubSeq(s, i, i) = SubSeq(s, i, i - 1) \o <<s[i]>>
        <5>1. i \in 1 .. n /\ i \in i .. n
          BY <1>1, <4>1
        <5> QED BY <5>1, SubSeqRecursiveSecond
      <4>3. SubSeq(s, i, i - 1) = <<>>
        BY <1>1, SubSeqEmpty
      <4>4. <<>> \o <<s[i]>> = <<s[i]>>
        <5>1. <<s[i]>> \in Seq(Chars)
          BY <3>1, <1>9
        <5> QED BY <5>1, ConcatEmptySeq
      <4> QED BY <3>1, <4>1, <4>2, <4>3, <4>4 DEF tail
    <3>2. CASE ~ kept
      <4>1. e < m + l
        BY <1>1, <1>12, <3>2 DEF e
      <4>2. e \in Int /\ m + l \in Int
        BY <1>1 DEF e
      <4>3. SubSeq(s, m + l, e) = <<>>
        BY <4>1, <4>2, SubSeqEmpty
      <4>4. tail = <<>>
        BY <3>2 DEF tail
      <4> QED BY <4>3, <4>4
    <3> QED BY <3>1, <3>2
  <2>5. Upto(s, m, p, r, i) = Ar \o SubSeq(s, m + l, e)
    <3>1. ~ (i < m)
      BY <1>1, <1>12
    <3> QED BY <1>7, <3>1, Zenon
  <2> QED BY <2>1, <2>2, <2>3, <2>4, <2>5
<1>13. CASE i > m
  <2>1. PieceOf(s, m, p, r, i) = tail
    <3>1. i # m
      BY <1>1, <1>13
    <3> QED BY <1>5, <3>1, <1>10, ConcatEmptySeq
  <2>2. Upto(s, m, p, r, i - 1) = Ar \o SubSeq(s, m + l, i - 1)
    <3>1. ~ (i - 1 < m)
      BY <1>1, <1>13
    <3> QED BY <1>8, <3>1, Zenon
  <2>3. Upto(s, m, p, r, i) = Ar \o SubSeq(s, m + l, e)
    <3>1. ~ (i < m)
      BY <1>1, <1>13
    <3> QED BY <1>7, <3>1, Zenon
  <2>4. SubSeq(s, m + l, e) = SubSeq(s, m + l, i - 1) \o tail
    <3>1. CASE kept
      <4>1. m + l \in 1 .. n /\ i \in m + l .. n /\ e = i
        BY <1>1, <1>13, <3>1 DEF e
      <4>2. SubSeq(s, m + l, i) = SubSeq(s, m + l, i - 1) \o <<s[i]>>
        BY <4>1, SubSeqRecursiveSecond
      <4> QED BY <3>1, <4>1, <4>2 DEF tail
    <3>2. CASE ~ kept
      <4>1. SubSeq(s, m + l, e) = SubSeq(s, m + l, i - 1)
        <5>1. CASE i <= n
          <6>1. i <= m + l - 1 /\ e = i
            BY <1>1, <1>13, <3>2, <5>1 DEF e
          <6>2. m + l \in Int /\ i \in Int /\ i - 1 \in Int /\ i < m + l /\ i - 1 < m + l
            BY <1>1, <6>1
          <6>3. SubSeq(s, m + l, i) = <<>> /\ SubSeq(s, m + l, i - 1) = <<>>
            BY <6>2, SubSeqEmpty
          <6> QED BY <6>1, <6>3
        <5>2. CASE i > n
          <6>1. e = i - 1
            BY <1>1, <5>2 DEF e
          <6> QED BY <6>1
        <5>3. i <= n \/ i > n
          BY <1>1
        <5> QED BY <5>1, <5>2, <5>3, Zenon
      <4>2. tail = <<>>
        BY <3>2 DEF tail
      <4>3. SubSeq(s, m + l, i - 1) \in Seq(Chars)
        <5>1. \A k \in m + l .. i - 1 : s[k] \in Chars
          BY <1>1, <1>2
        <5>2. m + l \in Int /\ i - 1 \in Int
          BY <1>1
        <5> QED BY <5>1, <5>2, SubSeqProperties
      <4> QED BY <4>1, <4>2, <4>3, ConcatEmptySeq
    <3> QED BY <3>1, <3>2
  <2>5. SubSeq(s, m + l, i - 1) \in Seq(Chars)
    <3>1. \A k \in m + l .. i - 1 : s[k] \in Chars
      BY <1>1, <1>2
    <3>2. m + l \in Int /\ i - 1 \in Int
      BY <1>1
    <3> QED BY <3>1, <3>2, SubSeqProperties
  <2>6. (Ar \o SubSeq(s, m + l, i - 1)) \o tail = Ar \o (SubSeq(s, m + l, i - 1) \o tail)
    <3> DEFINE B == SubSeq(s, m + l, i - 1)
    <3>1. B \in Seq(Chars)
      BY <2>5
    <3> HIDE DEF B
    <3>2. (Ar \o B) \o tail = Ar \o (B \o tail)
      BY ConcatChars, <1>4, <1>10, <3>1
    <3> QED BY <3>2 DEF B
  <2> QED BY <2>1, <2>2, <2>3, <2>4, <2>6
<1> QED BY <1>1, <1>11, <1>12, <1>13

\* With one match, what is before it and behind it stays.
LEMMA ReplacingOne ==
  ASSUME NEW s \in Seq(Chars), NEW p \in Seq(Chars), NEW r \in Seq(Chars),
         NEW m \in 1 .. Len(s) + 1, m + Len(p) - 1 <= Len(s)
  PROVE  Replacing(s, {m}, p, r)
           = SubSeq(s, 1, m - 1) \o r \o SubSeq(s, m + Len(p), Len(s))
<1> DEFINE n == Len(s)
           pieces == [i \in 1 .. n + 1 |-> PieceOf(s, m, p, r, i)]
           G(i) == Upto(s, m, p, r, i)
<1>1. n \in Nat /\ n + 1 \in Nat \ {0}
  OBVIOUS
<1>2. Replacing(s, {m}, p, r) = FlattenSeq(pieces)
  BY DEF Replacing, PieceOf
<1>3. Len(pieces) = n + 1
  BY <1>1
<1> HIDE DEF pieces
<1>4. PICK f : /\ FlattenSeq(pieces) = f[Len(pieces)]
               /\ f[1] = pieces[1]
               /\ \A i \in 2 .. Len(pieces) : f[i] = f[i - 1] \o pieces[i]
  BY <1>1, <1>3, FlattenStep
<1>5. \A i \in 1 .. n + 1 : pieces[i] = PieceOf(s, m, p, r, i)
  BY DEF pieces
<1>6. \A i \in 1 .. n + 1 : G(i) = G(i - 1) \o PieceOf(s, m, p, r, i)
  BY UptoStep
<1> HIDE DEF G
<1> DEFINE I == {k \in Nat : k + 1 <= n + 1 => f[k + 1] = G(k + 1)}
<1>7. 0 \in I
  <2>1. 1 \in 1 .. n + 1
    BY <1>1
  <2>2. G(1) = G(1 - 1) \o PieceOf(s, m, p, r, 1)
    BY <1>6, <2>1
  <2>3. G(1 - 1) = <<>>
    <3>1. 1 - 1 = 0 /\ 0 < m
      OBVIOUS
    <3>2. SubSeq(s, 1, 0) = <<>>
      BY SubSeqEmpty
    <3> QED BY <3>1, <3>2 DEF G, Upto
  <2>4. <<>> \o PieceOf(s, m, p, r, 1) = PieceOf(s, m, p, r, 1)
    <3>1. s # <<>> => 1 \in 1 .. n /\ s[1] \in Chars
      OBVIOUS
    <3>2. 1 <= n => 1 \in 1 .. n /\ s[1] \in Chars
      BY <1>1
    <3>3. PieceOf(s, m, p, r, 1) \in Seq(Chars)
      <4> DEFINE one == IF 1 \in {m} THEN r ELSE <<>>
                 kept == 1 <= Len(s) /\ \A k \in {m} : 1 \notin k .. k + Len(p) - 1
                 two == IF kept THEN <<s[1]>> ELSE <<>>
      <4>1. one \in Seq(Chars)
        OBVIOUS
      <4>2. kept => <<s[1]>> \in Seq(Chars)
        BY <3>2
      <4>3. two \in Seq(Chars)
        <5> HIDE DEF kept
        <5> QED BY <4>2
      <4>4. PieceOf(s, m, p, r, 1) = one \o two
        BY DEF PieceOf
      <4> HIDE DEF one, two
      <4>5. one \o two \in Seq(Chars)
        BY <4>1, <4>3
      <4> QED BY <4>4, <4>5
    <3> QED BY <3>3, ConcatEmptySeq
  <2>5. f[1] = G(1)
    BY <1>4, <1>5, <2>1, <2>2, <2>3, <2>4
  <2> QED BY <2>5
<1>8. ASSUME NEW k \in I PROVE k + 1 \in I
  <2> DEFINE j == k + 2
  <2>1. k \in Nat /\ (k + 1 <= n + 1 => f[k + 1] = G(k + 1))
    BY <1>8
  <2>2. j \in Nat /\ j - 1 = k + 1 /\ k + 1 + 1 = j
    BY <2>1
  <2> HIDE DEF I, j
  <2>3. ASSUME j <= n + 1 PROVE f[j] = G(j)
    <3>1. j \in 2 .. Len(pieces) /\ j \in 1 .. n + 1 /\ k + 1 <= n + 1
      BY <2>1, <2>2, <2>3, <1>1, <1>3
    <3>2. f[j] = f[j - 1] \o pieces[j]
      BY <1>4, <3>1
    <3>3. f[j - 1] = G(j - 1)
      BY <2>1, <2>2, <3>1
    <3> QED BY <1>5, <1>6, <3>1, <3>2, <3>3
  <2> QED BY <2>1, <2>2, <2>3 DEF I
<1>9. I = Nat
  <2> HIDE DEF I
  <2>1. I \in SUBSET Nat
    BY DEF I
  <2> QED BY <2>1, <1>7, <1>8, SetInduction
<1>10. f[n + 1] = G(n + 1)
  <2>1. n \in I
    BY <1>1, <1>9
  <2> QED BY <2>1, <1>1
<1>11. G(n + 1) = (SubSeq(s, 1, m - 1) \o r) \o SubSeq(s, m + Len(p), n)
  <2>1. ~ (n + 1 < m) /\ ~ (n + 1 <= n)
    BY <1>1
  <2> QED BY <2>1 DEF G, Upto
<1> QED BY <1>2, <1>3, <1>4, <1>10, <1>11

-----------------------------------------------------------------------------
(* The texts stay texts *)

\* What is replaced by a text in a text leaves a text.
LEMMA ReplacingIsText ==
  ASSUME NEW s \in Seq(Chars), NEW found, NEW p, NEW r \in Seq(Chars)
  PROVE  Replacing(s, found, p, r) \in Seq(Chars)
<1> DEFINE Kept(i) == i <= Len(s) /\ \A m \in found : i \notin m .. m + Len(p) - 1
           piece(i) == (IF i \in found THEN r ELSE <<>>) \o (IF Kept(i) THEN <<s[i]>> ELSE <<>>)
           pieces == [i \in 1 .. Len(s) + 1 |-> piece(i)]
<1>1. Replacing(s, found, p, r) = FlattenSeq(pieces)
  BY DEF Replacing
<1>2. ASSUME NEW i \in 1 .. Len(s) + 1 PROVE piece(i) \in Seq(Chars)
  <2> DEFINE one == IF i \in found THEN r ELSE <<>>
             two == IF Kept(i) THEN <<s[i]>> ELSE <<>>
  <2>1. one \in Seq(Chars)
    OBVIOUS
  <2>2. two \in Seq(Chars)
    <3>1. CASE Kept(i)
      <4>1. i \in 1 .. Len(s)
        BY <3>1
      <4>2. s[i] \in Chars
        BY <4>1
      <4> QED BY <4>2, <3>1
    <3>2. CASE ~ Kept(i)
      <4> HIDE DEF Kept
      <4>1. two = <<>>
        BY <3>2
      <4> QED BY <4>1
    <3> QED BY <3>1, <3>2
  <2>3. piece(i) = one \o two
    OBVIOUS
  <2> HIDE DEF one, two, piece
  <2> QED BY <2>1, <2>2, <2>3
<1> HIDE DEF piece
<1>3. Len(s) + 1 \in Nat \ {0}
  OBVIOUS
<1>4. pieces \in Seq(Seq(Chars)) /\ pieces # <<>>
  <2>1. pieces \in [1 .. Len(s) + 1 -> Seq(Chars)]
    BY <1>2
  <2>2. pieces \in Seq(Seq(Chars)) /\ Len(pieces) = Len(s) + 1
    BY <2>1, <1>3, SeqDef
  <2> QED BY <2>2, <1>3
<1> HIDE DEF pieces
<1> QED BY <1>1, <1>4, FlattenType

\* As many numbers in their order as there are.
LEMMA InOrderHasAll ==
  ASSUME NEW T, IsFiniteSet(T)
  PROVE  Len(InOrder(T)) = Cardinality(T) /\ Cardinality(T) \in Nat
<1>1. Cardinality(T) \in Nat
  BY FS_CardinalityType
<1>2. DOMAIN InOrder(T) = 1 .. Cardinality(T)
  BY DEF InOrder
<1> QED BY <1>1, <1>2

\* A text has at least one line, and at most one more than characters.
LEMMA SplitIsFinite ==
  ASSUME NEW s \in Seq(Chars)
  PROVE  /\ Len(Split(s)) \in Nat /\ DOMAIN Split(s) = 1 .. Len(Split(s))
         /\ 1 <= Len(Split(s)) /\ Len(Split(s)) <= Len(s) + 1
<1> DEFINE n == Len(s)
           T == {0, n + 1} \cup {i \in 1 .. n : s[i] = Newline}
           size == Cardinality(T)
<1>1. n \in Nat
  OBVIOUS
<1>2. T \subseteq 0 .. n + 1 /\ {0, n + 1} \subseteq T
  BY <1>1
<1>3. IsFiniteSet(0 .. n + 1) /\ Cardinality(0 .. n + 1) = n + 2
  BY <1>1, FS_Interval
<1>4. Cardinality({0, n + 1}) = 2
  <2>1. IsFiniteSet({0}) /\ Cardinality({0}) = 1
    BY FS_Singleton
  <2>2. n + 1 \notin {0}
    BY <1>1
  <2>3. Cardinality({0} \cup {n + 1}) = Cardinality({0}) + 1
    BY <2>1, <2>2, FS_AddElement
  <2>4. {0} \cup {n + 1} = {0, n + 1}
    OBVIOUS
  <2>5. Cardinality({0}) + 1 = 2
    BY <2>1
  <2> QED BY <2>3, <2>4, <2>5
<1> HIDE DEF T
<1>5. IsFiniteSet(T) /\ size <= n + 2
  BY <1>2, <1>3, FS_Subset
<1>6. 2 <= size
  BY <1>2, <1>4, <1>5, FS_Subset
<1>7. Len(InOrder(T)) = size /\ size \in Nat
  BY <1>5, InOrderHasAll
<1>8. DOMAIN Split(s) = 1 .. Len(InOrder(T)) - 1
  BY DEF Split, T
<1> HIDE DEF size
<1>9. size - 1 \in Nat /\ DOMAIN Split(s) = 1 .. size - 1
  BY <1>6, <1>7, <1>8
<1>10. Len(Split(s)) = size - 1
  BY <1>9
<1> QED BY <1>1, <1>5, <1>6, <1>7, <1>9, <1>10

\* What the properties rest on.
Texted ==
  /\ content \in Seq(Chars) /\ before \in Seq(Chars)
  /\ edit.old \in Seq(Chars) /\ edit.new \in Seq(Chars)

\* The texts that are tried are texts.
LEMMA TextsAreTexts == ASSUME NEW n \in Nat PROVE Texts(n) \subseteq Seq(Chars)
<1>1. Texts(n) = UNION {[1 .. m -> Chars] : m \in 0 .. n}
  BY DEF Texts, BoundedSeq, SeqOf, Chars
<1>2. \A m \in 0 .. n : [1 .. m -> Chars] \subseteq Seq(Chars)
  BY SeqDef
<1> QED BY <1>1, <1>2

\* What a tool begins with are texts.
LEMMA InitTexted == TextInit => Texted
<1> SUFFICES ASSUME TextInit PROVE Texted
  OBVIOUS
<1>1. content \in Texts(MaxText) /\ before = content /\ edit \in Edits
  BY DEF TextInit, Init
<1>2. edit.old \in Texts(MaxString) /\ edit.new \in Texts(MaxString)
  BY <1>1 DEF Edits
<1>3. Texts(MaxText) \subseteq Seq(Chars) /\ Texts(MaxString) \subseteq Seq(Chars)
  BY TextsAreTexts, TextsAreBounded
<1> QED BY <1>1, <1>2, <1>3 DEF Texted

\* What executeEdit makes of a text is one.
LEMMA EditedIsText == Texted => Edited \in Seq(Chars)
  BY ReplacingIsText DEF Texted, Edited, ReplaceEvery, ReplaceFirst

\* A step edits, or leaves all that an edit is about alone.
LEMMA StepEdits == [TextNext]_<<vars, toolVars>> => Next \/ UNCHANGED vars
  BY DEF TextNext, Reads, Filters, Logs, Greps

\* No step makes anything else of them.
LEMMA StepTexted == Texted /\ [TextNext]_<<vars, toolVars>> => Texted'
<1> SUFFICES ASSUME Texted, Next \/ UNCHANGED vars PROVE Texted'
  BY StepEdits
<1>1. CASE Refuses
  BY <1>1 DEF Refuses, Texted
<1>2. CASE ReplacesEach
  BY <1>2, EditedIsText DEF ReplacesEach, Texted
<1>3. CASE ReplacesOne
  BY <1>3, EditedIsText DEF ReplacesOne, Texted
<1>4. CASE UNCHANGED vars
  BY <1>4 DEF vars, Texted
<1> QED BY <1>1, <1>2, <1>3, <1>4 DEF Next

\* The file is a text before and after every edit, and so are the strings.
THEOREM TextsStay == TextSpec => []Texted
  BY InitTexted, StepTexted, PTL DEF TextSpec

\* The range is right whatever the edit did.
LEMMA TextedRange == Texted => RangeIsTheChange
<1> SUFFICES ASSUME Texted PROVE RangeIsTheChange
  OBVIOUS
<1>1. Len(Split(before)) \in Nat /\ Len(Split(content)) \in Nat
  BY SplitIsFinite DEF Texted
<1> QED BY <1>1, RangeIsLeast DEF RangeIsTheChange, Keeps

\* The range that modifiedLines finds is the change: it holds every line that
\* differs, and no shorter one does (executeEdit, modifiedLines).
THEOREM RangeIsRight == TextSpec => []RangeIsTheChange
  BY TextsStay, TextedRange, PTL
-----------------------------------------------------------------------------
(* A single edit *)

\* OneOccurrenceChanges, and that no text changes before there is an answer.
OneInv ==
  /\ Texted
  /\ answer = "none" => content = before
  /\ OneOccurrenceChanges

\* The one match that an edit needs is the first occurrence.
LEMMA OneIsReplaced ==
  ASSUME Texted, content = before, ReplacesOne
  PROVE  OneOccurrenceChanges'
<1> DEFINE s == content
           p == edit.old
           r == edit.new
<1>1. s \in Seq(Chars) /\ p \in Seq(Chars) /\ r \in Seq(Chars)
  BY DEF Texted
<1>2. Count(s, p) = 1 /\ content' = ReplaceFirst(s, p, r) /\ UNCHANGED <<before, edit>>
  BY DEF ReplacesOne, Applies, Finds, Edited
<1>3. PICK m \in 1 .. Len(s) + 1 :
        /\ Matches(s, p) = {m} /\ OccursAt(s, p, m)
        /\ \A i \in 1 .. Len(s) + 1 : OccursAt(s, p, i) =>
             m <= i /\ (i = m \/ i < m + Len(p))
  BY <1>1, <1>2, OneIsFound
<1>4. Len(s) \in Nat /\ Len(p) \in Nat
  BY <1>1
<1>5. Min(Matches(s, p)) = m
  <2>1. {m} \in SUBSET Nat /\ {m} # {}
    BY <1>4
  <2> QED BY <1>3, <2>1, MinIsLeast
<1>6. Min(Places) = m /\ \A i \in Places : i = m \/ i < m + Len(p)
  <2>1. \A i : i \in Places <=> i \in 1 .. Len(s) + 1 /\ OccursAt(s, p, i)
    BY DEF Places
  <2>2. Places \in SUBSET Nat /\ m \in Places
    BY <1>3, <1>4, <2>1
  <2>3. Min(Places) \in Places /\ Min(Places) <= m
    BY <2>2, MinIsLeast
  <2>4. m <= Min(Places)
    BY <1>3, <2>1, <2>3
  <2>5. Min(Places) = m
    <3> DEFINE x == Min(Places)
    <3>1. x \in Nat /\ m \in Nat /\ x <= m /\ m <= x
      BY <1>4, <2>2, <2>3, <2>4
    <3> HIDE DEF x
    <3>2. x = m
      BY <3>1
    <3> QED BY <3>2 DEF x
  <2> QED BY <1>3, <2>1, <2>5
<1>7. Places' = Places
  BY <1>2 DEF Places
<1>8. content' = SubSeq(s, 1, m - 1) \o r \o SubSeq(s, m + Len(p), Len(s))
  <2>1. m + Len(p) - 1 <= Len(s)
    BY <1>3 DEF OccursAt
  <2>2. content' = Replacing(s, {m}, p, r)
    BY <1>2, <1>3, <1>5 DEF ReplaceFirst
  <2> QED BY <1>1, <2>1, <2>2, ReplacingOne
<1>9. Min(Places') = m
  BY <1>6, <1>7
<1>10. \A i \in Places' : i = m \/ i < m + Len(p)
  BY <1>6, <1>7
<1> QED BY <1>2, <1>8, <1>9, <1>10 DEF OneOccurrenceChanges

\* The others that end an edit write all or nothing, and none edits twice.
LEMMA StepOneInv == OneInv /\ [TextNext]_<<vars, toolVars>> => OneInv'
<1> SUFFICES ASSUME OneInv, [TextNext]_<<vars, toolVars>> PROVE OneInv'
  OBVIOUS
<1>1. Texted /\ Texted'
  BY StepTexted DEF OneInv
<1>2. CASE Refuses
  BY <1>1, <1>2 DEF Refuses, OneInv, OneOccurrenceChanges, WrittenOnce, Places
<1>3. CASE ReplacesEach
  BY <1>1, <1>3 DEF ReplacesEach, OneInv, OneOccurrenceChanges, WrittenOnce
<1>4. CASE ReplacesOne
  <2>1. OneOccurrenceChanges'
    BY <1>4, OneIsReplaced DEF OneInv, ReplacesOne
  <2>2. answer' # "none"
    BY <1>4 DEF ReplacesOne
  <2> QED BY <1>1, <2>1, <2>2 DEF OneInv
<1>5. CASE UNCHANGED vars
  BY <1>1, <1>5 DEF vars, OneInv, OneOccurrenceChanges, WrittenOnce, Places
<1> QED BY StepEdits, <1>2, <1>3, <1>4, <1>5 DEF Next

\* A single edit of any text by any strings replaces the first occurrence and
\* nothing else, and leaves none but those that overlap it (applyEditToContent).
THEOREM OneIsRight == TextSpec => []OneOccurrenceChanges
<1>1. TextInit => OneInv
  BY InitTexted DEF TextInit, Init, OneInv, OneOccurrenceChanges, WrittenOnce
<1> QED BY <1>1, StepOneInv, PTL DEF TextSpec, OneInv

-----------------------------------------------------------------------------
(* read *)

\* The numbers of an interval in their order.
LEMMA IntervalInOrder ==
  ASSUME NEW a \in Int, NEW b \in Int, a <= b + 1
  PROVE  InOrder(a .. b) = [k \in 1 .. b - a + 1 |-> a + k - 1]
<1>1. Cardinality(a .. b) = b - a + 1
  BY FS_Interval
<1>2. ASSUME NEW n \in a .. b PROVE Rank(a .. b, n) = n - a
  <2>1. {m \in a .. b : m < n} = a .. n - 1
    OBVIOUS
  <2>2. Cardinality(a .. n - 1) = n - a
    <3>1. n - 1 \in Int /\ (IF a > n - 1 THEN 0 ELSE n - 1 - a + 1) = n - a
      OBVIOUS
    <3>2. Cardinality(a .. n - 1) = IF a > n - 1 THEN 0 ELSE n - 1 - a + 1
      BY <3>1, FS_Interval
    <3> QED BY <3>1, <3>2
  <2> QED BY <2>1, <2>2 DEF Rank
<1>3. ASSUME NEW k \in 1 .. b - a + 1
      PROVE  (CHOOSE n \in a .. b : Rank(a .. b, n) = k - 1) = a + k - 1
  <2> DEFINE x == a + k - 1
  <2>1. x \in a .. b /\ x - a = k - 1
    OBVIOUS
  <2> HIDE DEF x
  <2>2. Rank(a .. b, x) = k - 1
    BY <1>2, <2>1
  <2>3. \A n \in a .. b : Rank(a .. b, n) = k - 1 => n = x
    BY <1>2, <2>1
  <2>4. (CHOOSE n \in a .. b : Rank(a .. b, n) = k - 1) = x
    BY <2>1, <2>2, <2>3
  <2> QED BY <2>4 DEF x
<1> QED BY <1>1, <1>3 DEF InOrder

\* No numbers, in their order.
LEMMA NothingInOrder == InOrder({}) = <<>>
<1>1. 1 .. Cardinality({}) = {}
  BY FS_EmptySet
<1>2. InOrder({}) = [k \in {} |-> CHOOSE n \in {} : Rank({}, n) = k - 1]
  BY <1>1 DEF InOrder
<1> QED BY <1>2

\* No int wraps, and one above the greatest is the least.
LEMMA WrappedIsItself ==
  /\ \A n \in Int : -(MaxInt + 1) <= n /\ n <= MaxInt => Wrapped(n) = n
  /\ Wrapped(MaxInt + 1) = -(MaxInt + 1)
  /\ Wrapped(-(MaxInt + 1) - 1) = MaxInt
<1> DEFINE m == 2 * (MaxInt + 1)
<1>1. MaxInt \in Nat /\ m \in Nat /\ m = MaxInt + MaxInt + 2
  BY TextsHaveFewerLinesThanInts
<1> HIDE DEF m
<1>2. ASSUME NEW x \in Nat, x < m PROVE x % m = x
  BY <1>1, <1>2, SMT
<1>3. m % m = 0
  BY <1>1, SMT
<1>4. (-1) % m = m - 1
  BY <1>1, SMT
<1>5. ASSUME NEW n \in Int, -(MaxInt + 1) <= n, n <= MaxInt PROVE Wrapped(n) = n
  <2> DEFINE x == n + MaxInt + 1
  <2>1. x \in Nat /\ x < m /\ x - (MaxInt + 1) = n
    BY <1>1, <1>5
  <2>2. Wrapped(n) = (x % m) - (MaxInt + 1)
    BY DEF Wrapped, m
  <2> HIDE DEF x
  <2>3. x % m = x
    BY <1>2, <2>1
  <2> QED BY <2>1, <2>2, <2>3
<1>6. Wrapped(MaxInt + 1) = -(MaxInt + 1)
  <2>1. MaxInt + 1 + MaxInt + 1 = m /\ 0 - (MaxInt + 1) = -(MaxInt + 1)
    BY <1>1
  <2>2. (MaxInt + 1 + MaxInt + 1) % m = 0
    BY <1>3, <2>1
  <2> QED BY <2>1, <2>2 DEF Wrapped, m
<1>7. Wrapped(-(MaxInt + 1) - 1) = MaxInt
  <2>1. -(MaxInt + 1) - 1 + MaxInt + 1 = -1 /\ m - 1 - (MaxInt + 1) = MaxInt
    BY <1>1
  <2>2. (-(MaxInt + 1) - 1 + MaxInt + 1) % m = m - 1
    BY <1>4, <2>1
  <2> QED BY <2>1, <2>2 DEF Wrapped, m
<1> QED BY <1>5, <1>6, <1>7

\* The last line of a range that ends within the ints.
LEMMA RangeEnds ==
  ASSUME NEW first \in Nat \ {0}, NEW limit \in Nat \ {0}, first <= MaxInt, limit <= MaxInt,
         first + limit - 1 <= MaxInt
  PROVE  Wrapped(Wrapped(first + limit) - 1) = first + limit - 1
<1>1. MaxInt \in Nat
  BY TextsHaveFewerLinesThanInts
<1>2. CASE first + limit <= MaxInt
  <2>1. Wrapped(first + limit) = first + limit
    BY <1>1, <1>2, WrappedIsItself
  <2>2. Wrapped(first + limit - 1) = first + limit - 1
    <3>1. first + limit - 1 \in Int /\ -(MaxInt + 1) <= first + limit - 1
      BY <1>1
    <3> QED BY <3>1, WrappedIsItself
  <2> QED BY <2>1, <2>2
<1>3. CASE first + limit > MaxInt
  <2>1. first + limit = MaxInt + 1 /\ first + limit - 1 = MaxInt
    BY <1>1, <1>3
  <2>2. Wrapped(first + limit) = -(MaxInt + 1)
    BY <2>1, WrappedIsItself
  <2> QED BY <2>1, <2>2, WrappedIsItself
<1> QED BY <1>1, <1>2, <1>3

\* What an answer to read rests on: the text and the arguments.
Readable ==
  /\ Texted
  /\ tool = "read" => content \in Texts(MaxText) /\ args \in [offset : Ints, limit : Ints]

\* No offset, or a negative one, asks for the first line.
LEMMA FirstIsAsked ==
  ASSUME NEW offset \in Int
  PROVE  Max({offset, 1}) = IF offset > 0 THEN offset ELSE 1
<1> DEFINE x == IF offset > 0 THEN offset ELSE 1
<1>1. x \in {offset, 1} /\ \A y \in {offset, 1} : x >= y
  OBVIOUS
<1>2. \A z \in {offset, 1} : (\A y \in {offset, 1} : z >= y) => z = x
  OBVIOUS
<1> HIDE DEF x
<1>3. Max({offset, 1}) = x
  BY <1>1, <1>2 DEF Max
<1> QED BY <1>3 DEF x

\* The lines asked for are those of the range, if it ends within the ints.
LEMMA RangeIsAsked ==
  ASSUME Readable, tool = "read"
  PROVE  LET lines == Len(Lines)
             range == CalculateLineRange(lines, args.offset, args.limit)
         IN  /\ FirstAsked = range[1] /\ range[1] \in Nat \ {0}
             /\ range[1] > lines => args.offset > 0 /\ AskedFor = {}
             /\ range[1] <= lines /\ FirstAsked + args.limit - 1 <= MaxInt =>
                  range[2] \in Nat /\ range[1] <= range[2] /\ AskedFor = range[1] .. range[2]
<1> DEFINE n == Len(Lines)
           offset == args.offset
           limit == args.limit
           first == IF offset > 0 THEN offset ELSE 1
           range == CalculateLineRange(n, offset, limit)
<1>1. MaxInt \in Nat /\ MaxText \in Nat /\ MaxText < MaxInt /\ DefaultLines \in Nat \ {0}
  BY TextsAreBounded, TextsHaveFewerLinesThanInts, LimitsArePositive
<1>2. offset \in Int /\ limit \in Int /\ offset <= MaxInt /\ limit <= MaxInt
  BY <1>1 DEF Readable, Ints
<1>3. n \in Nat /\ 1 <= n /\ n <= MaxInt /\ DOMAIN Lines = 1 .. n
  <2>1. content \in Seq(Chars) /\ content \in Texts(MaxText)
    BY DEF Readable, Texted
  <2>2. Len(content) \in Nat /\ Len(content) <= MaxText
    <3>1. Texts(MaxText) = UNION {[1 .. m -> Chars] : m \in 0 .. MaxText}
      BY DEF Texts, BoundedSeq, SeqOf, Chars
    <3>2. PICK m \in 0 .. MaxText : content \in [1 .. m -> Chars]
      BY <2>1, <3>1
    <3>3. m \in Nat /\ m <= MaxText
      BY <1>1
    <3>4. Len(content) = m
      BY <2>1, <3>2, <3>3
    <3> QED BY <3>3, <3>4
  <2>3. /\ n \in Nat /\ DOMAIN Lines = 1 .. n /\ 1 <= n /\ n <= Len(content) + 1
    BY <2>1, SplitIsFinite DEF Lines
  <2> HIDE DEF n
  <2> QED BY <1>1, <2>2, <2>3
<1>4. FirstAsked = first
  BY <1>2, FirstIsAsked DEF FirstAsked
<1>5. /\ range[1] = first
      /\ range[2] = IF limit > 0 THEN Least(Wrapped(Wrapped(first + limit) - 1), n)
                    ELSE IF limit = 0 /\ offset = 0 /\ n > DefaultLines THEN DefaultLines ELSE n
  BY DEF CalculateLineRange
<1>6. first \in Nat \ {0} /\ first >= 1 /\ (first > n => offset > 0)
  BY <1>2, <1>3
<1>7. \A k : k \in AskedFor <=>
        /\ k \in 1 .. n /\ k >= first
        /\ limit > 0 => k < first + limit
        /\ offset = 0 /\ limit = 0 => k <= DefaultLines
  BY <1>3, <1>4 DEF AskedFor
<1>8. CASE first > n
  <2>1. AskedFor = {}
    BY <1>3, <1>6, <1>7, <1>8
  <2> QED BY <1>4, <1>5, <1>6, <1>8, <2>1
<1>9. CASE first <= n /\ first + limit - 1 <= MaxInt
  <2> HIDE DEF n, first, limit, offset, range
  <2>1. first <= MaxInt
    BY <1>1, <1>3, <1>6, <1>9
  <2>2. CASE limit > 0
    <3>1. Wrapped(Wrapped(first + limit) - 1) = first + limit - 1
      BY <1>2, <1>6, <1>9, <2>1, <2>2, RangeEnds
    <3>2. first + limit - 1 \in Nat
      BY <1>2, <1>6, <2>2
    <3>3. range[2] = IF first + limit - 1 <= n THEN first + limit - 1 ELSE n
      BY <1>3, <1>5, <2>2, <3>1, <3>2, LeastIsLess
    <3>4. range[2] \in Nat /\ first <= range[2]
      BY <1>2, <1>3, <1>6, <1>9, <2>2, <3>2, <3>3
    <3>5. \A k : k \in AskedFor <=> k \in first .. range[2]
      BY <1>2, <1>3, <1>6, <1>7, <2>2, <3>3, <3>4
    <3>6. AskedFor = first .. range[2]
      BY <3>5
    <3> QED BY <1>4, <1>5, <1>6, <1>9, <3>4, <3>6 DEF n, first, limit, offset, range
  <2>3. CASE ~ (limit > 0)
    <3>1. range[2] = IF limit = 0 /\ offset = 0 /\ n > DefaultLines THEN DefaultLines ELSE n
      BY <1>5, <2>3
    <3>2. range[2] \in Nat /\ first <= range[2]
      BY <1>1, <1>2, <1>3, <1>6, <1>9, <3>1 DEF first
    <3>3. \A k : k \in AskedFor <=> k \in first .. range[2]
      BY <1>1, <1>2, <1>3, <1>6, <1>7, <2>3, <3>1, <3>2
    <3>4. AskedFor = first .. range[2]
      BY <3>3
    <3> QED BY <1>4, <1>5, <1>6, <1>9, <3>2, <3>4 DEF n, first, limit, offset, range
  <2> QED BY <2>2, <2>3
<1>10. CASE first <= n /\ ~ (first + limit - 1 <= MaxInt)
  <2> QED BY <1>3, <1>4, <1>5, <1>6, <1>10
<1> QED BY <1>3, <1>6, <1>8, <1>9, <1>10

\* So read shows them, and slices no further than there are lines.
LEMMA ReadsAreRight ==
  ASSUME Readable, Reads
  PROVE  ReadShowsWhatWasAsked'
<1> DEFINE n == Len(Lines)
           range == CalculateLineRange(n, args.offset, args.limit)
           selected == [i \in 1 .. range[2] - range[1] + 1 |-> range[1] + i - 1]
           result == CatN(Lines, selected)
           asked == InOrder(AskedFor)
           wraps == FirstAsked \in DOMAIN Lines /\ FirstAsked + args.limit - 1 > MaxInt
<1>1. /\ tool = "read" /\ tool' = "read" /\ args' = args /\ content' = content
      /\ outcome' = IF content = <<>> THEN "empty"
                    ELSE IF args.offset > 0 /\ range[1] > n THEN "short"
                    ELSE IF range[2] < range[1] - 1 THEN "panic"
                    ELSE IF TooBig(TextOf(result)) THEN "tooBig" ELSE "lines"
      /\ shown' = IF outcome' = "lines" THEN result ELSE <<>>
  BY DEF Reads, Lines, vars
<1>2. Lines' = Lines /\ FirstAsked' = FirstAsked
  BY <1>1 DEF Lines, FirstAsked
<1>3. AskedFor' = AskedFor
  BY <1>1, <1>2 DEF AskedFor
<1>4. SUFFICES ASSUME content # <<>>, ~ wraps
      PROVE  /\ outcome' = IF asked = <<>> THEN "short"
                           ELSE IF TooBig(TextOf(CatN(Lines, asked))) THEN "tooBig" ELSE "lines"
             /\ shown' = IF outcome' = "lines" THEN CatN(Lines, asked) ELSE <<>>
  <2> HIDE DEF range, selected, result
  <2> QED BY <1>1, <1>2, <1>3 DEF ReadShowsWhatWasAsked
<1>5. /\ FirstAsked = range[1] /\ range[1] \in Nat \ {0}
      /\ range[1] > n => args.offset > 0 /\ AskedFor = {}
      /\ range[1] <= n /\ FirstAsked + args.limit - 1 <= MaxInt =>
           range[2] \in Nat /\ range[1] <= range[2] /\ AskedFor = range[1] .. range[2]
  BY <1>1, RangeIsAsked
<1>6. n \in Nat /\ DOMAIN Lines = 1 .. n
  BY SplitIsFinite DEF Lines, Readable, Texted
<1> HIDE DEF range
<1>7. CASE range[1] > n
  <2>1. outcome' = "short"
    BY <1>1, <1>4, <1>5, <1>7
  <2>2. asked = <<>>
    <3>1. AskedFor = {}
      BY <1>5, <1>7
    <3> QED BY <3>1, NothingInOrder
  <2>3. shown' = <<>>
    BY <1>1, <2>1
  <2> HIDE DEF asked
  <2> QED BY <2>1, <2>2, <2>3
<1>8. CASE range[1] <= n
  <2>1. range[1] \in DOMAIN Lines
    BY <1>5, <1>6, <1>8
  <2>2. FirstAsked + args.limit - 1 <= MaxInt
    <3>1. MaxInt \in Nat /\ args.limit \in Int /\ FirstAsked \in Nat
      BY <1>1, <1>5, TextsHaveFewerLinesThanInts DEF Readable, Ints
    <3>2. ~ (FirstAsked + args.limit - 1 > MaxInt)
      BY <1>4, <1>5, <2>1
    <3> QED BY <3>1, <3>2
  <2>3. /\ range[2] \in Nat /\ range[1] <= range[2] /\ range[1] \in Nat
        /\ AskedFor = range[1] .. range[2]
    BY <1>5, <1>8, <2>2
  <2>4. asked = selected
    BY <2>3, IntervalInOrder
  <2>5. selected # <<>>
    <3>1. 1 \in DOMAIN selected
      BY <2>3
    <3> QED BY <3>1
  <2>6. ~ (range[2] < range[1] - 1) /\ ~ (range[1] > n)
    BY <1>6, <1>8, <2>3
  <2>7. outcome' = IF TooBig(TextOf(result)) THEN "tooBig" ELSE "lines"
    <3> HIDE DEF result
    <3> QED BY <1>1, <1>4, <2>6
  <2>8. result = CatN(Lines, asked)
    BY <2>4
  <2> HIDE DEF result, asked, selected
  <2> QED BY <1>1, <2>4, <2>5, <2>7, <2>8
<1> QED BY <1>5, <1>6, <1>7, <1>8

\* No tool but edit writes, and none changes the arguments.
LEMMA ReadableStep == Readable /\ [TextNext]_<<vars, toolVars>> => Readable'
<1> SUFFICES ASSUME Readable, [TextNext]_<<vars, toolVars>> PROVE Readable'
  OBVIOUS
<1>1. Texted'
  BY StepTexted DEF Readable
<1>2. tool' = tool /\ args' = args
  BY DEF TextNext, Reads, Filters, Logs, Greps, toolVars
<1>3. tool = "read" => content' = content
  BY DEF TextNext, Reads, Filters, Logs, Greps, vars
<1> QED BY <1>1, <1>2, <1>3 DEF Readable, Texts

\* Only read reads, and it does so once.
LEMMA ReadShowsStep ==
  Readable /\ ReadShowsWhatWasAsked /\ [TextNext]_<<vars, toolVars>> => ReadShowsWhatWasAsked'
<1> SUFFICES ASSUME Readable, ReadShowsWhatWasAsked, [TextNext]_<<vars, toolVars>>
             PROVE  ReadShowsWhatWasAsked'
  OBVIOUS
<1>1. CASE Reads
  BY <1>1, ReadsAreRight
<1>2. CASE tool # "read"
  <2>1. tool' = tool
    BY DEF TextNext, Reads, Filters, Logs, Greps, toolVars
  <2> QED BY <1>2, <2>1 DEF ReadShowsWhatWasAsked
<1>3. CASE tool = "read" /\ ~ Reads
  <2>1. UNCHANGED <<content, tool, args, shown, outcome>>
    BY <1>3 DEF TextNext, Filters, Logs, Greps, vars, toolVars
  <2>2. Lines' = Lines /\ FirstAsked' = FirstAsked
    BY <2>1 DEF Lines, FirstAsked
  <2>3. AskedFor' = AskedFor
    BY <2>1, <2>2 DEF AskedFor
  <2> QED BY <2>1, <2>2, <2>3 DEF ReadShowsWhatWasAsked
<1> QED BY <1>1, <1>2, <1>3

\* read shows the lines that were asked for, for every offset and limit, any
\* sizes of files and ints, if the range ends within the ints (executeRead,
\* calculateLineRange).
THEOREM ReadsWhatWasAsked == TextSpec => []ReadShowsWhatWasAsked
<1>1. TextInit => Readable
  BY InitTexted DEF TextInit, Init, Readable, Args
<1>2. TextInit => ReadShowsWhatWasAsked
  BY DEF TextInit, ReadShowsWhatWasAsked
<1> QED BY <1>1, <1>2, ReadableStep, ReadShowsStep, PTL DEF TextSpec

-----------------------------------------------------------------------------
(* What comes last *)

\* A line, or a piece of one.
Line == Seq(Chars)

\* The last of a sequence, and what is before it.
LEMMA AppendEnds ==
  ASSUME NEW S, NEW q \in Seq(S), NEW x \in S
  PROVE  /\ Append(q, x) \in Seq(S) /\ Append(q, x) # <<>> /\ Len(Append(q, x)) = Len(q) + 1
         /\ Front(Append(q, x)) = q /\ Last(Append(q, x)) = x
<1> DEFINE a == Append(q, x)
<1>1. a \in Seq(S) /\ Len(a) = Len(q) + 1 /\ a[Len(q) + 1] = x
      /\ \A i \in 1 .. Len(q) : a[i] = q[i]
  BY AppendProperties
<1>2. Len(q) \in Nat
  OBVIOUS
<1> HIDE DEF a
<1>3. Front(a) = SubSeq(a, 1, Len(q))
  BY <1>1, <1>2 DEF Front
<1>4. SubSeq(a, 1, Len(q)) \in Seq(S) /\ Len(SubSeq(a, 1, Len(q))) = Len(q)
      /\ \A i \in 1 .. Len(q) : SubSeq(a, 1, Len(q))[i] = a[i]
  BY <1>1, <1>2
<1>5. Front(a) = q
  BY <1>1, <1>3, <1>4, SeqEqual
<1>6. Last(a) = x
  BY <1>1 DEF Last
<1>7. a # <<>>
  BY <1>1, <1>2
<1> QED BY <1>1, <1>5, <1>6, <1>7 DEF a

\* The other way round: a sequence is what is before its last, and that.
LEMMA EndsAppend ==
  ASSUME NEW S, NEW q \in Seq(S), q # <<>>
  PROVE  /\ Front(q) \in Seq(S) /\ Last(q) \in S /\ q = Append(Front(q), Last(q))
         /\ Len(Front(q)) = Len(q) - 1 /\ Len(q) \in Nat \ {0}
<1>1. PICK s \in Seq(S), e \in S : q = Append(s, e)
  BY SequenceEmptyOrAppend
<1>2. Front(q) = s /\ Last(q) = e /\ Len(q) = Len(s) + 1
  BY <1>1, AppendEnds
<1>3. Len(s) \in Nat
  OBVIOUS
<1> QED BY <1>1, <1>2, <1>3

\* Appending to what comes second appends to both together.
LEMMA AppendConcat ==
  ASSUME NEW S, NEW p \in Seq(S), NEW q \in Seq(S), NEW x \in S
  PROVE  p \o Append(q, x) = Append(p \o q, x) /\ p \o q \in Seq(S)
         /\ p \o <<>> = p /\ <<>> \o p = p
<1>1. Append(q, x) = q \o <<x>> /\ <<x>> \in Seq(S)
  BY AppendIsConcat
<1>2. p \o q \in Seq(S)
  BY ConcatProperties
<1>3. Append(p \o q, x) = (p \o q) \o <<x>>
  BY <1>2, AppendIsConcat
<1>4. (p \o q) \o <<x>> = p \o (q \o <<x>>)
  BY <1>1, ConcatAssociative
<1>5. p \o <<>> = p /\ <<>> \o p = p
  BY ConcatEmptySeq
<1> QED BY <1>1, <1>2, <1>3, <1>4, <1>5


-----------------------------------------------------------------------------
(* Numbers in their order *)

\* Of two numbers the lesser has the lesser rank, and all ranks fit.
LEMMA RanksRise ==
  ASSUME NEW T \in SUBSET Nat, IsFiniteSet(T)
  PROVE  /\ \A i \in T : Rank(T, i) \in Nat /\ Rank(T, i) < Cardinality(T)
         /\ \A i, j \in T : i < j => Rank(T, i) < Rank(T, j)
<1> DEFINE Below(i) == {m \in T : m < i}
<1>1. \A i : Rank(T, i) = Cardinality(Below(i))
  BY DEF Rank
<1>2. \A i : IsFiniteSet(Below(i)) /\ Cardinality(Below(i)) \in Nat
  BY FS_Subset, FS_CardinalityType
<1>3. Cardinality(T) \in Nat
  BY FS_CardinalityType
<1>4. ASSUME NEW i \in T
      PROVE  i \notin Below(i) /\ Below(i) \cup {i} \in SUBSET T
             /\ Cardinality(Below(i) \cup {i}) = Cardinality(Below(i)) + 1
  <2>1. i \notin Below(i) /\ Below(i) \cup {i} \in SUBSET T
    OBVIOUS
  <2> HIDE DEF Below
  <2> QED BY <1>2, <2>1, FS_AddElement
<1>5. ASSUME NEW i \in T PROVE Cardinality(Below(i)) < Cardinality(T)
  <2>1. Cardinality(Below(i) \cup {i}) <= Cardinality(T)
    BY <1>4, FS_Subset
  <2> QED BY <1>2, <1>3, <1>4, <2>1
<1>6. ASSUME NEW i \in T, NEW j \in T, i < j PROVE Cardinality(Below(i)) < Cardinality(Below(j))
  <2>1. i \in Below(j)
    BY <1>6
  <2>2. ASSUME NEW m \in Below(i) PROVE m \in Below(j)
    BY <1>6
  <2>3. Below(i) \cup {i} \in SUBSET Below(j)
    <3> HIDE DEF Below
    <3> QED BY <2>1, <2>2
  <2> HIDE DEF Below
  <2>4. Cardinality(Below(i) \cup {i}) <= Cardinality(Below(j))
    BY <1>2, <2>3, FS_Subset
  <2> QED BY <1>2, <1>4, <2>4
<1> QED BY <1>1, <1>2, <1>5, <1>6

\* InOrder has at each place the number of that rank.
LEMMA InOrderRanks ==
  ASSUME NEW T \in SUBSET Nat, IsFiniteSet(T), NEW k \in 1 .. Cardinality(T)
  PROVE  InOrder(T)[k] \in T /\ Rank(T, InOrder(T)[k]) = k - 1
<1> DEFINE n == Cardinality(T)
           rank == [i \in T |-> Rank(T, i) + 1]
<1>1. n \in Nat
  BY FS_CardinalityType
<1>2. rank \in [T -> 1 .. n]
  BY <1>1, RanksRise
<1>3. ASSUME NEW i \in T, NEW j \in T, rank[i] = rank[j] PROVE i = j
  <2>1. Rank(T, i) = Rank(T, j) /\ Rank(T, i) \in Nat
    BY <1>3, RanksRise
  <2>2. ~ (i < j) /\ ~ (j < i)
    BY <2>1, RanksRise
  <2> QED BY <2>2
<1>4. rank \in Injection(T, 1 .. n)
  <2> HIDE DEF rank
  <2> QED BY <1>2, <1>3 DEF Injection, IsInjective
<1>5. rank \in Surjection(T, 1 .. n)
  <2>1. IsFiniteSet(1 .. n) /\ Cardinality(1 .. n) = n
    BY <1>1, FS_Interval
  <2> HIDE DEF rank
  <2> QED BY <1>4, <2>1, FS_Injection
<1>6. \E i \in T : rank[i] = k
  <2> HIDE DEF rank
  <2> QED BY <1>5 DEF Surjection
<1>7. \E i \in T : Rank(T, i) = k - 1
  BY <1>6, RanksRise
<1>8. InOrder(T)[k] = CHOOSE i \in T : Rank(T, i) = k - 1
  BY DEF InOrder
<1> QED BY <1>7, <1>8

\* It is a sequence of numbers, as long as the set is large.
LEMMA InOrderIsSeq ==
  ASSUME NEW T \in SUBSET Nat, IsFiniteSet(T)
  PROVE  InOrder(T) \in Seq(T) /\ Len(InOrder(T)) = Cardinality(T) /\ Cardinality(T) \in Nat
<1> DEFINE n == Cardinality(T)
<1>1. n \in Nat
  BY FS_CardinalityType
<1>2. \A k \in 1 .. n : (CHOOSE i \in T : Rank(T, i) = k - 1) \in T
  BY InOrderRanks DEF InOrder
<1>3. InOrder(T) \in [1 .. n -> T]
  BY <1>2 DEF InOrder
<1> QED BY <1>1, <1>3, SeqDef

\* A number above all others comes last.
LEMMA InOrderAppend ==
  ASSUME NEW T \in SUBSET Nat, IsFiniteSet(T), NEW x \in Nat, \A y \in T : y < x
  PROVE  InOrder(T \cup {x}) = Append(InOrder(T), x)
<1> DEFINE U == T \cup {x}
           n == Cardinality(T)
           t == InOrder(T)
           u == InOrder(U)
<1>1. x \notin T /\ U \in SUBSET Nat /\ T \in SUBSET U
  OBVIOUS
<1>2. IsFiniteSet(U) /\ Cardinality(U) = n + 1 /\ n \in Nat
  BY <1>1, FS_AddElement, FS_CardinalityType
<1>3. ASSUME NEW i \in T PROVE Rank(U, i) = Rank(T, i)
  <2>1. ~ (x < i)
    BY <1>1
  <2>2. {m \in U : m < i} = {m \in T : m < i}
    BY <2>1
  <2> QED BY <2>2 DEF Rank
<1>4. Rank(U, x) = n
  <2>1. ~ (x < x)
    OBVIOUS
  <2>2. {m \in U : m < x} = T
    BY <2>1
  <2> QED BY <2>2 DEF Rank
<1>5. t \in Seq(T) /\ Len(t) = n
  BY InOrderIsSeq
<1>6. u \in Seq(U) /\ Len(u) = n + 1
  BY <1>1, <1>2, InOrderIsSeq
<1>7. \A k \in 1 .. n : t[k] \in T /\ Rank(T, t[k]) = k - 1
  BY InOrderRanks
<1>8. \A k \in 1 .. n + 1 : u[k] \in U /\ Rank(U, u[k]) = k - 1
  BY <1>1, <1>2, InOrderRanks
<1>9. \A i, j \in T : i < j => Rank(T, i) < Rank(T, j)
  BY RanksRise
<1>10. \A i \in T : Rank(T, i) \in Nat /\ Rank(T, i) < n
  BY RanksRise
<1> HIDE DEF t, u, n
<1>11. ASSUME NEW k \in 1 .. n PROVE u[k] = t[k]
  <2>1. k \in 1 .. n + 1 /\ k - 1 # n
    BY <1>2
  <2>2. u[k] \in T /\ Rank(T, u[k]) = k - 1
    BY <1>3, <1>4, <1>8, <2>1
  <2>3. t[k] \in T /\ Rank(T, t[k]) = k - 1
    BY <1>7
  <2> DEFINE i == u[k]
             j == t[k]
  <2>4. i \in T /\ j \in T /\ Rank(T, i) = Rank(T, j) /\ Rank(T, i) \in Nat
    BY <1>10, <2>2, <2>3
  <2> HIDE DEF i, j
  <2>5. ~ (i < j) /\ ~ (j < i)
    BY <1>9, <2>4
  <2>6. i \in Nat /\ j \in Nat
    BY <2>4
  <2>7. i = j
    BY <2>5, <2>6
  <2> QED BY <2>7 DEF i, j
<1>12. u[n + 1] = x
  <2> DEFINE k == n + 1
             y == u[k]
  <2>1. k \in 1 .. n + 1 /\ k - 1 = n
    BY <1>2
  <2> HIDE DEF k
  <2>2. y \in U /\ Rank(U, y) = n
    BY <1>8, <2>1
  <2> HIDE DEF y, U
  <2>3. ASSUME y \in T PROVE FALSE
    <3>1. Rank(T, y) = n
      BY <1>3, <2>2, <2>3
    <3> QED BY <1>2, <1>10, <2>3, <3>1
  <2>4. y = x
    BY <2>2, <2>3 DEF U
  <2> QED BY <2>4 DEF y, k
<1>13. t \in Seq(Nat) /\ u \in Seq(Nat)
  BY <1>1, <1>5, <1>6, SeqMonotonic
<1>14. Append(t, x) \in Seq(Nat) /\ Len(Append(t, x)) = n + 1 /\ Append(t, x)[n + 1] = x
       /\ \A k \in 1 .. n : Append(t, x)[k] = t[k]
  BY <1>5, <1>13, AppendProperties
<1>15. \A k \in 1 .. n + 1 : u[k] = Append(t, x)[k]
  <2>1. \A k \in 1 .. n + 1 : k \in 1 .. n \/ k = n + 1
    BY <1>2
  <2> QED BY <1>11, <1>12, <1>14, <2>1
<1>16. u = Append(t, x)
  BY <1>6, <1>13, <1>14, <1>15, SeqEqual
<1> QED BY <1>16 DEF t, u

-----------------------------------------------------------------------------
(* Lines *)

\* Behind which characters lines start.
Starts(s) == {0} \cup {i \in 1 .. Len(s) : s[i] = Newline}
After(s) == InOrder(Starts(s))

\* A text has finitely many lines, and at least one.
LEMMA StartsAreFinite ==
  ASSUME NEW s \in Seq(Chars)
  PROVE  /\ Starts(s) \in SUBSET Nat /\ Starts(s) \in SUBSET (0 .. Len(s))
         /\ IsFiniteSet(Starts(s)) /\ 1 <= Cardinality(Starts(s))
         /\ After(s) \in Seq(0 .. Len(s)) /\ Len(After(s)) = Cardinality(Starts(s))
         /\ Len(After(s)) \in Nat
<1>1. Starts(s) \in SUBSET Nat /\ Starts(s) \in SUBSET (0 .. Len(s)) /\ Len(s) \in Nat
  BY DEF Starts
<1>2. IsFiniteSet(0 .. Len(s))
  BY <1>1, FS_Interval
<1>3. IsFiniteSet(Starts(s))
  BY <1>1, <1>2, FS_Subset
<1>4. {0} \in SUBSET Starts(s) /\ Cardinality({0}) = 1
  BY FS_Singleton DEF Starts
<1>5. 1 <= Cardinality(Starts(s))
  BY <1>3, <1>4, FS_Subset
<1>6. After(s) \in Seq(Starts(s)) /\ Len(After(s)) = Cardinality(Starts(s))
      /\ Cardinality(Starts(s)) \in Nat
  BY <1>1, <1>3, InOrderIsSeq DEF After
<1>7. After(s) \in Seq(0 .. Len(s))
  BY <1>1, <1>6, SeqMonotonic
<1> QED BY <1>1, <1>3, <1>5, <1>6, <1>7

\* Each line is what is between where it starts and where the next one does.
LEMMA SplitCuts ==
  ASSUME NEW s \in Seq(Chars)
  PROVE  /\ Split(s) \in Seq(Line) /\ Len(Split(s)) = Len(After(s)) /\ Split(s) # <<>>
         /\ \A k \in 1 .. Len(After(s)) :
              Split(s)[k] =
                SubSeq(s, After(s)[k] + 1, IF k < Len(After(s)) THEN After(s)[k + 1] - 1 ELSE Len(s))
<1> DEFINE q == After(s)
           cuts == Append(q, Len(s) + 1)
           m == Len(q)
<1>1. /\ Starts(s) \in SUBSET Nat /\ IsFiniteSet(Starts(s)) /\ Starts(s) \in SUBSET (0 .. Len(s))
      /\ q \in Seq(0 .. Len(s)) /\ m \in Nat /\ 1 <= m
  BY StartsAreFinite
<1>2. Len(s) \in Nat
  OBVIOUS
<1>3. InOrder(Starts(s) \cup {Len(s) + 1}) = cuts
  <2>1. Len(s) + 1 \in Nat /\ \A y \in Starts(s) : y < Len(s) + 1
    BY <1>1, <1>2
  <2> QED BY <1>1, <2>1, InOrderAppend DEF After
<1>4. {0, Len(s) + 1} \cup {i \in 1 .. Len(s) : s[i] = Newline} = Starts(s) \cup {Len(s) + 1}
  BY DEF Starts
<1> HIDE DEF q, m
<1>5. q \in Seq(Nat) /\ \A k \in 1 .. m : q[k] \in 0 .. Len(s)
  BY <1>1 DEF m
<1>6. /\ cuts \in Seq(Nat) /\ Len(cuts) = m + 1 /\ cuts[m + 1] = Len(s) + 1
      /\ \A k \in 1 .. m : cuts[k] = q[k]
  BY <1>2, <1>5, AppendProperties DEF m
<1> HIDE DEF cuts
<1>7. Split(s) = [k \in 1 .. Len(cuts) - 1 |-> SubSeq(s, cuts[k] + 1, cuts[k + 1] - 1)]
  BY <1>3, <1>4 DEF Split
<1>8. Len(cuts) - 1 = m
  BY <1>1, <1>6
<1>9. Split(s) = [k \in 1 .. m |-> SubSeq(s, cuts[k] + 1, cuts[k + 1] - 1)]
  BY <1>7, <1>8
<1>10. ASSUME NEW k \in 1 .. m
       PROVE  /\ cuts[k] + 1 = q[k] + 1
              /\ cuts[k + 1] - 1 = IF k < m THEN q[k + 1] - 1 ELSE Len(s)
  <2>1. cuts[k] = q[k]
    BY <1>6
  <2>2. CASE k < m
    <3>1. k + 1 \in 1 .. m
      BY <1>1, <2>2
    <3> QED BY <1>6, <2>1, <2>2, <3>1
  <2>3. CASE ~ (k < m)
    <3>1. k = m
      BY <1>1, <2>3
    <3> QED BY <1>2, <1>6, <2>1, <2>3, <3>1
  <2> QED BY <2>2, <2>3
<1>11. ASSUME NEW k \in 1 .. m
       PROVE  SubSeq(s, cuts[k] + 1, cuts[k + 1] - 1) \in Line
  <2> DEFINE a == cuts[k] + 1
             b == cuts[k + 1] - 1
  <2>1. a \in 1 .. Len(s) + 1 /\ b \in Int /\ b <= Len(s)
    <3>1. a = q[k] + 1 /\ b = IF k < m THEN q[k + 1] - 1 ELSE Len(s)
      BY <1>10
    <3>2. q[k] \in 0 .. Len(s)
      BY <1>5
    <3>3. k < m => k + 1 \in 1 .. m /\ q[k + 1] \in 0 .. Len(s)
      BY <1>1, <1>5
    <3> HIDE DEF a, b
    <3> QED BY <1>2, <3>1, <3>2, <3>3
  <2> HIDE DEF a, b
  <2>2. SubSeq(s, a, b) \in Seq(Chars)
    BY <1>2, <2>1
  <2> QED BY <2>2 DEF Line, a, b
<1>12. Split(s) \in [1 .. m -> Line]
  BY <1>9, <1>11
<1>13. Split(s) \in Seq(Line) /\ Len(Split(s)) = m
  BY <1>1, <1>12, SeqDef
<1>14. \A k \in 1 .. m : Split(s)[k] = SubSeq(s, q[k] + 1, IF k < m THEN q[k + 1] - 1 ELSE Len(s))
  BY <1>9, <1>10
<1>15. Split(s) # <<>>
  BY <1>1, <1>13
<1> QED BY <1>13, <1>14, <1>15 DEF q, m

\* A line that is a part of s is a part of every text that goes on from s.
LEMMA SubSeqAppend ==
  ASSUME NEW s \in Seq(Chars), NEW c \in Chars, NEW a \in 1 .. Len(s) + 1
  PROVE  /\ \A b \in Int : b <= Len(s) => SubSeq(Append(s, c), a, b) = SubSeq(s, a, b)
         /\ SubSeq(Append(s, c), a, Len(s) + 1) = Append(SubSeq(s, a, Len(s)), c)
<1> DEFINE t == Append(s, c)
           n == Len(s)
<1>1. t \in Seq(Chars) /\ Len(t) = n + 1 /\ n \in Nat /\ t[n + 1] = c
      /\ \A i \in 1 .. n : t[i] = s[i]
  BY AppendProperties
<1> HIDE DEF t
<1>2. ASSUME NEW b \in Int, b <= n PROVE SubSeq(t, a, b) = SubSeq(s, a, b)
  <2> DEFINE x == SubSeq(t, a, b)
             y == SubSeq(s, a, b)
  <2>1. /\ x \in Seq(Chars) /\ y \in Seq(Chars) /\ Len(x) = Len(y)
        /\ \A i \in 1 .. Len(x) : x[i] = t[a + i - 1] /\ y[i] = s[a + i - 1]
        /\ \A i \in 1 .. Len(x) : a + i - 1 \in 1 .. n
    BY <1>1, <1>2
  <2> HIDE DEF x, y
  <2> QED BY <1>1, <2>1, SeqEqual DEF x, y
<1>3. SubSeq(t, a, n + 1) = Append(SubSeq(s, a, n), c)
  <2>1. SubSeq(t, a, n + 1) = SubSeq(t, a, n + 1 - 1) \o <<t[n + 1]>>
    <3>1. n + 1 \in a .. Len(t) /\ a \in 1 .. Len(t)
      BY <1>1
    <3> QED BY <1>1, <3>1, SubSeqRecursiveSecond
  <2>2. n + 1 - 1 = n
    BY <1>1
  <2>3. SubSeq(t, a, n) = SubSeq(s, a, n)
    BY <1>1, <1>2
  <2>4. SubSeq(s, a, n) \in Seq(Chars)
    BY <1>1
  <2>5. Append(SubSeq(s, a, n), c) = SubSeq(s, a, n) \o <<c>>
    BY <2>4, AppendIsConcat
  <2> QED BY <1>1, <2>1, <2>2, <2>3, <2>5
<1> QED BY <1>2, <1>3 DEF t, n

\* The empty text is one line, an empty one.
LEMMA SplitNothing == Split(<<>>) = <<<<>>>>
<1> DEFINE s == <<>>
<1>1. s \in Seq(Chars) /\ Len(s) = 0
  OBVIOUS
<1>2. Starts(s) = {0}
  BY <1>1 DEF Starts
<1>3. Len(After(s)) = 1 /\ After(s)[1] = 0
  <2>1. Cardinality(Starts(s)) = 1
    BY <1>2, FS_Singleton
  <2>2. IsFiniteSet(Starts(s)) /\ Starts(s) \in SUBSET Nat
    BY <1>1, StartsAreFinite
  <2>3. Len(After(s)) = 1
    BY <1>1, <2>1, StartsAreFinite
  <2>4. InOrder(Starts(s))[1] \in Starts(s)
    BY <2>1, <2>2, InOrderRanks
  <2> QED BY <1>2, <2>3, <2>4 DEF After
<1> HIDE DEF s
<1>4. Split(s)[1] = SubSeq(s, 1, 0) /\ Len(Split(s)) = 1 /\ Split(s) \in Seq(Line)
  <2>1. 1 \in 1 .. 1 /\ ~ (1 < 1) /\ 0 + 1 = 1
    OBVIOUS
  <2>2. Split(s)[1] = SubSeq(s, 0 + 1, IF 1 < 1 THEN After(s)[1 + 1] - 1 ELSE 0)
    BY <1>1, <1>3, <2>1, SplitCuts
  <2>3. Split(s)[1] = SubSeq(s, 1, 0)
    BY <2>1, <2>2
  <2> QED BY <1>1, <1>3, <2>3, SplitCuts
<1>5. SubSeq(s, 1, 0) = <<>>
  BY SubSeqEmpty
<1>6. <<<<>>>> \in Seq(Line) /\ Len(<<<<>>>>) = 1 /\ <<<<>>>>[1] = <<>>
  BY DEF Line
<1>7. \A i \in 1 .. 1 : Split(s)[i] = <<<<>>>>[i]
  BY <1>4, <1>5, <1>6
<1>8. Split(s) = <<<<>>>>
  BY <1>4, <1>6, <1>7, SeqEqual
<1> QED BY <1>8 DEF s

\* What one character more makes of the lines: it ends the last, or is in it.
Longer(lines, c) ==
  IF c = Newline THEN Append(lines, <<>>)
  ELSE Append(Front(lines), Append(Last(lines), c))

\* How Split goes on when a text is continued.
LEMMA SplitAppend ==
  ASSUME NEW s \in Seq(Chars), NEW c \in Chars
  PROVE  Split(Append(s, c)) = Longer(Split(s), c)
<1> DEFINE t == Append(s, c)
           n == Len(s)
           q == After(s)
           m == Len(q)
<1>1. t \in Seq(Chars) /\ Len(t) = n + 1 /\ n \in Nat /\ t[n + 1] = c
      /\ \A i \in 1 .. n : t[i] = s[i]
  BY AppendProperties
<1> HIDE DEF t
<1>2. /\ q \in Seq(0 .. n) /\ m \in Nat /\ 1 <= m
      /\ Starts(s) \in SUBSET Nat /\ IsFiniteSet(Starts(s)) /\ Starts(s) \in SUBSET (0 .. n)
  BY StartsAreFinite
<1>3. q \in Seq(Nat) /\ \A k \in 1 .. m : q[k] \in 0 .. n
  BY <1>2
<1>4. /\ Split(s) \in Seq(Line) /\ Len(Split(s)) = m /\ Split(s) # <<>>
      /\ \A k \in 1 .. m : Split(s)[k] = SubSeq(s, q[k] + 1, IF k < m THEN q[k + 1] - 1 ELSE n)
  BY SplitCuts
<1>5. /\ Split(t) \in Seq(Line) /\ Len(Split(t)) = Len(After(t))
      /\ \A k \in 1 .. Len(After(t)) :
           Split(t)[k] = SubSeq(t, After(t)[k] + 1,
                                IF k < Len(After(t)) THEN After(t)[k + 1] - 1 ELSE n + 1)
  BY <1>1, SplitCuts
<1>6. 1 .. n + 1 = (1 .. n) \cup {n + 1}
  BY <1>1
<1>7. CASE c = Newline
  <2>1. Starts(t) = Starts(s) \cup {n + 1}
    BY <1>1, <1>6, <1>7 DEF Starts
  <2>2. After(t) = Append(q, n + 1)
    <3>1. n + 1 \in Nat /\ \A y \in Starts(s) : y < n + 1
      BY <1>1, <1>2
    <3> QED BY <1>2, <2>1, <3>1, InOrderAppend DEF After
  <2>3. Len(After(t)) = m + 1 /\ After(t)[m + 1] = n + 1 /\ \A k \in 1 .. m : After(t)[k] = q[k]
    BY <1>1, <1>3, <2>2, AppendProperties
  <2> HIDE DEF q, m
  <2>4. ASSUME NEW k \in 1 .. m PROVE Split(t)[k] = Split(s)[k]
    <3>1. k \in 1 .. m + 1 /\ k < m + 1 /\ q[k] + 1 \in 1 .. n + 1
      BY <1>1, <1>2, <1>3
    <3>2. Split(t)[k] = SubSeq(t, q[k] + 1, After(t)[k + 1] - 1)
      BY <1>5, <2>3, <3>1
    <3>3. After(t)[k + 1] - 1 = IF k < m THEN q[k + 1] - 1 ELSE n
      <4>1. CASE k < m
        <5>1. k + 1 \in 1 .. m
          BY <1>2, <4>1
        <5> QED BY <2>3, <4>1, <5>1
      <4>2. CASE ~ (k < m)
        <5>1. k = m
          BY <1>2, <4>2
        <5> QED BY <1>1, <2>3, <4>2, <5>1
      <4> QED BY <4>1, <4>2
    <3> DEFINE b == IF k < m THEN q[k + 1] - 1 ELSE n
    <3>4. b \in Int /\ b <= n
      <4>1. k < m => k + 1 \in 1 .. m /\ q[k + 1] \in 0 .. n
        BY <1>2, <1>3
      <4> QED BY <1>1, <4>1
    <3>5. Split(s)[k] = SubSeq(s, q[k] + 1, b)
      BY <1>4
    <3>6. Split(t)[k] = SubSeq(t, q[k] + 1, b)
      BY <3>2, <3>3
    <3> HIDE DEF b
    <3>7. SubSeq(t, q[k] + 1, b) = SubSeq(s, q[k] + 1, b)
      BY <3>1, <3>4, SubSeqAppend DEF t
    <3> QED BY <3>5, <3>6, <3>7
  <2>5. Split(t)[m + 1] = <<>>
    <3>1. m + 1 \in 1 .. m + 1 /\ ~ (m + 1 < m + 1)
      BY <1>2
    <3>2. Split(t)[m + 1] = SubSeq(t, n + 1 + 1, n + 1)
      BY <1>5, <2>3, <3>1
    <3> QED BY <1>1, <3>2, SubSeqEmpty
  <2>6. <<>> \in Line
    BY DEF Line
  <2>7. /\ Append(Split(s), <<>>) \in Seq(Line) /\ Len(Append(Split(s), <<>>)) = m + 1
        /\ Append(Split(s), <<>>)[m + 1] = <<>>
        /\ \A k \in 1 .. m : Append(Split(s), <<>>)[k] = Split(s)[k]
    BY <1>4, <2>6, AppendProperties
  <2>8. Len(Split(t)) = m + 1
    BY <1>5, <2>3
  <2>9. \A k \in 1 .. m + 1 : k \in 1 .. m \/ k = m + 1
    BY <1>2
  <2>10. \A k \in 1 .. m + 1 : Split(t)[k] = Append(Split(s), <<>>)[k]
    BY <2>4, <2>5, <2>7, <2>9
  <2>11. Split(t) = Append(Split(s), <<>>)
    BY <1>5, <2>7, <2>8, <2>10, SeqEqual
  <2> QED BY <1>7, <2>11 DEF Longer, t
<1>8. CASE c # Newline
  <2>1. Starts(t) = Starts(s)
    BY <1>1, <1>6, <1>8 DEF Starts
  <2>2. After(t) = q
    BY <2>1 DEF After
  <2> HIDE DEF q, m
  <2> DEFINE front == Front(Split(s))
             last == Last(Split(s))
             u == Append(front, Append(last, c))
  <2>3. /\ front \in Seq(Line) /\ last \in Line /\ Len(front) = m - 1
        /\ Split(s) = Append(front, last)
    BY <1>4, EndsAppend
  <2> HIDE DEF front, last
  <2>4. m - 1 \in Nat /\ m - 1 + 1 = m
    BY <1>2
  <2>5. Split(s)[m] = last /\ \A k \in 1 .. m - 1 : Split(s)[k] = front[k]
    BY <2>3, <2>4, AppendProperties
  <2>6. Append(last, c) \in Line
    BY <2>3, AppendProperties DEF Line
  <2>7. u \in Seq(Line) /\ Len(u) = m /\ u[m] = Append(last, c)
        /\ \A k \in 1 .. m - 1 : u[k] = front[k]
    BY <2>3, <2>4, <2>6, AppendProperties
  <2> HIDE DEF u
  <2>8. \A k \in 1 .. m : Split(t)[k] = SubSeq(t, q[k] + 1, IF k < m THEN q[k + 1] - 1 ELSE n + 1)
    BY <1>5, <2>2 DEF m
  <2>9. ASSUME NEW k \in 1 .. m - 1 PROVE Split(t)[k] = front[k]
    <3>1. k \in 1 .. m /\ k < m /\ k + 1 \in 1 .. m
      BY <1>2
    <3>2. q[k] + 1 \in 1 .. n + 1 /\ q[k + 1] - 1 \in Int /\ q[k + 1] - 1 <= n
      BY <1>1, <1>3, <3>1
    <3>3. Split(t)[k] = SubSeq(t, q[k] + 1, q[k + 1] - 1)
      BY <2>8, <3>1
    <3>4. Split(s)[k] = SubSeq(s, q[k] + 1, q[k + 1] - 1)
      BY <1>4, <3>1
    <3>5. SubSeq(t, q[k] + 1, q[k + 1] - 1) = SubSeq(s, q[k] + 1, q[k + 1] - 1)
      BY <3>2, SubSeqAppend DEF t
    <3> QED BY <2>5, <3>3, <3>4, <3>5
  <2>10. Split(t)[m] = Append(last, c)
    <3>1. m \in 1 .. m /\ ~ (m < m)
      BY <1>2
    <3>2. q[m] + 1 \in 1 .. n + 1
      BY <1>1, <1>3, <3>1
    <3>3. Split(t)[m] = SubSeq(t, q[m] + 1, n + 1) /\ Split(s)[m] = SubSeq(s, q[m] + 1, n)
      BY <1>4, <2>8, <3>1
    <3>4. SubSeq(t, q[m] + 1, n + 1) = Append(SubSeq(s, q[m] + 1, n), c)
      BY <3>2, SubSeqAppend DEF t
    <3> QED BY <2>5, <3>3, <3>4
  <2>11. \A k \in 1 .. m : k \in 1 .. m - 1 \/ k = m
    BY <1>2
  <2>12. \A k \in 1 .. m : Split(t)[k] = u[k]
    BY <2>7, <2>9, <2>10, <2>11
  <2>13. Len(Split(t)) = m
    BY <1>5, <2>2 DEF m
  <2>14. Split(t) = u
    BY <1>5, <2>7, <2>12, <2>13, SeqEqual
  <2> QED BY <1>8, <2>14 DEF Longer, t, u, front, last
<1> QED BY <1>7, <1>8

\* Induction over texts, or sequences of lines, as over numbers.
LEMMA SeqInduction ==
  ASSUME NEW S, NEW I \in SUBSET Seq(S), <<>> \in I, \A s \in I, c \in S : Append(s, c) \in I
  PROVE  I = Seq(S)
<1> DEFINE N == {n \in Nat : \A s \in Seq(S) : Len(s) = n => s \in I}
<1>1. 0 \in N
  <2>1. \A s \in Seq(S) : Len(s) = 0 => s = <<>>
    BY EmptySeq
  <2> QED BY <2>1
<1>2. ASSUME NEW n \in N PROVE n + 1 \in N
  <2> SUFFICES ASSUME NEW s \in Seq(S), Len(s) = n + 1 PROVE s \in I
    OBVIOUS
  <2>1. n \in Nat /\ \A r \in Seq(S) : Len(r) = n => r \in I
    BY <1>2
  <2>2. s # <<>>
    BY <2>1
  <2>3. /\ Front(s) \in Seq(S) /\ Last(s) \in S /\ s = Append(Front(s), Last(s))
        /\ Len(Front(s)) = Len(s) - 1
    BY <2>2, EndsAppend
  <2>4. Len(Front(s)) = n
    BY <2>1, <2>3
  <2>5. Front(s) \in I
    BY <2>1, <2>3, <2>4
  <2> QED BY <2>3, <2>5
<1>3. N = Nat
  <2> HIDE DEF N
  <2>1. N \in SUBSET Nat
    BY DEF N
  <2> QED BY <2>1, <1>1, <1>2, SetInduction
<1>4. \A s \in Seq(S) : Len(s) \in Nat
  OBVIOUS
<1>5. \A s \in Seq(S) : s \in I
  BY <1>3, <1>4
<1> QED BY <1>5

\* A text has at least one line, the last of which has not ended.
LEMMA SplitEnds ==
  ASSUME NEW s \in Seq(Chars)
  PROVE  /\ Split(s) \in Seq(Line) /\ Split(s) # <<>> /\ Front(Split(s)) \in Seq(Line)
         /\ Last(Split(s)) \in Line /\ Split(s) = Append(Front(Split(s)), Last(Split(s)))
  BY SplitCuts, EndsAppend

\* A newline ends the last line and begins another; all else goes to the last line.
LEMMA LongerEnds ==
  ASSUME NEW lines \in Seq(Line), lines # <<>>, NEW c \in Chars
  PROVE  /\ Longer(lines, c) \in Seq(Line) /\ Longer(lines, c) # <<>>
         /\ c = Newline => Front(Longer(lines, c)) = lines /\ Last(Longer(lines, c)) = <<>>
         /\ c # Newline => /\ Front(Longer(lines, c)) = Front(lines)
                           /\ Last(Longer(lines, c)) = Append(Last(lines), c)
<1>1. Front(lines) \in Seq(Line) /\ Last(lines) \in Line
  BY EndsAppend
<1>2. Append(Last(lines), c) \in Line /\ <<>> \in Line
  BY <1>1, AppendEnds DEF Line
<1>3. CASE c = Newline
  BY <1>2, <1>3, AppendEnds DEF Longer
<1>4. CASE c # Newline
  <2> DEFINE f == Front(lines)
             l == Append(Last(lines), c)
  <2>1. f \in Seq(Line) /\ l \in Line
    BY <1>1, <1>2
  <2>2. Longer(lines, c) = Append(f, l)
    BY <1>4 DEF Longer
  <2> HIDE DEF f, l
  <2>3. /\ Append(f, l) \in Seq(Line) /\ Append(f, l) # <<>>
        /\ Front(Append(f, l)) = f /\ Last(Append(f, l)) = l
    BY <2>1, AppendEnds
  <2> QED BY <1>4, <2>2, <2>3 DEF f, l
<1> QED BY <1>3, <1>4

\* Lines further up are not changed by what comes.
LEMMA LongerConcat ==
  ASSUME NEW f \in Seq(Line), NEW lines \in Seq(Line), lines # <<>>, NEW c \in Chars
  PROVE  Longer(f \o lines, c) = f \o Longer(lines, c)
<1> DEFINE g == Front(lines)
           l == Last(lines)
<1>1. g \in Seq(Line) /\ l \in Line /\ lines = Append(g, l)
  BY EndsAppend
<1> HIDE DEF g, l
<1>2. f \o lines = Append(f \o g, l) /\ f \o g \in Seq(Line) /\ f \o lines \in Seq(Line)
  BY <1>1, AppendConcat
<1>3. Front(f \o lines) = f \o g /\ Last(f \o lines) = l
  <2> DEFINE h == f \o g
  <2>1. h \in Seq(Line) /\ f \o lines = Append(h, l)
    BY <1>2
  <2> HIDE DEF h
  <2>2. Front(Append(h, l)) = h /\ Last(Append(h, l)) = l
    BY <1>1, <2>1, AppendEnds
  <2> QED BY <2>1, <2>2 DEF h
<1>4. Append(l, c) \in Line /\ <<>> \in Line
  BY <1>1, AppendEnds DEF Line
<1>5. CASE c = Newline
  <2>1. f \o Append(lines, <<>>) = Append(f \o lines, <<>>)
    BY <1>4, AppendConcat
  <2> QED BY <1>5, <2>1 DEF Longer
<1>6. CASE c # Newline
  <2>1. Longer(f \o lines, c) = Append(f \o g, Append(l, c))
    BY <1>3, <1>6 DEF Longer
  <2>2. f \o Longer(lines, c) = f \o Append(g, Append(l, c))
    BY <1>6 DEF Longer, g, l
  <2>3. f \o Append(g, Append(l, c)) = Append(f \o g, Append(l, c))
    BY <1>1, <1>4, AppendConcat
  <2> QED BY <2>1, <2>2, <2>3
<1> QED BY <1>5, <1>6

\* The last line is a text of one line.
LEMMA LastIsOneLine ==
  \A s \in Seq(Chars) : Split(Last(Split(s))) = <<Last(Split(s))>>
<1> DEFINE I == {s \in Seq(Chars) : Split(Last(Split(s))) = <<Last(Split(s))>>}
<1>1. <<>> \in I
  <2>1. Last(<<<<>>>>) = <<>>
    BY DEF Last
  <2> QED BY <2>1, SplitNothing
<1>2. ASSUME NEW s \in I, NEW c \in Chars PROVE Append(s, c) \in I
  <2> DEFINE l == Last(Split(s))
             t == Append(s, c)
  <2>1. s \in Seq(Chars) /\ Split(l) = <<l>>
    BY <1>2
  <2>2. t \in Seq(Chars) /\ Split(t) = Longer(Split(s), c)
    BY <2>1, AppendEnds, SplitAppend
  <2>3. Split(s) \in Seq(Line) /\ Split(s) # <<>> /\ l \in Line
    BY <2>1, SplitEnds
  <2> HIDE DEF l, t
  <2>4. CASE c = Newline
    <3>1. Last(Split(t)) = <<>>
      BY <2>2, <2>3, <2>4, LongerEnds
    <3> QED BY <2>2, <3>1, SplitNothing DEF t
  <2>5. CASE c # Newline
    <3>1. Last(Split(t)) = Append(l, c)
      BY <2>2, <2>3, <2>5, LongerEnds DEF l
    <3>2. Split(Append(l, c)) = Longer(<<l>>, c)
      BY <2>1, <2>3, SplitAppend DEF Line
    <3>3. Append(l, c) \in Line
      BY <2>3, AppendEnds DEF Line
    <3>4. Front(<<l>>) = <<>> /\ Last(<<l>>) = l
      <4>1. <<l>> = Append(<<>>, l)
        BY <2>3
      <4>2. <<>> \in Seq(Line)
        OBVIOUS
      <4> QED BY <2>3, <4>1, <4>2, AppendEnds
    <3>5. Longer(<<l>>, c) = Append(<<>>, Append(l, c))
      BY <2>5, <3>4 DEF Longer
    <3>6. Append(<<>>, Append(l, c)) = <<Append(l, c)>>
      OBVIOUS
    <3> QED BY <2>2, <3>1, <3>2, <3>5, <3>6 DEF t
  <2> QED BY <2>4, <2>5 DEF t
<1>3. I = Seq(Chars)
  <2> HIDE DEF I
  <2>1. I \in SUBSET Seq(Chars)
    BY DEF I
  <2> QED BY <2>1, <1>1, <1>2, SeqInduction
<1> QED BY <1>3

\* How a text that goes on is split: the lines that ended stay, and the last one
\* is split together with what follows.
LEMMA SplitConcat ==
  \A s, t \in Seq(Chars) : Split(s \o t) = Front(Split(s)) \o Split(Last(Split(s)) \o t)
<1> SUFFICES ASSUME NEW s \in Seq(Chars)
             PROVE  \A t \in Seq(Chars) :
                      Split(s \o t) = Front(Split(s)) \o Split(Last(Split(s)) \o t)
  OBVIOUS
<1> DEFINE f == Front(Split(s))
           l == Last(Split(s))
           I == {t \in Seq(Chars) : Split(s \o t) = f \o Split(l \o t)}
<1>1. f \in Seq(Line) /\ l \in Line /\ l \in Seq(Chars) /\ Split(s) = Append(f, l)
  BY SplitEnds DEF Line
<1>2. Split(l) = <<l>>
  BY LastIsOneLine
<1> HIDE DEF f, l
<1>3. <<>> \in I
  <2>1. s \o <<>> = s /\ l \o <<>> = l
    BY <1>1, ConcatEmptySeq
  <2>2. f \o <<l>> = Append(f, l)
    BY <1>1, AppendIsConcat
  <2>3. <<>> \in Seq(Chars)
    OBVIOUS
  <2> QED BY <1>1, <1>2, <2>1, <2>2, <2>3
<1>4. ASSUME NEW t \in I, NEW c \in Chars PROVE Append(t, c) \in I
  <2>1. t \in Seq(Chars) /\ Split(s \o t) = f \o Split(l \o t)
    BY <1>4
  <2>2. s \o Append(t, c) = Append(s \o t, c) /\ s \o t \in Seq(Chars)
    BY <2>1, AppendConcat
  <2>3. l \o Append(t, c) = Append(l \o t, c) /\ l \o t \in Seq(Chars)
    BY <1>1, <2>1, AppendConcat
  <2>4. Split(Append(s \o t, c)) = Longer(Split(s \o t), c)
    BY <2>2, SplitAppend
  <2>5. Split(Append(l \o t, c)) = Longer(Split(l \o t), c)
    BY <2>3, SplitAppend
  <2>6. Split(l \o t) \in Seq(Line) /\ Split(l \o t) # <<>>
    BY <2>3, SplitEnds
  <2>7. Longer(f \o Split(l \o t), c) = f \o Longer(Split(l \o t), c)
    BY <1>1, <2>6, LongerConcat
  <2>8. Append(t, c) \in Seq(Chars)
    BY <2>1, AppendEnds
  <2> QED BY <2>1, <2>2, <2>3, <2>4, <2>5, <2>7, <2>8
<1>5. I = Seq(Chars)
  <2> HIDE DEF I
  <2>1. I \in SUBSET Seq(Chars)
    BY DEF I
  <2> QED BY <2>1, <1>3, <1>4, SeqInduction
<1> QED BY <1>5 DEF f, l

-----------------------------------------------------------------------------
(* What is made of lines *)

\* Nothing, one after the other.
LEMMA FlattenNothing == FlattenSeq(<<>>) = <<>>
  BY DEF FlattenSeq

\* One more sequence comes at the end.
LEMMA FlattenAppend ==
  ASSUME NEW q \in Seq(Line), NEW x \in Line
  PROVE  FlattenSeq(Append(q, x)) = FlattenSeq(q) \o x /\ FlattenSeq(q) \in Line
<1> DEFINE a == Append(q, x)
           n == Len(q)
<1>1. /\ a \in Seq(Line) /\ Len(a) = n + 1 /\ n \in Nat /\ a[n + 1] = x /\ a # <<>>
      /\ \A i \in 1 .. n : a[i] = q[i] /\ q[i] \in Line
  BY AppendProperties
<1> HIDE DEF a, n
<1>2. PICK g : /\ FlattenSeq(a) = g[n + 1]
               /\ g[1] = a[1]
               /\ \A i \in 2 .. n + 1 : g[i] = g[i - 1] \o a[i]
  <2>1. Len(a) \in Nat \ {0}
    BY <1>1
  <2>2. \E g : /\ FlattenSeq(a) = g[Len(a)]
               /\ g[1] = a[1]
               /\ \A i \in 2 .. Len(a) : g[i] = g[i - 1] \o a[i]
    BY <2>1, FlattenStep
  <2> QED BY <1>1, <2>2
<1>3. CASE q = <<>>
  <2>1. n = 0
    BY <1>3 DEF n
  <2>2. FlattenSeq(a) = x
    BY <1>1, <1>2, <2>1
  <2>3. <<>> \in Line /\ <<>> \o x = x
    BY ConcatEmptySeq DEF Line
  <2> QED BY <1>3, <2>2, <2>3, FlattenNothing DEF a
<1>4. CASE q # <<>>
  <2>1. n \in Nat \ {0}
    BY <1>1, <1>4, EmptySeq DEF n
  <2>2. PICK f : /\ FlattenSeq(q) = f[n]
                 /\ f[1] = q[1]
                 /\ \A i \in 2 .. n : f[i] = f[i - 1] \o q[i]
    BY <2>1, FlattenStep DEF n
  <2> DEFINE I == {m \in Nat : m + 1 <= n => f[m + 1] = g[m + 1]}
  <2>3. 0 \in I
    <3>1. 1 \in 1 .. n
      BY <2>1
    <3> QED BY <1>1, <1>2, <2>2, <3>1
  <2>4. ASSUME NEW m \in I PROVE m + 1 \in I
    <3> DEFINE k == m + 2
    <3>1. m \in Nat /\ (m + 1 <= n => f[m + 1] = g[m + 1])
      BY <2>4
    <3>2. k \in Nat /\ k - 1 = m + 1 /\ m + 1 + 1 = k
      BY <3>1
    <3> HIDE DEF I, k
    <3>3. ASSUME k <= n PROVE f[k] = g[k]
      <4>1. k \in 2 .. n /\ k \in 2 .. n + 1 /\ k \in 1 .. n /\ m + 1 <= n
        BY <2>1, <3>1, <3>2, <3>3
      <4>2. f[k] = f[k - 1] \o q[k]
        BY <2>2, <4>1
      <4>3. g[k] = g[k - 1] \o a[k]
        BY <1>2, <4>1
      <4>4. a[k] = q[k] /\ f[k - 1] = g[k - 1]
        BY <1>1, <3>1, <3>2, <4>1
      <4> QED BY <4>2, <4>3, <4>4
    <3> QED BY <3>1, <3>2, <3>3 DEF I
  <2>5. I = Nat
    <3> HIDE DEF I
    <3>1. I \in SUBSET Nat
      BY DEF I
    <3> QED BY <3>1, <2>3, <2>4, SetInduction
  <2>6. f[n] = g[n]
    <3>1. n - 1 \in Nat /\ n - 1 + 1 = n
      BY <2>1
    <3>2. n - 1 \in I
      BY <2>5, <3>1
    <3> QED BY <2>1, <3>1, <3>2
  <2>7. g[n + 1] = g[n] \o x
    <3> DEFINE k == n + 1
    <3>1. k \in 2 .. n + 1 /\ k - 1 = n
      BY <2>1
    <3> HIDE DEF k
    <3>2. g[k] = g[k - 1] \o a[k]
      BY <1>2, <3>1
    <3>3. g[k] = g[n] \o a[k]
      BY <3>1, <3>2
    <3> QED BY <1>1, <3>3 DEF k
  <2>8. FlattenSeq(q) \in Line
    BY <1>4, FlattenType DEF Line
  <2> QED BY <1>2, <2>2, <2>6, <2>7, <2>8 DEF a
<1> QED BY <1>3, <1>4

\* What strings.Join makes of one line more.
LEMMA JoinAppend ==
  ASSUME NEW q \in Seq(Line), NEW x \in Line
  PROVE  /\ Join(Append(q, x)) = IF q = <<>> THEN x ELSE Append(Join(q), Newline) \o x
         /\ Join(q) \in Line /\ Join(<<>>) = <<>>
<1> DEFINE Piece2(s, i) == IF i = 1 THEN s[i] ELSE <<Newline>> \o s[i]
           m == [i \in DOMAIN q |-> Piece2(q, i)]
           a == Append(q, x)
           e == Piece2(a, Len(q) + 1)
<1>1. /\ a \in Seq(Line) /\ Len(a) = Len(q) + 1 /\ Len(q) \in Nat /\ a[Len(q) + 1] = x
      /\ DOMAIN q = 1 .. Len(q) /\ DOMAIN a = 1 .. Len(q) + 1
      /\ \A i \in 1 .. Len(q) : a[i] = q[i] /\ q[i] \in Line
  BY AppendProperties
<1>2. Newline \in Chars /\ <<Newline>> \in Seq(Chars)
  BY DEF Chars
<1>3. \A y \in Line : <<Newline>> \o y \in Line
  BY <1>2, ConcatProperties DEF Line
<1> HIDE DEF a
<1>4. m \in [1 .. Len(q) -> Line]
  BY <1>1, <1>3
<1>5. m \in Seq(Line) /\ Len(m) = Len(q)
  BY <1>1, <1>4, SeqDef
<1>6. e \in Line
  BY <1>1, <1>3
<1>7. [i \in DOMAIN a |-> Piece2(a, i)] = Append(m, e)
  <2>1. [i \in DOMAIN a |-> Piece2(a, i)] \in [1 .. Len(q) + 1 -> Line]
    <3>1. \A i \in 1 .. Len(q) + 1 : a[i] \in Line
      BY <1>1
    <3> QED BY <1>1, <1>3, <3>1
  <2> DEFINE w == [i \in DOMAIN a |-> Piece2(a, i)]
  <2>2. w \in Seq(Line) /\ Len(w) = Len(q) + 1
    BY <1>1, <2>1, SeqDef
  <2>3. /\ Append(m, e) \in Seq(Line) /\ Len(Append(m, e)) = Len(q) + 1
        /\ Append(m, e)[Len(q) + 1] = e /\ \A i \in 1 .. Len(q) : Append(m, e)[i] = m[i]
    BY <1>5, <1>6, AppendProperties
  <2>4. \A i \in 1 .. Len(q) + 1 : i \in 1 .. Len(q) \/ i = Len(q) + 1
    BY <1>1
  <2>5. \A i \in 1 .. Len(q) : w[i] = m[i]
    BY <1>1
  <2>6. w[Len(q) + 1] = e
    BY <1>1
  <2> HIDE DEF w, m, e
  <2>7. \A i \in 1 .. Len(w) : w[i] = Append(m, e)[i]
    BY <2>2, <2>3, <2>4, <2>5, <2>6
  <2> QED BY <2>2, <2>3, <2>7, SeqEqual DEF w
<1>8. Join(a) = FlattenSeq(Append(m, e)) /\ Join(q) = FlattenSeq(m)
  BY <1>7 DEF Join
<1>9. Join(<<>>) = <<>>
  <2>1. [i \in DOMAIN <<>> |-> Piece2(<<>>, i)] = <<>>
    OBVIOUS
  <2> QED BY <2>1, FlattenNothing DEF Join
<1> HIDE DEF m
<1>10. FlattenSeq(Append(m, e)) = FlattenSeq(m) \o e /\ FlattenSeq(m) \in Line
  BY <1>5, <1>6, FlattenAppend
<1>11. CASE q = <<>>
  <2>1. e = x
    BY <1>1, <1>11
  <2>2. <<>> \o x = x
    BY ConcatEmptySeq DEF Line
  <2> QED BY <1>8, <1>9, <1>10, <1>11, <2>1, <2>2 DEF a
<1>12. CASE q # <<>>
  <2>1. e = <<Newline>> \o x
    <3>1. Len(q) + 1 # 1
      BY <1>1, <1>12, EmptySeq
    <3> QED BY <1>1, <3>1
  <2>2. Join(q) \o (<<Newline>> \o x) = (Join(q) \o <<Newline>>) \o x
    <3> DEFINE j == Join(q)
    <3>1. j \in Seq(Chars) /\ x \in Seq(Chars)
      BY <1>8, <1>10 DEF Line
    <3> HIDE DEF j
    <3>2. j \o (<<Newline>> \o x) = (j \o <<Newline>>) \o x
      BY <1>2, <3>1, ConcatChars
    <3> QED BY <3>2 DEF j
  <2>3. Join(q) \o <<Newline>> = Append(Join(q), Newline)
    BY <1>2, <1>8, <1>10, AppendIsConcat DEF Line
  <2> QED BY <1>8, <1>9, <1>10, <1>12, <2>1, <2>2, <2>3 DEF a
<1> QED BY <1>11, <1>12

-----------------------------------------------------------------------------
(* The filter *)

\* The patterns for which the lines are promised.
Patterns == {"none", "letters"}

\* Without a filter every line matches; the pattern for letters matches all but empty ones.
LEMMA MatchesAre ==
  /\ \A x : MatchString("none", x)
  /\ \A x : MatchString("letters", x) <=> x # <<>>
<1>1. "letters" # "none" /\ "blanks" # "none" /\ "blanks" # "letters"
  OBVIOUS
<1>2. ASSUME NEW x PROVE MatchString("none", x)
  BY <1>1 DEF MatchString
<1>3. ASSUME NEW x PROVE MatchString("letters", x) <=> x # <<>>
  BY <1>1 DEF MatchString
<1> QED BY <1>2, <1>3

\* The lines that match, each with its newline.
Ended(p, x) == IF MatchString(p, x) THEN Append(x, Newline) ELSE <<>>
Closed(p, lines) == FlattenSeq([i \in DOMAIN lines |-> Ended(p, lines[i])])

\* One line more, with its newline.
LEMMA ClosedAppend ==
  ASSUME NEW p, NEW q \in Seq(Line), NEW x \in Line
  PROVE  /\ Closed(p, Append(q, x)) = Closed(p, q) \o Ended(p, x)
         /\ Closed(p, q) \in Line /\ Ended(p, x) \in Line
         /\ Closed(p, <<>>) = <<>>
<1> DEFINE a == Append(q, x)
           m == [i \in DOMAIN q |-> Ended(p, q[i])]
           w == [i \in DOMAIN a |-> Ended(p, a[i])]
           e == Ended(p, x)
<1>1. /\ a \in Seq(Line) /\ Len(a) = Len(q) + 1 /\ Len(q) \in Nat /\ a[Len(q) + 1] = x
      /\ DOMAIN q = 1 .. Len(q) /\ DOMAIN a = 1 .. Len(q) + 1
      /\ \A i \in 1 .. Len(q) : a[i] = q[i] /\ q[i] \in Line
  BY AppendProperties
<1>2. \A y \in Line : Ended(p, y) \in Line
  <2>1. ASSUME NEW y \in Line PROVE Append(y, Newline) \in Line /\ <<>> \in Line
    BY AppendProperties DEF Line, Chars
  <2> QED BY <2>1 DEF Ended
<1> HIDE DEF a
<1>3. m \in [1 .. Len(q) -> Line]
  BY <1>1, <1>2
<1>4. m \in Seq(Line) /\ Len(m) = Len(q)
  BY <1>1, <1>3, SeqDef
<1>5. e \in Line
  BY <1>2
<1>6. \A i \in 1 .. Len(q) + 1 : i \in 1 .. Len(q) \/ i = Len(q) + 1
  BY <1>1
<1>7. \A i \in 1 .. Len(q) + 1 : a[i] \in Line
  BY <1>1, <1>6
<1>8. w \in [1 .. Len(q) + 1 -> Line]
  BY <1>1, <1>2, <1>7
<1>9. w \in Seq(Line) /\ Len(w) = Len(q) + 1
  BY <1>1, <1>8, SeqDef
<1>10. (\A i \in 1 .. Len(q) : w[i] = m[i]) /\ w[Len(q) + 1] = e
  BY <1>1
<1>11. /\ Append(m, e) \in Seq(Line) /\ Len(Append(m, e)) = Len(q) + 1
       /\ Append(m, e)[Len(q) + 1] = e /\ \A i \in 1 .. Len(q) : Append(m, e)[i] = m[i]
  BY <1>4, <1>5, AppendProperties
<1>12. Closed(p, a) = FlattenSeq(w) /\ Closed(p, q) = FlattenSeq(m)
  BY DEF Closed
<1> HIDE DEF w, m, e
<1>13. w = Append(m, e)
  <2>1. \A i \in 1 .. Len(w) : w[i] = Append(m, e)[i]
    BY <1>6, <1>9, <1>10, <1>11
  <2> QED BY <1>9, <1>11, <2>1, SeqEqual
<1>14. FlattenSeq(Append(m, e)) = FlattenSeq(m) \o e /\ FlattenSeq(m) \in Line
  BY <1>4, <1>5, FlattenAppend
<1>15. Closed(p, <<>>) = <<>>
  <2>1. [i \in DOMAIN <<>> |-> Ended(p, <<>>[i])] = <<>>
    OBVIOUS
  <2> QED BY <2>1, FlattenNothing DEF Closed
<1> QED BY <1>5, <1>12, <1>13, <1>14, <1>15 DEF a, e

\* Lines of two pieces, one after the other.
LEMMA ClosedConcat ==
  ASSUME NEW p, NEW q \in Seq(Line)
  PROVE  \A r \in Seq(Line) : Closed(p, q \o r) = Closed(p, q) \o Closed(p, r)
<1> DEFINE I == {r \in Seq(Line) : Closed(p, q \o r) = Closed(p, q) \o Closed(p, r)}
<1>1. <<>> \in Line /\ Closed(p, q) \in Line /\ Closed(p, <<>>) = <<>>
  <2>1. <<>> \in Line
    BY DEF Line
  <2> QED BY <2>1, ClosedAppend
<1>2. <<>> \in I
  <2>1. q \o <<>> = q /\ <<>> \in Seq(Line)
    BY ConcatEmptySeq
  <2>2. Closed(p, q) \o <<>> = Closed(p, q)
    BY <1>1, ConcatEmptySeq DEF Line
  <2> QED BY <1>1, <2>1, <2>2
<1>3. ASSUME NEW r \in I, NEW x \in Line PROVE Append(r, x) \in I
  <2>1. r \in Seq(Line) /\ Closed(p, q \o r) = Closed(p, q) \o Closed(p, r)
    BY <1>3
  <2>2. q \o Append(r, x) = Append(q \o r, x) /\ q \o r \in Seq(Line)
    BY <2>1, AppendConcat
  <2>3. Closed(p, Append(q \o r, x)) = Closed(p, q \o r) \o Ended(p, x)
    BY <2>2, ClosedAppend
  <2>4. Closed(p, Append(r, x)) = Closed(p, r) \o Ended(p, x) /\ Closed(p, r) \in Line
        /\ Ended(p, x) \in Line
    BY <2>1, ClosedAppend
  <2>5. (Closed(p, q) \o Closed(p, r)) \o Ended(p, x) = Closed(p, q) \o (Closed(p, r) \o Ended(p, x))
    <3> DEFINE a == Closed(p, q)
               b == Closed(p, r)
               c == Ended(p, x)
    <3>1. a \in Seq(Chars) /\ b \in Seq(Chars) /\ c \in Seq(Chars)
      BY <1>1, <2>4 DEF Line
    <3> HIDE DEF a, b, c
    <3>2. (a \o b) \o c = a \o (b \o c)
      BY <3>1, ConcatChars
    <3> QED BY <3>2 DEF a, b, c
  <2>6. Append(r, x) \in Seq(Line)
    BY <2>1, AppendEnds
  <2> QED BY <2>1, <2>2, <2>3, <2>4, <2>5, <2>6
<1>4. I = Seq(Line)
  <2> HIDE DEF I
  <2>1. I \in SUBSET Seq(Line)
    BY DEF I
  <2> QED BY <2>1, <1>2, <1>3, SeqInduction
<1> QED BY <1>4

\* What filterOutput selects of one line more.
LEMMA SelectedAppend ==
  ASSUME NEW p, NEW q \in Seq(Line), NEW x \in Line
  PROVE  /\ Selected(Append(q, x), p) =
              IF MatchString(p, x) THEN Append(Selected(q, p), x) ELSE Selected(q, p)
         /\ Selected(q, p) \in Seq(Line)
<1> DEFINE a == Append(q, x)
           n == Len(q)
           T == {i \in DOMAIN q : MatchString(p, q[i])}
           U == {i \in DOMAIN a : MatchString(p, a[i])}
           t == InOrder(T)
<1>1. /\ a \in Seq(Line) /\ n \in Nat /\ a[n + 1] = x
      /\ DOMAIN q = 1 .. n /\ DOMAIN a = 1 .. n + 1
      /\ \A i \in 1 .. n : a[i] = q[i] /\ q[i] \in Line
  BY AppendProperties
<1>2. 1 .. n + 1 = (1 .. n) \cup {n + 1} /\ n + 1 \notin 1 .. n
  BY <1>1
<1>3. T \in SUBSET Nat /\ T \in SUBSET (1 .. n) /\ IsFiniteSet(T) /\ \A i \in T : i < n + 1
  <2>1. IsFiniteSet(1 .. n)
    BY <1>1, FS_Interval
  <2>2. T \in SUBSET (1 .. n) /\ T \in SUBSET Nat /\ \A i \in T : i < n + 1
    BY <1>1
  <2> HIDE DEF T
  <2> QED BY <2>1, <2>2, FS_Subset
<1>4. U = IF MatchString(p, x) THEN T \cup {n + 1} ELSE T
  <2>1. \A i : i \in U <=> i \in 1 .. n + 1 /\ MatchString(p, a[i])
    BY <1>1
  <2>2. \A i : i \in T <=> i \in 1 .. n /\ MatchString(p, a[i])
    BY <1>1
  <2> HIDE DEF a, T, U, n
  <2>3. CASE MatchString(p, x)
    <3>1. \A i : i \in U <=> i \in T \cup {n + 1}
      BY <1>1, <1>2, <2>1, <2>2, <2>3
    <3> QED BY <2>3, <3>1
  <2>4. CASE ~ MatchString(p, x)
    <3>1. \A i : i \in U <=> i \in T
      BY <1>1, <1>2, <2>1, <2>2, <2>4
    <3> QED BY <2>4, <3>1
  <2> QED BY <2>3, <2>4
<1>5. Selected(q, p) = [k \in DOMAIN t |-> q[t[k]]]
  BY DEF Selected
<1>6. Selected(a, p) = [k \in DOMAIN InOrder(U) |-> a[InOrder(U)[k]]]
  BY DEF Selected
<1> HIDE DEF a, T, U, n
<1>7. t \in Seq(T) /\ Len(t) \in Nat /\ DOMAIN t = 1 .. Len(t) /\ \A k \in 1 .. Len(t) : t[k] \in T
  <2>1. t \in Seq(T)
    BY <1>3, InOrderIsSeq
  <2> HIDE DEF t
  <2> QED BY <2>1
<1>8. [k \in DOMAIN t |-> a[t[k]]] = Selected(q, p)
  BY <1>1, <1>3, <1>5, <1>7
<1>9. Selected(q, p) \in Seq(Line) /\ Len(Selected(q, p)) = Len(t)
  <2>1. Selected(q, p) \in [1 .. Len(t) -> Line]
    BY <1>1, <1>3, <1>5, <1>7
  <2> QED BY <1>7, <2>1, SeqDef
<1>10. CASE ~ MatchString(p, x)
  BY <1>4, <1>6, <1>8, <1>9, <1>10 DEF a
<1>11. CASE MatchString(p, x)
  <2> DEFINE u == Append(t, n + 1)
  <2>1. InOrder(U) = u
    BY <1>1, <1>3, <1>4, <1>11, InOrderAppend
  <2> HIDE DEF t
  <2>2. t \in Seq(Nat) /\ n + 1 \in Nat
    <3>1. t \in Seq(T) /\ \A y \in T : y \in Nat
      BY <1>3, <1>7
    <3> QED BY <1>1, <3>1, SeqMonotonic
  <2>3. /\ u \in Seq(Nat) /\ Len(u) = Len(t) + 1 /\ u[Len(t) + 1] = n + 1
        /\ \A k \in 1 .. Len(t) : u[k] = t[k]
    BY <2>2, AppendProperties
  <2> HIDE DEF u
  <2>4. DOMAIN u = 1 .. Len(t) + 1 /\ \A k \in 1 .. Len(t) + 1 : k \in 1 .. Len(t) \/ k = Len(t) + 1
    BY <1>7, <2>3
  <2> DEFINE w == [k \in DOMAIN u |-> a[u[k]]]
             v == Append(Selected(q, p), x)
  <2>5. \A k \in 1 .. Len(t) : w[k] = Selected(q, p)[k]
    <3>1. \A k \in 1 .. Len(t) : k \in 1 .. Len(t) + 1
      BY <1>7
    <3>2. \A k \in 1 .. Len(t) : Selected(q, p)[k] = a[t[k]]
      BY <1>7, <1>8
    <3> QED BY <2>3, <2>4, <3>1, <3>2
  <2>6. w[Len(t) + 1] = x
    <3>1. Len(t) + 1 \in 1 .. Len(t) + 1
      BY <1>7
    <3> QED BY <1>1, <2>3, <2>4, <3>1
  <2>7. /\ v \in Seq(Line) /\ Len(v) = Len(t) + 1 /\ v[Len(t) + 1] = x
        /\ \A k \in 1 .. Len(t) : v[k] = Selected(q, p)[k]
    BY <1>9, AppendProperties
  <2>8. w = [k \in 1 .. Len(t) + 1 |-> a[u[k]]]
    BY <2>4
  <2> HIDE DEF w, v
  <2>9. \A k \in 1 .. Len(t) + 1 : w[k] = v[k]
    BY <2>4, <2>5, <2>6, <2>7
  <2>10. w \in Seq(Line) /\ Len(w) = Len(t) + 1
    <3>1. \A k \in 1 .. Len(t) + 1 : v[k] \in Line
      BY <2>7
    <3>2. w \in [1 .. Len(t) + 1 -> Line]
      BY <2>8, <2>9, <3>1
    <3> QED BY <1>7, <3>2, SeqDef
  <2>11. w = v
    BY <2>7, <2>9, <2>10, SeqEqual
  <2> QED BY <1>6, <1>9, <1>11, <2>1, <2>11 DEF w, v, a
<1> QED BY <1>10, <1>11

\* Only lines that match are selected.
LEMMA SelectedMatch ==
  ASSUME NEW p, NEW q \in Seq(Line), NEW k \in 1 .. Len(Selected(q, p))
  PROVE  MatchString(p, Selected(q, p)[k])
<1> DEFINE T == {i \in DOMAIN q : MatchString(p, q[i])}
           t == InOrder(T)
<1>1. T \in SUBSET Nat /\ IsFiniteSet(T)
  <2>1. DOMAIN q = 1 .. Len(q) /\ Len(q) \in Nat
    OBVIOUS
  <2>2. IsFiniteSet(1 .. Len(q))
    BY <2>1, FS_Interval
  <2>3. T \in SUBSET (1 .. Len(q)) /\ T \in SUBSET Nat
    BY <2>1
  <2> HIDE DEF T
  <2> QED BY <2>2, <2>3, FS_Subset
<1>2. \A i \in T : MatchString(p, q[i])
  OBVIOUS
<1>3. Selected(q, p) = [m \in DOMAIN t |-> q[t[m]]]
  BY DEF Selected
<1> HIDE DEF T
<1>4. t \in Seq(T)
  BY <1>1, InOrderIsSeq
<1> HIDE DEF t
<1>5. DOMAIN t = 1 .. Len(t) /\ Len(t) \in Nat /\ \A m \in 1 .. Len(t) : t[m] \in T
  BY <1>4
<1>6. Len(Selected(q, p)) = Len(t)
  BY <1>3, <1>5
<1> QED BY <1>2, <1>3, <1>5, <1>6

\* Joined, what was selected is what matches, but for the newline at the end.
LEMMA SelectedIsClosed ==
  ASSUME NEW p
  PROVE  \A q \in Seq(Line) :
           Closed(p, q) = IF Selected(q, p) = <<>> THEN <<>> ELSE Append(Join(Selected(q, p)), Newline)
<1> DEFINE Right(q) ==
             Closed(p, q) = IF Selected(q, p) = <<>> THEN <<>> ELSE Append(Join(Selected(q, p)), Newline)
           I == {q \in Seq(Line) : Right(q)}
<1>1. <<>> \in Line /\ <<>> \in Seq(Line) /\ Newline \in Chars
  BY DEF Line, Chars
<1>2. Closed(p, <<>>) = <<>>
  BY <1>1, ClosedAppend
<1>3. Selected(<<>>, p) = <<>>
  <2>1. {i \in DOMAIN <<>> : MatchString(p, <<>>[i])} = {}
    OBVIOUS
  <2>2. Selected(<<>>, p) = [k \in DOMAIN <<>> |-> <<>>[<<>>[k]]]
    BY <2>1, NothingInOrder DEF Selected
  <2> QED BY <2>2
<1>4. <<>> \in I
  BY <1>1, <1>2, <1>3
<1>5. ASSUME NEW q \in I, NEW x \in Line PROVE Append(q, x) \in I
  <2> DEFINE s == Selected(q, p)
             j == Join(s)
             a == Append(q, x)
  <2>1. q \in Seq(Line) /\ Closed(p, q) = IF s = <<>> THEN <<>> ELSE Append(j, Newline)
    BY <1>5
  <2>2. s \in Seq(Line) /\ Selected(a, p) = IF MatchString(p, x) THEN Append(s, x) ELSE s
    BY <2>1, SelectedAppend
  <2>3. Closed(p, a) = Closed(p, q) \o Ended(p, x) /\ Closed(p, q) \in Line
    BY <2>1, ClosedAppend
  <2>4. a \in Seq(Line)
    BY <2>1, AppendEnds
  <2> HIDE DEF a, s
  <2>5. j \in Line /\ Join(Append(s, x)) = IF s = <<>> THEN x ELSE Append(j, Newline) \o x
    BY <2>2, JoinAppend
  <2>6. Append(s, x) # <<>>
    BY <2>2, AppendEnds
  <2> HIDE DEF j
  <2>7. ASSUME ~ MatchString(p, x) PROVE Right(a)
    <3>1. Closed(p, a) = Closed(p, q)
      BY <2>3, <2>7, ConcatEmptySeq DEF Ended, Line
    <3>2. Selected(a, p) = s
      BY <2>2, <2>7
    <3>3. Closed(p, a) = IF s = <<>> THEN <<>> ELSE Append(Join(s), Newline)
      BY <2>1, <3>1 DEF j
    <3> QED BY <3>2, <3>3
  <2>8. ASSUME MatchString(p, x) PROVE Right(a)
    <3>1. Closed(p, a) = Closed(p, q) \o Append(x, Newline)
      BY <2>3, <2>8 DEF Ended
    <3>2. Closed(p, q) \o Append(x, Newline) = Append(Closed(p, q) \o x, Newline)
      BY <1>1, <2>3, AppendConcat DEF Line
    <3>3. Closed(p, q) \o x = Join(Append(s, x))
      <4>1. <<>> \o x = x
        BY ConcatEmptySeq DEF Line
      <4> QED BY <2>1, <2>5, <4>1
    <3>4. Selected(a, p) = Append(s, x)
      BY <2>2, <2>8
    <3>5. Closed(p, a) = Append(Join(Append(s, x)), Newline)
      BY <3>1, <3>2, <3>3
    <3> QED BY <2>6, <3>4, <3>5
  <2>9. a \in I
    BY <2>4, <2>7, <2>8
  <2> QED BY <2>9 DEF a
<1>6. I = Seq(Line)
  <2> HIDE DEF I
  <2>1. I \in SUBSET Seq(Line)
    BY DEF I
  <2> QED BY <2>1, <1>4, <1>5, SeqInduction
<1> QED BY <1>6

\* What filterOutput should make of a text: the lines that match, the last with
\* no newline if it has none.
Matched(p, s) == Closed(p, Front(Split(s))) \o Last(Split(s))

\* Behind a newline a line begins.
LEMMA EndedLine ==
  ASSUME NEW s \in Seq(Chars), s # <<>>
  PROVE  /\ EndsLine(s) <=> Last(Split(s)) = <<>>
         /\ EndsLine(s) => Front(Split(s)) # <<>>
<1> DEFINE r == Front(s)
           c == Last(s)
<1>1. r \in Seq(Chars) /\ c \in Chars /\ s = Append(r, c)
  BY EndsAppend
<1>2. s[Len(s)] = c
  BY DEF Last
<1> HIDE DEF r, c
<1>3. Split(s) = Longer(Split(r), c)
  BY <1>1, SplitAppend
<1>4. Split(r) \in Seq(Line) /\ Split(r) # <<>> /\ Last(Split(r)) \in Line
  BY <1>1, SplitEnds
<1>5. CASE c = Newline
  <2>1. Front(Split(s)) = Split(r) /\ Last(Split(s)) = <<>>
    BY <1>1, <1>3, <1>4, <1>5, LongerEnds
  <2> QED BY <1>2, <1>4, <1>5, <2>1 DEF EndsLine
<1>6. CASE c # Newline
  <2>1. Last(Split(s)) = Append(Last(Split(r)), c)
    BY <1>1, <1>3, <1>4, <1>6, LongerEnds
  <2>2. Append(Last(Split(r)), c) # <<>>
    BY <1>1, <1>4, AppendEnds DEF Line
  <2> QED BY <1>2, <1>6, <2>1, <2>2 DEF EndsLine
<1> QED BY <1>5, <1>6

\* Nothing filtered is everything.
LEMMA AllIsMatched == \A s \in Seq(Chars) : Matched("none", s) = s
<1> DEFINE I == {s \in Seq(Chars) : Matched("none", s) = s}
<1>1. <<>> \in I
  <2>1. Front(<<<<>>>>) = <<>> /\ Last(<<<<>>>>) = <<>>
    <3>1. <<<<>>>> = Append(<<>>, <<>>) /\ <<>> \in Line /\ <<>> \in Seq(Line)
      BY DEF Line
    <3> QED BY <3>1, AppendEnds
  <2>2. <<>> \in Line /\ Closed("none", <<>>) = <<>>
    <3>1. <<>> \in Line /\ <<>> \in Seq(Line)
      BY DEF Line
    <3> QED BY <3>1, ClosedAppend
  <2>3. Matched("none", <<>>) = <<>> \o <<>>
    BY <2>1, <2>2, SplitNothing DEF Matched
  <2> QED BY <2>3
<1>2. ASSUME NEW s \in I, NEW c \in Chars PROVE Append(s, c) \in I
  <2> DEFINE t == Append(s, c)
             f == Front(Split(s))
             l == Last(Split(s))
  <2>1. s \in Seq(Chars) /\ Closed("none", f) \o l = s
    BY <1>2 DEF Matched
  <2>2. t \in Seq(Chars) /\ Split(t) = Longer(Split(s), c)
    BY <2>1, AppendEnds, SplitAppend
  <2>3. /\ Split(s) \in Seq(Line) /\ Split(s) # <<>> /\ f \in Seq(Line) /\ l \in Line
        /\ Split(s) = Append(f, l)
    BY <2>1, SplitEnds
  <2> HIDE DEF f, l, t
  <2>4. Closed("none", f) \in Line /\ Closed("none", Append(f, l)) = Closed("none", f) \o Append(l, Newline)
    BY <2>3, ClosedAppend, MatchesAre DEF Ended
  <2>5. ASSUME NEW d \in Chars PROVE Closed("none", f) \o Append(l, d) = Append(s, d)
    <3> DEFINE g == Closed("none", f)
    <3>1. g \in Seq(Chars) /\ l \in Seq(Chars)
      BY <2>3, <2>4 DEF Line
    <3>2. g \o l = s
      BY <2>1 DEF f, l
    <3> HIDE DEF g
    <3>3. g \o Append(l, d) = Append(g \o l, d)
      BY <3>1, AppendConcat
    <3> QED BY <3>2, <3>3 DEF g
  <2>6. CASE c = Newline
    <3>1. Front(Split(t)) = Split(s) /\ Last(Split(t)) = <<>>
      <4>1. c \in Chars /\ Split(s) \in Seq(Line) /\ Split(s) # <<>>
        BY <2>3
      <4>2. Front(Longer(Split(s), c)) = Split(s) /\ Last(Longer(Split(s), c)) = <<>>
        BY <2>6, <4>1, LongerEnds
      <4> QED BY <2>2, <4>2
    <3>2. Matched("none", t) = Append(s, c) \o <<>>
      BY <2>3, <2>4, <2>5, <2>6, <3>1 DEF Matched
    <3> QED BY <2>2, <3>2, ConcatEmptySeq DEF t
  <2>7. CASE c # Newline
    <3>1. Front(Split(t)) = f /\ Last(Split(t)) = Append(l, c)
      BY <2>2, <2>3, <2>7, LongerEnds DEF f, l
    <3> QED BY <2>2, <2>5, <3>1 DEF Matched, t
  <2> QED BY <2>6, <2>7 DEF t
<1>3. I = Seq(Chars)
  <2> HIDE DEF I
  <2>1. I \in SUBSET Seq(Chars)
    BY DEF I
  <2> QED BY <2>1, <1>1, <1>2, SeqInduction
<1> QED BY <1>3

\* filterOutput makes what it should.
LEMMA FilterIsRight ==
  ASSUME NEW p \in Patterns, NEW s \in Seq(Chars) PROVE FilterOutput(s, p) = Matched(p, s)
<1> DEFINE f == Front(Split(s))
           l == Last(Split(s))
           r == Selected(f, p)
           all == Selected(Split(s), p)
           result == Join(all)
<1>1. CASE p = "none"
  BY <1>1, AllIsMatched DEF FilterOutput
<1>2. CASE p = "letters"
  <2>1. f \in Seq(Line) /\ l \in Line /\ Split(s) = Append(f, l)
    BY SplitEnds
  <2>2. FilterOutput(s, p) = IF EndsLine(s) /\ result # <<>> THEN Append(result, Newline) ELSE result
    BY <1>2 DEF FilterOutput
  <2>3. Matched(p, s) = Closed(p, f) \o l
    BY DEF Matched
  <2>4. Closed(p, f) = IF r = <<>> THEN <<>> ELSE Append(Join(r), Newline)
    BY <2>1, SelectedIsClosed
  <2>5. r \in Seq(Line) /\ all = IF l # <<>> THEN Append(r, l) ELSE r
    <3> HIDE DEF f, l
    <3>1. /\ Selected(Append(f, l), p) = IF MatchString(p, l) THEN Append(r, l) ELSE r
          /\ r \in Seq(Line)
      BY <2>1, SelectedAppend
    <3>2. MatchString(p, l) <=> l # <<>>
      BY <1>2, MatchesAre
    <3> QED BY <2>1, <3>1, <3>2
  <2>6. Closed(p, f) \in Line
    BY <2>1, ClosedAppend
  <2>7. s # <<>> => (EndsLine(s) <=> l = <<>>) /\ (EndsLine(s) => f # <<>>)
    BY EndedLine
  <2>8. s = <<>> => ~ EndsLine(s)
    BY DEF EndsLine
  <2>9. s = <<>> => f = <<>> /\ l = <<>>
    <3>1. Front(<<<<>>>>) = <<>> /\ Last(<<<<>>>>) = <<>>
      <4>1. <<<<>>>> = Append(<<>>, <<>>) /\ <<>> \in Line /\ <<>> \in Seq(Line)
        BY DEF Line
      <4> QED BY <4>1, AppendEnds
    <3> QED BY <3>1, SplitNothing
  <2>10. f = <<>> => r = <<>>
    <3>1. {i \in DOMAIN <<>> : MatchString(p, <<>>[i])} = {}
      OBVIOUS
    <3>2. Selected(<<>>, p) = [k \in DOMAIN <<>> |-> <<>>[<<>>[k]]]
      BY <3>1, NothingInOrder DEF Selected
    <3>3. Selected(<<>>, p) = <<>>
      BY <3>2
    <3> QED BY <3>3
  <2>11. Join(<<>>) = <<>> /\ Join(r) \in Line
         /\ Join(Append(r, l)) = IF r = <<>> THEN l ELSE Append(Join(r), Newline) \o l
    BY <2>1, <2>5, JoinAppend
  <2> HIDE DEF f, l, r, all
  <2>12. CASE l # <<>>
    <3>1. result = Closed(p, f) \o l
      <4>1. <<>> \o l = l
        BY <2>1, ConcatEmptySeq DEF Line
      <4> QED BY <2>4, <2>5, <2>11, <2>12, <4>1
    <3>2. ~ EndsLine(s)
      BY <2>7, <2>8, <2>12
    <3> QED BY <2>2, <2>3, <3>1, <3>2
  <2>13. CASE l = <<>>
    <3>1. result = Join(r)
      BY <2>5, <2>13
    <3>2. Matched(p, s) = Closed(p, f)
      BY <2>3, <2>6, <2>13, ConcatEmptySeq DEF Line
    <3>3. CASE r = <<>>
      BY <2>2, <2>4, <2>11, <3>1, <3>2, <3>3
    <3>4. CASE r # <<>>
      <4>1. EndsLine(s)
        BY <2>7, <2>9, <2>10, <2>13, <3>4
      <4>2. Join(r) # <<>>
        <5> DEFINE q == Front(r)
                   x == Last(r)
        <5>1. q \in Seq(Line) /\ x \in Line /\ r = Append(q, x)
          BY <2>5, <3>4, EndsAppend
        <5>2. Join(r) = IF q = <<>> THEN x ELSE Append(Join(q), Newline) \o x
          BY <5>1, JoinAppend
        <5>3. x # <<>>
          <6>1. x = r[Len(r)] /\ Len(r) \in 1 .. Len(r)
            BY <2>5, <3>4, EndsAppend DEF Last
          <6>2. MatchString(p, r[Len(r)])
            BY <2>1, <6>1, SelectedMatch DEF r
          <6> QED BY <1>2, <6>1, <6>2, MatchesAre
        <5> HIDE DEF q, x
        <5>4. Join(q) \in Line
          BY <5>1, JoinAppend
        <5>5. Append(Join(q), Newline) \in Line
          BY <5>4, AppendEnds DEF Line, Chars
        <5>6. Append(Join(q), Newline) \o x # <<>>
          BY <5>1, <5>3, <5>5, EmptySeq DEF Line
        <5> QED BY <5>2, <5>3, <5>6
      <4> QED BY <2>2, <2>4, <3>1, <3>2, <3>4, <4>1, <4>2
    <3> QED BY <3>3, <3>4
  <2> QED BY <2>12, <2>13
<1> QED BY <1>1, <1>2 DEF Patterns

\* Filtered in pieces that are whole lines, a text is filtered as one.
LEMMA MatchedConcat ==
  ASSUME NEW p, NEW s \in Seq(Chars), s = <<>> \/ EndsLine(s), NEW t \in Seq(Chars)
  PROVE  Matched(p, s \o t) = Matched(p, s) \o Matched(p, t)
<1> DEFINE f == Front(Split(s))
           g == Front(Split(t))
           l == Last(Split(t))
<1>1. f \in Seq(Line) /\ g \in Seq(Line) /\ l \in Line /\ Split(t) = Append(g, l)
  BY SplitEnds
<1>2. Last(Split(s)) = <<>>
  <2>1. Last(<<<<>>>>) = <<>>
    BY DEF Last
  <2> QED BY <2>1, SplitNothing, EndedLine
<1>3. Split(s \o t) = f \o Split(t)
  <2>1. <<>> \o t = t
    BY ConcatEmptySeq
  <2>2. Split(s \o t) = f \o Split(Last(Split(s)) \o t)
    BY SplitConcat
  <2> QED BY <1>2, <2>1, <2>2
<1>4. Matched(p, s) = Closed(p, f) \o <<>> /\ Matched(p, t) = Closed(p, g) \o l
  BY <1>2 DEF Matched
<1> HIDE DEF f, g, l
<1>5. Split(s \o t) = Append(f \o g, l) /\ f \o g \in Seq(Line)
  BY <1>1, <1>3, AppendConcat
<1>6. Front(Append(f \o g, l)) = f \o g /\ Last(Append(f \o g, l)) = l
  <2> DEFINE h == f \o g
  <2>1. h \in Seq(Line)
    BY <1>5
  <2> HIDE DEF h
  <2>2. Front(Append(h, l)) = h /\ Last(Append(h, l)) = l
    BY <1>1, <2>1, AppendEnds
  <2> QED BY <2>2 DEF h
<1>7. Matched(p, s \o t) = Closed(p, f \o g) \o l
  BY <1>5, <1>6 DEF Matched
<1>8. Closed(p, f \o g) = Closed(p, f) \o Closed(p, g)
  BY <1>1, ClosedConcat
<1> DEFINE a == Closed(p, f)
           b == Closed(p, g)
<1>9. a \in Seq(Chars) /\ b \in Seq(Chars) /\ l \in Seq(Chars)
  BY <1>1, ClosedAppend DEF Line
<1>10. Matched(p, s) = a /\ Matched(p, t) = b \o l /\ Matched(p, s \o t) = (a \o b) \o l
  BY <1>4, <1>7, <1>8, <1>9, ConcatEmptySeq
<1> HIDE DEF a, b
<1>11. (a \o b) \o l = a \o (b \o l)
  BY <1>9, ConcatChars
<1> QED BY <1>10, <1>11

\* What the property says of a text is what the filter makes of it as one.
LEMMA MatchingIsMatched ==
  ASSUME content \in Seq(Chars), args.pattern \in Patterns
  PROVE  Matching = Matched(args.pattern, content)
<1> DEFINE p == args.pattern
           f == Front(Lines)
           l == Last(Lines)
           n == Len(f)
           End(k) == IF k < Len(Lines) THEN Append(Lines[k], Newline) ELSE Lines[k]
           Chosen(k) == MatchString(p, Lines[k]) /\ End(k) # <<>>
           w == [k \in DOMAIN Lines |-> IF Chosen(k) THEN End(k) ELSE <<>>]
           m == [k \in DOMAIN f |-> Ended(p, f[k])]
<1>1. Matching = FlattenSeq(w) /\ Closed(p, f) = FlattenSeq(m)
  BY DEF Matching, Closed
<1>2. Lines \in Seq(Line) /\ f \in Seq(Line) /\ l \in Line /\ Lines = Append(f, l)
  BY SplitEnds DEF Lines
<1>3. Matched(p, content) = Closed(p, f) \o l
  BY DEF Matched, Lines
<1> HIDE DEF f, l
<1>4. /\ n \in Nat /\ Len(Lines) = n + 1 /\ DOMAIN Lines = 1 .. n + 1 /\ DOMAIN f = 1 .. n
      /\ Lines[n + 1] = l /\ \A k \in 1 .. n : Lines[k] = f[k] /\ f[k] \in Line
  BY <1>2, AppendProperties
<1> HIDE DEF n
<1>5. \A x \in Line : Append(x, Newline) \in Line /\ Append(x, Newline) # <<>> /\ <<>> \in Line
  BY AppendEnds DEF Line, Chars
<1>6. \A x \in Line : Ended(p, x) \in Line
  BY <1>5 DEF Ended
<1>7. m \in Seq(Line) /\ Len(m) = n
  <2>1. m \in [1 .. n -> Line]
    BY <1>4, <1>6
  <2> QED BY <1>4, <2>1, SeqDef
<1>8. ASSUME NEW k \in 1 .. n PROVE w[k] = m[k]
  <2>1. k \in 1 .. n + 1 /\ k < n + 1
    BY <1>4
  <2>2. End(k) = Append(f[k], Newline) /\ End(k) # <<>>
    BY <1>4, <1>5, <2>1
  <2>3. w[k] = IF MatchString(p, f[k]) THEN Append(f[k], Newline) ELSE <<>>
    BY <1>4, <2>1, <2>2
  <2> QED BY <1>4, <2>3 DEF Ended
<1>9. w[n + 1] = l
  <2>1. n + 1 \in 1 .. n + 1 /\ ~ (n + 1 < n + 1)
    BY <1>4
  <2>2. End(n + 1) = l
    BY <1>4, <2>1
  <2>3. l # <<>> => MatchString(p, l)
    BY MatchesAre DEF Patterns
  <2> QED BY <1>4, <2>1, <2>2, <2>3
<1>10. /\ Append(m, l) \in Seq(Line) /\ Len(Append(m, l)) = n + 1
       /\ Append(m, l)[n + 1] = l /\ \A k \in 1 .. n : Append(m, l)[k] = m[k]
  BY <1>2, <1>7, AppendProperties
<1>11. \A k \in 1 .. n + 1 : k \in 1 .. n \/ k = n + 1
  BY <1>4
<1>12. w = [k \in 1 .. n + 1 |-> w[k]]
  BY <1>4
<1> HIDE DEF w, m
<1>13. \A k \in 1 .. n + 1 : w[k] = Append(m, l)[k]
  BY <1>8, <1>9, <1>10, <1>11
<1>14. w \in Seq(Line) /\ Len(w) = n + 1
  <2>1. \A k \in 1 .. n + 1 : Append(m, l)[k] \in Line
    BY <1>10
  <2>2. w \in [1 .. n + 1 -> Line]
    BY <1>12, <1>13, <2>1
  <2> QED BY <1>4, <2>2, SeqDef
<1>15. w = Append(m, l)
  BY <1>10, <1>13, <1>14, SeqEqual
<1>16. FlattenSeq(Append(m, l)) = FlattenSeq(m) \o l
  BY <1>2, <1>7, FlattenAppend
<1> QED BY <1>1, <1>3, <1>15, <1>16

-----------------------------------------------------------------------------
(* Lines stay whole *)

\* Of the text that has arrived, the log has the lines that ended, and holds the
\* last one back; the filter has shown those that match, if it ends with a line.
Prefix == SubSeq(content, 1, at)

LogInv ==
  tool = "log" =>
    /\ at \in 0 .. Len(content) /\ shown \in Seq(Line) /\ buf \in Line
    /\ outcome = "none" => Append(shown, buf) = Split(Prefix)
    /\ outcome = "text" => shown = IF Last(Lines) = <<>> THEN Front(Lines) ELSE Lines

FilterInv ==
  tool = "filter" =>
    /\ at \in 0 .. Len(content) /\ args.pattern \in Patterns \cup {"blanks"}
    /\ args.pattern # "blanks" /\ whole =>
         /\ outcome = "none" => /\ Prefix = <<>> \/ EndsLine(Prefix)
                                /\ shown = Matched(args.pattern, Prefix)
         /\ outcome = "text" => shown = Matched(args.pattern, content)

LinesInv == Texted /\ LogInv /\ FilterInv

\* The text that has arrived, and the piece that comes now.
LEMMA PiecesJoin ==
  ASSUME content \in Seq(Chars), at \in 0 .. Len(content), NEW k \in at .. Len(content)
  PROVE  /\ Prefix \in Seq(Chars) /\ Piece(k) \in Seq(Chars)
         /\ SubSeq(content, 1, k) = Prefix \o Piece(k)
         /\ SubSeq(content, 1, Len(content)) = content
<1>1. Len(content) \in Nat /\ at \in Nat /\ k \in Nat /\ at <= k /\ k <= Len(content)
  OBVIOUS
<1>2. SubSeq(content, 1, at) \o SubSeq(content, at + 1, k) = SubSeq(content, 1, k)
  BY <1>1, ConcatAdjacentSubSeq
<1>3. SubSeq(content, 1, at) \in Seq(Chars) /\ SubSeq(content, at + 1, k) \in Seq(Chars)
  BY <1>1
<1>4. SubSeq(content, 1, Len(content)) = content
  BY SubSeqFull
<1> QED BY <1>2, <1>3, <1>4 DEF Prefix, Piece

\* One write of the command to its log.
LEMMA LogStep ==
  ASSUME LinesInv, NEW k \in at .. Len(content), Logs(k) PROVE LogInv'
<1> DEFINE lines == Split(buf \o Piece(k))
           f == Front(lines)
           l == Last(lines)
           goal == Split(SubSeq(content, 1, k))
<1>1. /\ content \in Seq(Chars) /\ tool = "log" /\ outcome = "none" /\ content' = content /\ tool' = tool
      /\ at \in 0 .. Len(content) /\ shown \in Seq(Line) /\ buf \in Line
      /\ Append(shown, buf) = Split(Prefix)
      /\ at' = k /\ outcome' = IF k = Len(content) THEN "text" ELSE "none"
  BY DEF LinesInv, Texted, LogInv, Logs, Takes, vars
<1>2. /\ shown' = IF k = Len(content) /\ l # <<>> THEN shown \o lines ELSE shown \o f
      /\ buf' = IF k = Len(content) THEN <<>> ELSE l
  BY DEF Logs
<1>3. /\ Prefix \in Seq(Chars) /\ Piece(k) \in Seq(Chars)
      /\ SubSeq(content, 1, k) = Prefix \o Piece(k) /\ SubSeq(content, 1, Len(content)) = content
  BY <1>1, PiecesJoin
<1>4. Front(Split(Prefix)) = shown /\ Last(Split(Prefix)) = buf
  BY <1>1, AppendEnds
<1>5. goal = shown \o lines
  BY <1>3, <1>4, SplitConcat
<1>6. buf \o Piece(k) \in Seq(Chars)
  BY <1>1, <1>3, ConcatProperties DEF Line
<1>7. lines \in Seq(Line) /\ lines = Append(f, l) /\ f \in Seq(Line) /\ l \in Line
  BY <1>6, SplitEnds
<1> HIDE DEF lines, f, l, goal
<1>8. shown \o lines = Append(shown \o f, l) /\ shown \o f \in Seq(Line) /\ shown \o lines \in Seq(Line)
  BY <1>1, <1>7, AppendConcat
<1>9. shown' \in Seq(Line) /\ buf' \in Line /\ at' \in 0 .. Len(content)
  BY <1>1, <1>2, <1>7, <1>8 DEF Line
<1>10. outcome' = "none" => Append(shown', buf') = Split(Prefix')
  BY <1>1, <1>2, <1>5, <1>8 DEF Prefix, goal
<1>11. outcome' = "text" => shown' = IF Last(Lines') = <<>> THEN Front(Lines') ELSE Lines'
  <2> SUFFICES ASSUME k = Len(content)
               PROVE  shown' = IF Last(Lines') = <<>> THEN Front(Lines') ELSE Lines'
    BY <1>1
  <2>1. Lines' = shown \o lines
    BY <1>1, <1>3, <1>5 DEF Lines, goal
  <2> DEFINE g == shown \o f
  <2>2. g \in Seq(Line) /\ Lines' = Append(g, l)
    BY <1>8, <2>1
  <2> HIDE DEF g
  <2>3. Front(Lines') = g /\ Last(Lines') = l
    BY <1>7, <2>2, AppendEnds
  <2> QED BY <1>2, <2>1, <2>3 DEF g
<1> QED BY <1>1, <1>9, <1>10, <1>11 DEF LogInv

\* One call that reads filtered output.
LEMMA FilterStep ==
  ASSUME LinesInv, NEW k \in at .. Len(content), Filters(k) PROVE FilterInv'
<1> DEFINE p == args.pattern
           piece == Piece(k)
<1>1. /\ content \in Seq(Chars) /\ tool = "filter" /\ outcome = "none"
      /\ content' = content /\ tool' = tool /\ args' = args
      /\ at \in 0 .. Len(content) /\ p \in Patterns \cup {"blanks"}
      /\ at' = k /\ outcome' = IF k = Len(content) THEN "text" ELSE "none"
      /\ whole' = (whole /\ (k = Len(content) \/ content[k] = Newline))
      /\ k > at \/ k = Len(content)
      /\ shown' = shown \o FilterOutput(piece, p)
  BY DEF LinesInv, Texted, FilterInv, Filters, Takes, vars
<1>2. at' \in 0 .. Len(content)
  BY <1>1
<1>3. ASSUME p # "blanks", whole'
      PROVE  /\ outcome' = "none" => /\ Prefix' = <<>> \/ EndsLine(Prefix')
                                     /\ shown' = Matched(p, Prefix')
             /\ outcome' = "text" => shown' = Matched(p, content)
  <2>1. p \in Patterns /\ whole
    BY <1>1, <1>3
  <2>2. (Prefix = <<>> \/ EndsLine(Prefix)) /\ shown = Matched(p, Prefix)
    BY <1>1, <2>1, <1>3 DEF LinesInv, FilterInv
  <2>3. /\ Prefix \in Seq(Chars) /\ piece \in Seq(Chars)
        /\ SubSeq(content, 1, k) = Prefix \o piece /\ SubSeq(content, 1, Len(content)) = content
    BY <1>1, PiecesJoin
  <2>4. FilterOutput(piece, p) = Matched(p, piece)
    BY <2>1, <2>3, FilterIsRight
  <2>5. Matched(p, Prefix \o piece) = Matched(p, Prefix) \o Matched(p, piece)
    BY <2>2, <2>3, MatchedConcat
  <2>6. shown' = Matched(p, SubSeq(content, 1, k))
    BY <1>1, <2>2, <2>3, <2>4, <2>5
  <2>7. Prefix' = SubSeq(content, 1, k)
    BY <1>1 DEF Prefix
  <2>8. outcome' = "none" => EndsLine(Prefix')
    <3> SUFFICES ASSUME k # Len(content) PROVE EndsLine(Prefix')
      BY <1>1
    <3>1. k \in 1 .. Len(content) /\ content[k] = Newline
      <4>1. k = Len(content) \/ content[k] = Newline
        BY <1>1, <1>3, Zenon
      <4>2. k > at /\ at \in Nat /\ k \in at .. Len(content)
        BY <1>1
      <4> QED BY <4>1, <4>2
    <3> DEFINE x == SubSeq(content, 1, k)
    <3>2. x \in Seq(Chars) /\ Len(x) = k /\ x[k] = content[k]
      BY <1>1, <3>1
    <3> HIDE DEF x
    <3>3. x # <<>> /\ x[Len(x)] = Newline
      BY <3>1, <3>2
    <3> QED BY <2>7, <3>3 DEF EndsLine, x
  <2> QED BY <1>1, <2>3, <2>6, <2>7, <2>8
<1> QED BY <1>1, <1>2, <1>3 DEF FilterInv

\* Before anything has arrived.
LEMMA InitLines == TextInit => LinesInv
<1> SUFFICES ASSUME TextInit PROVE LinesInv
  OBVIOUS
<1>1. Texted
  BY InitTexted
<1>2. /\ at = 0 /\ shown = <<>> /\ buf = <<>> /\ outcome = "none" /\ args \in Args(tool)
      /\ Len(content) \in Nat
  BY <1>1 DEF TextInit, Texted
<1>3. Prefix = <<>>
  BY <1>2, SubSeqEmpty DEF Prefix
<1>4. <<>> \in Line /\ <<>> \in Seq(Line) /\ Append(<<>>, <<>>) = <<<<>>>>
  BY DEF Line
<1>5. LogInv
  BY <1>2, <1>3, <1>4, SplitNothing DEF LogInv
<1>6. tool = "filter" => args.pattern \in Patterns \cup {"blanks"}
  BY <1>2 DEF Args, Patterns
<1>7. ASSUME NEW p PROVE Matched(p, <<>>) = <<>>
  <2>1. Front(<<<<>>>>) = <<>> /\ Last(<<<<>>>>) = <<>>
    BY <1>4, AppendEnds
  <2>2. Closed(p, <<>>) = <<>>
    BY <1>4, ClosedAppend
  <2>3. Matched(p, <<>>) = <<>> \o <<>>
    BY <2>1, <2>2, SplitNothing DEF Matched
  <2> QED BY <2>3
<1>8. FilterInv
  BY <1>2, <1>3, <1>6, <1>7 DEF FilterInv
<1> QED BY <1>1, <1>5, <1>8 DEF LinesInv

\* Every step of every tool keeps what is known about lines.
LEMMA StepLines == LinesInv /\ [TextNext]_<<vars, toolVars>> => LinesInv'
<1> SUFFICES ASSUME LinesInv, [TextNext]_<<vars, toolVars>> PROVE LinesInv'
  OBVIOUS
<1>1. Texted'
  BY StepTexted DEF LinesInv
<1>2. ASSUME NEW k \in at .. Len(content), Filters(k) PROVE LogInv' /\ FilterInv'
  BY <1>2, FilterStep DEF Filters, LogInv
<1>3. ASSUME NEW k \in at .. Len(content), Logs(k) PROVE LogInv' /\ FilterInv'
  BY <1>3, LogStep DEF Logs, FilterInv
<1>4. ASSUME tool \notin {"filter", "log"} /\ tool' = tool PROVE LogInv' /\ FilterInv'
  BY <1>4 DEF LogInv, FilterInv
<1>5. ASSUME UNCHANGED <<vars, toolVars>> PROVE LogInv' /\ FilterInv'
  <2>1. UNCHANGED <<content, tool, args, at, shown, buf, whole, outcome>>
    BY <1>5 DEF vars, toolVars
  <2>2. Lines' = Lines /\ Prefix' = Prefix
    BY <2>1 DEF Lines, Prefix
  <2>3. LogInv'
    BY <2>1, <2>2 DEF LinesInv, LogInv
  <2>4. FilterInv'
    BY <2>1, <2>2, Zenon DEF LinesInv, FilterInv
  <2> QED BY <2>3, <2>4
<1>6. \/ tool \notin {"filter", "log"} /\ tool' = tool
      \/ UNCHANGED <<vars, toolVars>>
      \/ \E k \in at .. Len(content) : Filters(k) \/ Logs(k)
  BY DEF TextNext, Reads, Greps, toolVars
<1>7. LogInv' /\ FilterInv'
  BY <1>2, <1>3, <1>4, <1>5, <1>6, Zenon
<1> QED BY <1>1, <1>7 DEF LinesInv

\* Lines stay whole: however the output of a command arrives, the log has each of
\* its lines as one, and the answers of bash_output together are the lines that
\* match, if each piece ends where a line does (filterOutput, linePrefixWriter).
THEOREM LinesAreWhole == TextSpec => []LinesStayWhole
<1>1. LinesInv => LinesStayWhole
  <2> SUFFICES ASSUME LinesInv, outcome = "text" PROVE LinesStayWhole
    BY DEF LinesStayWhole
  <2>1. tool = "log" => shown = IF Last(Lines) = <<>> THEN Front(Lines) ELSE Lines
    BY DEF LinesInv, LogInv
  <2>2. tool = "filter" /\ args.pattern # "blanks" /\ whole => shown = Matching
    BY MatchingIsMatched DEF LinesInv, Texted, FilterInv
  <2> QED BY <2>1, <2>2 DEF LinesStayWhole
<1> QED BY <1>1, InitLines, StepLines, PTL DEF TextSpec

-----------------------------------------------------------------------------
(* Newlines *)

\* Counting newlines, one character more.
LEMMA NewlinesStep ==
  ASSUME NEW s
  PROVE  /\ Newlines(s, 0) = 0
         /\ \A i \in Nat : /\ Newlines(s, i) \in Nat
                           /\ Newlines(s, i + 1) = Newlines(s, i) + IF s[i + 1] = Newline THEN 1 ELSE 0
<1> DEFINE S(i) == {k \in 1 .. i : s[k] = Newline}
<1>1. ASSUME NEW i \in Nat PROVE IsFiniteSet(S(i)) /\ Cardinality(S(i)) \in Nat
  <2>1. IsFiniteSet(1 .. i)
    BY FS_Interval
  <2>2. S(i) \in SUBSET (1 .. i)
    OBVIOUS
  <2> HIDE DEF S
  <2> QED BY <2>1, <2>2, FS_Subset, FS_CardinalityType
<1>2. Newlines(s, 0) = 0
  <2>1. S(0) = {}
    OBVIOUS
  <2> QED BY <2>1, FS_EmptySet DEF Newlines
<1>3. ASSUME NEW i \in Nat
      PROVE  Cardinality(S(i + 1)) = Cardinality(S(i)) + IF s[i + 1] = Newline THEN 1 ELSE 0
  <2>1. 1 .. i + 1 = (1 .. i) \cup {i + 1} /\ i + 1 \notin S(i)
    OBVIOUS
  <2>2. CASE s[i + 1] = Newline
    <3>1. S(i + 1) = S(i) \cup {i + 1}
      BY <2>1, <2>2
    <3> HIDE DEF S
    <3>2. Cardinality(S(i) \cup {i + 1}) = Cardinality(S(i)) + 1
      BY <1>1, <2>1, FS_AddElement
    <3> QED BY <2>2, <3>1, <3>2
  <2>3. CASE s[i + 1] # Newline
    <3>1. S(i + 1) = S(i)
      BY <2>1, <2>3
    <3> HIDE DEF S
    <3> QED BY <1>1, <2>3, <3>1
  <2> QED BY <2>2, <2>3
<1> QED BY <1>1, <1>2, <1>3 DEF Newlines

\* Texts that begin alike have as many there.
LEMMA NewlinesAgree ==
  ASSUME NEW s, NEW t, NEW i \in Nat, \A k \in 1 .. i : s[k] = t[k]
  PROVE  Newlines(s, i) = Newlines(t, i)
<1>1. {k \in 1 .. i : s[k] = Newline} = {k \in 1 .. i : t[k] = Newline}
  OBVIOUS
<1> QED BY <1>1 DEF Newlines

\* The longer the beginning, the more newlines it has.
LEMMA NewlinesRise ==
  ASSUME NEW s, NEW i \in Nat, NEW j \in Nat, i <= j PROVE Newlines(s, i) <= Newlines(s, j)
<1> DEFINE I == {d \in Nat : Newlines(s, i) <= Newlines(s, i + d)}
<1>1. 0 \in I
  <2>1. i + 0 = i
    OBVIOUS
  <2>2. Newlines(s, i) \in Nat
    BY NewlinesStep, Zenon
  <2>3. Newlines(s, i) <= Newlines(s, i + 0)
    BY <2>1, <2>2
  <2> QED BY <2>3
<1>2. ASSUME NEW d \in I PROVE d + 1 \in I
  <2> DEFINE k == i + d
  <2>1. d \in Nat /\ k \in Nat /\ Newlines(s, i) <= Newlines(s, k) /\ i + (d + 1) = k + 1
    BY <1>2
  <2> HIDE DEF k
  <2>2. Newlines(s, i) \in Nat /\ Newlines(s, k) \in Nat
        /\ Newlines(s, k + 1) = Newlines(s, k) + IF s[k + 1] = Newline THEN 1 ELSE 0
    BY <2>1, NewlinesStep, Zenon
  <2>3. Newlines(s, i) <= Newlines(s, k + 1)
    BY <2>1, <2>2
  <2> QED BY <2>1, <2>3
<1>3. I = Nat
  <2> HIDE DEF I
  <2>1. I \in SUBSET Nat
    BY DEF I
  <2> QED BY <2>1, <1>1, <1>2, SetInduction
<1> DEFINE d == j - i
<1>4. d \in Nat /\ i + d = j
  OBVIOUS
<1> HIDE DEF d
<1>5. Newlines(s, i) <= Newlines(s, i + d)
  BY <1>3, <1>4
<1> QED BY <1>4, <1>5

\* Where a text has n newlines: LimitLines and the lines of ApplyHeadLimit end there.
Past(s, n) == {i \in 1 .. Len(s) : Newlines(s, i) >= n}

\* The first of these is a newline, the n-th.
LEMMA PastStarts ==
  ASSUME NEW s \in Seq(Chars), NEW n \in Nat \ {0}, Past(s, n) # {}
  PROVE  /\ Min(Past(s, n)) \in 1 .. Len(s) /\ s[Min(Past(s, n))] = Newline
         /\ Newlines(s, Min(Past(s, n))) = n
         /\ \A i \in 1 .. Len(s) : i \in Past(s, n) <=> Min(Past(s, n)) <= i
<1> DEFINE m == Min(Past(s, n))
<1>1. Past(s, n) \in SUBSET Nat /\ Len(s) \in Nat
  BY DEF Past
<1>2. m \in Past(s, n) /\ \A y \in Past(s, n) : m <= y
  BY <1>1, MinIsLeast
<1> HIDE DEF m
<1>3. m \in 1 .. Len(s) /\ Newlines(s, m) >= n
  BY <1>2 DEF Past
<1> DEFINE k == m - 1
<1>4. k \in Nat /\ k + 1 = m
  BY <1>3
<1> HIDE DEF k
<1>5. Newlines(s, k) \in Nat /\ Newlines(s, m) \in Nat /\ Newlines(s, 0) = 0
      /\ Newlines(s, m) = Newlines(s, k) + IF s[m] = Newline THEN 1 ELSE 0
  <2>1. m \in Nat
    BY <1>4
  <2>2. Newlines(s, k + 1) = Newlines(s, k) + IF s[k + 1] = Newline THEN 1 ELSE 0
    BY <1>4, NewlinesStep, Zenon
  <2>3. Newlines(s, k) \in Nat /\ Newlines(s, m) \in Nat /\ Newlines(s, 0) = 0
    BY <1>4, <2>1, NewlinesStep, Zenon
  <2> QED BY <1>4, <2>2, <2>3
<1>6. Newlines(s, k) < n
  <2>1. CASE k = 0
    BY <1>5, <2>1
  <2>2. CASE k # 0
    <3>1. k \in 1 .. Len(s) /\ ~ (m <= k)
      BY <1>1, <1>3, <1>4, <2>2
    <3>2. k \notin Past(s, n)
      BY <1>2, <3>1
    <3> QED BY <1>5, <3>1, <3>2 DEF Past
  <2> QED BY <2>1, <2>2
<1>7. s[m] = Newline /\ Newlines(s, m) = n
  BY <1>3, <1>5, <1>6
<1>8. ASSUME NEW i \in 1 .. Len(s) PROVE i \in Past(s, n) <=> m <= i
  <2>1. i \in Past(s, n) => m <= i
    BY <1>2
  <2>2. ASSUME m <= i PROVE i \in Past(s, n)
    <3>1. Newlines(s, m) <= Newlines(s, i) /\ Newlines(s, i) \in Nat
      BY <1>3, <2>2, NewlinesRise, NewlinesStep
    <3> QED BY <1>7, <3>1 DEF Past
  <2> QED BY <2>1, <2>2
<1> QED BY <1>3, <1>7, <1>8 DEF m

\* Joined again, the lines are the text, and there is one more than newlines.
LEMMA SplitJoins ==
  \A s \in Seq(Chars) : Join(Split(s)) = s /\ Len(Split(s)) = Newlines(s, Len(s)) + 1
<1> DEFINE I == {s \in Seq(Chars) : Join(Split(s)) = s /\ Len(Split(s)) = Newlines(s, Len(s)) + 1}
<1>1. <<>> \in I
  <2>1. <<>> \in Line /\ <<>> \in Seq(Line) /\ <<>> \in Seq(Chars) /\ Append(<<>>, <<>>) = <<<<>>>>
        /\ Len(<<<<>>>>) = 1 /\ Len(<<>>) = 0
    BY DEF Line
  <2>2. Join(Append(<<>>, <<>>)) = <<>>
    BY <2>1, JoinAppend
  <2>3. Newlines(<<>>, 0) = 0
    BY NewlinesStep
  <2>4. Join(Split(<<>>)) = <<>> /\ Len(Split(<<>>)) = Newlines(<<>>, Len(<<>>)) + 1
    BY <2>1, <2>2, <2>3, SplitNothing
  <2> QED BY <2>1, <2>4
<1>2. ASSUME NEW s \in I, NEW c \in Chars PROVE Append(s, c) \in I
  <2> DEFINE t == Append(s, c)
             n == Len(s)
             lines == Split(s)
             f == Front(lines)
             l == Last(lines)
  <2>1. s \in Seq(Chars) /\ Join(lines) = s /\ Len(lines) = Newlines(s, n) + 1
    BY <1>2
  <2>2. /\ t \in Seq(Chars) /\ Len(t) = n + 1 /\ n \in Nat /\ t[n + 1] = c
        /\ \A i \in 1 .. n : t[i] = s[i]
    BY <2>1, AppendProperties
  <2>3. Split(t) = Longer(lines, c)
    BY <2>1, SplitAppend
  <2>4. lines \in Seq(Line) /\ lines # <<>> /\ f \in Seq(Line) /\ l \in Line /\ lines = Append(f, l)
    BY <2>1, SplitEnds
  <2>5. Len(lines) = Len(f) + 1 /\ Len(f) \in Nat
    BY <2>4, AppendEnds
  <2>6. Newlines(t, n + 1) = Newlines(t, n) + IF t[n + 1] = Newline THEN 1 ELSE 0
    BY <2>2, NewlinesStep, Zenon
  <2>7. Newlines(t, n) = Newlines(s, n)
    BY <2>2, NewlinesAgree, Zenon
  <2>8. Newlines(s, n) \in Nat
    BY <2>2, NewlinesStep, Zenon
  <2> HIDE DEF t, n, lines, f, l
  <2>9. ASSUME c = Newline PROVE t \in I
    <3>1. <<>> \in Line /\ Split(t) = Append(lines, <<>>)
      BY <2>3, <2>9 DEF Longer, Line
    <3>2. Join(Split(t)) = Append(s, Newline) \o <<>>
      BY <2>1, <2>4, <3>1, JoinAppend
    <3>3. Append(s, Newline) \o <<>> = t
      BY <2>2, <2>9, ConcatEmptySeq DEF t
    <3>4. Len(Split(t)) = Len(lines) + 1
      BY <2>4, <3>1, AppendEnds
    <3>5. Len(Split(t)) = Newlines(t, Len(t)) + 1
      BY <2>1, <2>2, <2>6, <2>7, <2>8, <2>9, <3>4
    <3> QED BY <2>2, <3>2, <3>3, <3>5
  <2>10. ASSUME c # Newline PROVE t \in I
    <3> DEFINE x == Append(l, c)
    <3>1. x \in Line /\ Split(t) = Append(f, x)
      BY <2>3, <2>4, <2>10, AppendEnds DEF Longer, Line, f, l
    <3>2. Join(Append(f, x)) = IF f = <<>> THEN x ELSE Append(Join(f), Newline) \o x
      BY <2>4, <3>1, JoinAppend
    <3>3. s = IF f = <<>> THEN l ELSE Append(Join(f), Newline) \o l
      BY <2>1, <2>4, JoinAppend
    <3>4. Join(Split(t)) = t
      <4>1. CASE f = <<>>
        BY <3>1, <3>2, <3>3, <4>1 DEF t
      <4>2. CASE f # <<>>
        <5> DEFINE g == Append(Join(f), Newline)
        <5>1. Join(f) \in Seq(Chars) /\ Newline \in Chars
          BY <2>4, JoinAppend DEF Line, Chars
        <5>2. g \in Seq(Chars)
          BY <5>1, AppendEnds
        <5> HIDE DEF g
        <5>3. g \o Append(l, c) = Append(g \o l, c)
          BY <2>4, <5>2, AppendConcat DEF Line
        <5> QED BY <3>1, <3>2, <3>3, <4>2, <5>3 DEF t, g
      <4> QED BY <4>1, <4>2
    <3>5. Len(Split(t)) = Len(lines)
      BY <2>4, <2>5, <3>1, AppendEnds
    <3>6. Len(Split(t)) = Newlines(t, Len(t)) + 1
      BY <2>1, <2>2, <2>6, <2>7, <2>8, <2>10, <3>5
    <3> QED BY <2>2, <3>4, <3>6
  <2>11. t \in I
    BY <2>9, <2>10
  <2> QED BY <2>11 DEF t
<1>3. I = Seq(Chars)
  <2> HIDE DEF I
  <2>1. I \in SUBSET Seq(Chars)
    BY DEF I
  <2> QED BY <2>1, <1>1, <1>2, SeqInduction
<1> QED BY <1>3

\* One character more is none more of lines that have ended.
LEMMA PrefixOfAppend ==
  ASSUME NEW S, NEW q \in Seq(S), NEW x \in S, NEW n \in 0 .. Len(q)
  PROVE  SubSeq(Append(q, x), 1, n) = SubSeq(q, 1, n) /\ SubSeq(q, 1, n) \in Seq(S)
<1> DEFINE a == Append(q, x)
<1>1. a \in Seq(S) /\ Len(a) = Len(q) + 1 /\ Len(q) \in Nat /\ \A i \in 1 .. Len(q) : a[i] = q[i]
  BY AppendProperties
<1> HIDE DEF a
<1> DEFINE u == SubSeq(a, 1, n)
           v == SubSeq(q, 1, n)
<1>2. /\ u \in Seq(S) /\ v \in Seq(S) /\ Len(u) = n /\ Len(v) = n
      /\ \A i \in 1 .. n : u[i] = a[i] /\ v[i] = q[i] /\ i \in 1 .. Len(q)
  BY <1>1
<1> HIDE DEF u, v
<1>3. u = v
  BY <1>1, <1>2, SeqEqual
<1> QED BY <1>2, <1>3 DEF u, v, a

\* What comes does not change the first lines, but for the last.
LEMMA FirstOfLonger ==
  ASSUME NEW lines \in Seq(Line), lines # <<>>, NEW c \in Chars, NEW n \in Nat, n < Len(lines)
  PROVE  SubSeq(Longer(lines, c), 1, n) = SubSeq(lines, 1, n)
<1> DEFINE f == Front(lines)
           l == Last(lines)
<1>1. f \in Seq(Line) /\ l \in Line /\ lines = Append(f, l) /\ Len(f) = Len(lines) - 1
      /\ Len(lines) \in Nat
  BY EndsAppend
<1>2. n \in 0 .. Len(lines) /\ n \in 0 .. Len(f)
  BY <1>1
<1>3. CASE c = Newline
  <2>1. <<>> \in Line
    BY DEF Line
  <2> QED BY <1>2, <1>3, <2>1, PrefixOfAppend DEF Longer
<1>4. CASE c # Newline
  <2> DEFINE x == Append(l, c)
  <2>1. x \in Line
    BY <1>1, AppendEnds DEF Line
  <2>2. Longer(lines, c) = Append(f, x)
    BY <1>4 DEF Longer
  <2> HIDE DEF f, l, x
  <2>3. SubSeq(Append(f, x), 1, n) = SubSeq(f, 1, n) /\ SubSeq(Append(f, l), 1, n) = SubSeq(f, 1, n)
    BY <1>1, <1>2, <2>1, PrefixOfAppend
  <2> QED BY <1>1, <2>2, <2>3
<1> QED BY <1>3, <1>4

\* The first n lines are what is before the n-th newline.
Cut(s, n) == IF Past(s, n) = {} THEN Len(s) ELSE Min(Past(s, n)) - 1

\* The first n lines of a longer text, joined again, are what is before its n-th newline.
LEMMA FirstLinesEnd ==
  ASSUME NEW n \in Nat \ {0}
  PROVE  \A s \in Seq(Chars) :
           n < Len(Split(s)) => Join(SubSeq(Split(s), 1, n)) = SubSeq(s, 1, Min(Past(s, n)) - 1)
<1> DEFINE Right(s) ==
             n < Len(Split(s)) => Join(SubSeq(Split(s), 1, n)) = SubSeq(s, 1, Min(Past(s, n)) - 1)
           I == {s \in Seq(Chars) : Right(s)}
<1>1. <<>> \in I
  <2>1. ~ (n < Len(<<<<>>>>)) /\ <<>> \in Seq(Chars)
    OBVIOUS
  <2>2. Right(<<>>)
    BY <2>1, SplitNothing
  <2> QED BY <2>1, <2>2
<1>2. ASSUME NEW s \in I, NEW c \in Chars PROVE Append(s, c) \in I
  <2> DEFINE t == Append(s, c)
             k == Len(s)
             lines == Split(s)
  <2>1. s \in Seq(Chars) /\ Right(s)
    BY <1>2
  <2>2. /\ t \in Seq(Chars) /\ Len(t) = k + 1 /\ k \in Nat /\ t[k + 1] = c
        /\ \A i \in 1 .. k : t[i] = s[i]
    BY <2>1, AppendProperties
  <2>3. Split(t) = Longer(lines, c) /\ lines \in Seq(Line) /\ lines # <<>>
    BY <2>1, SplitAppend, SplitEnds
  <2>4. Join(lines) = s /\ Len(lines) = Newlines(s, k) + 1
    BY <2>1, SplitJoins
  <2>5. Len(Split(t)) = Newlines(t, k + 1) + 1
    BY <2>2, SplitJoins
  <2> HIDE DEF t, k, lines
  <2>6. \A i \in 0 .. k : Newlines(t, i) = Newlines(s, i) /\ Newlines(s, i) \in Nat
    <3> SUFFICES ASSUME NEW i \in 0 .. k PROVE Newlines(t, i) = Newlines(s, i) /\ Newlines(s, i) \in Nat
      OBVIOUS
    <3>1. i \in Nat /\ \A j \in 1 .. i : t[j] = s[j]
      BY <2>2
    <3>2. Newlines(s, i) \in Nat
      BY <3>1, NewlinesStep, Zenon
    <3>3. Newlines(t, i) = Newlines(s, i)
      BY <3>1, NewlinesAgree, Zenon
    <3> QED BY <3>2, <3>3
  <2>7. Newlines(t, k + 1) = Newlines(t, k) + IF c = Newline THEN 1 ELSE 0
    BY <2>2, NewlinesStep, Zenon
  <2>8. ASSUME n < Len(Split(t)) PROVE Join(SubSeq(Split(t), 1, n)) = SubSeq(t, 1, Min(Past(t, n)) - 1)
    <3> DEFINE m == Min(Past(t, n))
    <3>1. k + 1 \in Past(t, n)
      BY <2>2, <2>5, <2>6, <2>7, <2>8 DEF Past
    <3>2. m \in 1 .. k + 1 /\ \A i \in 1 .. k + 1 : i \in Past(t, n) <=> m <= i
      BY <2>2, <3>1, PastStarts
    <3>3. CASE n < Len(lines)
      <4>1. SubSeq(Split(t), 1, n) = SubSeq(lines, 1, n)
        BY <2>3, <3>3, FirstOfLonger
      <4>2. Join(SubSeq(lines, 1, n)) = SubSeq(s, 1, Min(Past(s, n)) - 1)
        BY <2>1, <3>3 DEF lines
      <4>3. Min(Past(s, n)) = m
        <5> DEFINE r == Min(Past(s, n))
        <5>1. k \in 1 .. k /\ k \in 0 .. k /\ Newlines(s, k) >= n
          <6>1. Newlines(s, 0) = 0
            BY NewlinesStep
          <6>2. k # 0
            BY <2>2, <2>4, <2>6, <3>3, <6>1
          <6> QED BY <2>2, <2>4, <2>6, <3>3, <6>2
        <5>2. k \in Past(s, n)
          BY <5>1 DEF Past, k
        <5>3. r \in 1 .. k /\ \A i \in 1 .. k : i \in Past(s, n) <=> r <= i
          BY <2>1, <5>2, PastStarts DEF k
        <5>4. ASSUME NEW i \in 1 .. k PROVE i \in Past(t, n) <=> i \in Past(s, n)
          <6>1. i \in 1 .. k + 1 /\ i \in 0 .. k
            BY <2>2
          <6> QED BY <2>2, <2>6, <6>1 DEF Past, k
        <5> HIDE DEF r, m
        <5>5. r \in Past(t, n) /\ r \in 1 .. k + 1
          BY <2>2, <5>3, <5>4
        <5>6. m <= r
          BY <3>2, <5>5
        <5>7. m \in 1 .. k /\ m \in Past(t, n)
          BY <2>2, <3>2, <5>3, <5>6
        <5>8. r <= m
          BY <5>3, <5>4, <5>7
        <5> QED BY <3>2, <5>3, <5>6, <5>8 DEF r, m
      <4>4. SubSeq(t, 1, m - 1) = SubSeq(s, 1, m - 1)
        BY <2>1, <3>2, SubSeqAppend DEF t, k
      <4> QED BY <4>1, <4>2, <4>3, <4>4
    <3>4. CASE ~ (n < Len(lines))
      <4>1. c = Newline /\ n = Len(lines) /\ n = Newlines(s, k) + 1
        BY <2>2, <2>4, <2>5, <2>6, <2>7, <2>8, <3>4
      <4>2. SubSeq(Split(t), 1, n) = lines
        <5>1. SubSeq(Append(lines, <<>>), 1, n) = SubSeq(lines, 1, n)
          <6>1. <<>> \in Line
            BY DEF Line
          <6>2. Len(lines) \in Nat /\ n \in 0 .. Len(lines)
            BY <2>3, <4>1
          <6> QED BY <2>3, <6>1, <6>2, PrefixOfAppend
        <5>2. SubSeq(lines, 1, n) = lines
          BY <2>3, <4>1, SubSeqFull
        <5> QED BY <2>3, <4>1, <5>1, <5>2 DEF Longer
      <4>3. m = k + 1
        <5> SUFFICES ASSUME m # k + 1 PROVE FALSE
          OBVIOUS
        <5> HIDE DEF m
        <5>1. m \in 0 .. k /\ m \in Nat /\ m <= k /\ m \in Past(t, n)
          BY <2>2, <3>2
        <5>2. Newlines(t, m) >= n
          BY <5>1 DEF Past
        <5>3. Newlines(s, m) <= Newlines(s, k)
          BY <2>2, <5>1, NewlinesRise
        <5>4. Newlines(s, m) \in Nat /\ Newlines(t, m) = Newlines(s, m) /\ Newlines(s, k) \in Nat
          BY <2>2, <2>6, <5>1
        <5> QED BY <4>1, <5>2, <5>3, <5>4
      <4>4. SubSeq(t, 1, k) = s
        <5>1. SubSeq(t, 1, k) = SubSeq(s, 1, k)
          BY <2>1, <2>2, SubSeqAppend DEF t, k
        <5> QED BY <2>1, <5>1, SubSeqFull DEF k
      <4>5. m - 1 = k
        BY <2>2, <4>3
      <4> QED BY <2>4, <4>2, <4>4, <4>5
    <3> QED BY <3>3, <3>4
  <2> QED BY <2>2, <2>8 DEF t
<1>3. I = Seq(Chars)
  <2> HIDE DEF I
  <2>1. I \in SUBSET Seq(Chars)
    BY DEF I
  <2> QED BY <2>1, <1>1, <1>2, SeqInduction
<1> QED BY <1>3

\* As many lines of a text as a limit allows.
LEMMA CutIsLines ==
  ASSUME NEW s \in Seq(Chars), NEW n \in Nat \ {0}
  PROVE  /\ Cut(s, n) \in 0 .. Len(s)
         /\ Join(SubSeq(Split(s), 1, Least(Len(Split(s)), n))) = SubSeq(s, 1, Cut(s, n))
<1> DEFINE lines == Split(s)
           k == Len(s)
<1>1. lines \in Seq(Line) /\ Join(lines) = s /\ Len(lines) = Newlines(s, k) + 1
  BY SplitJoins, SplitEnds
<1>2. k \in Nat /\ Len(lines) \in Nat /\ Newlines(s, k) \in Nat /\ Newlines(s, 0) = 0
  BY <1>1, NewlinesStep
<1>3. Least(Len(lines), n) = IF Len(lines) <= n THEN Len(lines) ELSE n
  BY <1>2, LeastIsLess
<1>4. CASE Past(s, n) = {}
  <2>1. Newlines(s, k) < n
    <3>1. CASE k = 0
      BY <1>2, <3>1
    <3>2. CASE k # 0
      BY <1>2, <1>4, <3>2 DEF Past
    <3> QED BY <3>1, <3>2
  <2>2. Least(Len(lines), n) = Len(lines)
    BY <1>1, <1>2, <1>3, <2>1
  <2>3. SubSeq(lines, 1, Len(lines)) = lines /\ SubSeq(s, 1, k) = s
    BY <1>1, SubSeqFull
  <2>4. Cut(s, n) = k
    BY <1>4 DEF Cut
  <2>5. Join(SubSeq(lines, 1, Least(Len(lines), n))) = s
    BY <1>1, <2>2, <2>3
  <2>6. SubSeq(s, 1, Cut(s, n)) = s /\ Cut(s, n) \in 0 .. k
    BY <1>2, <2>3, <2>4
  <2> QED BY <2>5, <2>6
<1>5. CASE Past(s, n) # {}
  <2> DEFINE m == Min(Past(s, n))
  <2>1. m \in 1 .. k /\ Newlines(s, m) = n
    BY <1>5, PastStarts
  <2>2. Cut(s, n) = m - 1
    BY <1>5 DEF Cut
  <2> HIDE DEF m
  <2>3. Newlines(s, m) <= Newlines(s, k)
    BY <1>2, <2>1, NewlinesRise
  <2>4. n < Len(lines)
    BY <1>1, <1>2, <2>1, <2>3
  <2>5. Least(Len(lines), n) = n
    BY <1>2, <1>3, <2>4
  <2>6. Join(SubSeq(lines, 1, n)) = SubSeq(s, 1, m - 1)
    BY <2>4, FirstLinesEnd DEF m
  <2> QED BY <1>2, <2>1, <2>2, <2>5, <2>6
<1> QED BY <1>4, <1>5

-----------------------------------------------------------------------------
(* Trimming *)

\* The first and the last characters of a trimmed text are no newlines.
Trimmed(t) == t \in Seq(Chars) /\ (t # <<>> => t[1] # Newline /\ t[Len(t)] # Newline)

\* The last character that trimming leaves of the first p.
Ends(t, p, q) == q \in 1 .. p /\ t[q] # Newline /\ \A i \in q + 1 .. p : t[i] = Newline

\* TrimSpace trims.
LEMMA TrimSpaceTrims ==
  ASSUME NEW s \in Seq(Chars)
  PROVE  Trimmed(TrimSpace(s))
<1> DEFINE kept == {i \in 1 .. Len(s) : s[i] # Newline}
           a == Min(kept)
           b == Max(kept)
<1>1. CASE kept = {}
  <2>1. TrimSpace(s) = <<>>
    BY <1>1 DEF TrimSpace
  <2> QED BY <2>1 DEF Trimmed
<1>2. CASE kept # {}
  <2>1. kept \in SUBSET Nat /\ kept \in SUBSET (0 .. Len(s)) /\ Len(s) \in Nat
    OBVIOUS
  <2> HIDE DEF kept
  <2>2. a \in kept /\ \A y \in kept : a <= y
    BY <1>2, <2>1, MinIsLeast
  <2>3. b \in kept /\ \A y \in kept : y <= b
    BY <1>2, <2>1, MaxIsGreatest
  <2>4. TrimSpace(s) = SubSeq(s, a, b)
    BY <1>2 DEF TrimSpace, kept
  <2> HIDE DEF a, b
  <2>5. a \in 1 .. Len(s) /\ b \in 1 .. Len(s) /\ a <= b /\ s[a] # Newline /\ s[b] # Newline
    BY <2>2, <2>3 DEF kept
  <2> DEFINE t == SubSeq(s, a, b)
             d == b - a + 1
  <2>6. d \in Nat \ {0} /\ a + (1 - 1) = a /\ a + (d - 1) = b
    BY <2>5
  <2>7. t \in Seq(Chars) /\ Len(t) = d /\ \A i \in 1 .. d : t[i] = s[a + (i - 1)]
    <3>1. \A i \in a .. b : s[i] \in Chars
      BY <2>5
    <3> QED BY <2>5, <3>1, SubSeqProperties
  <2> HIDE DEF d, t
  <2>8. t[1] = s[a + (1 - 1)] /\ t[d] = s[a + (d - 1)]
    BY <2>6, <2>7
  <2> QED BY <2>4, <2>5, <2>6, <2>7, <2>8 DEF Trimmed, t
<1> QED BY <1>1, <1>2

\* The beginning of a text that begins with no newline, trimmed.
LEMMA TrimBeginning ==
  ASSUME NEW t \in Seq(Chars), NEW p \in 1 .. Len(t), NEW q, t[1] # Newline, Ends(t, p, q)
  PROVE  TrimSpace(SubSeq(t, 1, p)) = SubSeq(t, 1, q)
<1> DEFINE u == SubSeq(t, 1, p)
           kept == {i \in 1 .. Len(u) : u[i] # Newline}
<1>1. q \in 1 .. p /\ t[q] # Newline /\ \A i \in q + 1 .. p : t[i] = Newline
  BY DEF Ends
<1>2. u \in Seq(Chars) /\ Len(u) = p /\ p \in Nat /\ \A i \in 1 .. p : u[i] = t[i]
  OBVIOUS
<1> HIDE DEF u
<1>3. 1 \in kept /\ q \in kept /\ \A i \in kept : i \in 1 .. q
  BY <1>1, <1>2
<1>4. kept \in SUBSET Nat /\ kept \in SUBSET (0 .. p)
  BY <1>2
<1>5. TrimSpace(u) = IF kept = {} THEN <<>> ELSE SubSeq(u, Min(kept), Max(kept))
  BY DEF TrimSpace
<1> HIDE DEF kept
<1>6. Min(kept) \in kept /\ \A y \in kept : Min(kept) <= y
  BY <1>3, <1>4, MinIsLeast
<1>7. Max(kept) \in kept /\ \A y \in kept : y <= Max(kept)
  BY <1>2, <1>3, <1>4, MaxIsGreatest
<1>8. Min(kept) = 1 /\ Max(kept) = q
  <2> DEFINE a == Min(kept)
             b == Max(kept)
  <2>1. a \in 1 .. q /\ a <= 1 /\ b \in 1 .. q /\ q <= b
    BY <1>3, <1>6, <1>7
  <2> HIDE DEF a, b
  <2>2. a = 1 /\ b = q
    BY <1>1, <2>1
  <2> QED BY <2>2 DEF a, b
<1>9. SubSeq(u, 1, q) = SubSeq(t, 1, q)
  <2> DEFINE v == SubSeq(u, 1, q)
             w == SubSeq(t, 1, q)
  <2>1. /\ v \in Seq(Chars) /\ w \in Seq(Chars) /\ Len(v) = q /\ Len(w) = q /\ q \in Nat
        /\ \A i \in 1 .. q : v[i] = u[i] /\ w[i] = t[i] /\ i \in 1 .. p
    BY <1>1, <1>2
  <2> HIDE DEF v, w
  <2>2. v = w
    BY <1>2, <2>1, SeqEqual
  <2> QED BY <2>2 DEF v, w
<1> QED BY <1>3, <1>5, <1>8, <1>9 DEF u

\* There is such a last character.
LEMMA SomethingIsLeft ==
  ASSUME NEW t \in Seq(Chars), NEW p \in 1 .. Len(t), t[1] # Newline
  PROVE  \E q : Ends(t, p, q)
<1> DEFINE kept == {i \in 1 .. p : t[i] # Newline}
           q == Max(kept)
<1>1. kept \in SUBSET (0 .. p) /\ p \in Nat /\ 1 \in kept
  OBVIOUS
<1>2. q \in kept /\ \A y \in kept : y <= q
  <2> HIDE DEF kept
  <2> QED BY <1>1, MaxIsGreatest
<1> HIDE DEF q
<1>3. q \in 1 .. p /\ t[q] # Newline
  BY <1>2
<1>4. ASSUME NEW i \in q + 1 .. p PROVE t[i] = Newline
  BY <1>2, <1>3
<1>5. Ends(t, p, q)
  BY <1>3, <1>4 DEF Ends
<1> QED BY <1>5

-----------------------------------------------------------------------------
(* The caller's limit and the server's *)

\* The last characters that are left: by the caller's limit, where 0 is none; of the first q
\* by the server's; and by both, were nothing trimmed.
CallersEnd(t, h) == IF h = 0 THEN Len(t) ELSE Cut(t, h)
ServersEnd(t, q) == IF Past(t, MaxResults) # {} /\ Min(Past(t, MaxResults)) <= q
                    THEN Min(Past(t, MaxResults)) ELSE q
AllowedEnd(t, h) == Cut(t, IF h = 0 \/ MaxResults < h THEN MaxResults ELSE h)

\* LimitLines, of the first q characters.
LEMMA LimitOfBeginning ==
  ASSUME NEW t \in Seq(Chars), NEW q \in 1 .. Len(t), MaxResults \in Nat \ {0}
  PROVE  LimitLines(SubSeq(t, 1, q)) = SubSeq(t, 1, ServersEnd(t, q))
<1> DEFINE M == MaxResults
           u == SubSeq(t, 1, q)
           P == Past(u, M)
<1>1. u \in Seq(Chars) /\ Len(u) = q /\ q \in Nat /\ \A i \in 1 .. q : u[i] = t[i]
  OBVIOUS
<1>2. LimitLines(u) = IF P = {} THEN u ELSE SubSeq(u, 1, Min(P))
  BY DEF LimitLines, Past
<1> HIDE DEF u
<1>3. ASSUME NEW i \in 1 .. q PROVE i \in P <=> i \in Past(t, M)
  <2>1. i \in Nat /\ \A j \in 1 .. i : u[j] = t[j]
    BY <1>1
  <2>2. Newlines(u, i) = Newlines(t, i)
    BY <2>1, NewlinesAgree, Zenon
  <2> QED BY <1>1, <2>2 DEF Past
<1>4. P \in SUBSET (1 .. q) /\ Past(t, M) \in SUBSET (1 .. Len(t))
  BY <1>1 DEF Past
<1> HIDE DEF P, M
<1>5. CASE P = {}
  <2>1. ASSUME Past(t, M) # {} PROVE ~ (Min(Past(t, M)) <= q)
    <3>1. Min(Past(t, M)) \in 1 .. Len(t)
      BY <2>1, PastStarts DEF M
    <3>2. Min(Past(t, M)) \in Past(t, M)
      BY <2>1, <3>1, PastStarts DEF M
    <3> QED BY <1>3, <1>5, <3>1, <3>2
  <2> QED BY <1>2, <1>5, <2>1 DEF ServersEnd, u, M
<1>6. CASE P # {}
  <2> DEFINE a == Min(P)
             b == Min(Past(t, M))
  <2>1. a \in P /\ \A i \in P : a <= i
    <3>1. P \in SUBSET Nat
      BY <1>4
    <3> QED BY <1>6, <3>1, MinIsLeast
  <2>2. a \in 1 .. q /\ a \in Past(t, M)
    BY <1>3, <1>4, <2>1
  <2>3. b \in Past(t, M) /\ \A i \in Past(t, M) : b <= i
    <3>1. Past(t, M) \in SUBSET Nat /\ Past(t, M) # {}
      BY <1>4, <2>2
    <3> QED BY <3>1, MinIsLeast
  <2> HIDE DEF a, b
  <2>4. b \in 1 .. q
    BY <1>4, <2>2, <2>3
  <2>5. b \in P
    BY <1>3, <2>3, <2>4
  <2>6. a = b
    BY <2>1, <2>2, <2>3, <2>4, <2>5
  <2>7. SubSeq(u, 1, b) = SubSeq(t, 1, b)
    <3> DEFINE v == SubSeq(u, 1, b)
               w == SubSeq(t, 1, b)
    <3>1. /\ v \in Seq(Chars) /\ w \in Seq(Chars) /\ Len(v) = b /\ Len(w) = b /\ b \in Nat
          /\ \A i \in 1 .. b : v[i] = u[i] /\ w[i] = t[i] /\ i \in 1 .. q
      BY <1>1, <2>4
    <3> HIDE DEF v, w
    <3>2. v = w
      BY <1>1, <3>1, SeqEqual
    <3> QED BY <3>2 DEF v, w
  <2>8. LimitLines(u) = SubSeq(u, 1, b)
    BY <1>2, <1>6, <2>6 DEF a
  <2>9. Past(t, M) # {} /\ b <= q
    BY <2>2, <2>4
  <2> QED BY <2>7, <2>8, <2>9 DEF ServersEnd, u, b, M
<1> QED BY <1>5, <1>6

\* Where the caller's limit ends the text, and where the server's does.
LEMMA CutOfTrimmed ==
  ASSUME NEW t, Trimmed(t), t # <<>>, NEW n \in Nat \ {0}
  PROVE  Cut(t, n) \in 1 .. Len(t)
<1>1. t \in Seq(Chars) /\ t[1] # Newline /\ Len(t) \in Nat \ {0}
  BY EmptySeq DEF Trimmed
<1>2. CASE Past(t, n) = {}
  BY <1>1, <1>2 DEF Cut
<1>3. CASE Past(t, n) # {}
  <2> DEFINE m == Min(Past(t, n))
  <2>1. m \in 1 .. Len(t) /\ t[m] = Newline
    BY <1>1, <1>3, PastStarts
  <2>2. Cut(t, n) = m - 1
    BY <1>3 DEF Cut
  <2> HIDE DEF m
  <2> QED BY <1>1, <2>1, <2>2
<1> QED BY <1>2, <1>3

\* What both limits leave: as much as the smaller does, but for newlines at the end.
LEMMA LimitsMeet ==
  ASSUME NEW t, Trimmed(t), t # <<>>, NEW h \in Nat, NEW q, Ends(t, CallersEnd(t, h), q),
         MaxResults \in Nat \ {0}
  PROVE  LET r == ServersEnd(t, q)
             l == AllowedEnd(t, h)
         IN  r \in 1 .. Len(t) /\ r <= l + 1 /\ \E e : Ends(t, r, e) /\ Ends(t, l, e)
<1> DEFINE r == ServersEnd(t, q)
           l == AllowedEnd(t, h)
           p == CallersEnd(t, h)
           M == MaxResults
           P == Past(t, M)
           m == Min(P)
<1> SUFFICES r \in 1 .. Len(t) /\ r <= l + 1 /\ \E e : Ends(t, r, e) /\ Ends(t, l, e)
  OBVIOUS
<1>1. t \in Seq(Chars) /\ t[1] # Newline /\ t[Len(t)] # Newline /\ Len(t) \in Nat \ {0}
  BY EmptySeq DEF Trimmed
<1>2. p \in 1 .. Len(t) /\ l \in 1 .. Len(t)
  BY <1>1, CutOfTrimmed DEF CallersEnd, AllowedEnd
<1>3. Ends(t, p, q) /\ q \in 1 .. p /\ t[q] # Newline /\ \A i \in q + 1 .. p : t[i] = Newline
  BY DEF Ends
<1>4. Ends(t, q, q)
  BY <1>2, <1>3 DEF Ends
<1>5. P # {} => /\ m \in 1 .. Len(t) /\ t[m] = Newline /\ Newlines(t, m) = M
                /\ \A i \in 1 .. Len(t) : i \in P <=> m <= i
  BY <1>1, PastStarts
<1>6. r = IF P # {} /\ m <= q THEN m ELSE q
  BY DEF ServersEnd
<1> HIDE DEF r, l, p, m
<1>7. CASE h # 0 /\ ~ (M < h)
  <2>1. l = p /\ p = Cut(t, h)
    BY <1>7 DEF CallersEnd, AllowedEnd, l, p
  <2>2. ~ (P # {} /\ m <= q)
    <3> SUFFICES ASSUME P # {}, m <= q PROVE FALSE
      OBVIOUS
    <3> DEFINE k == Min(Past(t, h))
    <3>1. m \in Past(t, h)
      BY <1>5, <1>7 DEF Past
    <3>2. k \in 1 .. Len(t) /\ k <= m
      BY <1>1, <1>5, <1>7, <3>1, PastStarts
    <3>3. p = k - 1
      BY <2>1, <3>1 DEF Cut
    <3> HIDE DEF k, P
    <3> QED BY <1>2, <1>3, <1>5, <3>2, <3>3
  <2> HIDE DEF P
  <2>3. r = q
    BY <1>6, <2>2
  <2> QED BY <1>2, <1>3, <1>4, <2>1, <2>3
<1>8. CASE h = 0 \/ M < h
  <2>1. l = IF P = {} THEN Len(t) ELSE m - 1
    BY <1>8 DEF AllowedEnd, Cut, l, m
  <2>2. P = {} => p = Len(t)
    <3> SUFFICES ASSUME P = {}, h # 0 PROVE p = Len(t)
      BY DEF CallersEnd, p
    <3>1. Past(t, h) = {}
      <4> SUFFICES ASSUME NEW i \in Past(t, h) PROVE FALSE
        OBVIOUS
      <4>1. i \in 1 .. Len(t) /\ Newlines(t, i) >= h /\ Newlines(t, i) \in Nat
        BY NewlinesStep DEF Past
      <4>2. i \in P
        BY <1>8, <4>1 DEF Past
      <4> QED BY <4>2
    <3> QED BY <3>1 DEF CallersEnd, Cut, p
  <2>3. P # {} => m <= p
    <3> SUFFICES ASSUME P # {} PROVE m <= p
      OBVIOUS
    <3>1. CASE h = 0 \/ Past(t, h) = {}
      <4>1. p = Len(t)
        BY <3>1 DEF CallersEnd, Cut, p
      <4> QED BY <1>1, <1>5, <4>1
    <3>2. CASE h # 0 /\ Past(t, h) # {}
      <4> DEFINE k == Min(Past(t, h))
      <4>1. k \in 1 .. Len(t) /\ Newlines(t, k) = h
        BY <1>1, <3>2, PastStarts
      <4>2. p = k - 1
        BY <3>2 DEF CallersEnd, Cut, p
      <4> HIDE DEF k
      <4>3. k \in P
        BY <1>8, <3>2, <4>1 DEF Past
      <4>4. m <= k /\ m # k
        BY <1>5, <1>8, <3>2, <4>1, <4>3
      <4> HIDE DEF P
      <4> QED BY <1>5, <4>1, <4>2, <4>4
    <3> QED BY <3>1, <3>2
  <2> HIDE DEF P, M
  <2>4. CASE P = {}
    <3>1. p = Len(t) /\ l = Len(t) /\ r = q
      BY <1>6, <2>1, <2>2, <2>4
    <3>2. q = Len(t)
      <4>1. ~ (q < p)
        <5> SUFFICES ASSUME q < p PROVE FALSE
          OBVIOUS
        <5>1. p \in q + 1 .. p
          BY <1>2, <1>3
        <5> QED BY <1>1, <1>3, <3>1, <5>1
      <4> QED BY <1>2, <1>3, <3>1, <4>1
    <3> QED BY <1>1, <1>4, <3>1, <3>2
  <2>5. CASE P # {} /\ m <= q
    <3>1. r = m /\ l = m - 1
      BY <1>6, <2>1, <2>5
    <3>2. PICK e : Ends(t, l, e)
      BY <1>1, <1>2, SomethingIsLeft
    <3>3. Ends(t, r, e)
      <4>1. e \in 1 .. l /\ t[e] # Newline /\ \A i \in e + 1 .. l : t[i] = Newline
        BY <3>2 DEF Ends
      <4>2. ASSUME NEW i \in e + 1 .. r PROVE t[i] = Newline
        <5>1. i \in e + 1 .. l \/ i = m
          BY <1>2, <1>5, <2>5, <3>1, <4>1, <4>2
        <5> QED BY <1>5, <2>5, <4>1, <5>1
      <4>3. e \in 1 .. r
        BY <1>2, <1>5, <2>5, <3>1, <4>1
      <4> QED BY <4>1, <4>2, <4>3 DEF Ends
    <3> QED BY <1>2, <1>5, <2>5, <3>1, <3>2, <3>3
  <2>6. CASE P # {} /\ ~ (m <= q)
    <3>1. r = q /\ l = m - 1 /\ m <= p /\ m \in 1 .. Len(t)
      BY <1>5, <1>6, <2>1, <2>3, <2>6
    <3>2. q \in 1 .. l /\ l < p
      BY <1>2, <1>3, <2>6, <3>1
    <3>3. Ends(t, l, q)
      <4>1. ASSUME NEW i \in q + 1 .. l PROVE t[i] = Newline
        <5>1. i \in q + 1 .. p
          BY <1>2, <1>3, <3>2
        <5> QED BY <1>3, <5>1
      <4> QED BY <1>3, <3>2, <4>1 DEF Ends
    <3> QED BY <1>2, <1>3, <1>4, <3>1, <3>2, <3>3
  <2> QED BY <2>4, <2>5, <2>6
<1> QED BY <1>7, <1>8

-----------------------------------------------------------------------------
(* grep *)

\* What the caller's limit leaves, trimmed again.
LEMMA FoundIsBeginning ==
  ASSUME NEW s \in Seq(Chars), NEW h \in Nat
  PROVE  LET t == TrimSpace(s)
             found == TrimSpace(ApplyHeadLimit(s, h))
         IN  /\ t = <<>> => found = <<>>
             /\ t # <<>> => \E q : /\ Ends(t, CallersEnd(t, h), q)
                                   /\ found = SubSeq(t, 1, q)
<1> DEFINE t == TrimSpace(s)
           p == CallersEnd(t, h)
           found == TrimSpace(ApplyHeadLimit(s, h))
<1>1. Trimmed(t) /\ t \in Seq(Chars)
  BY TrimSpaceTrims DEF Trimmed
<1>2. h = 0 => found = t
  BY DEF ApplyHeadLimit
<1>3. ASSUME h # 0 PROVE found = TrimSpace(SubSeq(t, 1, Cut(t, h))) /\ Cut(t, h) \in 0 .. Len(t)
  <2> DEFINE lines == Split(t)
  <2>1. ApplyHeadLimit(s, h) = Join(SubSeq(lines, 1, Least(Len(lines), h)))
    BY <1>3 DEF ApplyHeadLimit
  <2> HIDE DEF t
  <2>2. h \in Nat \ {0}
    BY <1>3
  <2>3. /\ Join(SubSeq(lines, 1, Least(Len(lines), h))) = SubSeq(t, 1, Cut(t, h))
        /\ Cut(t, h) \in 0 .. Len(t)
    BY <1>1, <2>2, CutIsLines
  <2> QED BY <2>1, <2>3
<1>4. ASSUME t = <<>> PROVE found = <<>>
  <2>1. CASE h = 0
    BY <1>2, <1>4, <2>1
  <2>2. CASE h # 0
    <3> HIDE DEF t, found
    <3>1. Cut(t, h) = 0
      BY <1>3, <1>4, <2>2
    <3>2. SubSeq(t, 1, 0) = <<>>
      BY <1>1, SubSeqEmpty
    <3>3. TrimSpace(<<>>) = <<>>
      BY DEF TrimSpace
    <3> QED BY <1>3, <2>2, <3>1, <3>2, <3>3
  <2> QED BY <2>1, <2>2
<1>5. ASSUME t # <<>> PROVE \E q : Ends(t, p, q) /\ found = SubSeq(t, 1, q)
  <2> HIDE DEF t, found
  <2>1. t[1] # Newline /\ t[Len(t)] # Newline /\ Len(t) \in Nat \ {0}
    BY <1>1, <1>5, EmptySeq DEF Trimmed
  <2>2. CASE h = 0
    <3>1. Ends(t, Len(t), Len(t))
      BY <2>1 DEF Ends
    <3>2. found = SubSeq(t, 1, Len(t))
      BY <1>1, <1>2, <2>2, SubSeqFull
    <3> QED BY <2>2, <3>1, <3>2 DEF CallersEnd
  <2>3. CASE h # 0
    <3>1. p = Cut(t, h) /\ h \in Nat \ {0}
      BY <2>3 DEF CallersEnd
    <3>2. p \in 1 .. Len(t)
      BY <1>1, <1>5, <3>1, CutOfTrimmed
    <3> HIDE DEF p
    <3>3. PICK q : Ends(t, p, q)
      BY <1>1, <2>1, <3>2, SomethingIsLeft
    <3>4. TrimSpace(SubSeq(t, 1, p)) = SubSeq(t, 1, q)
      BY <1>1, <2>1, <3>2, <3>3, TrimBeginning
    <3> QED BY <1>3, <2>3, <3>1, <3>3, <3>4
  <2> QED BY <2>2, <2>3
<1> QED BY <1>4, <1>5

\* What grep shows of what it found.
LEMMA ShownIsFirstLines ==
  ASSUME NEW s \in Seq(Chars), NEW h \in Nat
  PROVE  LET t == TrimSpace(s)
             lines == Split(t)
             found == TrimSpace(ApplyHeadLimit(s, h))
             allowed == IF h = 0 THEN MaxResults ELSE Least(h, MaxResults)
             firstLines == Join(SubSeq(lines, 1, Least(Len(lines), allowed)))
         IN  found # <<>> => /\ IsPrefix(LimitLines(found), t)
                             /\ TrimSpace(LimitLines(found)) = TrimSpace(firstLines)
                             /\ Len(LimitLines(found)) <= Len(Append(firstLines, Newline))
                             /\ Len(Append(firstLines, Newline)) \in Nat
                             /\ Len(LimitLines(found)) \in Nat
<1> DEFINE t == TrimSpace(s)
           lines == Split(t)
           found == TrimSpace(ApplyHeadLimit(s, h))
           n == IF h = 0 \/ MaxResults < h THEN MaxResults ELSE h
           allowed == IF h = 0 THEN MaxResults ELSE Least(h, MaxResults)
           firstLines == Join(SubSeq(lines, 1, Least(Len(lines), allowed)))
           l == AllowedEnd(t, h)
           p == CallersEnd(t, h)
<1> SUFFICES ASSUME found # <<>>
             PROVE  /\ IsPrefix(LimitLines(found), t)
                    /\ TrimSpace(LimitLines(found)) = TrimSpace(firstLines)
                    /\ Len(LimitLines(found)) <= Len(Append(firstLines, Newline))
                    /\ Len(Append(firstLines, Newline)) \in Nat
                    /\ Len(LimitLines(found)) \in Nat
  OBVIOUS
<1>1. Trimmed(t) /\ t \in Seq(Chars)
  BY TrimSpaceTrims DEF Trimmed
<1>2. t # <<>> /\ \E q : Ends(t, p, q) /\ found = SubSeq(t, 1, q)
  BY FoundIsBeginning
<1>3. MaxResults \in Nat \ {0}
  BY LimitsArePositive
<1>4. allowed = n /\ n \in Nat \ {0}
  BY <1>3, LeastIsLess
<1> HIDE DEF t, found, allowed, n, p
<1>5. t[1] # Newline /\ Len(t) \in Nat \ {0}
  BY <1>1, <1>2, EmptySeq DEF Trimmed
<1>6. firstLines = SubSeq(t, 1, l)
  BY <1>1, <1>4, CutIsLines DEF AllowedEnd, n
<1>7. l \in 1 .. Len(t) /\ p \in 1 .. Len(t)
  BY <1>1, <1>2, <1>4, <1>5, CutOfTrimmed DEF CallersEnd, AllowedEnd, n, p
<1> HIDE DEF firstLines
<1>8. PICK q : Ends(t, p, q) /\ found = SubSeq(t, 1, q)
  BY <1>2
<1>9. q \in 1 .. Len(t)
  BY <1>7, <1>8 DEF Ends
<1> DEFINE r == ServersEnd(t, q)
<1>10. LimitLines(found) = SubSeq(t, 1, r)
  BY <1>1, <1>3, <1>8, <1>9, LimitOfBeginning
<1>11. r \in 1 .. Len(t) /\ r <= l + 1 /\ \E e : Ends(t, r, e) /\ Ends(t, l, e)
  BY <1>1, <1>2, <1>3, <1>8, LimitsMeet DEF p
<1> HIDE DEF r, l
<1>12. PICK e : Ends(t, r, e) /\ Ends(t, l, e)
  BY <1>11
<1>13. TrimSpace(SubSeq(t, 1, r)) = SubSeq(t, 1, e) /\ TrimSpace(SubSeq(t, 1, l)) = SubSeq(t, 1, e)
  BY <1>1, <1>5, <1>7, <1>11, <1>12, TrimBeginning
<1>14. /\ SubSeq(t, 1, r) \in Seq(Chars) /\ Len(SubSeq(t, 1, r)) = r
       /\ SubSeq(t, 1, l) \in Seq(Chars) /\ Len(SubSeq(t, 1, l)) = l
  BY <1>1, <1>7, <1>11
<1>15. Len(Append(SubSeq(t, 1, l), Newline)) = l + 1
  <2>1. Newline \in Chars
    BY DEF Chars
  <2> QED BY <1>14, <2>1, AppendProperties
<1>16. IsPrefix(SubSeq(t, 1, r), t)
  <2>1. SubSeq(SubSeq(t, 1, r), 1, Len(SubSeq(t, 1, r))) = SubSeq(t, 1, r)
    BY <1>14, SubSeqFull
  <2> QED BY <1>1, <1>11, <1>14, <2>1 DEF IsPrefix
<1>17. IsPrefix(LimitLines(found), t) /\ TrimSpace(LimitLines(found)) = TrimSpace(firstLines)
  BY <1>6, <1>10, <1>13, <1>16
<1>18. Len(LimitLines(found)) = r /\ Len(Append(firstLines, Newline)) = l + 1
  BY <1>6, <1>10, <1>14, <1>15
<1> QED BY <1>5, <1>7, <1>11, <1>17, <1>18

GrepInv ==
  /\ Texted
  /\ tool = "grep" => args.head_limit \in Nat
  /\ GrepShowsFirstLines

\* A grep shows the first lines.
LEMMA GrepStep == GrepInv /\ Greps => GrepShowsFirstLines'
<1> SUFFICES ASSUME GrepInv, Greps PROVE GrepShowsFirstLines'
  OBVIOUS
<1> DEFINE h == args.head_limit
           t == TrimSpace(content)
           lines == Split(t)
           found == TrimSpace(ApplyHeadLimit(content, h))
           allowed == IF h = 0 THEN MaxResults ELSE Least(h, MaxResults)
           firstLines == Join(SubSeq(lines, 1, Least(Len(lines), allowed)))
<1>1. /\ content \in Seq(Chars) /\ h \in Nat /\ tool = "grep"
      /\ content' = content /\ args' = args /\ tool' = tool
  BY DEF GrepInv, Texted, Greps, vars
<1>2. /\ found = <<>> => outcome' = "no matches"
      /\ found # <<>> /\ TooBig(LimitLines(found)) => outcome' = "tooBig"
      /\ found # <<>> /\ ~ TooBig(LimitLines(found)) => outcome' = "text" /\ shown' = LimitLines(found)
  BY DEF Greps
<1>3. found # <<>> => /\ IsPrefix(LimitLines(found), t)
                      /\ TrimSpace(LimitLines(found)) = TrimSpace(firstLines)
                      /\ Len(LimitLines(found)) <= Len(Append(firstLines, Newline))
                      /\ Len(Append(firstLines, Newline)) \in Nat
                      /\ Len(LimitLines(found)) \in Nat
  BY <1>1, ShownIsFirstLines
<1>4. GrepShowsFirstLines' =
        ( /\ outcome' = "text" => IsPrefix(shown', t) /\ TrimSpace(shown') = TrimSpace(firstLines)
          /\ outcome' = "tooBig" => TooBig(Append(firstLines, Newline)) )
  BY <1>1 DEF GrepShowsFirstLines
<1> HIDE DEF found, firstLines, t, lines
<1>5. ASSUME outcome' = "text" PROVE IsPrefix(shown', t) /\ TrimSpace(shown') = TrimSpace(firstLines)
  BY <1>2, <1>3, <1>5
<1>6. ASSUME outcome' = "tooBig" PROVE TooBig(Append(firstLines, Newline))
  <2>1. found # <<>> /\ TooBig(LimitLines(found))
    BY <1>2, <1>6
  <2>2. MaxOutput \in Nat
    BY LimitsArePositive
  <2> QED BY <1>3, <2>1, <2>2 DEF TooBig
<1> QED BY <1>4, <1>5, <1>6

\* What grep shows begins what was found and, but for empty lines at its end, is all that
\* the caller's limit and the server's allow (grep.go); so for texts of every length and
\* every pair of limits.
THEOREM GrepIsRight == TextSpec => []GrepShowsFirstLines
<1>1. TextInit => GrepInv
  <2> SUFFICES ASSUME TextInit PROVE GrepInv
    OBVIOUS
  <2>1. Texted
    BY InitTexted
  <2>2. outcome = "none" /\ args \in Args(tool)
    BY DEF TextInit
  <2>3. tool = "grep" => args.head_limit \in Nat
    BY <2>2 DEF Args
  <2>4. GrepShowsFirstLines
    BY <2>2 DEF GrepShowsFirstLines
  <2> QED BY <2>1, <2>3, <2>4 DEF GrepInv
<1>2. GrepInv /\ [TextNext]_<<vars, toolVars>> => GrepInv'
  <2> SUFFICES ASSUME GrepInv, [TextNext]_<<vars, toolVars>> PROVE GrepInv'
    OBVIOUS
  <2>1. Texted'
    BY StepTexted DEF GrepInv
  <2>2. tool' = tool /\ args' = args
    BY DEF TextNext, Reads, Filters, Logs, Greps, toolVars
  <2>3. CASE Greps
    BY <2>1, <2>2, <2>3, GrepStep DEF GrepInv
  <2>4. CASE tool # "grep"
    BY <2>1, <2>2, <2>4 DEF GrepInv, GrepShowsFirstLines
  <2>5. CASE UNCHANGED <<vars, toolVars>>
    <3>1. content' = content /\ outcome' = outcome /\ shown' = shown
      BY <2>5 DEF vars, toolVars
    <3>2. GrepShowsFirstLines'
      BY <2>2, <3>1 DEF GrepInv, GrepShowsFirstLines
    <3> QED BY <2>1, <2>2, <3>2 DEF GrepInv
  <2> QED BY <2>3, <2>4, <2>5 DEF TextNext, Reads, Filters, Logs
<1>3. GrepInv => GrepShowsFirstLines
  BY DEF GrepInv
<1> QED BY <1>1, <1>2, <1>3, PTL DEF TextSpec
=============================================================================
