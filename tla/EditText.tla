------------------------------- MODULE EditText -------------------------------
(***************************************************************************)
(* What the edit tool does to the text of a file and what it answers       *)
(* (internal/tools/edit.go, modifiedLines in common.go): an edit of each   *)
(* text by each pair of strings.  Whether it may be made at all is in      *)
(* FileGuard.                                                              *)
(*                                                                         *)
(* A text is a sequence of characters.  The tool replaces one string by    *)
(* another, writes the file, and only then cuts out of the new text the    *)
(* snippet it answers with.                                                *)
(***************************************************************************)
EXTENDS Integers, Sequences, FiniteSets, FiniteSetsExt, SequencesExt

CONSTANTS Letters, Newline,  \* the characters
          MaxText,           \* length of the file (a bound)
          MaxString          \* length of the arguments (a bound)

ASSUME TextsAreBounded == MaxText \in Nat /\ MaxString \in Nat /\ Newline \notin Letters

VARIABLES
  content,    \* of the file
  before,     \* what it was before the edit
  edit,       \* the arguments of the edit
  answer,     \* what came of it
  start, end  \* the range of lines it shows

vars == <<content, before, edit, answer, start, end>>

Texts(n) == BoundedSeq(Letters \cup {Newline}, n)
Edits == [old : Texts(MaxString), new : Texts(MaxString), all : BOOLEAN]

-----------------------------------------------------------------------------
(* Package strings *)

OccursAt(s, p, i) == i + Len(p) - 1 <= Len(s) /\ SubSeq(s, i, i + Len(p) - 1) = p

\* Where Count and Replace find p in s: from the left, without overlaps.
Matches(s, p) ==
  LET from[i \in 1 .. Len(s) + 1] ==
        IF i > Len(s) THEN {}
        ELSE IF OccursAt(s, p, i) THEN {i} \cup from[i + Len(p)]
        ELSE from[i + 1]
  IN IF p = <<>> THEN 1 .. Len(s) + 1 ELSE from[1]

Count(s, p) == Cardinality(Matches(s, p))

\* s with r for p at the places found.
Replacing(s, found, p, r) ==
  LET Kept(i) == i <= Len(s) /\ \A m \in found : i \notin m .. m + Len(p) - 1
  IN FlattenSeq([i \in 1 .. Len(s) + 1 |->
       (IF i \in found THEN r ELSE <<>>) \o (IF Kept(i) THEN <<s[i]>> ELSE <<>>)])
ReplaceEvery(s, p, r) == Replacing(s, Matches(s, p), p, r)
ReplaceFirst(s, p, r) == Replacing(s, {Min(Matches(s, p))}, p, r)

\* The numbers of a set in their order.
Rank(T, n) == Cardinality({m \in T : m < n})
InOrder(T) == [k \in 1 .. Cardinality(T) |-> CHOOSE n \in T : Rank(T, n) = k - 1]

Split(s) ==
  LET cuts == InOrder({0, Len(s) + 1} \cup {i \in 1 .. Len(s) : s[i] = Newline})
  IN [k \in 1 .. Len(cuts) - 1 |-> SubSeq(s, cuts[k] + 1, cuts[k + 1] - 1)]

-----------------------------------------------------------------------------
(* modifiedLines *)

\* How many lines are the same, at the start, and of the rest at the end.
Least(m, n) == Min({m, n})
Leading(old, new) ==
  Max({n \in 0 .. Least(Len(old), Len(new)) : SubSeq(old, 1, n) = SubSeq(new, 1, n)})
SameAtEnd(old, new, n) ==
  \A k \in 0 .. n - 1 : old[Len(old) - k] = new[Len(new) - k]
\* A slip: lines counted at the start are counted again.
TrailingOverlaps(old, new) ==
  Max({n \in 0 .. Least(Len(old), Len(new)) : SameAtEnd(old, new, n)})
Trailing(old, new) ==
  Max({n \in 0 .. Least(Len(old), Len(new)) - Leading(old, new) : SameAtEnd(old, new, n)})

\* The first and the last line of old that changed, and delta lines around.
ModifiedLines(old, new, delta) ==
  << Max({Leading(old, new) + 1 - delta, 1}),
     Least(Len(old) - Trailing(old, new) + delta, Len(old)) >>

-----------------------------------------------------------------------------
(* executeEdit *)

Init ==
  /\ content \in Texts(MaxText) /\ before = content
  /\ edit \in Edits
  /\ answer = "none" /\ start = 0 /\ end = 0

\* What is checked, by validateEdits, applyEditToContent and, in the end, by
\* applyMultipleEdits.  (Slip: the first of several may be replaced.)
FindsAny == edit.old # edit.new /\ Count(content, edit.old) > 0
Finds ==
  /\ edit.old # edit.new
  /\ Count(content, edit.old) > 0
  /\ edit.all \/ Count(content, edit.old) = 1
Edited == IF edit.all THEN ReplaceEvery(content, edit.old, edit.new)
                      ELSE ReplaceFirst(content, edit.old, edit.new)
Applies == Finds /\ Edited # content

Refuses ==
  /\ answer = "none" /\ ~ Applies
  /\ answer' = "refused"
  /\ UNCHANGED <<content, before, edit, start, end>>

ReplacesEach ==
  /\ answer = "none" /\ Applies /\ edit.all
  /\ content' = Edited
  /\ answer' = "all"
  /\ UNCHANGED <<before, edit, start, end>>

\* The snippet is newLines[start:end]: what follows line start, and must not
\* end behind newLines.
ReplacesOne ==
  /\ answer = "none" /\ Applies /\ ~ edit.all
  /\ content' = Edited
  /\ LET lines == Split(Edited)
         range == ModifiedLines(Split(content), lines, 2)
     IN /\ start' = range[1] /\ end' = range[2]
        /\ answer' = IF range[2] <= Len(lines) THEN "snippet" ELSE "panic"
  /\ UNCHANGED <<before, edit>>

Next == Refuses \/ ReplacesEach \/ ReplacesOne

Spec == Init /\ [][Next]_vars

-----------------------------------------------------------------------------
WrittenOnce == answer \in {"snippet", "panic"}

(***************************************************************************)
(* The range that modifiedLines finds before it adds context is the        *)
(* change: the lines before and after it are those of the new text, and    *)
(* no shorter range has that property.                                     *)
(***************************************************************************)
RangeIsTheChange ==
  LET old == Split(before)
      new == Split(content)
      range == ModifiedLines(old, new, 0)
      Kept(first, last) ==
        /\ first - 1 <= last /\ first - 1 + Len(old) - last <= Len(new)
        /\ SubSeq(old, 1, first - 1) = SubSeq(new, 1, first - 1)
        /\ SameAtEnd(old, new, Len(old) - last)
  IN WrittenOnce =>
     /\ Kept(range[1], range[2])
     /\ \A first \in 1 .. Len(old) + 1, last \in 0 .. Len(old) :
          first >= range[1] /\ last <= range[2] /\ Kept(first, last)
            => <<first, last>> = range

Places == {i \in 1 .. Len(before) + 1 : OccursAt(before, edit.old, i)}

(***************************************************************************)
(* A single edit replaces the first occurrence of its string and nothing   *)
(* else, and there is no other that is apart from it: counting matches     *)
(* from the left misses only those that overlap.                           *)
(***************************************************************************)
OneOccurrenceChanges ==
  WrittenOnce =>
    /\ content = SubSeq(before, 1, Min(Places) - 1) \o edit.new
                   \o SubSeq(before, Min(Places) + Len(edit.old), Len(before))
    /\ \A i \in Places : i # Min(Places) => i < Min(Places) + Len(edit.old)

-----------------------------------------------------------------------------
(* What the repository says and the code does not keep *)

(***************************************************************************)
(* "For single replacements, show context around the change so the user    *)
(* can verify the edit was correct" (edit.go:35): a file that was written  *)
(* is answered with a snippet.                                             *)
(***************************************************************************)
WrittenIsAnswered == answer # "panic"

=============================================================================
