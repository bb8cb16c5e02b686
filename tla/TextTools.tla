------------------------------- MODULE TextTools --------------------------------
(***************************************************************************)
(* What the tools make of text.  Next to the edits of EditText: read       *)
(* (read.go, catN in common.go) shows a range of lines; bash_output        *)
(* filters what is new (filterOutput in bash_output.go); bash logs what    *)
(* arrives, line by line (linePrefixWriter in bash.go); grep and glob cut  *)
(* their output short (grep.go, glob.go, limitLines in constraints.go).    *)
(*                                                                         *)
(* Each is tried on every small text, with all arguments, and the output   *)
(* of a command arrives in all possible pieces.                            *)
(***************************************************************************)
EXTENDS EditText

CONSTANTS MaxInt,      \* the largest int; the least is -(MaxInt + 1)
          DefaultLines,  \* lines shown if no range is asked for: 2000
          MaxWidth,      \* characters shown of a line: 2000
          MaxResults,    \* absoluteMaxResults: 1000
          MaxOutput      \* absoluteMaxOutputSize: 100000

ASSUME TextsHaveFewerLinesThanInts == MaxInt \in Nat /\ MaxText < MaxInt
ASSUME LimitsArePositive == {DefaultLines, MaxResults, MaxOutput} \subseteq Nat \ {0}

VARIABLES
  tool,     \* "edit", "read", "filter", "log", "grep"
  args,     \* its arguments, but for those of an edit
  at,       \* how much of the text it has been given
  shown,    \* what it has shown of that
  buf,      \* the part of a line that linePrefixWriter holds back
  whole,    \* whether the pieces so far end where lines end
  outcome   \* "none" before the end

toolVars == <<tool, args, at, shown, buf, whole, outcome>>

Ints == -(MaxInt + 1) .. MaxInt

Args(t) == CASE t = "read" -> [offset : Ints, limit : Ints]
             [] t = "filter" -> [pattern : {"none", "letters", "blanks"}]
             [] t = "grep" -> [head_limit : 0 .. MaxText]
             [] OTHER -> {<<>>}

NoEdit == [old |-> <<>>, new |-> <<>>, all |-> FALSE]

TextInit ==
  /\ Init
  /\ tool \in {"edit", "read", "filter", "log", "grep"}
  /\ tool # "edit" => edit = NoEdit
  /\ args \in Args(tool)
  /\ at = 0 /\ shown = <<>> /\ buf = <<>> /\ whole = TRUE /\ outcome = "none"

Join(lines) == FlattenSeq([i \in DOMAIN lines |->
                             IF i = 1 THEN lines[i] ELSE <<Newline>> \o lines[i]])

\* checkOutputSize.  (The numbers that read puts before its lines are not counted.)
TooBig(s) == Len(s) > MaxOutput

-----------------------------------------------------------------------------
(* read *)

Wrapped(n) == ((n + MaxInt + 1) % (2 * (MaxInt + 1))) - (MaxInt + 1)

\* A slip: one line more than asked for.
LineRangeByOne(total, offset, limit) ==
  LET first == IF offset > 0 THEN offset ELSE 1 IN
  << first, IF limit > 0 THEN Least(Wrapped(first + limit), total)
            ELSE IF limit = 0 /\ offset = 0 /\ total > DefaultLines THEN DefaultLines
            ELSE total >>

CalculateLineRange(total, offset, limit) ==
  LET first == IF offset > 0 THEN offset ELSE 1 IN
  << first, IF limit > 0 THEN Least(Wrapped(Wrapped(first + limit) - 1), total)
            ELSE IF limit = 0 /\ offset = 0 /\ total > DefaultLines THEN DefaultLines
            ELSE total >>

\* catN: lines with their numbers.
CatN(lines, numbers) ==
  [i \in DOMAIN numbers |->
     << numbers[i], SubSeq(lines[numbers[i]], 1, Least(Len(lines[numbers[i]]), MaxWidth)) >>]
TextOf(numbered) == Join([i \in DOMAIN numbered |-> numbered[i][2]])

\* The slice is lines[startLine-1:endLine].
Reads ==
  LET lines == Split(content)
      range == CalculateLineRange(Len(lines), args.offset, args.limit)
      selected == [i \in 1 .. range[2] - range[1] + 1 |-> range[1] + i - 1]
      result == CatN(lines, selected)
  IN  /\ tool = "read" /\ outcome = "none"
      /\ outcome' = IF content = <<>> THEN "empty"
                    ELSE IF args.offset > 0 /\ range[1] > Len(lines) THEN "short"
                    ELSE IF range[2] < range[1] - 1 THEN "panic"
                    ELSE IF TooBig(TextOf(result)) THEN "tooBig" ELSE "lines"
      /\ shown' = IF outcome' = "lines" THEN result ELSE <<>>
      /\ UNCHANGED <<vars, tool, args, at, buf, whole>>

-----------------------------------------------------------------------------
(* Output that arrives in pieces *)

EndsLine(s) == s # <<>> /\ s[Len(s)] = Newline

MatchString(pattern, line) == CASE pattern = "none" -> TRUE
                                [] pattern = "letters" -> line # <<>>
                                [] pattern = "blanks" -> line = <<>>
Selected(lines, pattern) ==
  LET matching == InOrder({i \in DOMAIN lines : MatchString(pattern, lines[i])})
  IN [k \in DOMAIN matching |-> lines[matching[k]]]

\* A slip: the newline at the end is not put back.
FilterWithoutNewline(s, pattern) ==
  IF pattern = "none" THEN s ELSE Join(Selected(Split(s), pattern))

FilterOutput(s, pattern) ==
  LET result == Join(Selected(Split(s), pattern)) IN
  IF pattern = "none" THEN s
  ELSE IF EndsLine(s) /\ result # <<>> THEN Append(result, Newline) ELSE result

Piece(k) == SubSeq(content, at + 1, k)
Takes(k) == /\ at' = k
            /\ whole' = (whole /\ (k = Len(content) \/ content[k] = Newline))
            /\ outcome' = IF k = Len(content) THEN "text" ELSE "none"

\* A call of bash_output takes what has arrived since the last one.
Filters(k) ==
  /\ tool = "filter" /\ outcome = "none" /\ (k > at \/ k = Len(content))
  /\ Takes(k)
  /\ shown' = shown \o FilterOutput(Piece(k), args.pattern)
  /\ UNCHANGED <<vars, tool, args, buf>>

\* linePrefixWriter.Write, and Flush after the last piece.
Logs(k) ==
  LET lines == Split(buf \o Piece(k)) IN
  /\ tool = "log" /\ outcome = "none" /\ (k > at \/ k = Len(content))
  /\ Takes(k)
  /\ IF k = Len(content) /\ Last(lines) # <<>>
     THEN shown' = shown \o lines ELSE shown' = shown \o Front(lines)
  /\ buf' = IF k = Len(content) THEN <<>> ELSE Last(lines)
  /\ UNCHANGED <<vars, tool, args>>

-----------------------------------------------------------------------------
(* grep and glob *)

TrimSpace(s) ==
  LET kept == {i \in 1 .. Len(s) : s[i] # Newline} IN
  IF kept = {} THEN <<>> ELSE SubSeq(s, Min(kept), Max(kept))

ApplyHeadLimit(s, limit) ==
  LET lines == Split(TrimSpace(s)) IN
  IF limit <= 0 THEN s ELSE Join(SubSeq(lines, 1, Least(Len(lines), limit)))

Newlines(s, i) == Cardinality({k \in 1 .. i : s[k] = Newline})

\* A slip: the line after the last is kept as well.
LimitLinesByOne(s) ==
  LET past == {i \in 1 .. Len(s) : Newlines(s, i) > MaxResults} IN
  IF past = {} THEN s ELSE SubSeq(s, 1, Min(past))

\* Up to and with the newline of the last line.
LimitLines(s) ==
  LET past == {i \in 1 .. Len(s) : Newlines(s, i) >= MaxResults} IN
  IF past = {} THEN s ELSE SubSeq(s, 1, Min(past))

\* glob does the same with no limit of the caller's, and nothing to trim.
Greps ==
  LET found == TrimSpace(ApplyHeadLimit(content, args.head_limit)) IN
  /\ tool = "grep" /\ outcome = "none"
  /\ IF found = <<>> THEN outcome' = "no matches" /\ UNCHANGED shown
     ELSE IF TooBig(LimitLines(found)) THEN outcome' = "tooBig" /\ UNCHANGED shown
     ELSE outcome' = "text" /\ shown' = LimitLines(found)
  /\ UNCHANGED <<vars, tool, args, at, buf, whole>>

-----------------------------------------------------------------------------
TextNext ==
  \/ tool = "edit" /\ Next /\ UNCHANGED toolVars
  \/ Reads
  \/ \E k \in at .. Len(content) : Filters(k) \/ Logs(k)
  \/ Greps

TextSpec == TextInit /\ [][TextNext]_<<vars, toolVars>>

-----------------------------------------------------------------------------
Lines == Split(content)

FirstAsked == Max({args.offset, 1})
AskedFor == {n \in DOMAIN Lines :
               /\ n >= FirstAsked
               /\ args.limit > 0 => n < FirstAsked + args.limit
               /\ args.offset = 0 /\ args.limit = 0 => n <= DefaultLines}

(***************************************************************************)
(* read shows the lines that were asked for, with their numbers, and says  *)
(* that the file is too short or the output too big only if it is: for     *)
(* every offset and limit, negative ones too.  Only a range that ends      *)
(* beyond the ints is not promised: there the sum wraps (read.go:96) and   *)
(* slicing panics.                                                         *)
(***************************************************************************)
ReadShowsWhatWasAsked ==
  LET asked == InOrder(AskedFor)
      wraps == FirstAsked \in DOMAIN Lines /\ FirstAsked + args.limit - 1 > MaxInt
  IN tool = "read" /\ outcome \notin {"none", "empty"} /\ ~ wraps =>
       /\ outcome = IF asked = <<>> THEN "short"
                    ELSE IF TooBig(TextOf(CatN(Lines, asked))) THEN "tooBig" ELSE "lines"
       /\ shown = IF outcome = "lines" THEN CatN(Lines, asked) ELSE <<>>

\* The lines of the text that match, each with the newline it has there.
Matching ==
  LET Ended(n) == IF n < Len(Lines) THEN Append(Lines[n], Newline) ELSE Lines[n]
      Chosen(n) == MatchString(args.pattern, Lines[n]) /\ Ended(n) # <<>>
  IN FlattenSeq([n \in DOMAIN Lines |-> IF Chosen(n) THEN Ended(n) ELSE <<>>])

(***************************************************************************)
(* Lines stay whole.  "Supports optional regex filtering to show only      *)
(* lines matching a pattern" (BashOutputTool): however many calls the      *)
(* output was read in, their answers together are the lines that match.    *)
(* And the log has every line of the output as a line of its own, in       *)
(* whatever pieces it came, with a last line that has no newline           *)
(* (bash.go:235-242).  For the filter that is not so if a piece ended      *)
(* within a line (bash_output.go:71), or for a pattern that matches the    *)
(* empty line, which strings.Split finds behind every last newline.        *)
(***************************************************************************)
LinesStayWhole ==
  outcome = "text" =>
    /\ tool = "filter" /\ args.pattern # "blanks" /\ whole => shown = Matching
    /\ tool = "log" => shown = IF Last(Lines) = <<>> THEN Front(Lines) ELSE Lines

(***************************************************************************)
(* grep shows the beginning of what was found, up to the line where the    *)
(* caller's limit or the server's ends it, whichever is first, and no      *)
(* less: what is missing at its end is but empty lines.  It shows nothing  *)
(* at all only if that much would be too big.                              *)
(***************************************************************************)
GrepShowsFirstLines ==
  LET lines == Split(TrimSpace(content))
      allowed == IF args.head_limit = 0 THEN MaxResults
                 ELSE Least(args.head_limit, MaxResults)
      firstLines == Join(SubSeq(lines, 1, Least(Len(lines), allowed)))
  IN /\ tool = "grep" /\ outcome = "text" =>
          IsPrefix(shown, TrimSpace(content)) /\ TrimSpace(shown) = TrimSpace(firstLines)
     /\ tool = "grep" /\ outcome = "tooBig" => TooBig(Append(firstLines, Newline))

=============================================================================
