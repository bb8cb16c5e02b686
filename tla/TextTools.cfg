SPECIFICATION TextSpec
CONSTANTS
  Letters = {a}
  Newline = nl
  MaxText = 6
  MaxString = 3
  MaxInt = 7
  DefaultLines = 3
  MaxWidth = 1
  MaxResults = 2
  MaxOutput = 4
INVARIANT RangeIsTheChange
INVARIANT OneOccurrenceChanges
INVARIANT ReadShowsWhatWasAsked
INVARIANT LinesStayWhole
INVARIANT GrepShowsFirstLines
CHECK_DEADLOCK FALSE
