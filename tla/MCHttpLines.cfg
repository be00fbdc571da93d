SPECIFICATION HttpTextSpec
CONSTANTS
  Chars <- MCChars
  MaxLen = 4
  Keys = {}
  Values = {}
  MaxPairs = 1
  Ns = {5}
INVARIANTS LinesOfHttp
CHECK_DEADLOCK FALSE
