\* A log within its limit.
SPECIFICATION Spec
CONSTANTS
  x = x
  y = y
  nl = nl
  Char = {x, nl}
  Newline = nl
  Marker = Marker
  MaxLog = 4
  MaxChunk = 3
  MaxWritten = 4
INVARIANTS
  LogIsWhatWasWritten
CHECK_DEADLOCK FALSE
