\* Chunks of up to three characters around a limit of four.  The bound on what is
\* written stops the run, not the code.
SPECIFICATION Spec
CONSTANTS
  x = x
  y = y
  nl = nl
  Char = {x, y, nl}
  Newline = nl
  Marker = Marker
  MaxLog = 4
  MaxChunk = 3
  MaxWritten = 6
INVARIANTS
  KeepsBeginning
  LinesAreWhole
CHECK_DEADLOCK FALSE
