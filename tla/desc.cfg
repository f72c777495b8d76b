SPECIFICATION Spec
CONSTANTS
  Addr = {1, 2, 3}
  Name <- MCApart
  Curs = {own, user}
  Pattern <- MCPattern
  Own = own
  Duplicates = FALSE
  Beyond <- MCBeyond
  None = 0
INVARIANTS  GotoRight
PROPERTIES LoopsSound
