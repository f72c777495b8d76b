SPECIFICATION Spec
CONSTANTS
  Addr = {1, 2, 3, 4}
  Name <- MCNested
  Pattern <- MCPattern
  Curs = {own}
  Own = own
  Duplicates = FALSE
  Beyond <- MCBeyond
  None = 0
INVARIANT Threaded
