SPECIFICATION FairSpec
CONSTANTS
  First = 1
  SizeMax = 9
  InitSizes = {4}
  Word = 2
  Hdr = 1
  VBHeapMin = 2
  FootMin = 5
  MaxFitWalk = 2
  MaxAllocResizes = 2
  Requests = {1, 2, 4}
  Misuse = TRUE
INVARIANTS ListComplete
PROPERTIES Implements Terminates
