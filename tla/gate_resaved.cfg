SPECIFICATION GSpec
CONSTANTS
  First = 3
  Sync = 1
  SizeMax = 11
  InitSizes = {4}
  Word = 2
  Hdr = 1
  VBHeapMin = 2
  FootMin = 3
  MaxFitWalk = 2
  MaxAllocResizes = 2
  Requests = {1, 3}
  Misuse = FALSE
INVARIANT FileHoldsImage
