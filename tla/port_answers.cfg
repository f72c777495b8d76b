SPECIFICATION FairSpec
CONSTANTS
  Caller = {c1, c2}
  Op = {r}
  Writes = {}
  Packet = {p}
  Fd = {1}
  Files = 2
  Parts = 1
  Slots = 9
  MayRefuse = TRUE
  None = None
PROPERTIES Delivered
