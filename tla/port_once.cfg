SPECIFICATION Spec
CONSTANTS
  Caller = {c1}
  Op = {r, w}
  Writes = {w}
  Packet = {p}
  Fd = {1}
  Files = 2
  Parts = 2
  Slots = 2
  MayRefuse = TRUE
  None = None
INVARIANTS  KeyBound
VIEW PortView
