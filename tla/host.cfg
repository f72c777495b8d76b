SPECIFICATION HostSpec
CONSTANTS
  None = None
  Addr = {1, 2, 3}
  Thread = {t1, t2}
  Orderly = TRUE
  Recycled = FALSE
  Rec = {r1, r2}
  Pushes = FALSE
  Store = {s1, s2}
  Pos = {1, 2}
  Generations = 3
  Stamps = 3
  MaxNode = 4
  Setter = {a, b}
  Waiter = {w, x}
  Manual = TRUE
  Signalled = FALSE
  Resets = TRUE
  Rounds = 3
  Threads = {main, other}
  Main = main
  Files = {f}
  Contents = {"absent", "text", "textlog"}
  ReportCalls = {"display", "force text", "set log", "sink", "uses"}
  MaxCalls = 2
  Env = 0
  Viewable = TRUE
  Writable = FALSE
  Settled = {TRUE, FALSE}
  Events = {e1, e2, e3}
  Inner = {"cancel"}
  LifeMaxDepth = 3
  MaxMade = 2
  Addrs = {p, q}
  Windows = {None, win}
  Masks = {{"insert", "update"}, {"delete"}}
  SinkDoes = {"arm", "fire", "drop"}
  Vector = FALSE
  TriggerMaxDepth = 2
  MaxList = 2
  Mgrs = {m, n}
  Heaps = {1, 2, 3}
  Buffers = {d1, d2}
INVARIANTS RegistrySafe   Faithful  ReportsStand   
