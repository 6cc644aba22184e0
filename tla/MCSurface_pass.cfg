CONSTANTS
  Call = {k1, k2}
  Tool = {t1, t2}
  Page = {pg1, pg2}
  None = None
  MaxLog = 3
  MaxEvents = 8
  Session = {s1, s2}
  Hash = {h1, h2}
  Scopes = {"shared", "private"}
  MaxTime = 2
  Caller = {i1, i2}
  Key = {x1}
  Branch = {b1, b2}
  Process = {q1, q2}
  Project = {r1}
  What = {w1, w2}
  HostCall = {k1}
  Version = {v1, v2}
  Visit = {e1, e2}
  Operation = {o1, o2}
  Asker = {b3, b4}
  Helper = {hp1, hp2}
  TTL = 2
  Writer = {p1, p2}
  Record = {s, l, m}
  Long = {l, m}
  Parts = 2
  Pid = {r, c, d}
  Root = r
  MaxPasses = 4
  Stable = 2
  Ask = {a1, a2}
  Starter = {n1, n2}
  Dir = {d1, d2}
  Keep = 1
  MaxArgs = 5
  Prompt = {m1, m2}
  Limit = 3
  Request = {y1}
  Url = {u1, u2}
  DirectTool = {g1, g2}
  MaxReconnects = 2
  Line = {x, y}
  MaxLines = 5
  MaxEntries = 7
  MaxCompleted = 1
  MaxContexts = 1
SPECIFICATION Spec
SYMMETRY Symmetry
INVARIANTS
  SurfaceTypeOK
  PagesAreServed
  UserDecides
  CallsHaveOwners
  NothingIsCut
PROPERTIES
  CacheIsFaithful
  EmbeddersAreServed
  SecretsAreKept
  PanelsAreTrue
CHECK_DEADLOCK FALSE
