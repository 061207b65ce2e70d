SPECIFICATION MCSpec
CONSTANTS
  Ids <- MCIds
  Makes <- MCMakes
  Hosts = {0, 2}
  Unset = Unset
  n1 = n1
  n2 = n2
  n3 = n3
  t1 = t1
  t2 = t2
  d1 = d1
  d2 = d2
  p1 = p1
  p2 = p2
  p3 = p3
  None = None
  Threads <- MCThreads
  MaxPages = 3
  MaxBrk = 5
  Tids = {1, 2}
  First = 1
  Fds <- MCFds
  MaxFds = 1
  MaxLinks = 1
  MaxQueue = 2
  MaxNet = 4
  Tracees <- MCThreads
  LinkNames = {n1, n2, n3}
  Linkers = {t1, t2}
  MaxSuffix = 1
  MaxCount = 3
  MaxFiles = 2
  Openers = {1, 2}
  FirstOpener = 1
  Numbers <- MCFds
  Dirs = {d1, d2}
  Paths = {p1, p2, p3}
  Home <- MCHome
  Nil = Nil
  Slots = 2
  MaxDirCalls = 4
  Names = {"a", "b"}
  Files = {"f", "g"}
  NoFile = "no"
  MaxModeCalls = 3
  Runs = {r1, r2}
  Options <- MCOptions
  Components = {"a", "b", "c", "d"}
  Tree <- MCTree
  Initial <- MCInitial
  MaxCreated = 3
SYMMETRY Symmetry
INVARIANTS AsKernel LinksTrue NamesAgree NetlinkSound ModesKept HeapTrue SetupSound
PROPERTIES NoRegain
CHECK_DEADLOCK FALSE
