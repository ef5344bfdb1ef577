\* Two files of no or two blocks compete for one read block, under every fault.
\* A file may be left in the read queue for ever, and the program with it.
SPECIFICATION Spec
CONSTANTS
  c1 = c1
  c2 = c2
  f1 = f1
  f2 = f2
  f3 = f3
  Coordinators = {c1}
  Tasks = {f1, f2}
  Owner <- OneWindow
  Workers = {w1, w2}
  Blocks = {b1, b2}
  NoBlock = NoBlock
  NoTask = NoTask
  NoThread = NoThread
  MaxAllocations = 1
  HashCount = 2
  Enabled <- BothHashes
  Resolution = 1
  Sizes = {0, 2}
  Faults = {"open", "commit", "busy", "read", "disk", "release"}
SYMMETRY FilesToo
CHECK_DEADLOCK FALSE
INVARIANTS
  TypeOK
  OneOwner
  RoundCounted
  ContextsApart
  DigestsComplete
  BlocksOwned
  BudgetKept
PROPERTIES
  CancelStopsHashing
