\* Two windows with a file each share the pool, the queue and one block.
SPECIFICATION Spec
CONSTANTS
  c1 = c1
  c2 = c2
  f1 = f1
  f2 = f2
  f3 = f3
  Coordinators = {c1, c2}
  Tasks = {f1, f3}
  Owner <- TwoWindows
  Workers = {w1, w2}
  Blocks = {b1, b2}
  NoBlock = NoBlock
  NoTask = NoTask
  NoThread = NoThread
  MaxAllocations = 1
  HashCount = 1
  Enabled <- OneHash
  Resolution = 1
  Sizes = {1}
  Faults = {"open", "commit", "busy", "read", "disk", "release"}
SYMMETRY Interchangeable
CHECK_DEADLOCK FALSE
INVARIANTS
  NoUseAfterFree
