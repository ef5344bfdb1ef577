\* Two files and nothing that goes wrong.
SPECIFICATION Spec
CONSTANTS
  c1 = c1
  c2 = c2
  f1 = f1
  f2 = f2
  f3 = f3
  Coordinators = {c1}
  Tasks = {f1, f2}
  Owner <- OneWindow
  Workers = {w1, w2}
  Blocks = {b1, b2, b3}
  NoBlock = NoBlock
  NoTask = NoTask
  NoThread = NoThread
  MaxAllocations = 2
  HashCount = 2
  Enabled <- BothHashes
  Resolution = 1
  Sizes = {1}
  Faults = {}
INVARIANTS
  ListsOnlyWhenDone
