\* One file whose read cannot be started.
SPECIFICATION Spec
CONSTANTS
  c1 = c1
  c2 = c2
  f1 = f1
  f2 = f2
  f3 = f3
  Coordinators = {c1}
  Tasks = {f1}
  Owner <- OneWindow
  Workers = {w1, w2}
  Blocks = {b1, b2}
  NoBlock = NoBlock
  NoTask = NoTask
  NoThread = NoThread
  MaxAllocations = 1
  HashCount = 2
  Enabled <- BothHashes
  Resolution = 1
  Sizes = {1}
  Faults = {"read"}
PROPERTIES
  GiveUpAsserted
