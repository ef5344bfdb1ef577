\* A window with two files, and a block for each of them.
\* No symmetry: it is not sound for liveness.
SPECIFICATION FairSpec
CONSTANTS
  c1 = c1
  c2 = c2
  f1 = f1
  f2 = f2
  f3 = f3
  Coordinators = {c1}
  Tasks = {f1, f2}
  Owner <- OneWindow
  Workers = {w1, w2}
  Blocks = {b1, b2, b3}
  NoBlock = NoBlock
  NoTask = NoTask
  NoThread = NoThread
  MaxAllocations = 2
  HashCount = 1
  Enabled <- OneHash
  Resolution = 1
  Sizes = {1}
  Faults = {"open", "disk"}
PROPERTIES
  FilesFinish
  CancelEnds
  CloseEnds
