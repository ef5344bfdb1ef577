\* Every part of the library; the bounds of the streams are in Streams.
SPECIFICATION Spec
CONSTANTS
  Machines <- MCMachines
  Boxes = {box1, box2, box3}
  Memory = {m1, m2, m3}
  AlgorithmNames = {a1, a2}
  SizeMod = 65536
  PartMod = 4
  TableSize = 4
  Bytes = {0, 9, 171, 255}
  MaxBytes = 4
  Chars = {32, 48, 57, 97, 71, 92, 61, 304}
  MaxChars = 5
  OutsideChars = {32, 48, 71}
  MaxOutside = 3
  TableWords = {0, 1, 3}
INVARIANTS
  OnlyExecutable
  TableSound
  OwnedOnce
  ConversionsInvert
  TextMeansItsPairs
PROPERTIES
  StreamsAreHashes
CHECK_DEADLOCK FALSE
