\* Every part of the files; see MCFiles for the file system and the names.
SPECIFICATION Spec
CONSTANTS
  Plain <- MCPlain
  Dirs <- MCDirs
  Links <- MCLinks
  LongName <- MCLongName
  Sums <- MCSums
  TypeOf <- MCTypeOf
  Beside <- MCBeside
  Algorithms = {0, 1, 2}
  ChosenLists <- MCChoices
  Selections <- MCSelections
  Names <- MCNames
  AlgorithmCount = 2
  Exporters <- MCExporters
  Enabled <- MCSets
  Hashed <- MCSets
  MaxLines = 3
INVARIANTS
  ChoiceListed
  SumfileAloneCounts
  AllOrNothing
  Released
  ReadsBack
CHECK_DEADLOCK FALSE
