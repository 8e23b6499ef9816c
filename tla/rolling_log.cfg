SPECIFICATION LogSpec
CONSTANTS
  Threads = {t1, t2}
  NoThread = NoThread
  MaxFilesChoices = {0, 1, 2, 3}
  MaxFileSize = 2
  LineParts = 2
  Missing = Missing
  Mark = Mark
  Foreign = Foreign
  MaxLines = 3
  MaxForeign = 5
CONSTRAINT Bounded
CHECK_DEADLOCK FALSE
INVARIANTS LogTypeOK NewestLinesAreKept LinesInOrder LinesAreWhole SizeIsTrue
PROPERTY LogReturns
