CONSTANTS
  Processes = {p1, p2}
  CommandLines <- MCLines
  Dirs <- MCDirs
  FileIds <- MCFileIds
  FilesOf <- MCFilesOf
  MaxRuns = 3
  Nothing = Nothing
SYMMETRY MCSymmetry
SPECIFICATION Spec
INVARIANTS
  UntouchedFilesAreWhole
PROPERTIES
  OldFilesStay
CHECK_DEADLOCK FALSE
