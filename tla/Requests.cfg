CONSTANTS
  Lower <- MCLower
  NameSpace <- MCNameSpace
  Products <- MCProducts
  Versions <- MCVersions
  VersionAnswers <- MCVersionAnswers
  FileAnswers <- MCFileAnswers
  MaxElements = 2
  Nothing = Nothing
SPECIFICATION Spec
INVARIANTS
  EntitiesAreMeant
  PromisedIsAccepted
  FilesAreMeant
  FirstDefectIsTold
