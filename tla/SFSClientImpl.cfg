CONSTANTS
  c_maxRetries = 1
  Statuses <- MCStatuses
  Products <- MCProducts
  NameSpace = "default"
  NameSpaces <- MCNameSpaces
  PrerequisiteLists <- MCPrerequisiteLists
  FileLists <- MCFileLists
  MaxVersion = 2
  MaxCalls = 1
  Nothing = Nothing
SPECIFICATION Spec
INVARIANTS
  FilesBelongToTheirContent
  ContentIsComplete
PROPERTIES
  FirstFailureIsReported
  EveryCallReturns
  ImplementsDownloadInfo
CHECK_DEADLOCK FALSE
