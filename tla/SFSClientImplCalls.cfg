CONSTANTS
  c_maxRetries = 1
  Statuses <- MCFewStatuses
  Products <- MCOneProduct
  NameSpace = "default"
  NameSpaces <- MCOneNameSpace
  PrerequisiteLists <- MCOnePrerequisiteList
  FileLists <- MCFewFileLists
  MaxVersion = 3
  MaxCalls = 2
  Nothing = Nothing
SPECIFICATION Spec
INVARIANTS
  IInv
  RequestBudget
PROPERTIES
  ImplementsDownloadInfo
CHECK_DEADLOCK FALSE
