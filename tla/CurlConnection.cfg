CONSTANTS
  c_maxRetries = 3
  MAX_RESPONSE_CHARACTERS = 2
  Statuses <- MCStatuses
  RetryAfters <- MCRetryAfters
  BaseDelays <- MCBaseDelays
  ChunkSizes <- MCChunkSizes
  Urls <- MCUrls
  Bodies <- MCBodies
  CvLimit = 2
  MaxCalls = 3
SPECIFICATION Spec
INVARIANTS
  IInv
  OnlyLivePointers
  RequestIsTheCall
  BodyIsTheAnswer
  WaitIsForThisAnswer
PROPERTIES
  ImplementsHttpRequest
  EveryCallReturns
  RetriesRepeatTheRequest
