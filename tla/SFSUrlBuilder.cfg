CONSTANTS
  Characters <- MCCharacters
  Escaped <- MCEscaped
  AccountIds <- MCAccountIds
  Urls <- MCUrls
  InstanceIds <- MCInstanceIds
  NameSpaces <- MCNameSpaces
  Products <- MCProducts
  Versions <- MCVersions
  Strings <- MCStrings
  Names <- MCNames
  CurlFails = TRUE
  MaxCalls = 2
  MaxLength = 2
  Nothing = Nothing
SPECIFICATION Spec
INVARIANTS
  UrlIsTheRequested
  UrlsIdentifyRequests
  PathSettles
CHECK_DEADLOCK FALSE
