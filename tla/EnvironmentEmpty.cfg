CONSTANTS
  Names = {url, delay}
  BaseUrl = url
  BaseRetryDelayMs = delay
  NoName = NoName
  number = number
  text = text
  Values = {number, text}
  Empty = Empty
  Absent = Absent
  Threw = Threw
  StartValues = {Absent, Empty}
  ToInt <- MCToInt
  OwnUrl = OwnUrl
  MaxScopes = 3
SPECIFICATION Spec
INVARIANT
  ScopesComeUndone
