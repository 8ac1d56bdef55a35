CONSTANTS
  CommandLines <- MCCommandLines
  Answers <- MCAnswers
  AllStrings <- MCStrings
  Lower <- MCLower
  ExitModulus = 65536
  AllowOverrides = TRUE
  Nothing = Nothing
SPECIFICATION Spec
INVARIANTS
  LineIsUnderstood
  AsksWhatTheLineSays
  OutputIsTheAnswer
  FailureKeepsTheFile
  ZeroIsSuccess
CHECK_DEADLOCK FALSE
