\* Two workers, three passes, breaker after two failures, up to two attempts.  The distances
\* between group IDs are so small that repetitions meet other passes, and workers each other.
CONSTANTS
  Workers = {0, 1}
  ReqCount = 3
  Configurations <- MCConfigurations
  MaxFailures = 2
  MaxAttempts = 2
  Stride = 4
  Offset = 2
  Placeholders <- MCPlaceholders
  Settings <- MCSettings
  Malformed = Malformed
  NoValue = NoValue
  Compiles <- MCCompiles
  Rendered <- MCRendered
  Called <- MCCalled
  Blank = " "
  Numeral <- MCNumeral
  Formatted <- MCFormatted
  WellFormed <- MCWellFormed
  Conforms <- MCConforms
  Rules <- MCRules
  Responses <- MCResponses
  Lists <- MCLists
SPECIFICATION Spec
INVARIANTS UnsentHasCause VarsAreFresh ValuesArrive GroupsTellApart RulesAgree SelectsSoundly
