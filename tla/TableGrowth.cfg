SPECIFICATION TextsSpec
CONSTANTS
  main = main  none = none  torn = torn
  Null = Null
  Name <- MCName
  Host <- MCHost
  Selector <- MCSelector
  Procedural <- MCProcedural
  Invalid <- MCInvalid
  Script = {main, none, torn}
  NoScript = none
  BadScript = {torn}
  Action = {"remove"}
  Bit = {1, 2}
  Line <- MCLine
  MaxRules = 5
  Ident = {"a", "b", "t", "f", "g", "h"}
  Trust = {1}
  Resource <- MCResource
  RuleInjection <- MCInjection
  NoCall = NoCall
  Letter <- MCLetter
  Text <- MCText
  Url <- MCUrl
  None = None
  Domain = {"a", "b", "re"}
  RegexDomain = {"re"}
  BadParam = {"p*"}
  Option <- MCOption
  MaxOptions = 3
  ListLine <- MCListLine
  MaxLines = 4
  Interval = {"1 day"}
  Cut = "cut"
  FlatKey <- MCFlatKey
  Hash <- MCHash
  MaxCalls = 5
  Parts = {"containers"}
  MaxPieces = 1
INVARIANTS SelectorsUnderTheirKey
\* Every call has been made.
CHECK_DEADLOCK FALSE
