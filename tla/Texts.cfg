SPECIFICATION TextsSpec
CONSTANTS
  main = main  none = none  torn = torn
  Null = Null
  Name <- MCName
  Host <- MCHost
  Selector <- MCSelector
  Procedural <- MCProcedural
  Invalid <- MCInvalid
  Script = {main, none, torn}
  NoScript = none
  BadScript = {torn}
  Action = {"remove"}
  Bit = {1, 2}
  Line <- MCLine
  MaxRules = 5
  Ident = {"a", "b", "t", "f", "g", "h"}
  Trust = {1}
  Resource <- MCResource
  RuleInjection <- MCInjection
  NoCall = NoCall
  Letter <- MCLetter
  Text <- MCText
  Url <- MCUrl
  None = None
  Domain = {"a", "b", "re"}
  RegexDomain = {"re"}
  BadParam = {"p*"}
  Option <- MCOption
  MaxOptions = 3
  ListLine <- MCListLine
  MaxLines = 4
  Interval = {"1 day"}
  Cut = "cut"
  FlatKey <- MCFlatKey
  Hash <- MCHash
  MaxCalls = 5
  Parts = {"cosmetic rules", "resources", "patterns", "options", "lists", "containers"}
  MaxPieces = 3
INVARIANTS
  TypeOK ResourcesAsWritten ClassIdsAsWritten
  FoundUnderItsNames CollectedOnce CollectedWithPermission CompleteUnlessFailed
  PatternsTypeOK TokensSound FoundAsWritten
  AppliesAsWritten OrderIrrelevant BadfilterNamesItsTwin
  ExportDecidesAsUsed HeaderAgrees
  ContainersTypeOK ProbingEnds KeysFound RunsFound
PROPERTIES PushedInPlace
\* Every part comes to the end of its bounds.
CHECK_DEADLOCK FALSE
