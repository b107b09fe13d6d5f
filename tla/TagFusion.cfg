SPECIFICATION Spec
CONSTANTS
  Pattern = {"/ads/a", "/ads/b"}
  Domain <- TagsDomain
  Tag = {"t", "u"}
  Modifier = {}
  Resource = {}
  Token <- TagsToken
  PatternTokens <- AnyOne
  ParamTokens <- None
  ResourceOf <- None
  PriorityOf <- None
  HashOf <- TagsHash
  Filter <- TagsFilter
  LineOf <- TagsLine
  FilterSets <- TagsSets
  Request <- TagsRequest
  Null = Null
  Key = {1}
  Policy <- TagsPolicy
  DefaultPolicy <- TagsDefault
  Discarded = Discarded
  MaxTime = 0
  Calls = {"tags", "ask"}
INVARIANTS BlockedByEnabledRule
