SPECIFICATION Spec
CONSTANTS
  Pattern <- MCPattern
  Domain <- MCDomain
  Modifier <- MCModifier
  Resource <- MCResource
  Token <- MCToken
  PatternTokens <- MCPatternTokens
  ParamTokens <- MCParamTokens
  ResourceOf <- MCResourceOf
  PriorityOf <- MCPriorityOf
  HashOf <- MCHashOf
  Filter <- MCFilter
  LineOf <- MCLineOf
  Null = Null
  Discarded = Discarded
  Tag = {"t"}
  FilterSets <- MCFilterSets
  Request <- MCRequest
  Key = {1, 2}
  Policy <- MCPolicies
  DefaultPolicy <- MCDefault
  MaxTime = 3
  Calls = {"tags", "resources", "ask", "manage", "save"}
ACTION_CONSTRAINT Scope
INVARIANTS TypeOK RegexFaithful RetentionBound
PROPERTIES ImplementsDecisions
