\* Edits of the custom rules against initialize, rebuilds, imports and restarts, under fair
\* continuations.
SPECIFICATION FairSpec
CONSTANTS
  l1 = l1  l2 = l2  r1 = r1  r2 = r2  t1 = t1  t2 = t2
  Null = Null
  List <- Lists1
  DefaultLists <- Lists1
  Rule <- Rules1
  Task <- Tasks2
  Ops <- LiveOps
  MaxVersion = 1
  MaxFormat = 1
  MaxOps = 2
  MaxRestarts = 1
INVARIANTS TypeOK EngineRulesCurrent CacheCoherent
PROPERTIES ImplementsRulesInForce BecomesReady RulesTakeEffect
\* The system may stop: every handler done and no further event.
CHECK_DEADLOCK FALSE
