\* Two createRule messages at once.
SPECIFICATION Spec
CONSTANTS
  l1 = l1  l2 = l2  r1 = r1  r2 = r2  t1 = t1  t2 = t2
  Null = Null
  List <- Lists1
  DefaultLists <- Lists1
  Rule <- Rules2
  Task <- Tasks2
  Ops <- CreateOps
  MaxVersion = 1
  MaxFormat = 1
  MaxOps = 2
  MaxRestarts = 1
INVARIANT AcknowledgedRulesKept
\* The system may stop: every handler done and no further event.
CHECK_DEADLOCK FALSE
