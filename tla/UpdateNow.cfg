\* What the options page says of Update Now.
SPECIFICATION Spec
CONSTANTS
  l1 = l1  l2 = l2  r1 = r1  r2 = r2  t1 = t1  t2 = t2
  Null = Null
  List <- Lists1
  DefaultLists <- Lists1
  Rule <- Rules1
  Task <- Tasks1
  Ops <- UpdateOps
  MaxVersion = 2
  MaxFormat = 1
  MaxOps = 1
  MaxRestarts = 1
PROPERTY UpdateNowUpdates
\* The system may stop: every handler done and no further event.
CHECK_DEADLOCK FALSE
