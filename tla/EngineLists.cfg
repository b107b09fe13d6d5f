\* List edits, updates, alarms and sessions, one handler at a time.
SPECIFICATION Spec
CONSTANTS
  l1 = l1  l2 = l2  r1 = r1  r2 = r2  t1 = t1  t2 = t2
  Null = Null
  List <- Lists2
  DefaultLists <- Lists1
  Rule <- Rules1
  Task <- Tasks1
  Ops <- ListOps
  MaxVersion = 2
  MaxFormat = 1
  MaxOps = 4
  MaxRestarts = 1

PROPERTY RebuildNeverRegresses
\* The system may stop: every handler done and no further event.
CHECK_DEADLOCK FALSE
