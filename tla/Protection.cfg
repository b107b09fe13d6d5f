SPECIFICATION FairSpec
CONSTANTS
  Tab = {t1}
  MaxToggles = 3
  MaxRestarts = 1
  MaxBlocked = 2
INVARIANTS TypeOK GuardedWhenEnabled BadgeHonest CountOfThisPage
PROPERTIES BecomesEffective
