SPECIFICATION Spec
CONSTANTS
  Tab = {t1}
  MaxToggles = 1
  MaxRestarts = 0
  MaxBlocked = 1
PROPERTIES DisabledMeansOff
