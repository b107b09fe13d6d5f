SPECIFICATION FairSpec
CONSTANTS
  ad = ad  promo = promo  bad = bad
  Key <- MCKey
  Broken = {bad}
  Engine <- MCEngines
  NoEngine = NoEngine
  Unknown = Unknown
  MaxAdds = 2
  MaxSwaps = 1
INVARIANTS TypeOK SparedOnceTold
PROPERTIES QueryEnds EveryKeyDecided
\* A page may have nothing left to do.
CHECK_DEADLOCK FALSE
