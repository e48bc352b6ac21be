CONSTANTS
  Keys = {k1, k2}
  Prices = {10000}
  Percents = {1000}
  Points = {}
  MaxGoods = 1
  MaxDigits = 1
SPECIFICATION RewardsSpec
CHECK_DEADLOCK FALSE
INVARIANT MatchesAreAwarded
