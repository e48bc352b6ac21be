CONSTANTS
  k1 = k1
  k2 = k2
  Orders = {o1, o2}
  Amounts = {0, 49, 50, 99, 100, 149, 150, 199, 200, 299, 300, 349, 350}
  Posts = {p1, p2, p3, p4}
  Baskets <- MCBaskets
  Rules <- MCRules
  MaxFailures = 1
  MaxCrashes = 1
  Keys = {k1, k2}
  Prices = {1, 999, 10000}
  Percents = {1, 1050}
  Points = {29, 300}
  MaxGoods = 2
  MaxDigits = 4
SYMMETRY MCSymmetry
SPECIFICATION MCSpec
INVARIANTS ServiceTypeOK AwardFollowsRules RegisteredOnce NoneIsForgotten AwardKeepsToMatches SlipsAreRefused
PROPERTY ServiceKeepsContract
