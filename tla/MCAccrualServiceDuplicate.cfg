CONSTANTS
  k1 = k1
  k2 = k2
  Orders = {o1}
  Amounts = {0, 49, 50, 99, 100, 149, 150, 199, 200, 299, 300, 349, 350}
  Posts = {p1, p2}
  Baskets <- MCBaskets
  Rules <- MCRules
  MaxFailures = 0
  MaxCrashes = 0
SPECIFICATION ServiceSpec
INVARIANT DuplicateIsConflict
