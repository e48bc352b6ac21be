CONSTANTS
  Users = {u1, u2}
  Orders = {o1, o2}
  Amounts = {1, 2}
  NoUser = NoUser
  StartBalances = {1}
  Calls = {c1, c2, c3}
  NoCall = NoCall
SYMMETRY MCSymmetry
SPECIFICATION TxSpec
INVARIANTS TxTypeOK Conservation WithdrawnIsItemized NoCircularWait
PROPERTIES AnswersTellTheEffect RepoSpec
