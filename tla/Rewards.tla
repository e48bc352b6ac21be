-------------------------------- MODULE Rewards --------------------------------
(***************************************************************************)
(* The calculation of an award (processOrder in                            *)
(* internal/accrual/service/order.go).  A good is matched by the rules     *)
(* whose key occurs in its description, so a description is the set of the *)
(* keys it contains; a price is in cents; a reward is in hundredths of a   *)
(* percent or of a point, as NUMERIC(10,2) stores it.                      *)
(*                                                                         *)
(* The code computes with float64.  Sums are exact here, counted in        *)
(* ten-thousandths of a cent, except where a rounding error decides: the   *)
(* truncation of a sum that is a whole number of cents may lose one        *)
(* (0.29 points are 28 cents, 0.30 points are 30).                         *)
(***************************************************************************)
EXTENDS Integers, FiniteSets, Sequences, Functions

Unit == 10000     \* a cent

\* What a rule gives for a good, exactly.
Share(good, rule) ==
  IF rule.type = "%" THEN good.price * rule.reward ELSE rule.reward * Unit

\* Half a cent is added to a percentage, to round it when the sum is truncated.
Accrual(good, rule) ==
  Share(good, rule) + (IF rule.type = "%" THEN Unit \div 2 ELSE 0)

MatchingRows(rows, good) == {i \in DOMAIN rows : rows[i].match \in good.description}

\* The first of the rows that matches decides; a good without a match adds nothing.
GoodAccrual(rows, good) ==
  LET matching == MatchingRows(rows, good)
  IN IF matching = {} THEN 0
     ELSE Accrual(good, rows[CHOOSE i \in matching : \A j \in matching : i <= j])

\* int64(totalAccrualRub * 100)
Truncate(total) ==
  {total \div Unit} \cup (IF total % Unit = 0 /\ total > 0 THEN {total \div Unit - 1} ELSE {})

\* Mutant of ProcessOrder: the loop over the goods ends with the first one.
ProcessOrderMutant(rows, goods) == Truncate(GoodAccrual(rows, goods[1]))

ProcessOrder(rows, goods) ==
  Truncate(SumFunction([i \in DOMAIN goods |-> GoodAccrual(rows, goods[i])]))

\* GetAll has no ORDER BY: the rows come in any order.
RowsOf(rules) ==
  {rows \in [1..Cardinality(rules) -> rules] : \A i, j \in DOMAIN rows : rows[i] = rows[j] => i = j}
=============================================================================
