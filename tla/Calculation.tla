------------------------------ MODULE Calculation ------------------------------
(***************************************************************************)
(* The pure calculations of the services, one per behaviour: processOrder  *)
(* on any basket of goods and any rules, against what an award should be,  *)
(* and the check of an order number, against the slips it is there to      *)
(* find.                                                                   *)
(***************************************************************************)
EXTENDS Rewards, Luhn

CONSTANTS
  Keys,         \* the keys rules match a description by
  Prices,       \* of a good, in cents
  Percents,     \* rewards of the "%" rules
  Points,       \* rewards of the "pt" rules
  MaxGoods,     \* bound of the model: how many goods an order has
  MaxDigits     \* bound of the model: how long an order number is

ASSUME CalculationAssumption ==
  /\ IsFiniteSet(Keys)
  /\ Prices \subseteq Nat /\ Percents \subseteq Nat /\ Points \subseteq Nat
  /\ MaxGoods \in Nat /\ MaxDigits \in Nat

VARIABLES
  goods,        \* of the order, a sequence
  rows,         \* the rules, as GetAll has read them
  cents,        \* the award, once it is calculated
  number        \* the order number to be checked

rewardVars == <<goods, rows, cents, number>>

AnyRule ==
  [match : Keys, type : {"%"}, reward : Percents] \cup [match : Keys, type : {"pt"}, reward : Points]
AnyGood == [description : SUBSET Keys, price : Prices]

\* The key is the primary key of the rules.
RuleSets == {R \in SUBSET AnyRule : \A r, q \in R : r.match = q.match => r = q}

NotCalculated == -1

\* An order to be calculated, or a number to be checked.
OrderInit ==
  /\ goods \in UNION {[1..n -> AnyGood] : n \in 1..MaxGoods}
  /\ rows \in UNION {RowsOf(R) : R \in RuleSets}
  /\ number = <<>>

NumberInit ==
  /\ goods = <<>> /\ rows = <<>>
  /\ number \in UNION {[1..n -> Digits] : n \in 1..MaxDigits}

RewardsInit == (OrderInit \/ NumberInit) /\ cents = NotCalculated

CalculateAward ==
  /\ goods # <<>>
  /\ cents = NotCalculated
  /\ cents' \in ProcessOrder(rows, goods)
  /\ UNCHANGED <<goods, rows, number>>

RewardsSpec == RewardsInit /\ [][CalculateAward]_rewardVars

-----------------------------------------------------------------------------
Matched(good) == {rule \in {rows[i] : i \in DOMAIN rows} : rule.match \in good.description}

\* What the rules that match a good give, all of them together.
Matches(good) == SumFunction([rule \in Matched(good) |-> Share(good, rule)])
SumOfMatches == SumFunction([i \in DOMAIN goods |-> Matches(goods[i])])

(***************************************************************************)
(* processOrder stops at the first rule that matches a good and adds half  *)
(* a cent per good before it truncates.  So no award exceeds the sum of    *)
(* the matches by more than half a cent per good, in whatever order the    *)
(* rules are read; and it reaches that sum, up to a cent, when no good is  *)
(* matched twice (MatchesAreAwarded says what happens otherwise).          *)
(***************************************************************************)
AwardKeepsToMatches ==
  cents # NotCalculated =>
    /\ cents * Unit <= SumOfMatches + Len(goods) * (Unit \div 2)
    /\ (\A i \in DOMAIN goods : Cardinality(Matched(goods[i])) <= 1) =>
         cents * Unit >= SumOfMatches - Unit

(***************************************************************************)
(* SPECIFICATION.md:431: the sum of the matches is awarded.  At least when *)
(* every share is a whole number of cents, the award is their sum.         *)
(***************************************************************************)
MatchesAreAwarded ==
  (cents # NotCalculated
     /\ \A i \in DOMAIN goods : \A rule \in Matched(goods[i]) : Share(goods[i], rule) % Unit = 0) =>
    cents * Unit = SumOfMatches

-----------------------------------------------------------------------------
(* The number of the order. *)

Replaced(i, c) == [number EXCEPT ![i] = c]
Swapped(i) == [number EXCEPT ![i] = number[i + 1], ![i + 1] = number[i]]

(***************************************************************************)
(* What the check is for (SPECIFICATION.md:372): a number with one digit   *)
(* mistyped, or with two neighbours swapped, is refused, 09 and 90 apart,  *)
(* and so is every number in which a character is no digit, while white    *)
(* space around a number and zeros in front of it make no difference.  A   *)
(* number without a digit is refused, however much white space it has.     *)
(***************************************************************************)
SlipsAreRefused ==
  /\ ~IsValidOrderNumber([i \in DOMAIN number |-> Space])
  /\ IsValidOrderNumber(number) =>
       /\ \A i \in DOMAIN number, d \in Digits :
            d # number[i] => ~IsValidOrderNumber(Replaced(i, d))
       /\ \A i \in 1..(Len(number) - 1) :
            number[i] # number[i + 1] /\ {number[i], number[i + 1]} # {0, 9} =>
              ~IsValidOrderNumber(Swapped(i))
       /\ \A i \in DOMAIN number, c \in {-1, 10} : ~IsValidOrderNumber(Replaced(i, c))
       /\ IsValidOrderNumber(<<Space>> \o number \o <<Space>>)
       /\ IsValidOrderNumber(<<0>> \o number)
=============================================================================
