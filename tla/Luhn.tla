--------------------------------- MODULE Luhn ---------------------------------
(***************************************************************************)
(* The check of an order number (pkg/luhn/luhn.go), which both services    *)
(* make.  A number is a sequence of characters; a character is its code    *)
(* counted from that of '0', so a digit is its value.                      *)
(***************************************************************************)
EXTENDS Integers, Sequences, Functions

Digits == 0..9
Space == -16

\* strings.TrimSpace, with one kind of white space.
TrimSpace(number) ==
  LET kept == {i \in DOMAIN number : number[i] # Space}
      first == CHOOSE i \in kept : \A j \in kept : i <= j
      last == CHOOSE i \in kept : \A j \in kept : i >= j
  IN IF kept = {} THEN <<>> ELSE SubSeq(number, first, last)

\* Mutant of Weight: a doubled digit above 9 is not reduced.
WeightMutant(digit, alt) == IF alt THEN 2 * digit ELSE digit

Weight(digit, alt) ==
  IF ~alt THEN digit ELSE IF 2 * digit > 9 THEN 2 * digit - 9 ELSE 2 * digit

\* Every other digit is doubled, counted from the last one, which is not.
LuhnSum(number) ==
  SumFunction([n \in DOMAIN number |-> Weight(number[Len(number) + 1 - n], n % 2 = 0)])

IsValidOrderNumber(number) ==
  LET trimmed == TrimSpace(number)
  IN /\ trimmed # <<>>
     /\ \A i \in DOMAIN trimmed : trimmed[i] \in Digits
     /\ LuhnSum(trimmed) % 10 = 0
=============================================================================
