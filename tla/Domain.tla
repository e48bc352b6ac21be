-------------------------------- MODULE Domain --------------------------------
(***************************************************************************)
(* The values both services speak of: order numbers, and amounts in cents  *)
(* (int64 in both databases, a decimal number of points on the wire).      *)
(***************************************************************************)
EXTENDS Integers

CONSTANTS
  Orders,         \* order numbers
  Amounts         \* awards and sums, in cents

ASSUME AmountsAssumption == Amounts \subseteq Nat
=============================================================================
