------------------------------- MODULE Bounds -------------------------------
(***************************************************************************)
(* min() and max(0, a - b), as the schedulers' arithmetic uses them.       *)
(***************************************************************************)
EXTENDS Integers

Least(m, n) == IF m <= n THEN m ELSE n

Monus(m, n) == IF m <= n THEN 0 ELSE m - n
=============================================================================
