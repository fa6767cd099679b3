------------------------------ MODULE Amounts ------------------------------
(***************************************************************************)
(* Math.max and Math.min, which the services clamp amounts with, and       *)
(* Math.abs.                                                               *)
(***************************************************************************)
EXTENDS Integers

Larger(a, b) == IF a >= b THEN a ELSE b
Smaller(a, b) == IF a <= b THEN a ELSE b
Magnitude(n) == IF n < 0 THEN -n ELSE n
=============================================================================
