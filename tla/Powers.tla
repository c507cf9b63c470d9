------------------------------- MODULE Powers -------------------------------
(***************************************************************************)
(* Powers of two: the factor of a backoff after a number of doublings, the *)
(* weight of a bit and the exponents of a floating-point number.           *)
(***************************************************************************)
EXTENDS Naturals

Pow2[n \in Nat] == IF n = 0 THEN 1 ELSE 2 * Pow2[n - 1]
=============================================================================
