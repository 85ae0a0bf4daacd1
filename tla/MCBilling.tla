------------------------------- MODULE MCBilling -------------------------------
(***************************************************************************)
(* Instances of Billing for TLC: invoice numbers are counted from one.     *)
(***************************************************************************)
EXTENDS Billing, TLC

Symmetric == Permutations(Rates)
=============================================================================
