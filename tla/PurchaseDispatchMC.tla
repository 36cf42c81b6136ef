-------------------------- MODULE PurchaseDispatchMC --------------------------
(***************************************************************************)
(* Instances of PurchaseDispatch for TLC.                                  *)
(***************************************************************************)
EXTENDS PurchaseDispatch, TLC

CONSTANTS a1, a2, a3, k1, k2, e1, e2, c1, x1

\* Requests of one kind are interchangeable, so are keys and edit sessions.
MCSymmetry ==
  Permutations(Attempts) \union Permutations(Keys) \union Permutations(Editors)
===============================================================================
