--------------------------- MODULE MCStoreEngine ---------------------------
(***************************************************************************)
(* TLC instances of StoreEngine.                                           *)
(***************************************************************************)
EXTENDS StoreEngine, TLC

\* The engine stores values and never looks at them.
Symmetry == Permutations(Vals)

=============================================================================
