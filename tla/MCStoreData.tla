---------------------------- MODULE MCStoreData -----------------------------
(***************************************************************************)
(* TLC instance of StoreData: the transactions are interchangeable.        *)
(***************************************************************************)
EXTENDS StoreData, TLC

Interchangeable == Permutations(Transactions)

=============================================================================
