------------------------------ MODULE MCMemory ------------------------------
(***************************************************************************)
(* TLC instances of Memory: the boxes are interchangeable.                 *)
(***************************************************************************)
EXTENDS Memory, TLC

Interchangeable == Permutations(Boxes)

=============================================================================
