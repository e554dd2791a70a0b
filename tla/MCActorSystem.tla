--------------------------- MODULE MCActorSystem ---------------------------
(* Small instances of ActorSystem for TLC.                                 *)
EXTENDS ActorSystem, TLC

\* Actors and client threads are interchangeable.
Symmetry == Permutations(Actors) \cup Permutations(Clients)
=============================================================================
