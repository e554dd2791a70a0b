------------------------------ MODULE MCLoader ------------------------------
(***************************************************************************)
(* TLC instance of Loader: modules a, b and c in the project and c in the  *)
(* standard library, which the prelude uses.                               *)
(***************************************************************************)
EXTENDS Loader

A == <<"project", "a">>
B == <<"project", "b">>
C == <<"project", "c">>
StdC == <<"std", "c">>

MCFiles == {A, B, C, StdC, Prelude}

MCEntries == {A, StdC}

MCUseLists == {<<>>, <<"a">>, <<"c">>, <<"b", "c">>, <<"c", "b">>}

(* A diamond in either order, and one module of the name of a module of     *)
(* the library or none.                                                     *)
MCDisks ==
    {[f \in MCFiles \ hidden |->
         CASE f = A -> a
           [] f \in {B, Prelude} -> <<"c">>
           [] f \in {C, StdC} -> <<>>] :
        a \in {<<"b", "c">>, <<"c", "b">>}, hidden \in {{}, {C}}}

=============================================================================
