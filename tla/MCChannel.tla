------------------------------ MODULE MCChannel ------------------------------
(***************************************************************************)
(* Instances of SinbohaChannel for TLC.                                    *)
(***************************************************************************)
EXTENDS SinbohaChannel

Symmetry == Permutations(Caller) \cup Permutations(Data)
=============================================================================
