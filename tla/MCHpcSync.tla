----------------------------- MODULE MCHpcSync -----------------------------
(***************************************************************************)
(* Instances of HpcSync small enough for TLC.  The .cfg files give the     *)
(* constants their values as sets of model values; invocation slots are    *)
(* interchangeable.                                                        *)
(***************************************************************************)
EXTENDS HpcSync, TLC

CONSTANTS p1, p2, c1, c2, f1, f2, v1, v2

Symmetry == Permutations(Proc)
=============================================================================
