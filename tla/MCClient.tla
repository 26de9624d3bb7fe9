------------------------------ MODULE MCClient ------------------------------
(* An instance of Client: two interchangeable hosts, and directories that  *)
(* are empty or hold another one.                                          *)
EXTENDS Client, TLC

CONSTANTS h1, h2

Lines == [name: Name, port: {None}]
Listings == {<<>>, <<"dir">>}
Symmetry == Permutations(Name)
=============================================================================
