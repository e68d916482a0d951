------------------------- MODULE MCAccountCredentials -------------------------
(***************************************************************************)
(* Model-checking instances of AccountCredentials.  Processes are          *)
(* interchangeable, and so are passwords: Init picks any of them.          *)
(***************************************************************************)
EXTENDS AccountCredentials, TLC

Symmetry == Permutations(Proc) \cup Permutations(Password)

=============================================================================
