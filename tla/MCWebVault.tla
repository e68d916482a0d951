------------------------------- MODULE MCWebVault --------------------------------
(***************************************************************************)
(* Model-checking instance of WebVault: an account with a stored item and  *)
(* one it may create, and a second account that uses the same browser.     *)
(***************************************************************************)
EXTENDS WebVault

OwnerOf == [i \in Item |-> "a"]

=============================================================================
