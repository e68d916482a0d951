-------------------------- MODULE MCExtensionPasskeys ---------------------------
(***************************************************************************)
(* Model-checking instances of ExtensionPasskeys.                          *)
(***************************************************************************)
EXTENDS ExtensionPasskeys

=============================================================================
