--------------------------- MODULE MCExtensionSession ---------------------------
(***************************************************************************)
(* Model-checking instances of ExtensionSession.                           *)
(***************************************************************************)
EXTENDS ExtensionSession

=============================================================================
