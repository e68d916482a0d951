------------------------------ MODULE MCCliCommands ------------------------------
(***************************************************************************)
(* Model-checking instance of CliCommands: two processes over two .env     *)
(* files of one directory, so that one variable has one default item name. *)
(***************************************************************************)
EXTENDS CliCommands

=============================================================================
