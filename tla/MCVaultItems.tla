------------------------------ MODULE MCVaultItems ------------------------------
(***************************************************************************)
(* Model-checking instances of VaultItems.  Clients are interchangeable,   *)
(* and so are vaults: no action tells one from another.                    *)
(***************************************************************************)
EXTENDS VaultItems, TLC

Symmetry == Permutations(Client) \cup Permutations(Vault)

=============================================================================
