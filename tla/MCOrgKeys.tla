------------------------------- MODULE MCOrgKeys -------------------------------
(***************************************************************************)
(* Model-checking instances of OrgKeys.  The owner has two devices, so     *)
(* that one can be behind the other; the second user has one.              *)
(***************************************************************************)
EXTENDS OrgKeys, TLC

CONSTANTS u1, u2, u3, d1, d2, d3

OwnerAndAdmin == d1 :> u1 @@ d3 :> u2
OwnerTwice    == d1 :> u1 @@ d2 :> u1
FixedRoles == u1 :> {} @@ u2 :> {"admin"} @@ u3 :> {"member"}
TwoUsers   == u1 :> {} @@ u2 :> {"admin", "member"}

Symmetry == Permutations({d1, d2})

=============================================================================
