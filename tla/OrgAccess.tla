------------------------------- MODULE OrgAccess -------------------------------
(***************************************************************************)
(* What an organization promises about who can read it, without keys,      *)
(* wraps, devices or requests: nobody who is not in it can read, and the   *)
(* only way out of it is a new generation of the key.                      *)
(***************************************************************************)
EXTENDS Naturals

CONSTANTS User, Owner

VARIABLES
    gen,        \* generations of the organization key
    standing,   \* who is in, invited or out
    readers     \* who has been given the current generation

vars == <<gen, standing, readers>>

In == {u \in User : standing[u] # "none"}

Init ==
    /\ gen = 1
    /\ standing \in [User -> {"none", "member"}]
    /\ standing[Owner] = "member"
    /\ readers = In

\* Whoever is invited is given the key, unless the inviter holds an old one.
Invite(u) ==
    /\ standing[u] = "none"
    /\ standing' = [standing EXCEPT ![u] = "invited"]
    /\ readers' \in {readers, readers \cup {u}}
    /\ UNCHANGED gen

Accept(u) ==
    /\ standing[u] = "invited"
    /\ standing' = [standing EXCEPT ![u] = "member"]
    /\ UNCHANGED <<gen, readers>>

\* The key is handed out again to some who are in.
Reissue ==
    /\ \E again \in SUBSET In : readers' = readers \cup again
    /\ UNCHANGED <<gen, standing>>

\* A new generation for everybody but those who leave.
Rotate(leaving) ==
    /\ gen' = gen + 1
    /\ standing' = [u \in User |-> IF u \in leaving THEN "none" ELSE standing[u]]
    /\ readers' = In \ leaving

Next ==
    \/ \E u \in User : Invite(u) \/ Accept(u)
    \/ Reissue
    \/ Rotate({})
    \/ \E u \in In \ {Owner} : Rotate({u})

Spec == Init /\ [][Next]_vars

\* Readers are in: what the refinement is for.
ReadersAreIn == readers \subseteq In

=============================================================================
