-------------------------------- MODULE OrgKeys --------------------------------
(***************************************************************************)
(* The shared key of one organization: invites, re-signing, and the key    *)
(* rotation that removes members, as the server (routes/orgs.rs,           *)
(* db/orgs.rs) and the owner's and admins' clients (OrgPanel, org-trust,   *)
(* identity) carry them out.                                               *)
(*                                                                         *)
(* Every statement outside a transaction is an action, a transaction is    *)
(* one action at its commit.  A device has at most one request in flight;  *)
(* the answer to any request may be lost (Abort), and the refresh after a  *)
(* request may fail, which leaves the device with an older view.           *)
(*                                                                         *)
(* Data abstraction.  Organization keys are numbered in the order they are *)
(* generated.  A wrap is the number of the key in it and a signature is    *)
(* the fields it binds.  Whether the user has confirmed the safety number  *)
(* of a member is a choice made where the answer is needed.                *)
(***************************************************************************)
EXTENDS Naturals, FiniteSets

CONSTANTS
    User,       \* users of the server
    Owner,      \* the one who created the organization
    Device,     \* devices that are signed in
    UserOf,     \* whose device it is
    RolesFor,   \* the roles each user may be given, besides the owner's
    Item,       \* organization items present from the start
    Ops,        \* kinds of write the devices issue, a subset of OpKind
    Legacy,     \* the organization may date from before signed wraps
    MaxChain,   \* longest chain of wraps a client accepts (16)
    MaxKey,     \* bound on the number of keys generated
    None        \* SQL NULL, or no row

OpKind == {"invite", "rewrap", "rotate"}

ASSUME OrgAssumption ==
    /\ Owner \in User
    /\ None \notin User
    /\ UserOf \in [Device -> User]
    /\ RolesFor \in [User -> SUBSET {"admin", "member"}]
    /\ Ops \subseteq OpKind
    /\ Legacy \in BOOLEAN
    /\ MaxChain \in Nat \ {0}
    /\ MaxKey \in Nat \ {0}

VARIABLES
    epoch,     \* organizations.key_epoch
    members,   \* organization_members, None where the user has no row
    items,     \* vault_items of the organization: the key each is under, 0 = gone
    view,      \* per device: the organization as OrgPanel holds it
    seen,      \* per device: the highest epoch accepted (OrgEpochStore)
    invite,    \* per device: the epoch of the verified invite, 0 = none
    req,       \* per device: the request in flight
    made,      \* number of keys generated so far
    orgKey,    \* the key the current epoch was created with
    known,     \* per user: the keys the server has stored a wrap of for them
    used       \* per device: the highest epoch it opened the key of

orgVars == <<epoch, members, items>>
devVars == <<view, seen, invite, used>>
vars    == <<epoch, members, items, view, seen, invite, req, made, orgKey,
             known, used>>

Roles  == {"owner", "admin", "member"}
Admins == {"owner", "admin"}

Maximum(a, b) == IF a >= b THEN a ELSE b

-----------------------------------------------------------------------------
(* Rows, views and requests                                                *)

Sig == [epoch : Nat, by : User, role : Roles]

Row == [role : Roles, active : BOOLEAN, key : Nat, epoch : Nat, by : User,
        sig : Sig \cup {None}]

ASSUME NoneIsNoRow == None \notin Row

Listing == [User -> Roles \cup {None}]

View == [status : {"closed", "ok", "unsigned"}, role : Roles \cup {None},
         key : Nat, wrapKey : Nat, epoch : Nat, mem : Listing]

Req == [pc : {"idle", "member", "listed", "invite", "owner", "current", "plan"},
        role : Roles \cup {None}, key : Nat, epoch : Nat, mem : Listing,
        to : User \cup {None}, put : SUBSET Item, drop : SUBSET Item]

Nobody == [u \in User |-> None]

Closed == [status |-> "closed", role |-> None, key |-> 0, wrapKey |-> 0,
           epoch |-> 0, mem |-> Nobody]

Idle == [pc |-> "idle", role |-> None, key |-> 0, epoch |-> 0, mem |-> Nobody,
         to |-> None, put |-> {}, drop |-> {}]

Signed(u) == [epoch |-> members[u].epoch, by |-> members[u].by,
              role |-> members[u].role]

\* Who wrap_chain visits, from signer to signer, starting with a user's row.
Signers(u) ==
    LET up[n \in 0 .. MaxChain] ==
            IF n = 0 THEN u
            ELSE LET w == up[n - 1]
                 IN  IF members[w] = None THEN w ELSE members[w].by
    IN  up

\* One link of verifyOrgKeyChain: signed as stored, at the epoch of the first
\* link, by the owner themselves or by an admin of the organization.
LinkHolds(own, w) ==
    /\ members[w] # None
    /\ members[w].sig = Signed(w)
    /\ members[w].epoch = members[own].epoch
    /\ IF members[w].by = w
       THEN members[w].role = "owner"
       ELSE /\ members[members[w].by] # None
            /\ members[members[w].by].role \in Admins

\* verifyOrgKeyChain without the device's own records: at most MaxChain links,
\* the last of them self-signed.
Verifies(u) ==
    LET up == Signers(u)
    IN  /\ \A n \in 0 .. MaxChain - 1 : LinkHolds(u, up[n])
        /\ up[MaxChain] = up[MaxChain - 1]

\* Mutant: the highest epoch accepted is not consulted.
AnyEpoch(d, u) == TRUE

\* ... and the device's own record: no epoch below the highest one accepted.
NoRollback(d, u) == members[u].epoch >= seen[d]

\* checkOrgKey for a user's own row.
Status(d, u, confirmed) ==
    IF members[u] = None THEN "closed"
    ELSE IF members[u].sig = None THEN "unsigned"
    ELSE IF Verifies(u) /\ NoRollback(d, u) /\ confirmed THEN "ok" ELSE "closed"

\* A row of list_members.
RoleIn(u) == IF members[u] = None THEN None ELSE members[u].role

Present == {u \in User : members[u] # None}
Existing == {i \in Item : items[i] # 0}

Becomes(d, q) == req' = [req EXCEPT ![d] = q]

-----------------------------------------------------------------------------
(* Opening the organization: selectOrg and get_org                         *)

\* get_org_member: the role and wrap of the answer.
GetMember(d) ==
    LET u == UserOf[d]
    IN  /\ req[d] = Idle
        /\ members[u] # None
        /\ members[u].active
        /\ Becomes(d, [Idle EXCEPT !.pc = "member", !.role = members[u].role,
                                   !.key = members[u].key])
        /\ UNCHANGED <<orgVars, devVars, made, orgKey, known>>

\* list_members.
ListMembers(d) ==
    /\ req[d].pc = "member"
    /\ Becomes(d, [req[d] EXCEPT !.pc = "listed",
                                 !.mem = [u \in User |-> RoleIn(u)]])
    /\ UNCHANGED <<orgVars, devVars, made, orgKey, known>>

\* What OrgPanel keeps of the answer; nothing can be done with an organization
\* whose key is refused or waits for a confirmation.
Opened(d, st) ==
    IF st = "closed" THEN Closed
    ELSE [status |-> st, role |-> req[d].role, key |-> req[d].key,
          wrapKey |-> IF st = "ok" THEN members[UserOf[d]].key ELSE 0,
          epoch |-> IF st = "ok" THEN members[UserOf[d]].epoch ELSE 0,
          mem |-> req[d].mem]

\* wrap_chain, and openOrgKey on the answer: the key is opened, and its epoch
\* recorded, only if the chain checks out.
OpenOrg(d, confirmed) ==
    LET v == Opened(d, Status(d, UserOf[d], confirmed))
    IN  /\ req[d].pc = "listed"
        /\ view' = [view EXCEPT ![d] = v]
        /\ seen' = [seen EXCEPT ![d] = Maximum(@, v.epoch)]
        /\ used' = [used EXCEPT ![d] = Maximum(@, v.epoch)]
        /\ Becomes(d, Idle)
        /\ UNCHANGED <<orgVars, invite, made, orgKey, known>>

-----------------------------------------------------------------------------
(* Invites                                                                 *)

\* inviteMember, and the caller's row read by the handler: the key of the
\* view's own wrap, the epoch of the verified chain.
Invite(d, u, role) ==
    LET me == UserOf[d]
    IN  /\ "invite" \in Ops
        /\ req[d] = Idle
        /\ view[d].status = "ok" /\ view[d].role \in Admins
        /\ members[me] # None
        /\ members[me].active /\ members[me].role \in Admins
        /\ Becomes(d, [Idle EXCEPT !.pc = "invite", !.to = u, !.role = role,
                                   !.key = view[d].key, !.epoch = view[d].epoch])
        /\ UNCHANGED <<orgVars, devVars, made, orgKey, known>>

\* Mutant: any epoch up to the current one is accepted.
InviteAtAnyEpoch(q) == q.epoch <= epoch

\* The epoch check of the invite transaction, under the lock of the row.
InviteAtEpoch(q) == q.epoch = epoch

\* db::invite_member: ON CONFLICT DO NOTHING.
InviteMember(d) ==
    LET q  == req[d]
        me == UserOf[d]
    IN  /\ q.pc = "invite"
        /\ IF InviteAtEpoch(q) /\ members[q.to] = None
           THEN /\ members' = [members EXCEPT ![q.to] =
                     [role |-> q.role, active |-> FALSE, key |-> q.key,
                      epoch |-> q.epoch, by |-> me,
                      sig |-> [epoch |-> q.epoch, by |-> me, role |-> q.role]]]
                /\ known' = [known EXCEPT ![q.to] = @ \cup {q.key}]
           ELSE UNCHANGED <<members, known>>
        /\ Becomes(d, Idle)
        /\ UNCHANGED <<epoch, items, devVars, made, orgKey>>

\* loadOrgs: list_pending_invites and checkOrgKey on each.
LoadInvite(d, confirmed) ==
    LET u == UserOf[d]
    IN  /\ members[u] # None
        /\ ~members[u].active
        /\ Status(d, u, confirmed) = "ok"
        /\ invite' = [invite EXCEPT ![d] = members[u].epoch]
        /\ UNCHANGED <<orgVars, view, seen, used, req, made, orgKey, known>>

\* acceptInvite: the epoch recorded is the one of the invite as it was loaded.
AcceptInvite(d) ==
    LET u == UserOf[d]
    IN  /\ invite[d] # 0
        /\ members[u] # None
        /\ ~members[u].active
        /\ members' = [members EXCEPT ![u].active = TRUE]
        /\ seen' = [seen EXCEPT ![d] = Maximum(@, invite[d])]
        /\ invite' = [invite EXCEPT ![d] = 0]
        /\ UNCHANGED <<epoch, items, view, used, req, made, orgKey, known>>

-----------------------------------------------------------------------------
(* Re-signing                                                              *)

\* The row an owner-signed wrap leaves behind; invited_by is NULL for the
\* owner's own row, which reads as self-signed.
Resigned(row, owner, key, e, role) ==
    [row EXCEPT !.key = key, !.epoch = e, !.by = owner,
                !.sig = [epoch |-> e, by |-> owner, role |-> role]]

\* Members after the wraps of a request are stored.
Rewrapped(q, owner) ==
    [u \in User |-> IF q.mem[u] = None \/ members[u] = None THEN members[u]
                    ELSE Resigned(members[u], owner, q.key, q.epoch, q.mem[u])]

Learned(q) ==
    [u \in User |-> IF q.mem[u] = None \/ members[u] = None THEN known[u]
                    ELSE known[u] \cup {q.key}]

IsOwner(u) ==
    members[u] # None /\ members[u].active /\ members[u].role = "owner"

\* resignOrg for the members not skipped, and require_owner: a view that did
\* not verify is taken to be at epoch 1.
ResignOrg(d, skipped) ==
    LET me == UserOf[d]
        v  == view[d]
    IN  /\ "rewrap" \in Ops
        /\ req[d] = Idle
        /\ v.status \in {"ok", "unsigned"} /\ v.role = "owner"
        /\ me \notin skipped
        /\ IsOwner(me)
        /\ Becomes(d, [Idle EXCEPT !.pc = "owner", !.key = v.key,
                          !.epoch = IF v.status = "ok" THEN v.epoch ELSE 1,
                          !.mem = [u \in User |-> IF u \in skipped THEN None
                                                  ELSE v.mem[u]]])
        /\ UNCHANGED <<orgVars, devVars, made, orgKey, known>>

\* current_key_epoch, read before and outside the transaction.
RewrapEpoch(d) ==
    /\ req[d].pc = "owner"
    /\ IF req[d].epoch = epoch THEN Becomes(d, [req[d] EXCEPT !.pc = "current"])
                               ELSE Becomes(d, Idle)
    /\ UNCHANGED <<orgVars, devVars, made, orgKey, known>>

\* db::rewrap_members: all the wraps are for members, or nothing is written.
RewrapMembers(d) ==
    LET q == req[d]
    IN  /\ q.pc = "current"
        /\ IF \A u \in User : q.mem[u] # None => members[u] # None
           THEN /\ members' = Rewrapped(q, UserOf[d])
                /\ known' = Learned(q)
           ELSE UNCHANGED <<members, known>>
        /\ Becomes(d, Idle)
        /\ UNCHANGED <<epoch, items, devVars, made, orgKey>>

-----------------------------------------------------------------------------
(* Rotation                                                                *)

\* Mutant: the remaining members are sent the key that is being retired.
WrapRetiredKey(d) == view[d].wrapKey

\* generateOrgKey in buildRotation.
NewKey(d) == made + 1

\* buildRotation: the members of the view without the one to remove, all of
\* them confirmed; every item the server lists now, re-encrypted, or deleted
\* with the owner's consent when the retiring key cannot open it.  Members
\* missing from the list are acknowledged as gone.
Plan(d, remove) ==
    LET v == view[d]
    IN  [Idle EXCEPT
            !.pc = "plan", !.key = NewKey(d), !.epoch = v.epoch + 1,
            !.to = remove,
            !.mem = [u \in User |-> IF u = remove THEN None ELSE v.mem[u]],
            !.put = {i \in Existing : items[i] = v.wrapKey},
            !.drop = {i \in Existing : items[i] # v.wrapKey}]

\* prepareRotation, offered to the owner of a verified organization.
PrepareRotation(d, remove) ==
    /\ "rotate" \in Ops
    /\ req[d] = Idle
    /\ view[d].status = "ok" /\ view[d].role = "owner"
    /\ remove # None => view[d].mem[remove] \in {"admin", "member"}
    /\ IsOwner(UserOf[d])
    /\ made < MaxKey
    /\ made' = made + 1
    /\ Becomes(d, Plan(d, remove))
    /\ UNCHANGED <<orgVars, devVars, orgKey, known>>

\* Mutant: a rotation may be built on an epoch that was already replaced.
RotatesAnyEpoch(q) == q.epoch <= epoch + 1

\* new_epoch == current + 1.
RotatesCurrent(q) == q.epoch = epoch + 1

\* DELETE ... WHERE role != 'owner' deletes one row.
Removable(q) ==
    q.to # None => members[q.to] # None /\ members[q.to].role # "owner"

\* The wraps cover exactly the remaining members.
CoversMembers(q) ==
    \A u \in User : q.mem[u] # None <=> u \in Present \ {q.to}

\* The items, re-encrypted or deleted, are exactly the organization's.
CoversItems(q) == q.put \cup q.drop = Existing

\* The route and db::rotate_key agree to a rotation.  require_owner is a
\* statement of its own, but no later write takes the owner's role away.
Accepts(q, me) ==
    /\ IsOwner(me) /\ q.to # me
    /\ RotatesCurrent(q) /\ Removable(q) /\ CoversMembers(q) /\ CoversItems(q)

\* commitRotation and db::rotate_key: everything changes or nothing does.
RotateKey(d) ==
    LET q  == req[d]
        me == UserOf[d]
    IN  /\ q.pc = "plan"
        /\ IF Accepts(q, me)
           THEN /\ members' = [u \in User |-> IF u = q.to THEN None
                                              ELSE Rewrapped(q, me)[u]]
                /\ items' = [i \in Item |-> IF i \in q.put THEN q.key
                                            ELSE IF i \in q.drop THEN 0
                                            ELSE items[i]]
                /\ epoch' = q.epoch
                /\ orgKey' = q.key
                /\ known' = Learned(q)
           ELSE UNCHANGED <<orgVars, orgKey, known>>
        /\ Becomes(d, Idle)
        /\ UNCHANGED <<devVars, made>>

\* A request is refused, cancelled or lost.
Abort(d) ==
    /\ req[d] # Idle
    /\ Becomes(d, Idle)
    /\ UNCHANGED <<orgVars, devVars, made, orgKey, known>>

-----------------------------------------------------------------------------

FirstRow(role, signed) ==
    [role |-> role, active |-> TRUE, key |-> 1, by |-> Owner,
     epoch |-> IF signed THEN 1 ELSE 0,
     sig |-> IF signed THEN [epoch |-> 1, by |-> Owner, role |-> role] ELSE None]

\* create_org has run, and the owner has let in any others; before signed
\* wraps existed every row was unsigned.
Init ==
    /\ epoch = 1
    /\ \E signed \in IF Legacy THEN {FALSE} ELSE {TRUE},
          others \in [User \ {Owner} -> {None, "admin", "member"}] :
          /\ \A u \in User \ {Owner} : others[u] \in RolesFor[u] \cup {None}
          /\ members = [u \in User |->
                IF u = Owner THEN FirstRow("owner", signed)
                ELSE IF others[u] = None THEN None
                ELSE FirstRow(others[u], signed)]
    /\ items \in [Item -> {1}]
    /\ view = [d \in Device |-> Closed]
    /\ seen = [d \in Device |-> 0] /\ used = seen
    /\ invite = [d \in Device |-> 0]
    /\ req = [d \in Device |-> Idle]
    /\ made = 1 /\ orgKey = 1
    /\ known = [u \in User |-> IF members[u] = None THEN {} ELSE {1}]

Step(d) ==
    \/ GetMember(d) \/ ListMembers(d)
    \/ \E confirmed \in BOOLEAN : OpenOrg(d, confirmed)
    \/ \E u \in User : \E role \in RolesFor[u] : Invite(d, u, role)
    \/ InviteMember(d)
    \/ LoadInvite(d, TRUE) \/ AcceptInvite(d)
    \/ \E skipped \in SUBSET User : ResignOrg(d, skipped)
    \/ RewrapEpoch(d) \/ RewrapMembers(d)
    \/ \E remove \in User \cup {None} : PrepareRotation(d, remove)
    \/ RotateKey(d)
    \/ Abort(d)

Next == \E d \in Device : Step(d)

Spec == Init /\ [][Next]_vars

-----------------------------------------------------------------------------
(* Properties                                                              *)

TypeOK ==
    /\ epoch \in Nat /\ made \in Nat /\ orgKey \in Nat
    /\ members \in [User -> Row \cup {None}]
    /\ items \in [Item -> Nat]
    /\ view \in [Device -> View]
    /\ seen \in [Device -> Nat] /\ used \in [Device -> Nat]
    /\ invite \in [Device -> Nat]
    /\ req \in [Device -> Req]
    /\ known \in [User -> SUBSET Nat]

\* Whoever the server holds no row for was never given a key that any item is
\* under: a removal, an invite, a re-sign and a second rotation that cross
\* each other never leave a removed member able to read.
RemovedCannotRead ==
    \A u \in User, i \in Item :
        items[i] # 0 /\ items[i] \in known[u] => members[u] # None

\* Every member can verify their key back to the owner at the current epoch,
\* also after the admin who invited them was removed and when an invite and a
\* rotation cross.
MembersVerify ==
    \A u \in Present : Verifies(u) /\ members[u].epoch = epoch

\* A rotation deletes only what its owner cannot read: while nobody re-signs,
\* no rotation is applied that loses an item.
ItemsSurvive ==
    [][\A i \in Item : items[i] # 0 => items'[i] # 0]_vars

\* A device that has opened the key of an epoch never opens an older one.
NeverOpensOlder ==
    \A d \in Device : view[d].status = "ok" => view[d].epoch = used[d]

\* The organization as OrgAccess describes it: a row without a key in it is
\* not access, and whoever holds a wrap of the current key reads.
Standing == [u \in User |-> IF members[u] = None THEN "none"
                            ELSE IF members[u].active THEN "member"
                            ELSE "invited"]

Readers == {u \in User : orgKey \in known[u]}

Access == INSTANCE OrgAccess WITH gen <- epoch, standing <- Standing,
                                  readers <- Readers

\* The statements of the handlers, however they interleave, add up to the
\* steps of OrgAccess: access is gained by an invite, lost only together with
\* a new generation of the key, and a generation is never skipped or reused.
ImplementsAccess == Access!Spec

=============================================================================
