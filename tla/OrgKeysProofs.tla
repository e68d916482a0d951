------------------------------ MODULE OrgKeysProofs ------------------------------
(***************************************************************************)
(* Proofs about OrgKeys, for any users, devices, items and number of keys. *)
(***************************************************************************)
EXTENDS OrgKeys, FiniteSetTheorems, TLAPS

-----------------------------------------------------------------------------
(* Types of what the actions build.                                        *)

LEMMA NobodyType == Nobody \in Listing
  BY DEF Nobody, Listing

LEMMA IdleType ==
  /\ Idle \in Req /\ Idle.pc = "idle" /\ Idle.key = 0 /\ Idle.epoch = 0
  /\ Idle.put = {} /\ Idle.drop = {} /\ Idle.mem = Nobody
  BY NobodyType DEF Idle, Req

LEMMA ClosedType ==
  /\ Closed \in View /\ Closed.status = "closed" /\ Closed.key = 0
  /\ Closed.wrapKey = 0 /\ Closed.epoch = 0 /\ Closed.mem = Nobody
  BY NobodyType DEF Closed, View

\* buildRotation's request.
LEMMA PlanReq ==
  ASSUME TypeOK, NEW d \in Device, NEW remove \in User \cup {None}
  PROVE  /\ Plan(d, remove) \in Req
         /\ Plan(d, remove).pc = "plan"
         /\ Plan(d, remove).key = made + 1
         /\ Plan(d, remove).epoch = view[d].epoch + 1
         /\ Plan(d, remove).put = {i \in Existing : items[i] = view[d].wrapKey}
         /\ \A u \in User : Plan(d, remove).mem[u] \in {None, view[d].mem[u]}
  <1> DEFINE mem == [u \in User |-> IF u = remove THEN None ELSE view[d].mem[u]]
             put == {i \in Existing : items[i] = view[d].wrapKey}
             drop == {i \in Existing : items[i] # view[d].wrapKey}
  <1>1. view[d] \in View
    BY DEF TypeOK
  <1>2. mem \in Listing
    BY <1>1 DEF View, Listing
  <1>3. put \in SUBSET Item /\ drop \in SUBSET Item
    BY DEF Existing
  <1>4. made + 1 \in Nat /\ view[d].epoch + 1 \in Nat
    BY <1>1 DEF View, TypeOK
  <1>5. Plan(d, remove) = [Idle EXCEPT !.pc = "plan", !.key = made + 1,
                              !.epoch = view[d].epoch + 1, !.to = remove,
                              !.mem = mem, !.put = put, !.drop = drop]
    BY DEF Plan, NewKey
  <1> HIDE DEF mem, put, drop
  <1>6. /\ Plan(d, remove) \in Req
        /\ Plan(d, remove).pc = "plan" /\ Plan(d, remove).key = made + 1
        /\ Plan(d, remove).epoch = view[d].epoch + 1 /\ Plan(d, remove).put = put
        /\ Plan(d, remove).mem = mem
    BY <1>2, <1>3, <1>4, <1>5, IdleType, ZenonT(40) DEF Req
  <1>7. QED
    BY <1>6 DEF put, mem

\* What OrgPanel keeps.
LEMMA OpenedView ==
  ASSUME TypeOK, NEW d \in Device, NEW st \in {"closed", "ok", "unsigned"},
         members[UserOf[d]] # None \/ st = "closed"
  PROVE  /\ Opened(d, st) \in View
         /\ Opened(d, st).status = st
         /\ Opened(d, st).key \in {0, req[d].key}
         /\ Opened(d, st).mem \in {Nobody, req[d].mem}
         /\ st = "ok" => /\ Opened(d, st).epoch = members[UserOf[d]].epoch
                         /\ Opened(d, st).wrapKey = members[UserOf[d]].key
         /\ st # "ok" => Opened(d, st).epoch = 0 /\ Opened(d, st).wrapKey = 0
  <1>1. CASE st = "closed"
    BY <1>1, ClosedType DEF Opened
  <1>2. CASE st # "closed"
    <2>1. members[UserOf[d]] \in Row /\ req[d] \in Req
      BY <1>2, OrgAssumption DEF TypeOK
    <2>2. QED
      BY <1>2, <2>1 DEF Opened, Row, Req, View
  <1>3. QED
    BY <1>1, <1>2

-----------------------------------------------------------------------------
(* Steps.  Most actions replace one device's request and touch little else. *)

\* A step that replaces one device's request.
LEMMA RequestType ==
  ASSUME TypeOK, NEW d \in Device, NEW q \in Req, Becomes(d, q)
  PROVE  /\ req' \in [Device -> Req] /\ req'[d] = q
         /\ \A e \in Device \ {d} : req'[e] = req[e]
  BY DEF TypeOK, Becomes

\* The rows a request's wraps leave.
LEMMA RewrappedType ==
  ASSUME TypeOK, NEW q \in Req, NEW me \in User
  PROVE  /\ Rewrapped(q, me) \in [User -> Row \cup {None}]
         /\ \A u \in User :
              /\ members[u] = None => Rewrapped(q, me)[u] = None
              /\ members[u] # None =>
                    /\ Rewrapped(q, me)[u] \in Row
                    /\ Rewrapped(q, me)[u].role = members[u].role
                    /\ Rewrapped(q, me)[u].active = members[u].active
                    /\ IF q.mem[u] = None
                       THEN Rewrapped(q, me)[u].key = members[u].key
                       ELSE /\ Rewrapped(q, me)[u].key = q.key
                            /\ Rewrapped(q, me)[u].epoch = q.epoch
  <1>1. ASSUME NEW u \in User, members[u] # None, q.mem[u] # None
        PROVE  LET r == Resigned(members[u], me, q.key, q.epoch, q.mem[u])
               IN  /\ r \in Row /\ r.role = members[u].role
                   /\ r.active = members[u].active /\ r.key = q.key
                   /\ r.epoch = q.epoch
    <2>1. members[u] \in Row /\ q.key \in Nat /\ q.epoch \in Nat /\ q.mem[u] \in Roles
      BY <1>1 DEF TypeOK, Req, Listing
    <2>2. [epoch |-> q.epoch, by |-> me, role |-> q.mem[u]] \in Sig
      BY <2>1 DEF Sig
    <2>3. QED
      BY <2>1, <2>2 DEF Resigned, Row
  <1>2. \A u \in User : members[u] # None => members[u] \in Row
    BY DEF TypeOK
  <1>3. \A u \in User : Rewrapped(q, me)[u] =
           IF q.mem[u] = None \/ members[u] = None THEN members[u]
           ELSE Resigned(members[u], me, q.key, q.epoch, q.mem[u])
    BY DEF Rewrapped
  <1>4. Rewrapped(q, me) \in [User -> Row \cup {None}]
    BY <1>1, <1>2 DEF Rewrapped
  <1>5. QED
    BY <1>1, <1>2, <1>3, <1>4

LEMMA LearnedType ==
  ASSUME TypeOK, NEW q \in Req
  PROVE  /\ Learned(q) \in [User -> SUBSET Nat]
         /\ \A u \in User : Learned(q)[u] =
              IF q.mem[u] = None \/ members[u] = None THEN known[u]
              ELSE known[u] \cup {q.key}
  BY DEF TypeOK, Learned, Req

\* db::invite_member on a request that is accepted.
LEMMA InvitedRow ==
  ASSUME TypeOK, NEW d \in Device, req[d].pc = "invite", req[d].to \in User,
         req[d].role \in Roles
  PROVE  LET r == [role |-> req[d].role, active |-> FALSE, key |-> req[d].key,
                   epoch |-> req[d].epoch, by |-> UserOf[d],
                   sig |-> [epoch |-> req[d].epoch, by |-> UserOf[d],
                            role |-> req[d].role]]
         IN  /\ r \in Row /\ r.key = req[d].key /\ r.role = req[d].role /\ ~r.active
             /\ r.epoch = req[d].epoch /\ r.by = UserOf[d]
             /\ r.sig = [epoch |-> req[d].epoch, by |-> UserOf[d], role |-> req[d].role]
  <1>1. req[d].key \in Nat /\ req[d].epoch \in Nat /\ UserOf[d] \in User
    BY OrgAssumption DEF TypeOK, Req
  <1>2. [epoch |-> req[d].epoch, by |-> UserOf[d], role |-> req[d].role] \in Sig
    BY <1>1 DEF Sig
  <1>3. QED
    BY <1>1, <1>2 DEF Row

-----------------------------------------------------------------------------
(* Type correctness.                                                       *)

\* An invite names a user and a role below the owner's.
InviteShape ==
    \A d \in Device : req[d].pc = "invite" =>
        req[d].to \in User /\ req[d].role \in {"admin", "member"}

TypeInv == TypeOK /\ InviteShape

\* What a device learns about is unchanged but for its request.
LEMMA RequestOnly ==
  ASSUME TypeInv, NEW d \in Device, NEW q \in Req, Becomes(d, q),
         q.pc = "invite" => q.to \in User /\ q.role \in {"admin", "member"},
         UNCHANGED <<orgVars, devVars, orgKey, known>>, made' \in Nat
  PROVE  TypeInv'
  <1>1. req' \in [Device -> Req] /\ InviteShape'
    BY RequestType DEF TypeInv, InviteShape
  <1>2. QED
    BY <1>1 DEF TypeInv, TypeOK, orgVars, devVars

\* get_org_member's answer: the caller's own wrap.
LEMMA GetMemberDoes ==
  ASSUME TypeInv, NEW d \in Device, GetMember(d)
  PROVE  \E q \in Req : /\ Becomes(d, q) /\ q.pc = "member"
                        /\ members[UserOf[d]] # None /\ q.key = members[UserOf[d]].key
                        /\ q.mem = Nobody
                        /\ UNCHANGED <<orgVars, devVars, made, orgKey, known>>
  <1> DEFINE q == [Idle EXCEPT !.pc = "member", !.role = members[UserOf[d]].role,
                               !.key = members[UserOf[d]].key]
  <1>1. members[UserOf[d]] \in Row
    BY OrgAssumption DEF GetMember, TypeInv, TypeOK
  <1>2. q \in Req /\ q.pc = "member" /\ q.key = members[UserOf[d]].key /\ q.mem = Nobody
    BY <1>1, IdleType DEF Row, Req
  <1>3. /\ Becomes(d, q) /\ members[UserOf[d]] # None
        /\ UNCHANGED <<orgVars, devVars, made, orgKey, known>>
    BY DEF GetMember
  <1> HIDE DEF q
  <1>4. QED
    BY <1>2, <1>3

LEMMA GetMemberType ==
  ASSUME TypeInv, NEW d \in Device, GetMember(d)
  PROVE  TypeInv'
  <1>1. PICK q \in Req : /\ Becomes(d, q) /\ q.pc = "member"
                         /\ UNCHANGED <<orgVars, devVars, made, orgKey, known>>
    BY GetMemberDoes
  <1>2. made' \in Nat
    BY <1>1 DEF TypeInv, TypeOK
  <1>3. QED
    BY <1>1, <1>2, RequestOnly

LEMMA ListMembersDoes ==
  ASSUME TypeInv, NEW d \in Device, ListMembers(d)
  PROVE  \E q \in Req : /\ Becomes(d, q) /\ q.pc = "listed" /\ q.key = req[d].key
                        /\ req[d].pc = "member"
                        /\ \A u \in User : q.mem[u] = RoleIn(u)
                        /\ UNCHANGED <<orgVars, devVars, made, orgKey, known>>
  <1> DEFINE mem == [u \in User |-> RoleIn(u)]
             q == [req[d] EXCEPT !.pc = "listed", !.mem = mem]
  <1>1. mem \in Listing
    BY DEF RoleIn, Listing, TypeInv, TypeOK, Row
  <1>2. q \in Req /\ q.pc = "listed" /\ q.key = req[d].key /\ q.mem = mem
    <2>1. req[d] \in Req
      BY DEF TypeInv, TypeOK
    <2> HIDE DEF mem
    <2>2. QED
      BY <1>1, <2>1 DEF Req
  <1>3. /\ Becomes(d, q) /\ req[d].pc = "member"
        /\ UNCHANGED <<orgVars, devVars, made, orgKey, known>>
    BY DEF ListMembers
  <1>4. \A u \in User : mem[u] = RoleIn(u)
    OBVIOUS
  <1> HIDE DEF q, mem
  <1>5. QED
    BY <1>2, <1>3, <1>4

LEMMA ListMembersType ==
  ASSUME TypeInv, NEW d \in Device, ListMembers(d)
  PROVE  TypeInv'
  <1>1. PICK q \in Req : /\ Becomes(d, q) /\ q.pc = "listed"
                         /\ UNCHANGED <<orgVars, devVars, made, orgKey, known>>
    BY ListMembersDoes
  <1>2. made' \in Nat
    BY <1>1 DEF TypeInv, TypeOK
  <1>3. QED
    BY <1>1, <1>2, RequestOnly

LEMMA StatusIs ==
  ASSUME NEW d \in Device, NEW confirmed \in BOOLEAN
  PROVE  LET st == Status(d, UserOf[d], confirmed)
         IN  /\ st \in {"closed", "ok", "unsigned"}
             /\ members[UserOf[d]] # None \/ st = "closed"
             /\ st = "ok" => members[UserOf[d]].epoch >= seen[d]
  BY DEF Status, NoRollback

LEMMA MaximumType ==
  ASSUME NEW a \in Nat, NEW b \in Nat
  PROVE  /\ Maximum(a, b) \in Nat /\ Maximum(a, b) >= a /\ Maximum(a, b) >= b
         /\ a <= b => Maximum(a, b) = b
         /\ Maximum(a, 0) = a
  BY DEF Maximum

\* What opening the organization does.
LEMMA OpenOrgDoes ==
  ASSUME TypeInv, NEW d \in Device, NEW confirmed \in BOOLEAN, OpenOrg(d, confirmed)
  PROVE  \E v \in View :
           /\ v.status = "ok" => /\ members[UserOf[d]] # None
                                 /\ v.epoch = members[UserOf[d]].epoch
                                 /\ v.wrapKey = members[UserOf[d]].key
                                 /\ v.epoch >= seen[d]
           /\ v.status # "ok" => v.epoch = 0 /\ v.wrapKey = 0
           /\ v.key \in {0, req[d].key} /\ v.mem \in {Nobody, req[d].mem}
           /\ view' = [view EXCEPT ![d] = v]
           /\ seen' = [seen EXCEPT ![d] = Maximum(seen[d], v.epoch)]
           /\ used' = [used EXCEPT ![d] = Maximum(used[d], v.epoch)]
           /\ Becomes(d, Idle)
           /\ UNCHANGED <<orgVars, invite, made, orgKey, known>>
  <1> DEFINE st == Status(d, UserOf[d], confirmed)
             v == Opened(d, st)
  <1>1. /\ st \in {"closed", "ok", "unsigned"}
        /\ members[UserOf[d]] # None \/ st = "closed"
        /\ st = "ok" => members[UserOf[d]].epoch >= seen[d]
    BY StatusIs
  <1>2. /\ view' = [view EXCEPT ![d] = v]
        /\ seen' = [seen EXCEPT ![d] = Maximum(seen[d], v.epoch)]
        /\ used' = [used EXCEPT ![d] = Maximum(used[d], v.epoch)]
        /\ Becomes(d, Idle)
        /\ UNCHANGED <<orgVars, invite, made, orgKey, known>>
    BY DEF OpenOrg
  <1> HIDE DEF st
  <1>3. /\ v \in View /\ v.status = st /\ v.key \in {0, req[d].key}
        /\ v.mem \in {Nobody, req[d].mem}
        /\ st = "ok" => /\ v.epoch = members[UserOf[d]].epoch
                        /\ v.wrapKey = members[UserOf[d]].key
        /\ st # "ok" => v.epoch = 0 /\ v.wrapKey = 0
    BY <1>1, OpenedView DEF TypeInv
  <1> HIDE DEF v
  <1>4. v.status = "ok" => v.epoch >= seen[d]
    BY <1>1, <1>3
  <1>5. QED
    BY <1>1, <1>2, <1>3, <1>4

LEMMA OpenOrgType ==
  ASSUME TypeInv, NEW d \in Device, NEW confirmed \in BOOLEAN, OpenOrg(d, confirmed)
  PROVE  TypeInv'
  <1>1. PICK v \in View :
           /\ view' = [view EXCEPT ![d] = v]
           /\ seen' = [seen EXCEPT ![d] = Maximum(seen[d], v.epoch)]
           /\ used' = [used EXCEPT ![d] = Maximum(used[d], v.epoch)]
           /\ Becomes(d, Idle)
           /\ UNCHANGED <<orgVars, invite, made, orgKey, known>>
    BY OpenOrgDoes
  <1>2. Maximum(seen[d], v.epoch) \in Nat /\ Maximum(used[d], v.epoch) \in Nat
    BY MaximumType DEF TypeInv, TypeOK, View
  <1>3. req' \in [Device -> Req] /\ InviteShape'
    BY <1>1, IdleType, RequestType DEF TypeInv, InviteShape
  <1>4. /\ view' \in [Device -> View] /\ seen' \in [Device -> Nat]
        /\ used' \in [Device -> Nat]
    BY <1>1, <1>2 DEF TypeInv, TypeOK
  <1>5. QED
    BY <1>1, <1>3, <1>4 DEF TypeInv, TypeOK, orgVars

\* The invite request carries the key of the view.
LEMMA InviteDoes ==
  ASSUME TypeInv, NEW d \in Device, NEW u \in User, NEW role \in RolesFor[u],
         Invite(d, u, role)
  PROVE  \E q \in Req : /\ Becomes(d, q) /\ q.pc = "invite" /\ q.key = view[d].key
                        /\ q.to = u /\ q.role \in {"admin", "member"} /\ q.role = role
                        /\ q.epoch = view[d].epoch /\ q.mem = Nobody
                        /\ UNCHANGED <<orgVars, devVars, made, orgKey, known>>
  <1> DEFINE q == [Idle EXCEPT !.pc = "invite", !.to = u, !.role = role,
                               !.key = view[d].key, !.epoch = view[d].epoch]
  <1>1. view[d].key \in Nat /\ view[d].epoch \in Nat /\ role \in {"admin", "member"}
    BY OrgAssumption DEF TypeInv, TypeOK, View
  <1>2. /\ q \in Req /\ q.pc = "invite" /\ q.key = view[d].key /\ q.to = u /\ q.role = role
        /\ q.epoch = view[d].epoch /\ q.mem = Nobody
    <2>1. role \in Roles
      BY <1>1 DEF Roles
    <2>2. QED
      BY <1>1, <2>1, IdleType DEF Req
  <1>3. Becomes(d, q) /\ UNCHANGED <<orgVars, devVars, made, orgKey, known>>
    BY DEF Invite
  <1> HIDE DEF q
  <1>4. QED
    BY <1>1, <1>2, <1>3

LEMMA InviteType ==
  ASSUME TypeInv, NEW d \in Device, NEW u \in User, NEW role \in RolesFor[u],
         Invite(d, u, role)
  PROVE  TypeInv'
  <1>1. PICK q \in Req : /\ Becomes(d, q) /\ q.pc = "invite"
                         /\ q.to = u /\ q.role \in {"admin", "member"}
                         /\ UNCHANGED <<orgVars, devVars, made, orgKey, known>>
    BY InviteDoes
  <1>2. made' \in Nat
    BY <1>1 DEF TypeInv, TypeOK
  <1>3. QED
    BY <1>1, <1>2, RequestOnly

LEMMA InviteMemberType ==
  ASSUME TypeInv, NEW d \in Device, InviteMember(d)
  PROVE  TypeInv'
  <1>1. req' \in [Device -> Req] /\ InviteShape'
    BY IdleType, RequestType DEF InviteMember, TypeInv, InviteShape
  <1>2. members' \in [User -> Row \cup {None}] /\ known' \in [User -> SUBSET Nat]
    <2>1. req[d].pc = "invite" /\ req[d].to \in User /\ req[d].role \in Roles
      BY DEF InviteMember, TypeInv, InviteShape, Roles
    <2> DEFINE r == [role |-> req[d].role, active |-> FALSE, key |-> req[d].key,
                     epoch |-> req[d].epoch, by |-> UserOf[d],
                     sig |-> [epoch |-> req[d].epoch, by |-> UserOf[d],
                              role |-> req[d].role]]
    <2>2. r \in Row /\ req[d].key \in Nat
      BY <2>1, InvitedRow DEF TypeInv, Row
    <2>3. \/ members' = [members EXCEPT ![req[d].to] = r]
             /\ known' = [known EXCEPT ![req[d].to] = @ \cup {req[d].key}]
          \/ UNCHANGED <<members, known>>
      BY DEF InviteMember
    <2> HIDE DEF r
    <2>4. QED
      BY <2>1, <2>2, <2>3 DEF TypeInv, TypeOK
  <1>3. QED
    BY <1>1, <1>2 DEF InviteMember, TypeInv, TypeOK, devVars

LEMMA LoadInviteType ==
  ASSUME TypeInv, NEW d \in Device, LoadInvite(d, TRUE)
  PROVE  TypeInv'
  <1>1. members[UserOf[d]].epoch \in Nat
    BY OrgAssumption DEF LoadInvite, TypeInv, TypeOK, Row
  <1>2. invite' \in [Device -> Nat]
    BY <1>1 DEF LoadInvite, TypeInv, TypeOK
  <1>3. QED
    BY <1>2 DEF LoadInvite, TypeInv, TypeOK, InviteShape, orgVars

\* accept_invite changes nothing of a row but its standing.
LEMMA AcceptedRow ==
  ASSUME TypeInv, NEW d \in Device, AcceptInvite(d)
  PROVE  /\ UserOf[d] \in User
         /\ members[UserOf[d]] \in Row /\ members[UserOf[d]] # None
         /\ ~members[UserOf[d]].active
         /\ members'[UserOf[d]] \in Row
         /\ members'[UserOf[d]].role = members[UserOf[d]].role
         /\ members'[UserOf[d]].key = members[UserOf[d]].key
         /\ members'[UserOf[d]].epoch = members[UserOf[d]].epoch
         /\ members'[UserOf[d]].by = members[UserOf[d]].by
         /\ members'[UserOf[d]].sig = members[UserOf[d]].sig
         /\ members'[UserOf[d]].active
         /\ \A u \in User \ {UserOf[d]} : members'[u] = members[u]
         /\ members' \in [User -> Row \cup {None}]
  <1> DEFINE me == UserOf[d]
             r == [members[me] EXCEPT !.active = TRUE]
  <1>1. me \in User
    BY OrgAssumption
  <1>2. members[me] # None /\ ~members[me].active /\ members[me] \in Row
    BY <1>1 DEF AcceptInvite, TypeInv, TypeOK
  <1>3. members' = [members EXCEPT ![me] = r]
    BY DEF AcceptInvite
  <1>4. r \in Row /\ r.role = members[me].role /\ r.key = members[me].key /\ r.active
        /\ r.epoch = members[me].epoch /\ r.by = members[me].by /\ r.sig = members[me].sig
    BY <1>2 DEF Row
  <1>5. members \in [User -> Row \cup {None}]
    BY DEF TypeInv, TypeOK
  <1> HIDE DEF r, me
  <1>6. members'[me] = r /\ \A u \in User \ {me} : members'[u] = members[u]
    BY <1>1, <1>3, <1>5
  <1>7. members' \in [User -> Row \cup {None}]
    BY <1>1, <1>3, <1>4, <1>5
  <1>8. QED
    BY <1>1, <1>2, <1>4, <1>6, <1>7 DEF me

LEMMA AcceptInviteType ==
  ASSUME TypeInv, NEW d \in Device, AcceptInvite(d)
  PROVE  TypeInv'
  <1>1. Maximum(seen[d], invite[d]) \in Nat
    BY MaximumType DEF TypeInv, TypeOK
  <1>2. seen' \in [Device -> Nat] /\ invite' \in [Device -> Nat]
    BY <1>1 DEF AcceptInvite, TypeInv, TypeOK
  <1>3. members' \in [User -> Row \cup {None}]
    BY AcceptedRow
  <1>4. QED
    BY <1>2, <1>3 DEF AcceptInvite, TypeInv, TypeOK, InviteShape

\* The re-sign request carries the key of the view.
LEMMA ResignDoes ==
  ASSUME TypeInv, NEW d \in Device, NEW skipped \in SUBSET User, ResignOrg(d, skipped)
  PROVE  \E q \in Req : /\ Becomes(d, q) /\ q.pc = "owner" /\ q.key = view[d].key
                        /\ UNCHANGED <<orgVars, devVars, made, orgKey, known>>
  <1> DEFINE e == IF view[d].status = "ok" THEN view[d].epoch ELSE 1
             mem == [u \in User |-> IF u \in skipped THEN None ELSE view[d].mem[u]]
             q == [Idle EXCEPT !.pc = "owner", !.key = view[d].key, !.epoch = e, !.mem = mem]
  <1>1. view[d] \in View
    BY DEF TypeInv, TypeOK
  <1>2. e \in Nat /\ mem \in Listing /\ view[d].key \in Nat
    BY <1>1 DEF View, Listing
  <1>3. Becomes(d, q) /\ UNCHANGED <<orgVars, devVars, made, orgKey, known>>
    BY DEF ResignOrg
  <1>4. q \in Req /\ q.pc = "owner" /\ q.key = view[d].key
    <2> HIDE DEF e, mem
    <2>1. QED
      BY <1>2, IdleType DEF Req
  <1> HIDE DEF q
  <1>5. QED
    BY <1>3, <1>4

LEMMA ResignType ==
  ASSUME TypeInv, NEW d \in Device, NEW skipped \in SUBSET User, ResignOrg(d, skipped)
  PROVE  TypeInv'
  <1>1. PICK q \in Req : /\ Becomes(d, q) /\ q.pc = "owner"
                         /\ UNCHANGED <<orgVars, devVars, made, orgKey, known>>
    BY ResignDoes
  <1>2. made' \in Nat
    BY <1>1 DEF TypeInv, TypeOK
  <1>3. QED
    BY <1>1, <1>2, RequestOnly

LEMMA RewrapEpochDoes ==
  ASSUME TypeInv, NEW d \in Device, RewrapEpoch(d)
  PROVE  \E q \in Req : /\ Becomes(d, q) /\ q.pc \in {"idle", "current"}
                        /\ q.key \in {0, req[d].key} /\ req[d].pc = "owner"
                        /\ UNCHANGED <<orgVars, devVars, made, orgKey, known>>
  <1> DEFINE c == [req[d] EXCEPT !.pc = "current"]
  <1>1. c \in Req /\ c.pc = "current" /\ c.key = req[d].key
    BY DEF TypeInv, TypeOK, Req
  <1>2. Becomes(d, c) \/ Becomes(d, Idle)
    BY DEF RewrapEpoch
  <1> HIDE DEF c
  <1>3. QED
    BY <1>1, <1>2, IdleType DEF RewrapEpoch

LEMMA RewrapEpochType ==
  ASSUME TypeInv, NEW d \in Device, RewrapEpoch(d)
  PROVE  TypeInv'
  <1>1. PICK q \in Req : /\ Becomes(d, q) /\ q.pc \in {"idle", "current"}
                         /\ UNCHANGED <<orgVars, devVars, made, orgKey, known>>
    BY RewrapEpochDoes
  <1>2. made' \in Nat
    BY <1>1 DEF TypeInv, TypeOK
  <1>3. QED
    BY <1>1, <1>2, RequestOnly

LEMMA RewrapMembersType ==
  ASSUME TypeInv, NEW d \in Device, RewrapMembers(d)
  PROVE  TypeInv'
  <1>1. req' \in [Device -> Req] /\ InviteShape'
    BY IdleType, RequestType DEF RewrapMembers, TypeInv, InviteShape
  <1>2. req[d] \in Req /\ UserOf[d] \in User
    BY OrgAssumption DEF TypeInv, TypeOK
  <1>3. members' \in [User -> Row \cup {None}] /\ known' \in [User -> SUBSET Nat]
    BY <1>2, RewrappedType, LearnedType DEF RewrapMembers, TypeInv, TypeOK
  <1>4. QED
    BY <1>1, <1>3 DEF RewrapMembers, TypeInv, TypeOK, devVars

LEMMA PrepareRotationType ==
  ASSUME TypeInv, NEW d \in Device, NEW remove \in User \cup {None},
         PrepareRotation(d, remove)
  PROVE  TypeInv'
  <1>1. Plan(d, remove) \in Req /\ Plan(d, remove).pc = "plan"
    BY PlanReq DEF TypeInv
  <1>2. Becomes(d, Plan(d, remove)) /\ UNCHANGED <<orgVars, devVars, orgKey, known>>
    BY DEF PrepareRotation
  <1>3. made' \in Nat
    BY DEF PrepareRotation, TypeInv, TypeOK
  <1>4. QED
    BY <1>1, <1>2, <1>3, RequestOnly

LEMMA RotateKeyType ==
  ASSUME TypeInv, NEW d \in Device, RotateKey(d)
  PROVE  TypeInv'
  <1>1. req' \in [Device -> Req] /\ InviteShape'
    BY IdleType, RequestType DEF RotateKey, TypeInv, InviteShape
  <1>2. req[d] \in Req /\ UserOf[d] \in User
    BY OrgAssumption DEF TypeInv, TypeOK
  <1>3. req[d].key \in Nat /\ req[d].epoch \in Nat
    BY <1>2 DEF Req
  <1>4. CASE Accepts(req[d], UserOf[d])
    <2>1. members' \in [User -> Row \cup {None}] /\ known' \in [User -> SUBSET Nat]
      BY <1>2, <1>4, RewrappedType, LearnedType DEF RotateKey, TypeInv
    <2>2. items' \in [Item -> Nat] /\ epoch' \in Nat /\ orgKey' \in Nat
      BY <1>3, <1>4 DEF RotateKey, TypeInv, TypeOK
    <2>3. QED
      BY <1>1, <2>1, <2>2 DEF RotateKey, TypeInv, TypeOK, devVars
  <1>5. CASE ~Accepts(req[d], UserOf[d])
    BY <1>1, <1>5 DEF RotateKey, TypeInv, TypeOK, devVars, orgVars
  <1>6. QED
    BY <1>4, <1>5

LEMMA AbortType ==
  ASSUME TypeInv, NEW d \in Device, Abort(d)
  PROVE  TypeInv'
  <1>1. made' \in Nat /\ Becomes(d, Idle) /\ UNCHANGED <<orgVars, devVars, orgKey, known>>
    BY DEF Abort, TypeInv, TypeOK
  <1>2. QED
    BY <1>1, IdleType, RequestOnly

LEMMA TypeStep ==
  ASSUME TypeInv, [Next]_vars
  PROVE  TypeInv'
  <1>1. CASE UNCHANGED vars
    BY <1>1 DEF vars, TypeInv, TypeOK, InviteShape
  <1>2. ASSUME NEW d \in Device, Step(d)
        PROVE  TypeInv'
    BY <1>2, GetMemberType, ListMembersType, OpenOrgType, InviteType, InviteMemberType,
       LoadInviteType, AcceptInviteType, ResignType, RewrapEpochType, RewrapMembersType,
       PrepareRotationType, RotateKeyType, AbortType DEF Step
  <1>3. QED
    BY <1>1, <1>2 DEF Next

\* create_org's rows.
LEMMA FirstRowType ==
  ASSUME NEW role \in Roles, NEW signed \in BOOLEAN
  PROVE  /\ FirstRow(role, signed) \in Row /\ FirstRow(role, signed).role = role
         /\ FirstRow(role, signed).key = 1 /\ FirstRow(role, signed).active
         /\ FirstRow(role, signed).epoch <= 1 /\ FirstRow(role, signed).by = Owner
         /\ signed => /\ FirstRow(role, signed).epoch = 1
                      /\ FirstRow(role, signed).sig =
                            [epoch |-> 1, by |-> Owner, role |-> role]
  <1>1. [epoch |-> 1, by |-> Owner, role |-> role] \in Sig
    BY OrgAssumption DEF Sig
  <1>2. QED
    BY <1>1, OrgAssumption DEF FirstRow, Row

\* The rows an organization begins with.
LEMMA FirstMembers ==
  ASSUME Init
  PROVE  /\ members \in [User -> Row \cup {None}]
         /\ members[Owner] # None /\ members[Owner].role = "owner"
         /\ members[Owner].epoch <= 1
         /\ \A u \in User : members[u] # None =>
               members[u] \in Row /\ members[u].key = 1 /\ members[u].active
         /\ \A u \in User \ {Owner} :
               members[u] # None => members[u].role \in {"admin", "member"}
  <1>1. PICK signed \in IF Legacy THEN {FALSE} ELSE {TRUE},
             others \in [User \ {Owner} -> {None, "admin", "member"}] :
          members = [u \in User |-> IF u = Owner THEN FirstRow("owner", signed)
                                    ELSE IF others[u] = None THEN None
                                    ELSE FirstRow(others[u], signed)]
    BY DEF Init
  <1>2. signed \in BOOLEAN
    OBVIOUS
  <1>3. FirstRow("owner", signed) \in Row /\ FirstRow("owner", signed).role = "owner"
        /\ FirstRow("owner", signed).epoch <= 1
        /\ FirstRow("owner", signed).key = 1 /\ FirstRow("owner", signed).active
    BY <1>2, FirstRowType DEF Roles
  <1>4. ASSUME NEW u \in User \ {Owner}, others[u] # None
        PROVE  /\ FirstRow(others[u], signed) \in Row
               /\ FirstRow(others[u], signed).role \in {"admin", "member"}
               /\ FirstRow(others[u], signed).key = 1 /\ FirstRow(others[u], signed).active
    <2>1. others[u] \in {"admin", "member"}
      BY <1>4
    <2>2. others[u] \in Roles
      BY <2>1 DEF Roles
    <2>3. QED
      BY <1>2, <2>1, <2>2, FirstRowType
  <1>5. QED
    BY <1>1, <1>3, <1>4, OrgAssumption, NoneIsNoRow

LEMMA InitType == Init => TypeInv
  <1> SUFFICES ASSUME Init PROVE TypeInv
    OBVIOUS
  <1>1. req \in [Device -> Req] /\ view \in [Device -> View] /\ InviteShape
    BY IdleType, ClosedType DEF Init, InviteShape
  <1>2. members \in [User -> Row \cup {None}]
    BY FirstMembers
  <1>3. items \in [Item -> Nat] /\ known \in [User -> SUBSET Nat]
    BY DEF Init
  <1>4. QED
    BY <1>1, <1>2, <1>3 DEF Init, TypeInv, TypeOK

\* Rows, views and requests stay well formed, and an invite in flight names a
\* user and a role that its handler accepts.
THEOREM TypeCorrect == Spec => []TypeInv
  BY InitType, TypeStep, PTL DEF Spec

-----------------------------------------------------------------------------
(* Epochs only go up on a device.                                          *)

\* Whatever epoch a device opened, it has recorded.
EpochInv == (\A d \in Device : used[d] <= seen[d]) /\ NeverOpensOlder

LEMMA EpochStep ==
  ASSUME TypeInv, EpochInv, [Next]_vars
  PROVE  EpochInv'
  <1>1. ASSUME UNCHANGED <<view, seen, used>>
        PROVE  EpochInv'
    BY <1>1 DEF EpochInv, NeverOpensOlder
  <1>2. ASSUME NEW d \in Device, NEW confirmed \in BOOLEAN, OpenOrg(d, confirmed)
        PROVE  EpochInv'
    <2>1. PICK v \in View :
             /\ v.status = "ok" => v.epoch >= seen[d]
             /\ view' = [view EXCEPT ![d] = v]
             /\ seen' = [seen EXCEPT ![d] = Maximum(seen[d], v.epoch)]
             /\ used' = [used EXCEPT ![d] = Maximum(used[d], v.epoch)]
      BY <1>2, OpenOrgDoes
    <2>2. v.epoch \in Nat /\ seen[d] \in Nat /\ used[d] \in Nat /\ used[d] <= seen[d]
      BY DEF TypeInv, TypeOK, View, EpochInv
    <2>3. /\ Maximum(used[d], v.epoch) <= Maximum(seen[d], v.epoch)
          /\ v.status = "ok" => v.epoch = Maximum(used[d], v.epoch)
      BY <2>1, <2>2 DEF Maximum
    <2>4. \A e \in Device : /\ view'[e] = IF e = d THEN v ELSE view[e]
                            /\ seen'[e] = IF e = d THEN Maximum(seen[d], v.epoch) ELSE seen[e]
                            /\ used'[e] = IF e = d THEN Maximum(used[d], v.epoch) ELSE used[e]
      BY <2>1 DEF TypeInv, TypeOK
    <2>5. QED
      BY <2>3, <2>4 DEF EpochInv, NeverOpensOlder
  <1>3. ASSUME NEW d \in Device, AcceptInvite(d)
        PROVE  EpochInv'
    <2>1. seen[d] \in Nat /\ invite[d] \in Nat /\ used[d] \in Nat
      BY DEF TypeInv, TypeOK
    <2>2. seen' = [seen EXCEPT ![d] = Maximum(seen[d], invite[d])] /\ UNCHANGED <<view, used>>
      BY <1>3 DEF AcceptInvite
    <2>3. used[d] <= Maximum(seen[d], invite[d])
      BY <2>1 DEF EpochInv, Maximum
    <2>4. \A e \in Device : used[e] <= seen'[e]
      BY <2>2, <2>3 DEF EpochInv, TypeInv, TypeOK
    <2>5. QED
      BY <2>2, <2>4 DEF EpochInv, NeverOpensOlder
  <1>4. ASSUME NEW d \in Device, Step(d),
               ~(\E confirmed \in BOOLEAN : OpenOrg(d, confirmed)), ~AcceptInvite(d)
        PROVE  UNCHANGED <<view, seen, used>>
    BY <1>4 DEF Step, GetMember, ListMembers, Invite, InviteMember, LoadInvite, ResignOrg,
                RewrapEpoch, RewrapMembers, PrepareRotation, RotateKey, Abort, devVars
  <1>5. QED
    BY <1>1, <1>2, <1>3, <1>4 DEF Next, vars

\* openOrgKey never goes back: whatever the server answers and however answers,
\* invites and rotations interleave, a device that opened the key of an epoch
\* shows no older one as verified.
THEOREM OpensForward == Spec => []NeverOpensOlder
  <1>1. Init => EpochInv
    BY ClosedType DEF Init, EpochInv, NeverOpensOlder
  <1>2. EpochInv => NeverOpensOlder
    BY DEF EpochInv
  <1>3. QED
    BY <1>1, <1>2, EpochStep, TypeCorrect, PTL DEF Spec

-----------------------------------------------------------------------------
(* Keys.  A key that is generated for a rotation is nowhere else until the *)
(* rotation is applied.                                                    *)

\* Keys are numbered in the order of their generation.
BoundInv ==
    /\ \A u \in User : \A k \in known[u] : k <= made
    /\ \A u \in User : members[u] # None => members[u].key <= made
    /\ \A d \in Device : view[d].key <= made /\ req[d].key <= made

\* Nobody else has the key of a rotation that is under way.
Unshared(d, k) ==
    /\ k # 0
    /\ \A u \in User : k \notin known[u]
    /\ \A u \in User : members[u] # None => members[u].key # k
    /\ \A e \in Device : view[e].key # k
    /\ \A e \in Device \ {d} : req[e].key # k

FreshInv == \A d \in Device : req[d].pc = "plan" => Unshared(d, req[d].key)

ItemInv == \A i \in Item : items[i] \in {0, orgKey}

ReaderInv == \A u \in User : orgKey \in known[u] => members[u] # None

OwnerInv ==
    /\ members[Owner] # None /\ members[Owner].role = "owner"
    /\ \A u \in User \ {Owner} : members[u] # None => members[u].role # "owner"

KeyInv == BoundInv /\ FreshInv /\ ItemInv /\ ReaderInv /\ OwnerInv

\* A request that carries a key its device could already have.
LEMMA KeyRequest ==
  ASSUME TypeInv, KeyInv, NEW d \in Device, NEW q \in Req, Becomes(d, q),
         q.pc # "plan", q.key <= made,
         \A e \in Device \ {d} : req[e].pc = "plan" => req[e].key # q.key,
         UNCHANGED <<orgVars, view, made, orgKey, known>>
  PROVE  KeyInv'
  <1>1. /\ req'[d] = q /\ \A e \in Device \ {d} : req'[e] = req[e]
        /\ UNCHANGED <<members, items, view, made, orgKey, known>>
    BY RequestType DEF TypeInv, orgVars
  <1>2. BoundInv'
    BY <1>1 DEF KeyInv, BoundInv
  <1>3. FreshInv'
    BY <1>1 DEF KeyInv, FreshInv, Unshared
  <1>4. (ItemInv /\ ReaderInv /\ OwnerInv)'
    BY <1>1 DEF KeyInv, ItemInv, ReaderInv, OwnerInv
  <1>5. QED
    BY <1>2, <1>3, <1>4 DEF KeyInv

LEMMA KeyGetMember ==
  ASSUME TypeInv, KeyInv, NEW d \in Device, GetMember(d)
  PROVE  KeyInv'
  <1>1. PICK q \in Req : /\ Becomes(d, q) /\ q.pc = "member"
                         /\ members[UserOf[d]] # None /\ q.key = members[UserOf[d]].key
                         /\ UNCHANGED <<orgVars, devVars, made, orgKey, known>>
    BY GetMemberDoes
  <1>2. /\ q.key <= made
        /\ \A e \in Device \ {d} : req[e].pc = "plan" => req[e].key # q.key
    BY <1>1, OrgAssumption DEF KeyInv, BoundInv, FreshInv, Unshared
  <1>3. QED
    BY <1>1, <1>2, KeyRequest DEF devVars

\* The request moves on with the key it had, or with none, or with the view's.
LEMMA KeyRequestSame ==
  ASSUME TypeInv, KeyInv, NEW d \in Device, NEW q \in Req, Becomes(d, q),
         q.pc # "plan", q.key \in {0, req[d].key, view[d].key},
         UNCHANGED <<orgVars, devVars, made, orgKey, known>>
  PROVE  KeyInv'
  <1>1. q.key <= made
    BY DEF KeyInv, BoundInv, TypeInv, TypeOK
  <1>2. \A e \in Device \ {d} : req[e].pc = "plan" => req[e].key # q.key
    BY DEF KeyInv, FreshInv, Unshared
  <1>3. QED
    BY <1>1, <1>2, KeyRequest DEF devVars

LEMMA KeySame ==
  ASSUME TypeInv, KeyInv, NEW d \in Device,
         \/ ListMembers(d)
         \/ \E u \in User : \E role \in RolesFor[u] : Invite(d, u, role)
         \/ \E skipped \in SUBSET User : ResignOrg(d, skipped)
         \/ RewrapEpoch(d)
         \/ Abort(d)
  PROVE  KeyInv'
  <1>1. CASE ListMembers(d)
    BY <1>1, ListMembersDoes, KeyRequestSame
  <1>2. CASE \E u \in User : \E role \in RolesFor[u] : Invite(d, u, role)
    BY <1>2, InviteDoes, KeyRequestSame
  <1>3. CASE \E skipped \in SUBSET User : ResignOrg(d, skipped)
    BY <1>3, ResignDoes, KeyRequestSame
  <1>4. CASE RewrapEpoch(d)
    <2>1. PICK q \in Req : /\ Becomes(d, q) /\ q.pc \in {"idle", "current"}
                           /\ q.key \in {0, req[d].key}
                           /\ UNCHANGED <<orgVars, devVars, made, orgKey, known>>
      BY <1>4, RewrapEpochDoes
    <2>2. q.pc # "plan" /\ q.key \in {0, req[d].key, view[d].key}
      BY <2>1
    <2>3. QED
      BY <2>1, <2>2, KeyRequestSame
  <1>5. CASE Abort(d)
    <2>1. Becomes(d, Idle) /\ UNCHANGED <<orgVars, devVars, made, orgKey, known>>
      BY <1>5 DEF Abort
    <2>2. Idle \in Req /\ Idle.pc # "plan" /\ Idle.key \in {0, req[d].key, view[d].key}
      BY IdleType
    <2>3. QED
      BY <2>1, <2>2, KeyRequestSame
  <1>6. QED
    BY <1>1, <1>2, <1>3, <1>4, <1>5

LEMMA KeyOpenOrg ==
  ASSUME TypeInv, KeyInv, NEW d \in Device, NEW confirmed \in BOOLEAN, OpenOrg(d, confirmed)
  PROVE  KeyInv'
  <1>1. PICK v \in View :
           /\ v.key \in {0, req[d].key}
           /\ view' = [view EXCEPT ![d] = v]
           /\ Becomes(d, Idle)
           /\ UNCHANGED <<orgVars, invite, made, orgKey, known>>
    BY OpenOrgDoes
  <1>2. /\ view'[d] = v /\ \A e \in Device \ {d} : view'[e] = view[e]
        /\ UNCHANGED <<members, items, made, orgKey, known>>
    BY <1>1 DEF TypeInv, TypeOK, orgVars
  <1>3. req'[d] = Idle /\ \A e \in Device \ {d} : req'[e] = req[e]
    BY <1>1, IdleType, RequestType DEF TypeInv
  <1>4. BoundInv'
    BY <1>1, <1>2, <1>3, IdleType DEF KeyInv, BoundInv, TypeInv, TypeOK
  <1>5. FreshInv'
    BY <1>1, <1>2, <1>3, IdleType DEF KeyInv, FreshInv, Unshared
  <1>6. (ItemInv /\ ReaderInv /\ OwnerInv)'
    BY <1>2 DEF KeyInv, ItemInv, ReaderInv, OwnerInv
  <1>7. QED
    BY <1>4, <1>5, <1>6 DEF KeyInv

\* What an applied invite does: one user who had no row gets one.
LEMMA InviteMemberDoes ==
  ASSUME TypeInv, NEW d \in Device, InviteMember(d)
  PROVE  /\ req'[d] = Idle /\ \A e \in Device \ {d} : req'[e] = req[e]
         /\ UNCHANGED <<epoch, items, view, made, orgKey>>
         /\ req[d].pc = "invite" /\ req[d].to \in User
         /\ \/ UNCHANGED <<members, known>>
            \/ /\ members[req[d].to] = None
               /\ members'[req[d].to] \in Row /\ members'[req[d].to] # None
               /\ members'[req[d].to].key = req[d].key
               /\ members'[req[d].to].role # "owner"
               /\ members'[req[d].to].role = req[d].role
               /\ req[d].epoch = epoch /\ members'[req[d].to].epoch = epoch
               /\ members'[req[d].to].by = UserOf[d]
               /\ members'[req[d].to].sig =
                     [epoch |-> epoch, by |-> UserOf[d], role |-> req[d].role]
               /\ ~members'[req[d].to].active
               /\ \A u \in User \ {req[d].to} : members'[u] = members[u]
               /\ known' = [known EXCEPT ![req[d].to] = @ \cup {req[d].key}]
  <1> DEFINE to == req[d].to
             r == [role |-> req[d].role, active |-> FALSE, key |-> req[d].key,
                   epoch |-> req[d].epoch, by |-> UserOf[d],
                   sig |-> [epoch |-> req[d].epoch, by |-> UserOf[d],
                            role |-> req[d].role]]
  <1>1. req'[d] = Idle /\ \A e \in Device \ {d} : req'[e] = req[e]
    BY IdleType, RequestType DEF InviteMember, TypeInv
  <1>2. req[d].pc = "invite" /\ to \in User /\ req[d].role \in {"admin", "member"}
    BY DEF InviteMember, TypeInv, InviteShape
  <1>3. /\ r \in Row /\ r.key = req[d].key /\ r.role = req[d].role /\ ~r.active
        /\ r.epoch = req[d].epoch /\ r.by = UserOf[d]
        /\ r.sig = [epoch |-> req[d].epoch, by |-> UserOf[d], role |-> req[d].role]
    <2>1. req[d].role \in Roles
      BY <1>2 DEF Roles
    <2>2. QED
      BY <1>2, <2>1, InvitedRow DEF TypeInv
  <1>4. \/ UNCHANGED <<members, known>>
        \/ /\ members[to] = None /\ req[d].epoch = epoch
           /\ members' = [members EXCEPT ![to] = r]
           /\ known' = [known EXCEPT ![to] = @ \cup {req[d].key}]
    BY DEF InviteMember, InviteAtEpoch
  <1>5. UNCHANGED <<epoch, items, view, made, orgKey>>
    BY DEF InviteMember, devVars
  <1>6. members \in [User -> Row \cup {None}]
    BY DEF TypeInv, TypeOK
  <1> HIDE DEF r, to
  <1>7. members' = [members EXCEPT ![to] = r] =>
           members'[to] = r /\ \A u \in User \ {to} : members'[u] = members[u]
    BY <1>2, <1>6
  <1>8. \/ UNCHANGED <<members, known>>
        \/ /\ members[to] = None
           /\ members'[to] \in Row /\ members'[to] # None
           /\ members'[to].key = req[d].key /\ members'[to].role # "owner"
           /\ members'[to].role = req[d].role
           /\ req[d].epoch = epoch /\ members'[to].epoch = epoch
           /\ members'[to].by = UserOf[d]
           /\ members'[to].sig = [epoch |-> epoch, by |-> UserOf[d], role |-> req[d].role]
           /\ ~members'[to].active
           /\ \A u \in User \ {to} : members'[u] = members[u]
           /\ known' = [known EXCEPT ![to] = @ \cup {req[d].key}]
    BY <1>2, <1>3, <1>4, <1>7, NoneIsNoRow
  <1>9. QED
    BY <1>1, <1>2, <1>5, <1>8 DEF to

LEMMA KeyInviteMember ==
  ASSUME TypeInv, KeyInv, NEW d \in Device, InviteMember(d)
  PROVE  KeyInv'
  <1> DEFINE to == req[d].to
  <1>1. /\ req'[d] = Idle /\ \A e \in Device \ {d} : req'[e] = req[e]
        /\ UNCHANGED <<epoch, items, view, made, orgKey>>
        /\ req[d].pc = "invite" /\ to \in User
    BY InviteMemberDoes
  <1>2. CASE UNCHANGED <<members, known>>
    <2>1. BoundInv' /\ FreshInv'
      BY <1>1, <1>2, IdleType DEF KeyInv, BoundInv, FreshInv, Unshared, TypeInv, TypeOK
    <2>2. (ItemInv /\ ReaderInv /\ OwnerInv)'
      BY <1>1, <1>2 DEF KeyInv, ItemInv, ReaderInv, OwnerInv
    <2>3. QED
      BY <2>1, <2>2 DEF KeyInv
  <1>3. CASE /\ members[to] = None
             /\ members'[to] # None /\ members'[to].key = req[d].key
             /\ members'[to].role # "owner"
             /\ \A u \in User \ {to} : members'[u] = members[u]
             /\ known' = [known EXCEPT ![to] = @ \cup {req[d].key}]
    <2>1. \A u \in User : known'[u] = IF u = to THEN known[u] \cup {req[d].key} ELSE known[u]
      BY <1>1, <1>3 DEF TypeInv, TypeOK
    <2> HIDE DEF to
    <2>2. BoundInv'
      BY <1>1, <1>3, <2>1, IdleType DEF KeyInv, BoundInv, TypeInv, TypeOK
    <2>3. FreshInv'
      BY <1>1, <1>3, <2>1, IdleType DEF KeyInv, FreshInv, Unshared
    <2>4. ItemInv'
      BY <1>1 DEF KeyInv, ItemInv
    <2>5. ReaderInv'
      BY <1>1, <1>3, <2>1 DEF KeyInv, ReaderInv
    <2>6. OwnerInv'
      BY <1>1, <1>3, OrgAssumption DEF KeyInv, OwnerInv
    <2>7. QED
      BY <2>2, <2>3, <2>4, <2>5, <2>6 DEF KeyInv
  <1>4. QED
    BY <1>2, <1>3, InviteMemberDoes

LEMMA KeyAcceptInvite ==
  ASSUME TypeInv, KeyInv, NEW d \in Device, AcceptInvite(d)
  PROVE  KeyInv'
  <1> DEFINE me == UserOf[d]
  <1>1. /\ me \in User /\ members[me] # None /\ members'[me] # None
        /\ members'[me].role = members[me].role /\ members'[me].key = members[me].key
        /\ \A u \in User \ {me} : members'[u] = members[u]
    BY AcceptedRow, NoneIsNoRow
  <1>2. UNCHANGED <<items, view, req, made, orgKey, known>>
    BY DEF AcceptInvite
  <1> HIDE DEF me
  <1>3. BoundInv' /\ FreshInv'
    BY <1>1, <1>2 DEF KeyInv, BoundInv, FreshInv, Unshared
  <1>4. (ItemInv /\ ReaderInv /\ OwnerInv)'
    BY <1>1, <1>2, OrgAssumption DEF KeyInv, ItemInv, ReaderInv, OwnerInv
  <1>5. QED
    BY <1>3, <1>4 DEF KeyInv

\* What a stored set of wraps does to rows and keys.
LEMMA KeyRewrapMembers ==
  ASSUME TypeInv, KeyInv, NEW d \in Device, RewrapMembers(d)
  PROVE  KeyInv'
  <1> DEFINE q == req[d]
  <1>1. /\ req'[d] = Idle /\ \A e \in Device \ {d} : req'[e] = req[e]
        /\ UNCHANGED <<items, view, made, orgKey>> /\ q.pc = "current"
    BY IdleType, RequestType DEF RewrapMembers, TypeInv, devVars
  <1>2. q \in Req /\ UserOf[d] \in User /\ q.key \in Nat
    BY OrgAssumption DEF TypeInv, TypeOK, Req
  <1>3. \A u \in User :
           /\ members'[u] # None <=> members[u] # None
           /\ members[u] # None => /\ members'[u].role = members[u].role
                                   /\ members'[u].key \in {members[u].key, q.key}
           /\ known'[u] \subseteq known[u] \cup {q.key}
           /\ members[u] = None => known'[u] = known[u]
    <2>1. CASE members' = Rewrapped(q, UserOf[d]) /\ known' = Learned(q)
      <3> SUFFICES ASSUME NEW u \in User
                   PROVE  /\ members'[u] # None <=> members[u] # None
                          /\ members[u] # None =>
                                /\ members'[u].role = members[u].role
                                /\ members'[u].key \in {members[u].key, q.key}
                          /\ known'[u] \subseteq known[u] \cup {q.key}
                          /\ members[u] = None => known'[u] = known[u]
        OBVIOUS
      <3> HIDE DEF q
      <3>1. /\ members[u] = None => members'[u] = None
            /\ members[u] # None => /\ members'[u] \in Row
                                    /\ members'[u].role = members[u].role
                                    /\ members'[u].key \in {members[u].key, q.key}
        BY <1>2, <2>1, RewrappedType DEF TypeInv
      <3>2. known'[u] = IF q.mem[u] = None \/ members[u] = None THEN known[u]
                        ELSE known[u] \cup {q.key}
        BY <1>2, <2>1, LearnedType DEF TypeInv
      <3>3. QED
        BY <3>1, <3>2, NoneIsNoRow
    <2>2. CASE UNCHANGED <<members, known>>
      BY <2>2
    <2>3. QED
      BY <2>1, <2>2 DEF RewrapMembers
  <1> HIDE DEF q
  <1>4. q = req[d]
    BY DEF q
  <1>5. BoundInv'
    <2>1. q.key <= made
      BY <1>4 DEF KeyInv, BoundInv
    <2>2. \A u \in User : \A k \in known'[u] : k <= made
      BY <1>3, <2>1 DEF KeyInv, BoundInv
    <2>3. \A u \in User : members'[u] # None => members'[u].key <= made
      BY <1>3, <2>1 DEF KeyInv, BoundInv
    <2>4. \A e \in Device : view'[e].key <= made /\ req'[e].key <= made
      BY <1>1, IdleType DEF KeyInv, BoundInv, TypeInv, TypeOK
    <2>5. QED
      BY <1>1, <2>2, <2>3, <2>4 DEF BoundInv
  <1>6. FreshInv'
    BY <1>1, <1>3, <1>4, IdleType DEF KeyInv, FreshInv, Unshared
  <1>7. (ItemInv /\ ReaderInv /\ OwnerInv)'
    BY <1>1, <1>3, OrgAssumption DEF KeyInv, ItemInv, ReaderInv, OwnerInv
  <1>8. QED
    BY <1>5, <1>6, <1>7 DEF KeyInv

\* A key that is generated is larger than any before it.
LEMMA KeyPrepareRotation ==
  ASSUME TypeInv, KeyInv, NEW d \in Device, NEW remove \in User \cup {None},
         PrepareRotation(d, remove)
  PROVE  KeyInv'
  <1> DEFINE q == Plan(d, remove)
  <1>1. q \in Req /\ q.key = made + 1
    BY PlanReq DEF TypeInv
  <1>2. Becomes(d, q) /\ made' = made + 1 /\ UNCHANGED <<members, items, view, orgKey, known>>
    BY DEF PrepareRotation, orgVars, devVars
  <1> HIDE DEF q
  <1>3. req'[d] = q /\ \A e \in Device \ {d} : req'[e] = req[e]
    BY <1>1, <1>2, RequestType DEF TypeInv
  <1>4. /\ made \in Nat /\ \A e \in Device : view[e].key \in Nat /\ req[e].key \in Nat
        /\ \A u \in User : known[u] \subseteq Nat
        /\ \A u \in User : members[u] # None => members[u].key \in Nat
    BY DEF TypeInv, TypeOK, View, Req, Row
  <1>5. BoundInv'
    BY <1>1, <1>2, <1>3, <1>4 DEF KeyInv, BoundInv
  <1>6. Unshared(d, req[d].key)'
    <2>1. PICK k \in Nat : k = made + 1
      BY <1>4
    <2>2. k # 0 /\ \A j \in Nat : j <= made => j # k
      BY <1>4, <2>1
    <2>3. \A u \in User : k \notin known[u]
      BY <1>4, <2>2 DEF KeyInv, BoundInv
    <2>4. \A u \in User : members[u] # None => members[u].key # k
      BY <1>4, <2>2 DEF KeyInv, BoundInv
    <2>5. \A e \in Device : view[e].key # k /\ req[e].key # k
      BY <1>4, <2>2 DEF KeyInv, BoundInv
    <2>6. Unshared(d, k)'
      BY <1>2, <1>3, <2>2, <2>3, <2>4, <2>5 DEF Unshared
    <2>7. req'[d].key = k
      BY <1>1, <1>3, <2>1
    <2>8. QED
      BY <2>6, <2>7 DEF Unshared
  <1>7. \A e \in Device \ {d} : req[e].pc = "plan" => Unshared(e, req[e].key)'
    <2>1. \A e \in Device : req[e].key # q.key
      BY <1>1, <1>4 DEF KeyInv, BoundInv
    <2>2. QED
      BY <1>2, <1>3, <2>1 DEF KeyInv, FreshInv, Unshared
  <1>8. FreshInv'
    <2>1. ASSUME NEW e \in Device, req'[e].pc = "plan"
          PROVE  Unshared(e, req[e].key)'
      <3>1. CASE e = d
        BY <1>3, <1>6, <3>1 DEF Unshared
      <3>2. CASE e # d
        BY <1>3, <1>7, <2>1, <3>2 DEF Unshared
      <3>3. QED
        BY <3>1, <3>2
    <2>2. QED
      BY <2>1 DEF FreshInv
  <1>9. (ItemInv /\ ReaderInv /\ OwnerInv)'
    BY <1>2 DEF KeyInv, ItemInv, ReaderInv, OwnerInv
  <1>10. QED
    BY <1>5, <1>8, <1>9 DEF KeyInv

\* What a rotation that is agreed to does: everybody but the one removed gets
\* the new key, and every item is under it or gone.
LEMMA Rotates ==
  ASSUME TypeInv, NEW d \in Device, RotateKey(d), Accepts(req[d], UserOf[d])
  PROVE  /\ epoch' = epoch + 1 /\ orgKey' = req[d].key /\ req[d].epoch = epoch + 1
         /\ \A u \in User :
              /\ members'[u] # None <=> members[u] # None /\ u # req[d].to
              /\ members'[u] # None => /\ members'[u].role = members[u].role
                                       /\ members'[u].active = members[u].active
                                       /\ members'[u].key = req[d].key
                                       /\ members'[u].epoch = epoch + 1
              /\ known'[u] = IF members[u] # None /\ u # req[d].to
                             THEN known[u] \cup {req[d].key} ELSE known[u]
         /\ \A i \in Item : items'[i] = IF i \in req[d].put THEN req[d].key ELSE 0
         /\ \A i \in Item : items[i] # 0 <=> i \in req[d].put \cup req[d].drop
  <1> DEFINE q == req[d]
             me == UserOf[d]
  <1>1. q \in Req /\ me \in User
    BY OrgAssumption DEF TypeInv, TypeOK
  <1>2. /\ members' = [u \in User |-> IF u = q.to THEN None ELSE Rewrapped(q, me)[u]]
        /\ items' = [i \in Item |-> IF i \in q.put THEN q.key
                                    ELSE IF i \in q.drop THEN 0 ELSE items[i]]
        /\ epoch' = q.epoch /\ orgKey' = q.key /\ known' = Learned(q)
    BY DEF RotateKey
  <1>3. q.epoch = epoch + 1 /\ CoversMembers(q) /\ CoversItems(q)
    BY DEF Accepts, RotatesCurrent
  <1> HIDE DEF q, me
  <1>4. \A u \in User : q.mem[u] # None <=> members[u] # None /\ u # q.to
    BY <1>3 DEF CoversMembers, Present
  <1>5. \A i \in Item : items[i] # 0 <=> i \in q.put \cup q.drop
    BY <1>3 DEF CoversItems, Existing
  <1>6. \A i \in Item : items'[i] = IF i \in q.put THEN q.key ELSE 0
    BY <1>2, <1>5
  <1>7. ASSUME NEW u \in User
        PROVE  /\ members'[u] # None <=> members[u] # None /\ u # q.to
               /\ members'[u] # None => /\ members'[u].role = members[u].role
                                        /\ members'[u].active = members[u].active
                                        /\ members'[u].key = q.key
                                        /\ members'[u].epoch = q.epoch
    <2>1. CASE u = q.to
      BY <1>2, <2>1
    <2>2. CASE u # q.to
      <3>1. members'[u] = Rewrapped(q, me)[u]
        BY <1>2, <2>2
      <3>2. /\ members[u] = None => Rewrapped(q, me)[u] = None
            /\ members[u] # None =>
                  /\ Rewrapped(q, me)[u] \in Row
                  /\ Rewrapped(q, me)[u].role = members[u].role
                  /\ Rewrapped(q, me)[u].active = members[u].active
                  /\ Rewrapped(q, me)[u].key = q.key
                  /\ Rewrapped(q, me)[u].epoch = q.epoch
        BY <1>1, <1>4, <2>2, RewrappedType DEF TypeInv
      <3>3. QED
        BY <2>2, <3>1, <3>2, NoneIsNoRow
    <2>3. QED
      BY <2>1, <2>2
  <1>8. \A u \in User : known'[u] = IF members[u] # None /\ u # q.to
                                    THEN known[u] \cup {q.key} ELSE known[u]
    BY <1>1, <1>2, <1>4, LearnedType DEF TypeInv
  <1>9. QED
    BY <1>2, <1>3, <1>5, <1>6, <1>7, <1>8 DEF q

LEMMA KeyRotateKey ==
  ASSUME TypeInv, KeyInv, NEW d \in Device, RotateKey(d)
  PROVE  KeyInv'
  <1> DEFINE q == req[d]
  <1>1. /\ req'[d] = Idle /\ \A e \in Device \ {d} : req'[e] = req[e]
        /\ UNCHANGED <<view, made>> /\ q.pc = "plan"
    BY IdleType, RequestType DEF RotateKey, TypeInv, devVars
  <1>2. CASE ~Accepts(q, UserOf[d])
    <2>1. UNCHANGED <<members, items, orgKey, known>>
      BY <1>2 DEF RotateKey, orgVars
    <2>2. BoundInv' /\ FreshInv'
      BY <1>1, <2>1, IdleType, SMTT(30) DEF KeyInv, BoundInv, FreshInv, Unshared, TypeInv, TypeOK
    <2>3. (ItemInv /\ ReaderInv /\ OwnerInv)'
      BY <2>1 DEF KeyInv, ItemInv, ReaderInv, OwnerInv
    <2>4. QED
      BY <2>2, <2>3 DEF KeyInv
  <1>3. CASE Accepts(q, UserOf[d])
    <2>1. /\ orgKey' = q.key
          /\ \A u \in User :
               /\ members'[u] # None <=> members[u] # None /\ u # q.to
               /\ members'[u] # None => /\ members'[u].role = members[u].role
                                        /\ members'[u].key = q.key
               /\ known'[u] = IF members[u] # None /\ u # q.to
                              THEN known[u] \cup {q.key} ELSE known[u]
          /\ \A i \in Item : items'[i] = IF i \in q.put THEN q.key ELSE 0
      BY <1>3, Rotates, SMTT(30)
    <2>2. q.to # Owner
      BY <1>3, OrgAssumption DEF Accepts, Removable, KeyInv, OwnerInv
    <2> HIDE DEF q
    <2>3. \A u \in User : known'[u] \subseteq known[u] \cup {q.key}
      BY <2>1
    <2>4. \A u \in User : members'[u] # None =>
             members[u] # None /\ members'[u].role = members[u].role
      BY <2>1
    <2>5. members[Owner] # None => members'[Owner] # None
      BY <2>1, <2>2, OrgAssumption
    <2> USE DEF q
    <2>6. Unshared(d, q.key) /\ q.key <= made
      BY <1>1 DEF KeyInv, FreshInv, BoundInv
    <2>7. BoundInv'
      <3> HIDE DEF q
      <3>1. ASSUME NEW u \in User, NEW k \in known'[u]
            PROVE  k <= made
        <4>1. k \in known[u] \/ k = q.key
          BY <2>3, <3>1
        <4>2. QED
          BY <2>6, <4>1 DEF KeyInv, BoundInv
      <3>2. \A u \in User : members'[u] # None => members'[u].key <= made
        BY <2>1, <2>6
      <3>3. \A e \in Device : view'[e].key <= made /\ req'[e].key <= made
        BY <1>1, IdleType DEF KeyInv, BoundInv, TypeInv, TypeOK
      <3>4. QED
        BY <1>1, <3>1, <3>2, <3>3 DEF BoundInv
    <2>8. FreshInv'
      <3>1. \A e \in Device \ {d} : req[e].key # q.key
        BY <2>6 DEF Unshared
      <3> HIDE DEF q
      <3>2. ASSUME NEW e \in Device, req'[e].pc = "plan"
            PROVE  Unshared(e, req[e].key)'
        <4>1. e # d /\ req'[e] = req[e]
          BY <1>1, <3>2, IdleType
        <4>2. Unshared(e, req[e].key) /\ req[e].key # q.key
          BY <3>1, <3>2, <4>1 DEF KeyInv, FreshInv
        <4>3. \A u \in User : req[e].key \notin known'[u]
          BY <2>3, <4>2 DEF Unshared
        <4>4. \A u \in User : members'[u] # None => members'[u].key # req[e].key
          BY <2>1, <4>2
        <4>5. \A f \in Device \ {e} : req'[f].key # req[e].key
          BY <1>1, <4>2, IdleType DEF Unshared
        <4>6. QED
          BY <1>1, <4>1, <4>2, <4>3, <4>4, <4>5 DEF Unshared
      <3>3. QED
        BY <3>2 DEF FreshInv
    <2>9. ItemInv'
      BY <2>1 DEF ItemInv
    <2>10. ReaderInv'
      <3> HIDE DEF q
      <3>1. \A u \in User : q.key \notin known[u]
        BY <2>6 DEF Unshared
      <3>2. QED
        BY <2>1, <3>1 DEF ReaderInv
    <2>11. OwnerInv'
      BY <2>4, <2>5, OrgAssumption DEF KeyInv, OwnerInv
    <2>12. QED
      BY <2>7, <2>8, <2>9, <2>10, <2>11 DEF KeyInv
  <1>4. QED
    BY <1>2, <1>3

LEMMA KeyFrame ==
  ASSUME KeyInv, UNCHANGED <<members, items, view, req, made, orgKey, known>>
  PROVE  KeyInv'
  BY DEF KeyInv, BoundInv, FreshInv, Unshared, ItemInv, ReaderInv, OwnerInv

LEMMA KeyStep ==
  ASSUME TypeInv, KeyInv, [Next]_vars
  PROVE  KeyInv'
  <1>1. CASE UNCHANGED vars
    BY <1>1, KeyFrame DEF vars
  <1>2. ASSUME NEW d \in Device, LoadInvite(d, TRUE)
        PROVE  KeyInv'
    BY <1>2, KeyFrame DEF LoadInvite, orgVars
  <1>3. ASSUME NEW d \in Device, Step(d)
        PROVE  KeyInv'
    BY <1>2, <1>3, KeyGetMember, KeySame, KeyOpenOrg, KeyInviteMember, KeyAcceptInvite,
       KeyRewrapMembers, KeyPrepareRotation, KeyRotateKey DEF Step
  <1>4. QED
    BY <1>1, <1>3 DEF Next

LEMMA InitKey == Init => KeyInv
  <1> SUFFICES ASSUME Init PROVE KeyInv
    OBVIOUS
  <1>1. made = 1 /\ orgKey = 1 /\ items \in [Item -> {1}]
    BY DEF Init
  <1>2. \A u \in User : known[u] = IF members[u] = None THEN {} ELSE {1}
    BY DEF Init
  <1>3. \A d \in Device : /\ view[d].key = 0 /\ req[d].key = 0 /\ req[d].pc = "idle"
    BY IdleType, ClosedType DEF Init
  <1>4. BoundInv
    <2>1. \A u \in User : members[u] # None => members[u].key = 1
      BY FirstMembers
    <2>2. QED
      BY <1>1, <1>2, <1>3, <2>1 DEF BoundInv
  <1>5. FreshInv /\ ItemInv /\ ReaderInv
    BY <1>1, <1>2, <1>3 DEF FreshInv, ItemInv, ReaderInv
  <1>6. OwnerInv
    BY FirstMembers DEF OwnerInv
  <1>7. QED
    BY <1>4, <1>5, <1>6 DEF KeyInv

LEMMA KeysHold == Spec => [](TypeInv /\ KeyInv)
  <1>1. Init => TypeInv /\ KeyInv
    BY InitType, InitKey
  <1>2. TypeInv /\ KeyInv /\ [Next]_vars => (TypeInv /\ KeyInv)'
    BY TypeStep, KeyStep
  <1>3. QED
    BY <1>1, <1>2, PTL DEF Spec

\* A removal is final: for any number of users, devices, invites, re-signs and
\* rotations that cross each other, nobody without a row was ever given a key
\* that an item is under.
THEOREM RemovedStayOut == Spec => []RemovedCannotRead
  <1>1. KeyInv => RemovedCannotRead
    BY DEF KeyInv, ItemInv, ReaderInv, RemovedCannotRead
  <1>2. QED
    BY <1>1, KeysHold, PTL

-----------------------------------------------------------------------------
(* Items.  Without re-signing, the owner's row always holds the current    *)
(* key, so a rotation built on the current epoch can read every item.      *)

\* A view of the owner's that verified at the current epoch holds its key.
ViewInv ==
    \A d \in Device : UserOf[d] = Owner /\ view[d].status = "ok" =>
        /\ view[d].epoch <= epoch
        /\ view[d].epoch = epoch => view[d].wrapKey = orgKey

\* A rotation that can still be applied re-encrypts every item.
PlanInv ==
    \A d \in Device : req[d].pc = "plan" =>
        /\ req[d].epoch <= epoch + 1
        /\ req[d].epoch = epoch + 1 => Existing \subseteq req[d].put

SurviveInv ==
    /\ members[Owner].key = orgKey /\ members[Owner].epoch <= epoch
    /\ ViewInv /\ PlanInv
    /\ \A d \in Device : req[d].pc \notin {"owner", "current"}

\* A request other than a rotation is replaced, and nothing else changes.
LEMMA SurviveRequest ==
  ASSUME TypeInv, SurviveInv, NEW d \in Device, NEW q \in Req, Becomes(d, q),
         q.pc \notin {"plan", "owner", "current"},
         UNCHANGED <<orgVars, view, orgKey>>
  PROVE  SurviveInv'
  <1>1. /\ req'[d] = q /\ \A e \in Device \ {d} : req'[e] = req[e]
        /\ UNCHANGED <<epoch, members, items, view, orgKey>>
    BY RequestType DEF TypeInv, orgVars
  <1>2. QED
    BY <1>1 DEF SurviveInv, ViewInv, PlanInv, Existing

LEMMA SurviveOpenOrg ==
  ASSUME TypeInv, SurviveInv, NEW d \in Device, NEW confirmed \in BOOLEAN,
         OpenOrg(d, confirmed)
  PROVE  SurviveInv'
  <1>1. PICK v \in View :
           /\ v.status = "ok" => /\ v.epoch = members[UserOf[d]].epoch
                                 /\ v.wrapKey = members[UserOf[d]].key
           /\ view' = [view EXCEPT ![d] = v]
           /\ Becomes(d, Idle)
           /\ UNCHANGED <<orgVars, invite, made, orgKey, known>>
    BY OpenOrgDoes
  <1>2. /\ view'[d] = v /\ \A e \in Device \ {d} : view'[e] = view[e]
        /\ UNCHANGED <<epoch, members, items, orgKey>>
    BY <1>1 DEF TypeInv, TypeOK, orgVars
  <1>3. req'[d] = Idle /\ \A e \in Device \ {d} : req'[e] = req[e]
    BY <1>1, IdleType, RequestType DEF TypeInv
  <1>4. ViewInv'
    BY <1>1, <1>2 DEF SurviveInv, ViewInv
  <1>5. PlanInv' /\ \A e \in Device : req'[e].pc \notin {"owner", "current"}
    BY <1>2, <1>3, IdleType DEF SurviveInv, PlanInv, Existing
  <1>6. QED
    BY <1>2, <1>4, <1>5 DEF SurviveInv

LEMMA SurviveInviteMember ==
  ASSUME TypeInv, KeyInv, SurviveInv, NEW d \in Device, InviteMember(d)
  PROVE  SurviveInv'
  <1>1. /\ req'[d] = Idle /\ \A e \in Device \ {d} : req'[e] = req[e]
        /\ UNCHANGED <<epoch, items, view, orgKey>>
    BY InviteMemberDoes
  <1>2. members'[Owner] = members[Owner]
    BY InviteMemberDoes, OrgAssumption DEF KeyInv, OwnerInv
  <1>3. QED
    BY <1>1, <1>2, IdleType DEF SurviveInv, ViewInv, PlanInv, Existing

LEMMA SurviveAcceptInvite ==
  ASSUME TypeInv, SurviveInv, NEW d \in Device, AcceptInvite(d)
  PROVE  SurviveInv'
  <1>1. members'[Owner].key = members[Owner].key /\ members'[Owner].epoch = members[Owner].epoch
    BY AcceptedRow, OrgAssumption
  <1>2. UNCHANGED <<epoch, items, view, req, orgKey>>
    BY DEF AcceptInvite
  <1>3. QED
    BY <1>1, <1>2 DEF SurviveInv, ViewInv, PlanInv, Existing

LEMMA SurvivePrepareRotation ==
  ASSUME TypeInv, KeyInv, SurviveInv, NEW d \in Device, NEW remove \in User \cup {None},
         PrepareRotation(d, remove)
  PROVE  SurviveInv'
  <1>1. UserOf[d] = Owner /\ view[d].status = "ok"
    BY OrgAssumption DEF PrepareRotation, IsOwner, KeyInv, OwnerInv
  <1>2. PICK q \in Req : /\ Becomes(d, q) /\ q.pc = "plan" /\ q.epoch = view[d].epoch + 1
                         /\ q.put = {i \in Existing : items[i] = view[d].wrapKey}
    BY PlanReq DEF PrepareRotation, TypeInv
  <1>3. UNCHANGED <<epoch, members, items, view, orgKey>>
    BY DEF PrepareRotation, orgVars, devVars
  <1>4. req'[d] = q /\ \A e \in Device \ {d} : req'[e] = req[e]
    BY <1>2, RequestType DEF TypeInv
  <1>5. view[d].epoch \in Nat /\ epoch \in Nat
    BY DEF TypeInv, TypeOK, View
  <1>6. view[d].epoch <= epoch /\ (view[d].epoch = epoch => view[d].wrapKey = orgKey)
    BY <1>1 DEF SurviveInv, ViewInv
  <1>7. q.epoch <= epoch + 1 /\ (q.epoch = epoch + 1 => view[d].epoch = epoch)
    BY <1>2, <1>5, <1>6
  <1>8. \A i \in Existing : items[i] = orgKey
    BY DEF KeyInv, ItemInv, Existing
  <1>9. q.epoch = epoch + 1 => Existing \subseteq q.put
    BY <1>2, <1>6, <1>7, <1>8
  <1>10. PlanInv'
    BY <1>3, <1>4, <1>7, <1>9 DEF SurviveInv, PlanInv, Existing
  <1>11. QED
    BY <1>2, <1>3, <1>4, <1>10 DEF SurviveInv, ViewInv

LEMMA SurviveRotateKey ==
  ASSUME TypeInv, KeyInv, SurviveInv, NEW d \in Device, RotateKey(d)
  PROVE  SurviveInv'
  <1>1. /\ req'[d] = Idle /\ \A e \in Device \ {d} : req'[e] = req[e]
        /\ UNCHANGED view
    BY IdleType, RequestType DEF RotateKey, TypeInv, devVars
  <1>2. CASE ~Accepts(req[d], UserOf[d])
    BY <1>1, <1>2, IdleType
       DEF RotateKey, orgVars, SurviveInv, ViewInv, PlanInv, Existing
  <1>3. CASE Accepts(req[d], UserOf[d])
    <2>1. req[d].to # Owner
      BY <1>3, OrgAssumption DEF Accepts, Removable, KeyInv, OwnerInv
    <2>2. epoch' = epoch + 1 /\ orgKey' = req[d].key
      BY <1>3, Rotates
    <2>3. members'[Owner].key = orgKey' /\ members'[Owner].epoch = epoch + 1
      <3>1. \A u \in User :
               /\ members'[u] # None <=> members[u] # None /\ u # req[d].to
               /\ members'[u] # None => /\ members'[u].key = req[d].key
                                        /\ members'[u].epoch = epoch + 1
        BY <1>3, Rotates
      <3>2. members[Owner] # None /\ Owner \in User
        BY OrgAssumption DEF KeyInv, OwnerInv
      <3>3. QED
        BY <2>1, <2>2, <3>1, <3>2
    <2>4. epoch \in Nat /\ \A e \in Device : view[e].epoch \in Nat /\ req[e].epoch \in Nat
      BY DEF TypeInv, TypeOK, View, Req
    <2>5. ViewInv'
      BY <1>1, <2>2, <2>4 DEF SurviveInv, ViewInv
    <2>6. PlanInv'
      BY <1>1, <2>2, <2>4, IdleType DEF SurviveInv, PlanInv
    <2>7. \A e \in Device : req'[e].pc \notin {"owner", "current"}
      BY <1>1, IdleType DEF SurviveInv
    <2>8. members'[Owner].epoch <= epoch'
      BY <2>2, <2>3, <2>4
    <2>9. QED
      BY <2>3, <2>5, <2>6, <2>7, <2>8 DEF SurviveInv
  <1>4. QED
    BY <1>2, <1>3

LEMMA SurviveStep ==
  ASSUME TypeInv, KeyInv, SurviveInv, "rewrap" \notin Ops, [Next]_vars
  PROVE  SurviveInv'
  <1>1. CASE UNCHANGED vars
    BY <1>1 DEF vars, SurviveInv, ViewInv, PlanInv, Existing
  <1>2. ASSUME NEW d \in Device, LoadInvite(d, TRUE)
        PROVE  SurviveInv'
    BY <1>2 DEF LoadInvite, orgVars, SurviveInv, ViewInv, PlanInv, Existing
  <1>3. ASSUME NEW d \in Device, GetMember(d)
        PROVE  SurviveInv'
    <2>1. PICK q \in Req : /\ Becomes(d, q) /\ q.pc = "member"
                           /\ UNCHANGED <<orgVars, devVars, orgKey>>
      BY <1>3, GetMemberDoes
    <2>2. QED
      BY <2>1, SurviveRequest DEF devVars
  <1>4. ASSUME NEW d \in Device, ListMembers(d)
        PROVE  SurviveInv'
    <2>1. PICK q \in Req : /\ Becomes(d, q) /\ q.pc = "listed"
                           /\ UNCHANGED <<orgVars, devVars, orgKey>>
      BY <1>4, ListMembersDoes
    <2>2. QED
      BY <2>1, SurviveRequest DEF devVars
  <1>5. ASSUME NEW d \in Device, NEW u \in User, NEW role \in RolesFor[u], Invite(d, u, role)
        PROVE  SurviveInv'
    <2>1. PICK q \in Req : /\ Becomes(d, q) /\ q.pc = "invite"
                           /\ UNCHANGED <<orgVars, devVars, orgKey>>
      BY <1>5, InviteDoes
    <2>2. QED
      BY <2>1, SurviveRequest DEF devVars
  <1>6. ASSUME NEW d \in Device, Abort(d)
        PROVE  SurviveInv'
    <2>1. Becomes(d, Idle) /\ UNCHANGED <<orgVars, devVars, orgKey>>
      BY <1>6 DEF Abort
    <2>2. QED
      BY <2>1, IdleType, SurviveRequest DEF devVars
  <1>7. ASSUME NEW d \in Device,
               \/ \E skipped \in SUBSET User : ResignOrg(d, skipped)
               \/ RewrapEpoch(d) \/ RewrapMembers(d)
        PROVE  FALSE
    BY <1>7 DEF ResignOrg, RewrapEpoch, RewrapMembers, SurviveInv
  <1>8. ASSUME NEW d \in Device, Step(d)
        PROVE  SurviveInv'
    BY <1>2, <1>3, <1>4, <1>5, <1>6, <1>7, <1>8, SurviveOpenOrg, SurviveInviteMember,
       SurviveAcceptInvite, SurvivePrepareRotation, SurviveRotateKey DEF Step
  <1>9. QED
    BY <1>1, <1>8 DEF Next

LEMMA InitSurvive == Init => SurviveInv
  <1> SUFFICES ASSUME Init PROVE SurviveInv
    OBVIOUS
  <1>1. members[Owner].key = 1 /\ members[Owner].epoch <= 1
    BY FirstMembers, OrgAssumption
  <1>2. \A d \in Device : req[d].pc = "idle" /\ view[d].status = "closed"
    BY IdleType, ClosedType DEF Init
  <1>3. QED
    BY <1>1, <1>2 DEF Init, SurviveInv, ViewInv, PlanInv

\* Only an applied rotation touches the items, and it re-encrypts them all.
LEMMA ItemsStep ==
  ASSUME TypeInv, KeyInv, SurviveInv, "rewrap" \notin Ops, [Next]_vars,
         NEW i \in Item, items[i] # 0
  PROVE  items'[i] # 0
  <1>1. ASSUME NEW d \in Device, RotateKey(d), Accepts(req[d], UserOf[d])
        PROVE  items'[i] # 0
    <2>1. req[d].epoch = epoch + 1 /\ items'[i] = IF i \in req[d].put THEN req[d].key ELSE 0
      BY <1>1, Rotates
    <2>2. req[d].pc = "plan"
      BY <1>1 DEF RotateKey
    <2>3. i \in req[d].put
      BY <2>1, <2>2 DEF SurviveInv, PlanInv, Existing
    <2>4. req[d].key # 0
      BY <2>2 DEF KeyInv, FreshInv, Unshared
    <2>5. QED
      BY <2>1, <2>3, <2>4
  <1>2. ASSUME NEW d \in Device, Step(d), ~(RotateKey(d) /\ Accepts(req[d], UserOf[d]))
        PROVE  items' = items
    BY <1>2 DEF Step, GetMember, ListMembers, OpenOrg, Invite, InviteMember, LoadInvite,
                AcceptInvite, ResignOrg, RewrapEpoch, RewrapMembers, PrepareRotation,
                RotateKey, Abort, orgVars
  <1>3. QED
    BY <1>1, <1>2 DEF Next, vars

\* prepareRotation deletes what the retiring key cannot open; as long as nobody
\* re-signs, that is nothing: no rotation, however many the owner's devices
\* prepare side by side, loses an item.
THEOREM RotationKeepsItems ==
  ASSUME "rewrap" \notin Ops
  PROVE  Spec => ItemsSurvive
  <1>1. TypeInv /\ KeyInv /\ SurviveInv /\ [Next]_vars => SurviveInv'
    BY SurviveStep
  <1>2. TypeInv /\ KeyInv /\ SurviveInv /\ [Next]_vars
           => [\A i \in Item : items[i] # 0 => items'[i] # 0]_vars
    BY ItemsStep
  <1>3. QED
    BY <1>1, <1>2, InitSurvive, KeysHold, PTL DEF Spec, ItemsSurvive

-----------------------------------------------------------------------------
(* Chains.  Every row leads, from signer to signer, to the owner's: the    *)
(* walk of wrap_chain is a recursive function, so that it exists, and how  *)
(* far it has come after n steps, is shown by least counterexample.        *)

LEMMA LeastNatural ==
  ASSUME NEW T, T \subseteq Nat, T # {}
  PROVE  \E m \in T : \A n \in T : m <= n
  <1> DEFINE R == OpToRel(<, Nat)
  <1>1. \A x, y \in Nat : x < y => <<x, y>> \in R
    BY Zenon DEF OpToRel
  <1>2. IsWellFoundedOn(R, Nat)
    BY NatLessThanWellFounded, Zenon
  <1> HIDE DEF R
  <1>3. PICK m \in T : \A n \in T : ~(<<n, m>> \in R)
    BY <1>2, WFMin
  <1>4. \A n \in T : n \in Nat /\ m \in Nat /\ ~(n < m)
    BY <1>1, <1>3
  <1>5. QED
    BY <1>4

\* The next one that wrap_chain visits.
Up(w) == IF members[w] = None THEN w ELSE members[w].by

IsWalk(f, u, m) == f = [n \in 0 .. m |-> IF n = 0 THEN u ELSE LET w == f[n - 1] IN Up(w)]

LEMMA WalkExists ==
  ASSUME TypeOK, NEW u \in User, NEW m \in Nat
  PROVE  \E f \in [0 .. m -> User] : IsWalk(f, u, m)
  <1> DEFINE Bad == {k \in Nat : ~ \E f \in [0 .. k -> User] : IsWalk(f, u, k)}
  <1>1. SUFFICES ASSUME Bad # {} PROVE FALSE
    OBVIOUS
  <1>2. PICK k \in Bad : \A n \in Bad : k <= n
    BY <1>1, LeastNatural
  <1>3. k # 0
    <2> DEFINE f == [n \in 0 .. 0 |-> u]
    <2>1. f \in [0 .. 0 -> User] /\ IsWalk(f, u, 0)
      BY DEF IsWalk
    <2> HIDE DEF f
    <2>2. QED
      BY <2>1
  <1>4. k \in Nat /\ k - 1 \in Nat /\ k - 1 \notin Bad
    BY <1>2, <1>3
  <1>5. PICK f \in [0 .. (k - 1) -> User] : IsWalk(f, u, k - 1)
    BY <1>4
  <1>6. \A w \in User : Up(w) \in User
    BY DEF TypeOK, Row, Up
  <1> DEFINE g == [n \in 0 .. k |-> IF n = k THEN Up(f[k - 1]) ELSE f[n]]
  <1>7. g \in [0 .. k -> User]
    BY <1>4, <1>6
  <1>8. \A n \in 0 .. (k - 1) : f[n] = IF n = 0 THEN u ELSE Up(f[n - 1])
    BY <1>5, <1>4 DEF IsWalk
  <1>9. (\A n \in 0 .. (k - 1) : g[n] = f[n]) /\ g[k] = Up(f[k - 1])
    BY <1>4
  <1> HIDE DEF g
  <1>10. \A n \in 0 .. k : g[n] = IF n = 0 THEN u ELSE Up(g[n - 1])
    BY <1>3, <1>4, <1>8, <1>9
  <1>11. IsWalk(g, u, k)
    BY <1>7, <1>10 DEF IsWalk
  <1>12. QED
    BY <1>2, <1>7, <1>11

LEMMA SignersWalk ==
  ASSUME TypeOK, NEW u \in User
  PROVE  \A n \in 0 .. MaxChain :
            Signers(u)[n] = IF n = 0 THEN u ELSE Up(Signers(u)[n - 1])
  <1>1. \E f : IsWalk(f, u, MaxChain)
    BY WalkExists, OrgAssumption
  <1>2. Signers(u) = CHOOSE f : IsWalk(f, u, MaxChain)
    BY Zenon DEF IsWalk, Signers, Up
  <1>3. IsWalk(Signers(u), u, MaxChain)
    BY <1>1, <1>2, Zenon
  <1>4. QED
    BY <1>3 DEF IsWalk

\* A role that a user can have.
Allowed(u, role) == IF u = Owner THEN role = "owner" ELSE role \in RolesFor[u]

\* Nobody is invited back with another role.
OneRole == \A u \in User : \A a, b \in RolesFor[u] : a = b

\* Who can become an admin; a chain has one link for each of them, one for the
\* member it begins with and one for the owner.
Admissible == {u \in User \ {Owner} : "admin" \in RolesFor[u]}

ShortChains == IsFiniteSet(Admissible) /\ Cardinality(Admissible) + 2 <= MaxChain

\* Every row is signed for the current epoch by somebody who may.
RowInv ==
    /\ members[Owner].by = Owner
    /\ \A u \in Present :
          /\ Allowed(u, members[u].role) /\ members[u].epoch = epoch
          /\ members[u].sig = Signed(u)
          /\ members[u].by \in Present /\ members[members[u].by].role \in Admins

AdminsNow == {u \in Present \ {Owner} : members[u].role = "admin"}

\* How far the end of a member's chain can be.
Reach(u) == Cardinality(AdminsNow) + (IF members[u].role = "admin" THEN 0 ELSE 1)

\* A signer is nearer to the owner than the member.
Ranked(r) ==
    /\ r[Owner] = 0
    /\ \A u \in Present \ {Owner} : r[members[u].by] < r[u] /\ r[u] <= Reach(u)

\* What requests and views say of roles is still possible.
ListInv ==
    \A d \in Device, u \in User :
        /\ req[d].mem[u] # None => Allowed(u, req[d].mem[u])
        /\ view[d].mem[u] # None => Allowed(u, view[d].mem[u])

\* An invite that can still be applied was sent by somebody who is an admin.
AskInv ==
    \A d \in Device :
        /\ view[d].epoch <= epoch
        /\ req[d].pc = "invite" =>
              /\ req[d].role \in RolesFor[req[d].to] /\ req[d].epoch <= epoch
              /\ req[d].epoch = epoch => /\ members[UserOf[d]] # None
                                         /\ members[UserOf[d]].role \in Admins

ChainInv == RowInv /\ (\E r \in [User -> Nat] : Ranked(r)) /\ ListInv /\ AskInv

LEMMA AdminsFinite ==
  ASSUME RowInv, ShortChains
  PROVE  /\ IsFiniteSet(AdminsNow) /\ Cardinality(AdminsNow) \in Nat
         /\ Cardinality(AdminsNow) + 2 <= MaxChain
  <1>1. AdminsNow \subseteq Admissible
    BY DEF RowInv, AdminsNow, Admissible, Allowed, Present
  <1>2. /\ IsFiniteSet(AdminsNow) /\ Cardinality(AdminsNow) <= Cardinality(Admissible)
        /\ Cardinality(AdminsNow) \in Nat /\ Cardinality(Admissible) \in Nat
    BY <1>1, FS_Subset, FS_CardinalityType DEF ShortChains
  <1>3. QED
    BY <1>2, OrgAssumption DEF ShortChains

\* After n steps the walk is n nearer to the owner, or there.
LEMMA WalkDescends ==
  ASSUME TypeOK, KeyInv, RowInv, NEW r \in [User -> Nat], Ranked(r), NEW u \in Present
  PROVE  \A n \in 0 .. MaxChain :
            /\ Signers(u)[n] \in Present
            /\ Signers(u)[n] = Owner \/ r[Signers(u)[n]] + n <= r[u]
  <1> DEFINE s == Signers(u)
             Good(n) == s[n] \in Present /\ (s[n] = Owner \/ r[s[n]] + n <= r[u])
             Bad == {n \in 0 .. MaxChain : ~Good(n)}
  <1>1. SUFFICES ASSUME Bad # {} PROVE FALSE
    OBVIOUS
  <1>2. MaxChain \in Nat /\ u \in User /\ Present \subseteq User /\ Owner \in Present
    BY OrgAssumption DEF Present, KeyInv, OwnerInv
  <1>3. \A n \in 0 .. MaxChain : s[n] = IF n = 0 THEN u ELSE Up(s[n - 1])
    BY <1>2, SignersWalk
  <1> HIDE DEF s
  <1>4. PICK k \in Bad : \A n \in Bad : k <= n
    <2>1. Bad \subseteq Nat
      BY <1>2
    <2> HIDE DEF Bad
    <2>2. QED
      BY <1>1, <2>1, LeastNatural
  <1>5. k \in 0 .. MaxChain /\ ~Good(k)
    BY <1>4
  <1>6. k # 0
    BY <1>2, <1>3, <1>5
  <1>7. k - 1 \in 0 .. MaxChain /\ Good(k - 1)
    BY <1>2, <1>4, <1>5, <1>6
  <1> DEFINE w == s[k - 1]
  <1>8. s[k] = Up(w) /\ w \in Present /\ (w = Owner \/ r[w] + (k - 1) <= r[u])
    BY <1>3, <1>5, <1>6, <1>7
  <1> HIDE DEF w
  <1>9. s[k] = members[w].by /\ s[k] \in Present
    BY <1>8 DEF Up, Present, RowInv
  <1>10. CASE w = Owner
    BY <1>5, <1>9, <1>10 DEF RowInv
  <1>11. CASE w # Owner
    <2>1. r[s[k]] < r[w]
      BY <1>8, <1>9, <1>11 DEF Ranked
    <2>2. r[s[k]] \in Nat /\ r[w] \in Nat /\ r[u] \in Nat /\ k \in Nat
      BY <1>2, <1>5, <1>8, <1>9
    <2>3. r[s[k]] + k <= r[u]
      BY <1>8, <1>11, <2>1, <2>2
    <2>4. QED
      BY <1>5, <1>9, <2>3
  <1>12. QED
    BY <1>10, <1>11

LEMMA ChainVerifies ==
  ASSUME TypeOK, KeyInv, RowInv, ShortChains,
         NEW r \in [User -> Nat], Ranked(r), NEW u \in Present
  PROVE  Verifies(u) /\ members[u].epoch = epoch
  <1> DEFINE s == Signers(u)
  <1>1. /\ MaxChain \in Nat \ {0} /\ u \in User /\ Owner \in Present
        /\ Present \subseteq User
    BY OrgAssumption DEF Present, KeyInv, OwnerInv
  <1>2. \A n \in 0 .. MaxChain : s[n] = IF n = 0 THEN u ELSE Up(s[n - 1])
    BY <1>1, SignersWalk
  <1>3. \A n \in 0 .. MaxChain : s[n] \in Present /\ (s[n] = Owner \/ r[s[n]] + n <= r[u])
    BY WalkDescends
  <1>4. ASSUME NEW w \in Present
        PROVE  LinkHolds(u, w)
    <2>1. /\ members[w] # None /\ members[w].sig = Signed(w)
          /\ members[w].epoch = members[u].epoch
          /\ members[w].by \in Present /\ members[members[w].by].role \in Admins
      BY DEF RowInv, Present
    <2>2. members[w].by = w => members[w].role = "owner"
      <3>1. CASE w = Owner
        BY <3>1 DEF KeyInv, OwnerInv
      <3>2. CASE w # Owner
        <4>1. r[members[w].by] < r[w] /\ r[w] \in Nat
          BY <1>1, <3>2 DEF Ranked
        <4>2. QED
          BY <4>1
      <3>3. QED
        BY <3>1, <3>2
    <2>3. QED
      BY <2>1, <2>2 DEF LinkHolds, Present
  <1>5. \A n \in 0 .. MaxChain - 1 : LinkHolds(u, s[n])
    BY <1>1, <1>3, <1>4
  <1>6. s[MaxChain] = s[MaxChain - 1]
    <2> DEFINE w == s[MaxChain - 1]
    <2>1. /\ MaxChain - 1 \in 0 .. MaxChain /\ MaxChain \in 0 .. MaxChain
      BY <1>1
    <2>2. /\ w \in Present /\ (w = Owner \/ r[w] + (MaxChain - 1) <= r[u])
          /\ s[MaxChain] = Up(w)
      BY <1>1, <1>2, <1>3, <2>1
    <2> HIDE DEF w
    <2>3. w = Owner
      <3> SUFFICES ASSUME w # Owner PROVE FALSE
        OBVIOUS
      <3>1. r[members[w].by] < r[w] /\ r[w] \in Nat /\ r[members[w].by] \in Nat
        BY <1>1, <2>2 DEF Ranked, RowInv
      <3>2. r[u] \in Nat /\ (u = Owner => r[u] = 0) /\ (u # Owner => r[u] <= Reach(u))
        BY <1>1 DEF Ranked
      <3>3. Reach(u) <= Cardinality(AdminsNow) + 1 /\ Reach(u) \in Nat
        BY AdminsFinite DEF Reach
      <3>4. Cardinality(AdminsNow) + 2 <= MaxChain /\ Cardinality(AdminsNow) \in Nat
        BY AdminsFinite
      <3> HIDE DEF s
      <3>5. QED
        BY <1>1, <2>2, <3>1, <3>2, <3>3, <3>4
    <2>4. Up(w) = w
      BY <2>3 DEF Up, RowInv
    <2>5. QED
      BY <2>2, <2>4 DEF w
  <1>7. members[u].epoch = epoch
    BY DEF RowInv
  <1>8. QED
    BY <1>5, <1>6, <1>7 DEF Verifies

\* The rows are left alone.
LEMMA TreeSame ==
  ASSUME RowInv, \E r \in [User -> Nat] : Ranked(r), UNCHANGED <<epoch, members>>
  PROVE  RowInv' /\ \E r \in [User -> Nat] : Ranked(r)'
  <1>1. RowInv'
    BY DEF RowInv, Present, Signed
  <1>2. PICK r \in [User -> Nat] : Ranked(r)
    OBVIOUS
  <1>3. Ranked(r)'
    BY <1>2 DEF Ranked, Reach, AdminsNow, Present
  <1>4. QED
    BY <1>1, <1>3

\* An invite that its sender may still make.
MayAsk(d, q) ==
    q.pc = "invite" =>
       /\ q.role \in RolesFor[q.to] /\ q.epoch <= epoch
       /\ q.epoch = epoch => /\ members[UserOf[d]] # None
                             /\ members[UserOf[d]].role \in Admins

\* A step that replaces one device's request and leaves rows and views alone.
LEMMA ChainRequest ==
  ASSUME TypeInv, ChainInv, NEW d \in Device, NEW q \in Req, Becomes(d, q),
         UNCHANGED <<epoch, members, view>>, MayAsk(d, q),
         \A u \in User : q.mem[u] # None => Allowed(u, q.mem[u])
  PROVE  ChainInv'
  <1>1. req'[d] = q /\ \A e \in Device \ {d} : req'[e] = req[e]
    BY RequestType DEF TypeInv
  <1>2. RowInv' /\ \E r \in [User -> Nat] : Ranked(r)'
    BY TreeSame DEF ChainInv
  <1>3. ListInv'
    BY <1>1 DEF ChainInv, ListInv, Allowed
  <1>4. AskInv'
    BY <1>1 DEF ChainInv, AskInv, MayAsk
  <1>5. QED
    BY <1>2, <1>3, <1>4 DEF ChainInv

LEMMA NobodyListed == \A u \in User : Nobody[u] = None
  BY DEF Nobody

LEMMA ChainGetMember ==
  ASSUME TypeInv, ChainInv, NEW d \in Device, GetMember(d)
  PROVE  ChainInv'
  <1>1. PICK q \in Req : /\ Becomes(d, q) /\ q.pc = "member" /\ q.mem = Nobody
                         /\ UNCHANGED <<orgVars, devVars, made, orgKey, known>>
    BY GetMemberDoes
  <1>2. MayAsk(d, q) /\ \A u \in User : q.mem[u] # None => Allowed(u, q.mem[u])
    BY <1>1, NobodyListed DEF MayAsk
  <1>3. QED
    BY <1>1, <1>2, ChainRequest DEF orgVars, devVars

LEMMA ChainListMembers ==
  ASSUME TypeInv, ChainInv, NEW d \in Device, ListMembers(d)
  PROVE  ChainInv'
  <1>1. PICK q \in Req : /\ Becomes(d, q) /\ q.pc = "listed"
                         /\ \A u \in User : q.mem[u] = RoleIn(u)
                         /\ UNCHANGED <<orgVars, devVars, made, orgKey, known>>
    BY ListMembersDoes
  <1>2. MayAsk(d, q) /\ \A u \in User : q.mem[u] # None => Allowed(u, q.mem[u])
    BY <1>1 DEF MayAsk, RoleIn, ChainInv, RowInv, Present
  <1>3. QED
    BY <1>1, <1>2, ChainRequest DEF orgVars, devVars

LEMMA ChainInvite ==
  ASSUME TypeInv, ChainInv, NEW d \in Device, NEW u \in User, NEW role \in RolesFor[u],
         Invite(d, u, role)
  PROVE  ChainInv'
  <1>1. PICK q \in Req : /\ Becomes(d, q) /\ q.to = u /\ q.role = role
                         /\ q.epoch = view[d].epoch /\ q.mem = Nobody
                         /\ UNCHANGED <<orgVars, devVars, made, orgKey, known>>
    BY InviteDoes
  <1>2. members[UserOf[d]] # None /\ members[UserOf[d]].role \in Admins
    BY DEF Invite
  <1>3. MayAsk(d, q)
    BY <1>1, <1>2 DEF MayAsk, ChainInv, AskInv
  <1>4. \A v \in User : q.mem[v] # None => Allowed(v, q.mem[v])
    BY <1>1, NobodyListed
  <1>5. QED
    BY <1>1, <1>3, <1>4, ChainRequest DEF orgVars, devVars

LEMMA ChainIdle ==
  ASSUME TypeInv, ChainInv, NEW d \in Device, Becomes(d, Idle),
         UNCHANGED <<epoch, members, view>>
  PROVE  ChainInv'
  <1>1. PICK q \in Req : q = Idle
    BY IdleType
  <1>2. MayAsk(d, q) /\ \A u \in User : q.mem[u] # None => Allowed(u, q.mem[u])
    BY <1>1, IdleType, NobodyListed DEF MayAsk
  <1>3. QED
    BY <1>1, <1>2, ChainRequest

LEMMA ChainPrepareRotation ==
  ASSUME TypeInv, ChainInv, NEW d \in Device, NEW remove \in User \cup {None},
         PrepareRotation(d, remove)
  PROVE  ChainInv'
  <1>1. PICK q \in Req : /\ Becomes(d, q) /\ q.pc = "plan"
                         /\ \A u \in User : q.mem[u] \in {None, view[d].mem[u]}
    BY PlanReq DEF PrepareRotation, TypeInv
  <1>2. UNCHANGED <<epoch, members, view>>
    BY DEF PrepareRotation, orgVars, devVars
  <1>3. MayAsk(d, q)
    BY <1>1 DEF MayAsk
  <1>4. \A u \in User : q.mem[u] # None => Allowed(u, q.mem[u])
    BY <1>1 DEF ChainInv, ListInv
  <1>5. QED
    BY <1>1, <1>2, <1>3, <1>4, ChainRequest

\* Only a chain that was checked gives a view its epoch, and that is the
\* current one.
LEMMA ChainOpenOrg ==
  ASSUME TypeInv, ChainInv, NEW d \in Device, NEW confirmed \in BOOLEAN,
         OpenOrg(d, confirmed)
  PROVE  ChainInv'
  <1>1. PICK v \in View :
           /\ v.status = "ok" => /\ members[UserOf[d]] # None
                                 /\ v.epoch = members[UserOf[d]].epoch
           /\ v.status # "ok" => v.epoch = 0
           /\ v.mem \in {Nobody, req[d].mem}
           /\ view' = [view EXCEPT ![d] = v]
           /\ Becomes(d, Idle)
           /\ UNCHANGED <<orgVars, invite, made, orgKey, known>>
    BY OpenOrgDoes
  <1>2. /\ view'[d] = v /\ \A e \in Device \ {d} : view'[e] = view[e]
        /\ UNCHANGED <<epoch, members>>
    BY <1>1 DEF TypeInv, TypeOK, orgVars
  <1>3. req'[d] = Idle /\ \A e \in Device \ {d} : req'[e] = req[e]
    BY <1>1, IdleType, RequestType DEF TypeInv
  <1>4. RowInv' /\ \E r \in [User -> Nat] : Ranked(r)'
    BY <1>2, TreeSame DEF ChainInv
  <1>5. v.epoch <= epoch
    <2>1. UserOf[d] \in User /\ epoch \in Nat
      BY OrgAssumption DEF TypeInv, TypeOK
    <2>2. QED
      BY <1>1, <2>1 DEF ChainInv, RowInv, Present
  <1>6. AskInv'
    BY <1>2, <1>3, <1>5, IdleType DEF ChainInv, AskInv
  <1>7. \A u \in User : v.mem[u] # None => Allowed(u, v.mem[u])
    BY <1>1, NobodyListed DEF ChainInv, ListInv
  <1>8. ListInv'
    BY <1>2, <1>3, <1>7, IdleType, NobodyListed DEF ChainInv, ListInv, Allowed
  <1>9. QED
    BY <1>4, <1>6, <1>8 DEF ChainInv

LEMMA ChainAcceptInvite ==
  ASSUME TypeInv, ChainInv, NEW d \in Device, AcceptInvite(d)
  PROVE  ChainInv'
  <1>1. UNCHANGED <<epoch, view, req>>
    BY DEF AcceptInvite
  <1>2. /\ Present' = Present
        /\ \A u \in Present : /\ members'[u].role = members[u].role
                              /\ members'[u].epoch = members[u].epoch
                              /\ members'[u].by = members[u].by
                              /\ members'[u].sig = members[u].sig
    BY AcceptedRow, NoneIsNoRow DEF Present
  <1>3. \A u \in Present : Signed(u)' = Signed(u)
    BY <1>2 DEF Signed
  <1>4. members'[Owner].by = Owner
    <2>1. CASE Owner \in Present
      BY <1>2, <2>1 DEF ChainInv, RowInv
    <2>2. CASE Owner \notin Present
      BY <2>2, AcceptedRow, OrgAssumption DEF Present, ChainInv, RowInv
    <2>3. QED
      BY <2>1, <2>2
  <1>5. RowInv'
    BY <1>1, <1>2, <1>3, <1>4 DEF ChainInv, RowInv, Allowed
  <1>6. PICK r \in [User -> Nat] : Ranked(r)
    BY DEF ChainInv
  <1>7. AdminsNow' = AdminsNow
    BY <1>2 DEF AdminsNow
  <1>8. Ranked(r)'
    BY <1>2, <1>6, <1>7 DEF Ranked, Reach
  <1>9. ListInv'
    BY <1>1 DEF ChainInv, ListInv, Allowed
  <1>10. AskInv'
    <2>1. \A u \in User : members[u] # None => /\ members'[u] # None
                                               /\ members'[u].role = members[u].role
      BY <1>2 DEF Present
    <2>2. \A e \in Device : UserOf[e] \in User
      BY OrgAssumption
    <2>3. QED
      BY <1>1, <2>1, <2>2 DEF ChainInv, AskInv
  <1>11. QED
    BY <1>5, <1>6, <1>8, <1>9, <1>10 DEF ChainInv

\* A new row hangs below the row of whoever made it.
LEMMA ChainNewRow ==
  ASSUME TypeInv, KeyInv, ChainInv, ShortChains, NEW d \in Device, InviteMember(d),
         members' # members
  PROVE  RowInv' /\ \E r \in [User -> Nat] : Ranked(r)'
  <1> DEFINE me == UserOf[d]
  <1>0. PICK to \in User, role \in Roles : to = req[d].to /\ role = req[d].role
    BY DEF InviteMember, TypeInv, InviteShape, Roles
  <1>1. /\ me \in User /\ epoch' = epoch
        /\ req[d].pc = "invite" /\ req[d].epoch = epoch
        /\ members[to] = None /\ members'[to] # None
        /\ members'[to].role = role /\ members'[to].epoch = epoch
        /\ members'[to].by = me
        /\ members'[to].sig = [epoch |-> epoch, by |-> me, role |-> role]
        /\ \A u \in User \ {to} : members'[u] = members[u]
    BY <1>0, InviteMemberDoes, OrgAssumption
  <1>2. role \in RolesFor[to] /\ members[me] # None /\ members[me].role \in Admins
    BY <1>0, <1>1 DEF ChainInv, AskInv
  <1> HIDE DEF me
  <1>3. to # Owner /\ me # to /\ Owner \in User /\ Owner \in Present
    BY <1>1, <1>2, OrgAssumption DEF KeyInv, OwnerInv, Present
  <1>4. /\ Present' = Present \cup {to} /\ to \notin Present /\ me \in Present
        /\ Present \subseteq User
    BY <1>1, <1>2 DEF Present
  <1>5. \A u \in Present : members'[u] = members[u] /\ Signed(u)' = Signed(u)
    BY <1>1, <1>4 DEF Signed
  <1>6. Signed(to)' = members'[to].sig
    BY <1>1 DEF Signed
  <1>7. RowInv'
    <2>1. members'[Owner].by = Owner
      BY <1>3, <1>5 DEF ChainInv, RowInv
    <2>2. ASSUME NEW u \in Present
          PROVE  /\ Allowed(u, members'[u].role) /\ members'[u].epoch = epoch
                 /\ members'[u].sig = Signed(u)'
                 /\ members'[u].by \in Present' /\ members'[members'[u].by].role \in Admins
      BY <1>4, <1>5 DEF ChainInv, RowInv
    <2>3. /\ Allowed(to, members'[to].role) /\ members'[to].epoch = epoch
          /\ members'[to].sig = Signed(to)'
          /\ members'[to].by \in Present' /\ members'[members'[to].by].role \in Admins
      BY <1>1, <1>2, <1>3, <1>4, <1>5, <1>6 DEF Allowed
    <2>4. QED
      BY <1>1, <1>4, <2>1, <2>2, <2>3 DEF RowInv, Allowed
  <1>8. PICK r \in [User -> Nat] : Ranked(r)
    BY DEF ChainInv
  <1> DEFINE k == Cardinality(AdminsNow)
  <1>9. IsFiniteSet(AdminsNow) /\ k \in Nat
    BY AdminsFinite DEF ChainInv
  <1>10. /\ role = "admin" => Cardinality(AdminsNow') = k + 1
         /\ role # "admin" => Cardinality(AdminsNow') = k
    <2>1. role = "admin" => AdminsNow' = AdminsNow \cup {to}
      BY <1>1, <1>3, <1>4, <1>5 DEF AdminsNow
    <2>2. role # "admin" => AdminsNow' = AdminsNow
      BY <1>1, <1>3, <1>4, <1>5 DEF AdminsNow
    <2>3. to \notin AdminsNow
      BY <1>4 DEF AdminsNow
    <2>4. Cardinality(AdminsNow \cup {to}) = k + 1
      BY <1>9, <2>3, FS_AddElement
    <2>5. QED
      BY <2>1, <2>2, <2>4
  <1>11. r[me] <= k
    <2>1. CASE me = Owner
      BY <1>8, <1>9, <2>1 DEF Ranked
    <2>2. CASE me # Owner
      <3>1. members[me].role = "admin"
        BY <1>1, <1>2, <2>2 DEF Admins, KeyInv, OwnerInv
      <3>2. r[me] <= Reach(me)
        BY <1>4, <1>8, <2>2 DEF Ranked
      <3>3. QED
        BY <1>9, <3>1, <3>2 DEF Reach
    <2>3. QED
      BY <2>1, <2>2
  <1>12. PICK f : f = [r EXCEPT ![to] = r[me] + 1]
    OBVIOUS
  <1>13. f \in [User -> Nat] /\ f[to] = r[me] + 1 /\ \A u \in Present : f[u] = r[u]
    BY <1>1, <1>4, <1>12
  <1>14. f[to] <= Reach(to)' /\ f[members'[to].by] < f[to]
    BY <1>1, <1>4, <1>9, <1>10, <1>11, <1>13 DEF Reach
  <1>15. ASSUME NEW u \in Present \ {Owner}
         PROVE  f[members'[u].by] < f[u] /\ f[u] <= Reach(u)'
    <2>1. r[members[u].by] < r[u] /\ r[u] <= Reach(u)
      BY <1>8 DEF Ranked
    <2>2. members[u].by \in Present /\ members'[u] = members[u] /\ r[u] \in Nat
      BY <1>4, <1>5 DEF ChainInv, RowInv
    <2>3. Reach(u) <= Reach(u)' /\ Reach(u) \in Nat /\ Reach(u)' \in Nat
      BY <1>9, <1>10, <2>2 DEF Reach
    <2>4. QED
      BY <1>13, <2>1, <2>2, <2>3
  <1>16. f[Owner] = 0
    BY <1>3, <1>8, <1>13 DEF Ranked
  <1>17. Ranked(f)'
    BY <1>4, <1>14, <1>15, <1>16 DEF Ranked
  <1>18. QED
    BY <1>7, <1>13, <1>17

LEMMA ChainInviteMember ==
  ASSUME TypeInv, KeyInv, ChainInv, ShortChains, NEW d \in Device, InviteMember(d)
  PROVE  ChainInv'
  <1>1. /\ req'[d] = Idle /\ \A e \in Device \ {d} : req'[e] = req[e]
        /\ UNCHANGED <<epoch, view>>
    BY InviteMemberDoes
  <1>2. RowInv' /\ \E r \in [User -> Nat] : Ranked(r)'
    <2>1. CASE members' = members
      BY <1>1, <2>1, TreeSame DEF ChainInv
    <2>2. CASE members' # members
      BY <2>2, ChainNewRow
    <2>3. QED
      BY <2>1, <2>2
  <1>3. ListInv'
    BY <1>1, IdleType, NobodyListed DEF ChainInv, ListInv, Allowed
  <1>4. \A u \in User : members[u] # None => members'[u] = members[u]
    BY InviteMemberDoes
  <1>5. AskInv'
    <2>1. \A e \in Device : UserOf[e] \in User
      BY OrgAssumption
    <2>2. QED
      BY <1>1, <1>4, <2>1, IdleType DEF ChainInv, AskInv
  <1>6. QED
    BY <1>2, <1>3, <1>5 DEF ChainInv

\* What the owner signs in a rotation: the roles of the request.
LEMMA RotatesSigned ==
  ASSUME TypeInv, NEW d \in Device, RotateKey(d), Accepts(req[d], UserOf[d]),
         NEW u \in User, members'[u] # None
  PROVE  /\ members[u] # None /\ req[d].mem[u] # None
         /\ members'[u].by = UserOf[d]
         /\ members'[u].sig = [epoch |-> req[d].epoch, by |-> UserOf[d],
                               role |-> req[d].mem[u]]
  <1> DEFINE q == req[d]
             me == UserOf[d]
  <1>1. q \in Req /\ me \in User
    BY OrgAssumption DEF TypeInv, TypeOK
  <1>2. members' = [v \in User |-> IF v = q.to THEN None ELSE Rewrapped(q, me)[v]]
    BY DEF RotateKey
  <1>3. CoversMembers(q)
    BY DEF Accepts
  <1> HIDE DEF q, me
  <1>4. u # q.to /\ members'[u] = Rewrapped(q, me)[u]
    BY <1>2
  <1>5. members[u] # None /\ members[u] \in Row
    BY <1>1, <1>4, RewrappedType DEF TypeInv, TypeOK
  <1>6. q.mem[u] # None
    BY <1>3, <1>4, <1>5 DEF CoversMembers, Present
  <1>7. members'[u] = Resigned(members[u], me, q.key, q.epoch, q.mem[u])
    BY <1>4, <1>5, <1>6 DEF Rewrapped
  <1>8. /\ members'[u].by = me
        /\ members'[u].sig = [epoch |-> q.epoch, by |-> me, role |-> q.mem[u]]
    BY <1>5, <1>7 DEF Resigned, Row
  <1>9. QED
    BY <1>5, <1>6, <1>8 DEF q, me

\* When the owner has signed every row, the chains have two links.
Flat ==
    /\ Present \subseteq User /\ Owner \in Present /\ IsFiniteSet(AdminsNow)
    /\ \A u \in Present : members[u].by = Owner

LEMMA FlatRanks == Flat => \E r \in [User -> Nat] : Ranked(r)
  <1> SUFFICES ASSUME Flat PROVE \E r \in [User -> Nat] : Ranked(r)
    OBVIOUS
  <1> USE DEF Flat
  <1> DEFINE r == [u \in User |-> IF u = Owner THEN 0 ELSE 1]
  <1>1. /\ r \in [User -> Nat] /\ r[Owner] = 0
        /\ \A u \in Present \ {Owner} : r[u] = 1
    OBVIOUS
  <1> HIDE DEF r
  <1>2. Cardinality(AdminsNow) \in Nat
    BY FS_CardinalityType
  <1>3. ASSUME NEW u \in Present \ {Owner}
        PROVE  1 <= Reach(u)
    <2>1. CASE members[u].role = "admin"
      <3>1. u \in AdminsNow
        BY <2>1 DEF AdminsNow
      <3>2. Cardinality(AdminsNow) # 0
        BY <3>1, FS_EmptySet
      <3>3. QED
        BY <1>2, <2>1, <3>2 DEF Reach
    <2>2. CASE members[u].role # "admin"
      BY <1>2, <2>2 DEF Reach
    <2>3. QED
      BY <2>1, <2>2
  <1>4. Ranked(r)
    BY <1>1, <1>3 DEF Ranked
  <1>5. QED
    BY <1>1, <1>4

\* An applied rotation leaves a tree of one level; a role that the owner signs
\* is the row's, since there is only one the member can have.
LEMMA ChainRotateKey ==
  ASSUME TypeInv, KeyInv, ChainInv, ShortChains, OneRole, NEW d \in Device, RotateKey(d)
  PROVE  ChainInv'
  <1>1. /\ req'[d] = Idle /\ \A e \in Device \ {d} : req'[e] = req[e]
        /\ UNCHANGED view
    BY IdleType, RequestType DEF RotateKey, TypeInv, devVars
  <1>2. CASE ~Accepts(req[d], UserOf[d])
    <2>1. UNCHANGED <<epoch, members, view>> /\ Becomes(d, Idle)
      BY <1>2 DEF RotateKey, orgVars, devVars
    <2>2. QED
      BY <2>1, ChainIdle
  <1>3. CASE Accepts(req[d], UserOf[d])
    <2>1. /\ epoch' = epoch + 1 /\ req[d].epoch = epoch + 1
          /\ \A u \in User :
               /\ members'[u] # None <=> members[u] # None /\ u # req[d].to
               /\ members'[u] # None => /\ members'[u].role = members[u].role
                                        /\ members'[u].epoch = epoch + 1
      BY <1>3, Rotates
    <2>2. UserOf[d] = Owner /\ req[d].to # Owner /\ Owner \in User /\ members[Owner] # None
      BY <1>3, OrgAssumption DEF Accepts, IsOwner, Removable, KeyInv, OwnerInv
    <2>3. members'[Owner] # None /\ members'[Owner].role = "owner"
      BY <2>1, <2>2 DEF KeyInv, OwnerInv
    <2>4. ASSUME NEW u \in User, members'[u] # None
          PROVE  /\ Allowed(u, members'[u].role) /\ members'[u].epoch = epoch'
                 /\ members'[u].by = Owner
                 /\ members'[u].sig = Signed(u)'
      <3>1. /\ members[u] # None /\ req[d].mem[u] # None
            /\ members'[u].by = Owner
            /\ members'[u].sig = [epoch |-> epoch + 1, by |-> Owner, role |-> req[d].mem[u]]
        BY <1>3, <2>1, <2>2, <2>4, RotatesSigned
      <3>2. Allowed(u, members[u].role) /\ Allowed(u, req[d].mem[u])
        BY <3>1 DEF ChainInv, RowInv, ListInv, Present
      <3>3. req[d].mem[u] = members[u].role
        BY <3>2 DEF Allowed, OneRole
      <3>4. members'[u].role = members[u].role /\ members'[u].epoch = epoch + 1
        BY <2>1, <2>4
      <3>5. QED
        BY <2>1, <3>1, <3>2, <3>3, <3>4 DEF Signed
    <2>5. RowInv'
      <3>1. members'[Owner].by = Owner /\ Owner \in Present'
        BY <2>2, <2>3, <2>4 DEF Present
      <3>2. "owner" \in Admins
        BY DEF Admins
      <3>3. QED
        BY <2>3, <2>4, <3>1, <3>2 DEF RowInv, Present, Allowed
    <2>6. \E r \in [User -> Nat] : Ranked(r)'
      <3>1. AdminsNow' \subseteq Admissible
        BY <2>5 DEF RowInv, AdminsNow, Admissible, Allowed, Present
      <3>2. IsFiniteSet(AdminsNow')
        BY <3>1, FS_Subset DEF ShortChains
      <3>3. Present' \subseteq User /\ Owner \in Present' /\ \A u \in Present' : members'[u].by = Owner
        BY <2>2, <2>3, <2>4 DEF Present
      <3>4. QED
        <4>1. (Flat => \E r \in [User -> Nat] : Ranked(r))'
          BY FlatRanks, PTL
        <4>2. QED
          BY <3>2, <3>3, <4>1 DEF Flat
    <2>7. epoch \in Nat /\ \A e \in Device : view[e].epoch \in Nat /\ req[e].epoch \in Nat
      BY DEF TypeInv, TypeOK, View, Req
    <2>8. AskInv'
      BY <1>1, <2>1, <2>7, IdleType DEF ChainInv, AskInv
    <2>9. ListInv'
      BY <1>1, IdleType, NobodyListed DEF ChainInv, ListInv, Allowed
    <2>10. QED
      BY <2>5, <2>6, <2>8, <2>9 DEF ChainInv
  <1>4. QED
    BY <1>2, <1>3

LEMMA ChainStep ==
  ASSUME TypeInv, KeyInv, SurviveInv, ChainInv, "rewrap" \notin Ops, OneRole, ShortChains,
         [Next]_vars
  PROVE  ChainInv'
  <1>1. ASSUME UNCHANGED <<epoch, members, view, req>>
        PROVE  ChainInv'
    BY <1>1, TreeSame DEF ChainInv, ListInv, AskInv, Allowed
  <1>2. ASSUME NEW d \in Device, LoadInvite(d, TRUE)
        PROVE  ChainInv'
    BY <1>1, <1>2 DEF LoadInvite, orgVars
  <1>3. ASSUME NEW d \in Device, Abort(d)
        PROVE  ChainInv'
    BY <1>3, ChainIdle DEF Abort, orgVars, devVars
  <1>4. ASSUME NEW d \in Device,
               \/ \E skipped \in SUBSET User : ResignOrg(d, skipped)
               \/ RewrapEpoch(d) \/ RewrapMembers(d)
        PROVE  FALSE
    BY <1>4 DEF ResignOrg, RewrapEpoch, RewrapMembers, SurviveInv
  <1>5. ASSUME NEW d \in Device, Step(d)
        PROVE  ChainInv'
    BY <1>2, <1>3, <1>4, <1>5, ChainGetMember, ChainListMembers, ChainOpenOrg, ChainInvite,
       ChainInviteMember, ChainAcceptInvite, ChainPrepareRotation, ChainRotateKey DEF Step
  <1>6. QED
    BY <1>1, <1>5 DEF Next, vars

\* The owner has signed the rows that an organization begins with.
LEMMA InitChain ==
  ASSUME ~Legacy, ShortChains, Init
  PROVE  ChainInv
  <1>1. PICK others \in [User \ {Owner} -> {None, "admin", "member"}] :
          /\ \A u \in User \ {Owner} : others[u] \in RolesFor[u] \cup {None}
          /\ members = [u \in User |-> IF u = Owner THEN FirstRow("owner", TRUE)
                                       ELSE IF others[u] = None THEN None
                                       ELSE FirstRow(others[u], TRUE)]
    BY DEF Init
  <1>2. ASSUME NEW u \in User, members[u] # None
        PROVE  /\ Allowed(u, members[u].role) /\ members[u].epoch = 1
               /\ members[u].by = Owner /\ members[u].sig = Signed(u)
    <2>1. PICK role \in Roles : members[u] = FirstRow(role, TRUE) /\ Allowed(u, role)
      BY <1>1, <1>2, OrgAssumption DEF Roles, Allowed
    <2>2. QED
      BY <2>1 DEF FirstRow, Signed
  <1>3. /\ members[Owner] # None /\ members[Owner].role = "owner" /\ Owner \in User
        /\ epoch = 1
    BY FirstMembers, OrgAssumption DEF Init
  <1>4. RowInv
    BY <1>2, <1>3 DEF RowInv, Present, Admins
  <1>5. \E r \in [User -> Nat] : Ranked(r)
    BY <1>2, <1>3, <1>4, AdminsFinite, FlatRanks DEF Flat, Present
  <1>6. \A d \in Device : /\ req[d].mem = Nobody /\ req[d].pc = "idle"
                          /\ view[d].mem = Nobody /\ view[d].epoch = 0
    BY IdleType, ClosedType DEF Init
  <1>7. ListInv /\ AskInv
    BY <1>3, <1>6, NobodyListed DEF ListInv, AskInv
  <1>8. QED
    BY <1>4, <1>5, <1>7 DEF ChainInv

\* openOrgKey succeeds for every member of an organization that is not being
\* re-signed: however invites, acceptances, removals and rotations cross, every
\* row is signed for the current epoch and its chain of at most MaxChain wraps
\* ends with the owner.  Members do not come back with another role, and there
\* are not more than MaxChain - 2 users who can be admins.
THEOREM ChainsLeadToOwner ==
  ASSUME ~Legacy, "rewrap" \notin Ops, OneRole, ShortChains
  PROVE  Spec => []MembersVerify
  <1>1. Init => ChainInv
    BY InitChain
  <1>2. TypeInv /\ KeyInv /\ SurviveInv /\ [Next]_vars => SurviveInv'
    BY SurviveStep
  <1>3. TypeInv /\ KeyInv /\ SurviveInv /\ ChainInv /\ [Next]_vars => ChainInv'
    BY ChainStep
  <1>4. TypeInv /\ KeyInv /\ ChainInv => MembersVerify
    BY ChainVerifies DEF TypeInv, ChainInv, MembersVerify
  <1>5. QED
    BY <1>1, <1>2, <1>3, <1>4, InitSurvive, KeysHold, PTL DEF Spec

-----------------------------------------------------------------------------
(* OrgKeys implements OrgAccess.                                           *)

LEMMA InIsPresent == Access!In = Present
  BY DEF Access!In, Standing, Present

\* Steps that touch neither rows nor keys are stutters of OrgAccess.
LEMMA AccessStutters ==
  ASSUME UNCHANGED <<epoch, members, orgKey, known>>
  PROVE  UNCHANGED Access!vars
  BY DEF Access!vars, Standing, Readers

\* An applied invite is an Invite.
LEMMA AccessInvite ==
  ASSUME TypeInv, NEW d \in Device, InviteMember(d)
  PROVE  [Access!Next]_(Access!vars)
  <1> DEFINE to == req[d].to
  <1>1. UNCHANGED <<epoch, orgKey>> /\ to \in User
    BY InviteMemberDoes
  <1>2. CASE UNCHANGED <<members, known>>
    BY <1>1, <1>2, AccessStutters
  <1>3. CASE /\ members[to] = None
             /\ members'[to] # None /\ ~members'[to].active
             /\ \A u \in User \ {to} : members'[u] = members[u]
             /\ known' = [known EXCEPT ![to] = @ \cup {req[d].key}]
    <2>1. \A u \in User : known'[u] = IF u = to THEN known[u] \cup {req[d].key} ELSE known[u]
      BY <1>1, <1>3 DEF TypeInv, TypeOK
    <2> HIDE DEF to
    <2>2. Standing[to] = "none"
      BY <1>1, <1>3 DEF Standing
    <2>3. Standing' = [Standing EXCEPT ![to] = "invited"]
      <3>1. \A u \in User : Standing'[u] = IF u = to THEN "invited" ELSE Standing[u]
        BY <1>1, <1>3 DEF Standing
      <3>2. QED
        BY <1>1, <3>1 DEF Standing
    <2>4. CASE req[d].key = orgKey
      <3>1. Readers' = Readers \cup {to}
        BY <1>1, <2>1, <2>4 DEF Readers
      <3>2. Access!Invite(to)
        BY <1>1, <2>2, <2>3, <3>1 DEF Access!Invite
      <3>3. QED
        BY <1>1, <3>2 DEF Access!Next
    <2>5. CASE req[d].key # orgKey
      <3>1. Readers' = Readers
        BY <1>1, <2>1, <2>5 DEF Readers
      <3>2. Access!Invite(to)
        BY <1>1, <2>2, <2>3, <3>1 DEF Access!Invite
      <3>3. QED
        BY <1>1, <3>2 DEF Access!Next
    <2>6. QED
      BY <2>4, <2>5
  <1>4. QED
    BY <1>2, <1>3, InviteMemberDoes

LEMMA AccessAccept ==
  ASSUME TypeInv, NEW d \in Device, AcceptInvite(d)
  PROVE  Access!Next
  <1> DEFINE me == UserOf[d]
  <1>1. /\ me \in User /\ members[me] # None /\ members'[me] # None
        /\ ~members[me].active /\ members'[me].active
        /\ \A u \in User \ {me} : members'[u] = members[u]
    BY AcceptedRow, NoneIsNoRow
  <1>2. UNCHANGED <<epoch, orgKey, known>>
    BY DEF AcceptInvite
  <1> HIDE DEF me
  <1>3. Standing[me] = "invited" /\ Standing' = [Standing EXCEPT ![me] = "member"]
    <2>1. \A u \in User : Standing'[u] = IF u = me THEN "member" ELSE Standing[u]
      BY <1>1 DEF Standing
    <2>2. Standing[me] = "invited"
      BY <1>1 DEF Standing
    <2>3. QED
      BY <1>1, <2>1, <2>2 DEF Standing
  <1>4. Readers' = Readers
    BY <1>2 DEF Readers
  <1>5. Access!Accept(me)
    BY <1>2, <1>3, <1>4 DEF Access!Accept
  <1>6. QED
    BY <1>1, <1>5 DEF Access!Next

\* A re-sign hands the key out again, to members only.
LEMMA AccessReissue ==
  ASSUME TypeInv, NEW d \in Device, RewrapMembers(d)
  PROVE  [Access!Next]_(Access!vars)
  <1> DEFINE q == req[d]
  <1>1. UNCHANGED <<epoch, orgKey>>
    BY DEF RewrapMembers
  <1>2. q \in Req /\ UserOf[d] \in User
    BY OrgAssumption DEF TypeInv, TypeOK
  <1>3. CASE UNCHANGED <<members, known>>
    BY <1>1, <1>3, AccessStutters
  <1>4. CASE members' = Rewrapped(q, UserOf[d]) /\ known' = Learned(q)
    <2> HIDE DEF q
    <2>1. \A u \in User : /\ members'[u] # None <=> members[u] # None
                          /\ members[u] # None => members'[u].active = members[u].active
      BY <1>2, <1>4, RewrappedType, NoneIsNoRow DEF TypeInv
    <2>2. Standing' = Standing
      BY <2>1 DEF Standing
    <2>3. \A u \in User : known'[u] = IF q.mem[u] = None \/ members[u] = None
                                      THEN known[u] ELSE known[u] \cup {q.key}
      BY <1>2, <1>4, LearnedType DEF TypeInv
    <2> DEFINE again == {u \in Present : q.mem[u] # None /\ q.key = orgKey}
    <2>4. Readers' = Readers \cup again
      BY <1>1, <2>3 DEF Readers, Present
    <2>5. again \in SUBSET Access!In
      BY InIsPresent
    <2> HIDE DEF again
    <2>6. Access!Reissue
      BY <1>1, <2>2, <2>4, <2>5 DEF Access!Reissue
    <2>7. QED
      BY <2>6 DEF Access!Next
  <1>5. QED
    BY <1>3, <1>4 DEF RewrapMembers

\* An applied rotation is a Rotate, for the one it removes or for nobody.
LEMMA AccessRotate ==
  ASSUME TypeInv, KeyInv, NEW d \in Device, RotateKey(d)
  PROVE  [Access!Next]_(Access!vars)
  <1> DEFINE q == req[d]
  <1>1. CASE ~Accepts(q, UserOf[d])
    BY <1>1, AccessStutters DEF RotateKey, orgVars
  <1>2. CASE Accepts(q, UserOf[d])
    <2>1. /\ epoch' = epoch + 1 /\ orgKey' = q.key
          /\ \A u \in User :
               /\ members'[u] # None <=> members[u] # None /\ u # q.to
               /\ members'[u] # None => members'[u].active = members[u].active
               /\ known'[u] = IF members[u] # None /\ u # q.to
                              THEN known[u] \cup {q.key} ELSE known[u]
      BY <1>2, Rotates, SMTT(30)
    <2>2. q.to # None => q.to # Owner /\ members[q.to] # None
      BY <1>2, OrgAssumption DEF Accepts, Removable, KeyInv, OwnerInv
    <2>3. q.to \in User \cup {None}
      BY DEF TypeInv, TypeOK, Req
    <2>4. \A u \in User : q.key \notin known[u]
      BY DEF RotateKey, KeyInv, FreshInv, Unshared
    <2> DEFINE leaving == {q.to} \ {None}
    <2> HIDE DEF q
    <2>5. \A u \in User : u \in leaving <=> u = q.to
      BY OrgAssumption
    <2>6. Standing' = [u \in User |-> IF u \in leaving THEN "none" ELSE Standing[u]]
      BY <2>1, <2>5, ZenonT(40) DEF Standing
    <2>7. Readers' = Present \ leaving
      BY <2>1, <2>4, <2>5, ZenonT(40) DEF Readers, Present
    <2>8. Access!Rotate(leaving)
      BY <2>1, <2>6, <2>7, InIsPresent DEF Access!Rotate
    <2>9. CASE q.to = None
      <3>1. leaving = {}
        BY <2>9
      <3>2. QED
        BY <2>8, <3>1 DEF Access!Next
    <2>10. CASE q.to # None
      <3>1. leaving = {q.to} /\ q.to \in Access!In \ {Owner}
        BY <2>2, <2>3, <2>10, InIsPresent DEF Present
      <3>2. QED
        BY <2>8, <3>1 DEF Access!Next
    <2>11. QED
      BY <2>9, <2>10
  <1>3. QED
    BY <1>1, <1>2

LEMMA AccessStep ==
  ASSUME TypeInv, KeyInv, [Next]_vars
  PROVE  [Access!Next]_(Access!vars)
  <1>1. CASE UNCHANGED vars
    BY <1>1, AccessStutters DEF vars
  <1>2. ASSUME NEW d \in Device, Step(d), ~InviteMember(d), ~AcceptInvite(d),
               ~RewrapMembers(d), ~RotateKey(d)
        PROVE  [Access!Next]_(Access!vars)
    <2>1. UNCHANGED <<epoch, members, orgKey, known>>
      BY <1>2 DEF Step, GetMember, ListMembers, OpenOrg, Invite, LoadInvite, ResignOrg,
                  RewrapEpoch, PrepareRotation, Abort, orgVars
    <2>2. QED
      BY <2>1, AccessStutters
  <1>3. QED
    BY <1>1, <1>2, AccessInvite, AccessAccept, AccessReissue, AccessRotate DEF Next

LEMMA AccessInit == Init => Access!Init
  <1> SUFFICES ASSUME Init PROVE Access!Init
    OBVIOUS
  <1>1. epoch = 1 /\ orgKey = 1
    BY DEF Init
  <1>2. \A u \in User : known[u] = IF members[u] = None THEN {} ELSE {1}
    BY DEF Init
  <1>3. /\ members[Owner] # None
        /\ \A u \in User : members[u] # None => members[u].active
    BY FirstMembers
  <1>4. /\ Standing \in [User -> {"none", "member"}]
        /\ Standing[Owner] = "member"
    BY <1>3, OrgAssumption DEF Standing
  <1>5. Readers = Access!In
    BY <1>1, <1>2, InIsPresent DEF Readers, Present
  <1>6. QED
    BY <1>1, <1>4, <1>5 DEF Access!Init

\* The handlers' statements, however they interleave, are steps of OrgAccess:
\* whoever reads is in the organization, and the only way out is a new key.
THEOREM RefinesAccess == Spec => ImplementsAccess
  BY AccessInit, AccessStep, KeysHold, PTL DEF Spec, ImplementsAccess, Access!Spec

=============================================================================
