--------------------------- MODULE AccountCredentials ---------------------------
(***************************************************************************)
(* The credential life cycle of one account of the nopass API server:      *)
(* login (OPAQUE and legacy SRP), the SRP-to-OPAQUE upgrade, the one-time  *)
(* account-key migration, the password change, the recovery kit and the    *)
(* recovery that uses it.                                                  *)
(*                                                                         *)
(* A process is one client operation together with the two HTTP requests   *)
(* (start, finish) it makes.  Every database statement outside a           *)
(* transaction is an action of its own, and a transaction is one action,   *)
(* taken at its commit; between two statements of a handler any other      *)
(* request may run, and the request may be lost (Abort) or sent again      *)
(* (Resend).                                                               *)
(*                                                                         *)
(* Data abstraction.  A credential record, a key wrap or a derived key is  *)
(* represented by the password it was made from.  Creation times and       *)
(* UUIDs are both drawn from the counter now.                              *)
(***************************************************************************)
EXTENDS Naturals, FiniteSets

CONSTANTS
    Password,     \* master passwords the account's owner uses
    Proc,         \* operations that can be in flight at the same time
    Ops,          \* kinds of operation clients issue, a subset of OpKind
    InitKinds,    \* kinds of user row the account may start from
    MaxPending,   \* MAX_PENDING_LOGINS_PER_ACCOUNT
    MaxNow,       \* bound on the number of rows created in a behaviour
    None          \* SQL NULL, or a key the client could not open

LoginKinds   == {"login", "srp_login"}
SessionKinds == {"upgrade", "account_key", "password_change"}
KitKinds     == {"set_kit", "clear_kit"}
RecoverKinds == {"recovery", "legacy_recovery"}
OpKind       == LoginKinds \cup SessionKinds \cup KitKinds \cup RecoverKinds

ASSUME ConstAssumption ==
    /\ None \notin Password
    /\ Ops \subseteq OpKind
    /\ InitKinds \subseteq {"srp", "opaque", "migrated"}
    /\ MaxPending \in Nat \ {0}
    /\ MaxNow \in Nat

VARIABLES
    cred,       \* login credential of the users row; gen counts its changes
    wrap,       \* wrapped_account_key: the password that opens it, the key inside
    dataKey,    \* the key the account's items are encrypted under
    kit,        \* recovery kit: its id (0 when there is none), the key inside
    pending,    \* pending_opaque_logins and pending_srp_sessions
    tokens,     \* pending_recovery_sessions
    sessions,   \* sessions, each with what its client holds in memory
    op,         \* the operation each process is carrying out
    now,        \* creation stamps and ids handed out so far
    changedAt,  \* now at the last credential change
    grants      \* what each redeemed handshake or token was accepted for

vars == <<cred, wrap, dataKey, kit, pending, tokens, sessions, op, now,
          changedAt, grants>>

users  == <<cred, wrap, dataKey, kit>>
ghosts == <<changedAt, grants>>

-----------------------------------------------------------------------------
(* Keys and rows                                                           *)

\* The vault keys a password derives: stretchMasterKeyAllRaw.
LegacyKey(pw) == pw

Key == {LegacyKey(pw) : pw \in Password}

\* unwrapAccountKey on the stored wrap; None stands for AccountKeyError.
Open(pw) == IF wrap.pw = pw THEN wrap.key ELSE None

\* The pending_* table a handshake of this kind is stored in.
Table(kind) == IF kind \in {"srp_login", "upgrade"} THEN "srp" ELSE "opaque"

\* PURPOSE_*; the SRP table has no such column.
Purpose(kind) == IF Table(kind) = "srp" THEN "srp" ELSE kind

Purposes == {"srp", "login", "account_key", "password_change"}

Row == [id : Nat, table : {"srp", "opaque"}, purpose : Purposes,
        pw : Password \cup {None}, gen : Nat, expired : BOOLEAN]

Token == [id : Nat, kit : Nat, expired : BOOLEAN]

Session == [id : Nat, gen : Nat, pw : Password, key : Key \cup {None},
            todo : {"none", "upgrade", "account_key"}, recent : BOOLEAN]

Grant == [by : Nat, what : OpKind, proved : Nat, against : Nat, res : Nat]

Op == [kind : OpKind \cup {"none"},
       pc : {"idle", "insert", "answered", "authed", "taken", "commit"},
       pw : Password \cup {None}, new : Password \cup {None},
       sid : Nat, id : Nat, kit : Nat,
       rec : Password \cup {None}, gen : Nat,
       key : Key \cup {None}, todo : {"none", "upgrade", "account_key"}]

Idle == [kind |-> "none", pc |-> "idle", pw |-> None, new |-> None,
         sid |-> 0, id |-> 0, kit |-> 0, rec |-> None, gen |-> 0,
         key |-> None, todo |-> "none"]

Live(sid) == \E s \in sessions : s.id = sid

\* The newest MaxPending rows of a table survive an insert into it.
Newest(rows, table) ==
    {r \in rows : \/ r.table # table
                  \/ Cardinality({q \in rows : q.table = table /\ q.id > r.id})
                        < MaxPending}

\* Mutant: the handshake is read, not deleted.
ReadRow(id) == pending

\* DELETE ... WHERE id = $1 RETURNING *.
TakeRow(id) == {r \in pending : r.id # id}

\* Mutant: a credential change leaves the handshakes.
KeepPendingLogins == pending

\* drop_pending_logins: decoy rows carry no user_id and stay.
DropPendingLogins == {r \in pending : r.pw = None}

\* DELETE FROM pending_recovery_sessions WHERE user_id = $1.
DropTokens == {}

\* WHERE wrapped_account_key IS NULL.
NoWrapYet == wrap.key = None

\* Mutant: the upgrade does not look for the verifier.
AnyVerifier == TRUE

\* WHERE srp_verifier IS NOT NULL.
HasVerifier == cred.kind = "srp"

\* Mutant: the key is wrapped under the password being replaced.
WrappedUnderOld(o) == [pw |-> IF o.pw = None THEN cred.pw ELSE o.pw, key |-> o.key]

\* The account key wrapped for the new password: changeMasterPassword,
\* completeAccountRecovery.
WrappedForNew(o) == [pw |-> o.new, key |-> o.key]

\* Mutant: the replacement kit holds keys derived from the new password.
KitOfNewPassword(o) == [id |-> now + 1, key |-> LegacyKey(o.new)]

\* The replacement kit holds the account key the old kit held.
ReplacementKit(o) == [id |-> now + 1, key |-> o.key]

Stamp == now + 1

-----------------------------------------------------------------------------
(* Round 1: the user row is read ...                                       *)

Becomes(p, o) == op' = [op EXCEPT ![p] = o]

Begin(p, o) ==
    /\ op[p] = Idle
    /\ o.kind \in Ops
    /\ Becomes(p, o)
    /\ UNCHANGED <<users, pending, tokens, sessions, now, ghosts>>

\* login_start: an account that has no OPAQUE record gets the fake one.
LoginOp(pw) ==
    [Idle EXCEPT !.kind = "login", !.pc = "insert", !.pw = pw,
                 !.rec = IF cred.kind = "opaque" THEN cred.pw ELSE None,
                 !.gen = cred.gen]

LoginStart(p, pw) == Begin(p, LoginOp(pw))

\* srp_init: a migrated account gets a fake challenge and nothing is stored.
SrpOp(pw) ==
    [Idle EXCEPT !.kind = "srp_login", !.pc = "insert", !.pw = pw,
                 !.rec = cred.pw, !.gen = cred.gen]

SrpInit(p, pw) == cred.kind = "srp" /\ Begin(p, SrpOp(pw))

\* unlockAccount migrates the keys derived from the password of the login.
MigrationOp(kind, s) ==
    [Idle EXCEPT !.kind = kind, !.pc = "insert", !.pw = s.pw, !.sid = s.id,
                 !.rec = cred.pw, !.gen = cred.gen, !.key = LegacyKey(s.pw)]

\* upgrade_start, in the session of an SRP login.
UpgradeStart(p, s) ==
    /\ s.todo = "upgrade"
    /\ cred.kind = "srp"
    /\ Begin(p, MigrationOp("upgrade", s))

\* proof/start for account_key, after an OPAQUE login whose response held no
\* wrapped key.
ProofStart(p, s) ==
    /\ s.todo = "account_key"
    /\ cred.kind = "opaque"
    /\ Begin(p, MigrationOp("account_key", s))

\* password/start: a recent session, an OPAQUE account with a wrapped key; the
\* client opens the wrap in the answer with the current password.
ChangeOp(s, pw, new) ==
    [Idle EXCEPT !.kind = "password_change", !.pc = "insert", !.pw = pw,
                 !.new = new, !.sid = s.id, !.rec = cred.pw, !.gen = cred.gen,
                 !.key = Open(pw)]

ChangeStart(p, s, pw, new) ==
    /\ s.recent /\ s.key # None
    /\ wrap.key # None
    /\ cred.kind = "opaque"
    /\ Begin(p, ChangeOp(s, pw, new))

\* recovery_init: the code matches the stored kit; the client opens its blob.
RecoveryOp(kind, new) ==
    [Idle EXCEPT !.kind = kind, !.pc = "insert", !.new = new, !.kit = kit.id,
                 !.gen = cred.gen, !.key = kit.key]

RecoveryInit(p, kind, new) == kit.id # 0 /\ Begin(p, RecoveryOp(kind, new))

\* require_auth of a kit request; an unlocked client sends it.
KitOp(kind, s) ==
    [Idle EXCEPT !.kind = kind, !.pc = "commit", !.sid = s.id, !.key = s.key]

KitStart(p, s, kind) == s.key # None /\ Begin(p, KitOp(kind, s))

(* ... and the handshake or token is stored.                               *)

\* insert_opaque_login and insert_srp: one transaction, insert then evict.
InsertPending(p) ==
    LET o   == op[p]
        row == [id |-> Stamp, table |-> Table(o.kind),
                purpose |-> Purpose(o.kind), pw |-> o.rec, gen |-> o.gen,
                expired |-> FALSE]
    IN  /\ o.pc = "insert" /\ o.kind \in LoginKinds \cup SessionKinds
        /\ now < MaxNow
        /\ now' = Stamp
        /\ pending' = Newest(pending \cup {row}, row.table)
        /\ Becomes(p, [o EXCEPT !.pc = "answered", !.id = Stamp])
        /\ UNCHANGED <<users, tokens, sessions, ghosts>>

\* insert_recovery.
InsertToken(p) ==
    LET o == op[p]
    IN  /\ o.pc = "insert" /\ o.kind \in RecoverKinds
        /\ now < MaxNow
        /\ now' = Stamp
        /\ tokens' = tokens \cup {[id |-> Stamp, kit |-> o.kit, expired |-> FALSE]}
        /\ Becomes(p, [o EXCEPT !.pc = "answered", !.id = Stamp])
        /\ UNCHANGED <<users, pending, sessions, ghosts>>

-----------------------------------------------------------------------------
(* Round 2: the proof is checked ...                                       *)

\* require_auth, and require_recent_session for a password change, which the
\* client only finishes when the wrap opened.
Authenticate(p) ==
    LET o == op[p]
    IN  /\ o.pc = "answered" /\ o.kind \in SessionKinds
        /\ \E s \in sessions :
              /\ s.id = o.sid
              /\ o.kind = "password_change" => s.recent /\ o.key # None
        /\ Becomes(p, [o EXCEPT !.pc = "authed"])
        /\ UNCHANGED <<users, pending, tokens, sessions, now, ghosts>>

\* verify_password_proof, login_finish, srp_verify: the handshake is for this
\* purpose, is in time, and was answered with the password of its record.
Proves(o, r) == r.purpose = Purpose(o.kind) /\ ~r.expired /\ r.pw = o.pw

\* take_opaque_login / take_srp and the checks on the row: the row is consumed
\* whether or not they succeed.  An OPAQUE client knows locally that the
\* password is wrong and sends nothing.
TakePending(p) ==
    LET o == op[p]
    IN  /\ \/ o.pc = "answered" /\ o.kind \in LoginKinds
           \/ o.pc = "authed" /\ o.kind \in SessionKinds
        /\ Table(o.kind) = "opaque" => o.pw = o.rec
        /\ pending' = TakeRow(o.id)
        /\ IF \E r \in pending : r.id = o.id /\ Proves(o, r)
           THEN Becomes(p, [o EXCEPT !.pc = "taken"])
           ELSE Becomes(p, Idle)
        /\ UNCHANGED <<users, tokens, sessions, now, ghosts>>

\* live_recovery_session: the token is looked at, not consumed.
PeekToken(p) ==
    LET o == op[p]
    IN  /\ o.pc = "answered" /\ o.kind \in RecoverKinds
        /\ \E t \in tokens : t.id = o.id /\ ~t.expired
        /\ Becomes(p, [o EXCEPT !.pc = "commit"])
        /\ UNCHANGED <<users, pending, tokens, sessions, now, ghosts>>

\* What unlockAccount still has to do with this login response.
Todo(kind) ==
    IF wrap.key # None THEN "none"
    ELSE IF kind = "srp_login" THEN "upgrade" ELSE "account_key"

\* get_user_by_id: the row whose key wrap the login response will carry.
ReadUser(p) ==
    LET o == op[p]
    IN  /\ o.pc = "taken" /\ o.kind \in LoginKinds
        /\ Becomes(p, [o EXCEPT !.pc = "commit", !.key = Open(o.pw),
                                 !.todo = Todo(o.kind)])
        /\ UNCHANGED <<users, pending, tokens, sessions, now, ghosts>>

\* find_session_by_token in upgrade_finish, after the proof.
FindSession(p) ==
    LET o == op[p]
    IN  /\ o.pc = "taken" /\ o.kind = "upgrade"
        /\ IF Live(o.sid) THEN Becomes(p, [o EXCEPT !.pc = "commit"])
                          ELSE Becomes(p, Idle)
        /\ UNCHANGED <<users, pending, tokens, sessions, now, ghosts>>

(* ... and the outcome is written.                                         *)

Granted(o, res) ==
    grants' = grants \cup {[by |-> o.id, what |-> o.kind, proved |-> o.gen,
                            against |-> cred.gen, res |-> res]}

\* issue_session and create_session.
IssueSession(p) ==
    LET o == op[p]
    IN  /\ o.pc = "commit" /\ o.kind \in LoginKinds
        /\ now < MaxNow
        /\ now' = Stamp
        /\ sessions' = sessions \cup
              {[id |-> Stamp, gen |-> o.gen, pw |-> o.pw, key |-> o.key,
                todo |-> o.todo, recent |-> TRUE]}
        /\ Granted(o, Stamp)
        /\ Becomes(p, Idle)
        /\ UNCHANGED <<users, pending, tokens, changedAt>>

\* The session that proved a password is now backed by the new credential.
Kept(sid, key) ==
    {[s EXCEPT !.gen = cred.gen + 1, !.key = key, !.todo = "none"] :
        s \in {x \in sessions : x.id = sid}}

\* complete_srp_upgrade: one transaction, nothing if the verifier is gone.
CompleteSrpUpgrade(p) ==
    LET o == op[p]
    IN  /\ o.pc = "commit" /\ o.kind = "upgrade"
        /\ IF HasVerifier
           THEN /\ cred' = [kind |-> "opaque", pw |-> o.pw, gen |-> cred.gen + 1]
                /\ wrap' = [pw |-> o.pw, key |-> o.key]
                /\ pending' = DropPendingLogins
                /\ sessions' = Kept(o.sid, o.key)
                /\ changedAt' = now
                /\ Granted(o, cred.gen + 1)
           ELSE UNCHANGED <<cred, wrap, pending, sessions, changedAt, grants>>
        /\ Becomes(p, Idle)
        /\ UNCHANGED <<dataKey, kit, tokens, now>>

\* The client that migrated goes on with the keys it wrapped.
Migrated(s, o) ==
    IF s.id = o.sid THEN [s EXCEPT !.key = o.key, !.todo = "none"] ELSE s

\* set_account_key: the wrap is written once.
SetAccountKey(p) ==
    LET o == op[p]
    IN  /\ o.pc = "taken" /\ o.kind = "account_key"
        /\ IF NoWrapYet
           THEN /\ wrap' = [pw |-> o.pw, key |-> o.key]
                /\ sessions' = {Migrated(s, o) : s \in sessions}
                /\ Granted(o, 0)
           ELSE UNCHANGED <<wrap, sessions, grants>>
        /\ Becomes(p, Idle)
        /\ UNCHANGED <<cred, dataKey, kit, pending, tokens, now, changedAt>>

\* rotate_master_password under RotationAuthority::Session.
ChangePassword(p) ==
    LET o == op[p]
    IN  /\ o.pc = "taken" /\ o.kind = "password_change"
        /\ cred' = [kind |-> "opaque", pw |-> o.new, gen |-> cred.gen + 1]
        /\ wrap' = WrappedForNew(o)
        /\ pending' = DropPendingLogins
        /\ tokens' = DropTokens
        /\ sessions' = Kept(o.sid, o.key)
        /\ changedAt' = now
        /\ Granted(o, cred.gen + 1)
        /\ Becomes(p, Idle)
        /\ UNCHANGED <<dataKey, kit, now>>

\* What recovery_complete hands rotate_master_password: a current client wraps
\* the key it took from the kit; a client older than the account key sends no
\* wrap (the stored one is kept) and re-encrypts every item.
RecoveredRow(o, kind) ==
    IF o.kind = "recovery"
    THEN /\ kind = "opaque"
         /\ wrap' = WrappedForNew(o)
         /\ kit' = ReplacementKit(o)
         /\ UNCHANGED dataKey
    ELSE /\ kit' = [id |-> Stamp, key |-> LegacyKey(o.new)]
         /\ dataKey' = LegacyKey(o.new)
         /\ UNCHANGED wrap

\* rotate_master_password under RotationAuthority::RecoveryToken: the token is
\* consumed inside the transaction, so a second completion finds none.
CompleteRecovery(p, kind) ==
    LET o == op[p]
    IN  /\ o.pc = "commit" /\ o.kind \in RecoverKinds
        /\ IF \E t \in tokens : t.id = o.id
           THEN /\ now < MaxNow
                /\ now' = Stamp
                /\ cred' = [kind |-> kind, pw |-> o.new, gen |-> cred.gen + 1]
                /\ RecoveredRow(o, kind)
                /\ pending' = DropPendingLogins
                /\ tokens' = DropTokens
                /\ sessions' = {}
                /\ changedAt' = Stamp
                /\ Granted(o, cred.gen + 1)
           ELSE UNCHANGED <<users, pending, tokens, sessions, now, ghosts>>
        /\ Becomes(p, Idle)

\* set_recovery and clear_recovery: tokens die with the kit.
SetKit(p) ==
    LET o == op[p]
    IN  /\ o.pc = "commit" /\ o.kind = "set_kit"
        /\ now < MaxNow
        /\ now' = Stamp
        /\ kit' = [id |-> Stamp, key |-> o.key]
        /\ tokens' = DropTokens
        /\ Becomes(p, Idle)
        /\ UNCHANGED <<cred, wrap, dataKey, pending, sessions, changedAt, grants>>

ClearKit(p) ==
    LET o == op[p]
    IN  /\ o.pc = "commit" /\ o.kind = "clear_kit"
        /\ kit' = [id |-> 0, key |-> None]
        /\ tokens' = DropTokens
        /\ Becomes(p, Idle)
        /\ UNCHANGED <<cred, wrap, dataKey, pending, sessions, now, changedAt,
                       grants>>

-----------------------------------------------------------------------------
(* The rest of the world                                                   *)

\* A request is refused, times out, or its client or replica dies.
Abort(p) ==
    /\ op[p] # Idle
    /\ Becomes(p, Idle)
    /\ UNCHANGED <<users, pending, tokens, sessions, now, ghosts>>

\* A finish request is delivered twice, perhaps to another replica.
Resend(p, q) ==
    /\ op[q] = Idle
    /\ op[p].id # 0
    /\ Becomes(q, [op[p] EXCEPT !.pc = "answered"])
    /\ UNCHANGED <<users, pending, tokens, sessions, now, ghosts>>

\* logout, device removal, or 30 days.
EndSession(s) ==
    /\ sessions' = sessions \ {s}
    /\ UNCHANGED <<users, pending, tokens, op, now, ghosts>>

\* delete_other_sessions.
SignOutOthers(s) ==
    /\ sessions' = {s}
    /\ UNCHANGED <<users, pending, tokens, op, now, ghosts>>

\* PASSWORD_CHANGE_MAX_SESSION_AGE_SECS passes.
AgeSession(s) ==
    /\ s.recent
    /\ sessions' = (sessions \ {s}) \cup {[s EXCEPT !.recent = FALSE]}
    /\ UNCHANGED <<users, pending, tokens, op, now, ghosts>>

\* OPAQUE_LOGIN_TTL_SECS / SRP_SESSION_TTL_SECS passes.
ExpirePending(r) ==
    /\ ~r.expired
    /\ pending' = (pending \ {r}) \cup {[r EXCEPT !.expired = TRUE]}
    /\ UNCHANGED <<users, tokens, sessions, op, now, ghosts>>

\* RECOVERY_SESSION_TTL_SECS passes.
ExpireToken(t) ==
    /\ ~t.expired
    /\ tokens' = (tokens \ {t}) \cup {[t EXCEPT !.expired = TRUE]}
    /\ UNCHANGED <<users, pending, sessions, op, now, ghosts>>

\* prune_expired, one statement per table, from the housekeeping task.
PrunePending(table) ==
    /\ pending' = {r \in pending : r.table # table \/ ~r.expired}
    /\ UNCHANGED <<users, tokens, sessions, op, now, ghosts>>

PruneTokens ==
    /\ tokens' = {t \in tokens : ~t.expired}
    /\ UNCHANGED <<users, pending, sessions, op, now, ghosts>>

-----------------------------------------------------------------------------

\* The user row as register_finish leaves it ("opaque", keys derived from the
\* password), as an SRP-era release left it ("srp"), or after its first unlock
\* ("migrated"); with or without a recovery kit made by an earlier session.
Init ==
    /\ \E k \in InitKinds, pw \in Password :
          /\ cred = [kind |-> IF k = "srp" THEN "srp" ELSE "opaque",
                     pw |-> pw, gen |-> 0]
          /\ wrap = IF k = "migrated" THEN [pw |-> pw, key |-> LegacyKey(pw)]
                                      ELSE [pw |-> None, key |-> None]
          /\ dataKey = LegacyKey(pw)
    /\ kit \in {[id |-> 0, key |-> None], [id |-> 1, key |-> dataKey]}
    /\ pending = {} /\ tokens = {} /\ sessions = {} /\ grants = {}
    /\ op = [p \in Proc |-> Idle]
    /\ now = 1 /\ changedAt = 0

Start(p) ==
    \/ \E pw \in Password : LoginStart(p, pw) \/ SrpInit(p, pw)
    \/ \E s \in sessions : UpgradeStart(p, s) \/ ProofStart(p, s)
    \/ \E s \in sessions, pw, new \in Password : ChangeStart(p, s, pw, new)
    \/ \E kind \in RecoverKinds, new \in Password : RecoveryInit(p, kind, new)
    \/ \E s \in sessions, kind \in KitKinds : KitStart(p, s, kind)

Continue(p) ==
    \/ InsertPending(p) \/ InsertToken(p)
    \/ Authenticate(p) \/ TakePending(p) \/ PeekToken(p)
    \/ ReadUser(p) \/ FindSession(p)

Commit(p) ==
    \/ IssueSession(p) \/ CompleteSrpUpgrade(p) \/ SetAccountKey(p)
    \/ ChangePassword(p)
    \/ \E kind \in {"srp", "opaque"} : CompleteRecovery(p, kind)
    \/ SetKit(p) \/ ClearKit(p)

Environment ==
    \/ \E p \in Proc : Abort(p)
    \/ \E p, q \in Proc : Resend(p, q)
    \/ \E s \in sessions : EndSession(s) \/ SignOutOthers(s) \/ AgeSession(s)
    \/ \E r \in pending : ExpirePending(r)
    \/ \E t \in tokens : ExpireToken(t)
    \/ \E table \in {"srp", "opaque"} : PrunePending(table)
    \/ PruneTokens

Next ==
    \/ \E p \in Proc : Start(p) \/ Continue(p) \/ Commit(p)
    \/ Environment

Spec == Init /\ [][Next]_vars

-----------------------------------------------------------------------------
(* Properties                                                              *)

TypeOK ==
    /\ cred \in [kind : {"srp", "opaque"}, pw : Password, gen : Nat]
    /\ wrap \in [pw : Password \cup {None}, key : Key \cup {None}]
    /\ dataKey \in Key
    /\ kit \in [id : Nat, key : Key \cup {None}]
    /\ pending \subseteq Row
    /\ tokens \subseteq Token
    /\ sessions \subseteq Session
    /\ op \in [Proc -> Op]
    /\ now \in Nat /\ changedAt \in Nat
    /\ grants \subseteq Grant

\* The password that logs in opens the items: through the stored wrap when
\* there is one, by derivation otherwise.  This is what rotate_master_password
\* means by "a half-applied password change would brick the account"; it must
\* survive every interleaving of migrations, changes and recoveries and a
\* request dying between any two statements.
AccountOpens ==
    IF wrap.key = None
    THEN dataKey = LegacyKey(cred.pw)
    ELSE wrap.pw = cred.pw /\ wrap.key = dataKey

\* The recovery kit and every unlocked client hold the key the items are
\* encrypted under, also when the kit was written by a request that was
\* authenticated before a rotation.
KeysAgree ==
    /\ kit.id # 0 => kit.key = dataKey
    /\ \A s \in sessions : s.key # None => s.key = dataKey

\* A credential change leaves no handshake and no session behind: one that
\* was authenticated by an earlier credential can only have been inserted
\* after the change, by a request that had read the row before it.
NothingPredatesChange ==
    \A x \in {r \in pending : r.pw # None} \cup sessions :
        x.gen = cred.gen \/ x.id > changedAt

\* One outcome per handshake or token: DELETE ... RETURNING lets a login, a
\* proof or a recovery be redeemed once, however often and to whichever
\* replica its finish request is delivered.
SingleUse ==
    \A g, h \in grants : g.by = h.by => g = h

\* An upgrade or an account-key migration only ever replaces the credential
\* whose password it proved: one that loses a race against a recovery or
\* another upgrade changes nothing.
MigrationProvesCurrent ==
    \A g \in grants : g.what \in {"upgrade", "account_key"} => g.proved = g.against

-----------------------------------------------------------------------------
(* The inductive invariant behind these properties.                        *)

HandshakeKinds == LoginKinds \cup SessionKinds

\* The handshake of this operation has been redeemed.
Redeemed(o) == o.kind \in HandshakeKinds /\ o.pc \in {"taken", "commit"}

Unused(id) == \A g \in grants : g.by # id

\* What an operation carries, by its kind and progress.
Shaped(o) ==
    /\ o.kind \in Ops \cup {"none"}
    /\ o.kind \in HandshakeKinds => o.pw \in Password
    /\ o.kind \in RecoverKinds \cup {"password_change"} => o.new \in Password
    /\ o.kind \in {"upgrade", "account_key"} => o.key = LegacyKey(o.pw)
    /\ o.kind \in RecoverKinds \cup {"set_kit"} => o.key # None
    /\ o.kind = "password_change" /\ o.pc \in {"authed", "taken"} => o.key # None

OpShape ==
    /\ \A p \in Proc : Shaped(op[p])
    /\ kit.id # 0 => kit.key # None

\* Ids and stamps lie in the past.
PastInv ==
    /\ changedAt <= now
    /\ \A r \in pending \cup tokens : r.id <= now
    /\ \A g \in grants : g.by <= now
    /\ \A p \in Proc : op[p].id <= now

\* Nothing stored or in flight refers to an id that was already redeemed, and
\* no two operations hold the same redeemed handshake.
UseInv ==
    /\ \A r \in pending \cup tokens : Unused(r.id)
    /\ \A r \in pending, t \in tokens : r.id # t.id
    /\ \A p \in Proc : Redeemed(op[p]) =>
          /\ Unused(op[p].id)
          /\ \A r \in pending \cup tokens : r.id # op[p].id
          /\ \A q \in Proc : Redeemed(op[q]) /\ op[q].id = op[p].id => p = q

\* While the account has no wrapped key its credential has never changed, so
\* every handshake is about the current password ...
UnwrappedInv ==
    /\ cred.kind = "srp" => wrap.key = None
    /\ wrap.key = None =>
          /\ cred.gen = 0
          /\ \A r \in pending : r.pw \in {None, cred.pw}
          /\ \A p \in Proc : /\ op[p].rec \in {None, cred.pw}
                             /\ Redeemed(op[p]) => op[p].pw = cred.pw
    /\ \A p \in Proc : /\ op[p].gen <= cred.gen
                       /\ op[p].kind = "account_key" => cred.kind = "opaque"

\* ... and every key in memory is the one the items are under.
MemoryInv ==
    \A p \in Proc :
        op[p].kind \notin {"upgrade", "account_key"} /\ op[p].key # None
            => op[p].key = dataKey

=============================================================================
