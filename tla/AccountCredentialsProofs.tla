----------------------- MODULE AccountCredentialsProofs -----------------------
(***************************************************************************)
(* Proofs about AccountCredentials, for every set of passwords, every      *)
(* number of concurrent operations and every bound.                        *)
(***************************************************************************)
EXTENDS AccountCredentials, TLAPS

LEMMA IdleType == Idle \in Op
  BY DEF Idle, Op

LEMMA TableType ==
  ASSUME NEW kind \in LoginKinds \cup SessionKinds
  PROVE  Table(kind) \in {"srp", "opaque"} /\ Purpose(kind) \in Purposes
  BY DEF Table, Purpose, Purposes, LoginKinds, SessionKinds

LEMMA OpenType ==
  ASSUME TypeOK, NEW pw
  PROVE  Open(pw) \in Key \cup {None}
  BY DEF Open, TypeOK

\* The operation an action hands to Begin is well typed.
LEMMA BeginType ==
  ASSUME TypeOK, NEW p \in Proc, NEW o \in Op, Begin(p, o)
  PROVE  TypeOK'
  BY DEF TypeOK, Begin, Becomes, users, ghosts

LEMMA OpTypes ==
  ASSUME TypeOK
  PROVE  /\ \A pw \in Password : LoginOp(pw) \in Op /\ SrpOp(pw) \in Op
         /\ \A s \in sessions : /\ MigrationOp("upgrade", s) \in Op
                                /\ MigrationOp("account_key", s) \in Op
         /\ \A s \in sessions, pw, new \in Password : ChangeOp(s, pw, new) \in Op
         /\ \A kind \in RecoverKinds, new \in Password : RecoveryOp(kind, new) \in Op
         /\ \A kind \in KitKinds, s \in sessions : KitOp(kind, s) \in Op
  <1>0. Idle \in Op /\ cred.pw \in Password /\ cred.gen \in Nat
    BY DEF TypeOK, Op, Idle
  <1>1. ASSUME NEW pw \in Password
        PROVE  LoginOp(pw) \in Op /\ SrpOp(pw) \in Op
    <2> DEFINE rec == IF cred.kind = "opaque" THEN cred.pw ELSE None
    <2>1. rec \in Password \cup {None} /\ "login" \in OpKind
      BY <1>0 DEF OpKind, LoginKinds
    <2>2. LoginOp(pw) \in Op
      <3>1. LoginOp(pw) = [Idle EXCEPT !.kind = "login", !.pc = "insert", !.pw = pw,
                                       !.rec = rec, !.gen = cred.gen]
        BY DEF LoginOp
      <3> HIDE DEF rec
      <3>2. QED
        BY <1>0, <2>1, <3>1, ZenonT(40) DEF Op
    <2>3. SrpOp(pw) \in Op
      BY <1>0, ZenonT(40) DEF SrpOp, Op, OpKind, LoginKinds
    <2>4. QED
      BY <2>2, <2>3
  <1>2. ASSUME NEW s \in sessions, NEW kind \in {"upgrade", "account_key"}
        PROVE  MigrationOp(kind, s) \in Op
    <2>1. s.pw \in Password /\ s.id \in Nat
      BY DEF TypeOK, Session
    <2>2. LegacyKey(s.pw) \in Key
      BY <2>1 DEF Key
    <2>3. kind \in OpKind
      BY DEF OpKind, SessionKinds
    <2>4. QED
      BY <1>0, <2>1, <2>2, <2>3 DEF MigrationOp, Op
  <1>3. ASSUME NEW s \in sessions, NEW pw \in Password, NEW new \in Password
        PROVE  ChangeOp(s, pw, new) \in Op
    <2>1. s.id \in Nat /\ Open(pw) \in Key \cup {None}
      BY OpenType DEF TypeOK, Session
    <2>2. "password_change" \in OpKind
      BY DEF OpKind, SessionKinds
    <2>3. QED
      BY <1>0, <2>1, <2>2 DEF ChangeOp, Op
  <1>4. ASSUME NEW kind \in RecoverKinds, NEW new \in Password
        PROVE  RecoveryOp(kind, new) \in Op
    <2>1. kit.id \in Nat /\ kit.key \in Key \cup {None} /\ kind \in OpKind
      BY DEF TypeOK, OpKind
    <2>2. QED
      BY <1>0, <2>1 DEF RecoveryOp, Op
  <1>5. ASSUME NEW kind \in KitKinds, NEW s \in sessions
        PROVE  KitOp(kind, s) \in Op
    <2>1. s.id \in Nat /\ s.key \in Key \cup {None} /\ kind \in OpKind
      BY DEF TypeOK, Session, OpKind
    <2>2. QED
      BY <1>0, <2>1, ZenonT(40) DEF KitOp, Op
  <1>6. QED
    BY <1>1, <1>2, <1>3, <1>4, <1>5

LEMMA StartType ==
  ASSUME TypeOK, NEW p \in Proc, Start(p)
  PROVE  TypeOK'
  BY OpTypes, BeginType
  DEF Start, LoginStart, SrpInit, UpgradeStart, ProofStart, ChangeStart,
      RecoveryInit, KitStart

\* A step that replaces one operation by a well-typed one keeps op typed.
LEMMA BecomesType ==
  ASSUME TypeOK, NEW p \in Proc, NEW o \in Op, Becomes(p, o)
  PROVE  op' \in [Proc -> Op]
  BY DEF TypeOK, Becomes

LEMMA StepTypes ==
  ASSUME TypeOK, NEW o \in Op
  PROVE  /\ \A c \in {"answered", "authed", "taken", "commit"} :
               [o EXCEPT !.pc = c] \in Op
         /\ [o EXCEPT !.pc = "answered", !.id = Stamp] \in Op
         /\ [o EXCEPT !.pc = "commit", !.key = Open(o.pw), !.todo = Todo(o.kind)] \in Op
  <1>1. Stamp \in Nat
    BY DEF Stamp, TypeOK
  <1>2. Open(o.pw) \in Key \cup {None} /\ Todo(o.kind) \in {"none", "upgrade", "account_key"}
    BY OpenType DEF Todo
  <1>3. \A c \in {"answered", "authed", "taken", "commit"} : [o EXCEPT !.pc = c] \in Op
    BY DEF Op
  <1>4. [o EXCEPT !.pc = "answered", !.id = Stamp] \in Op
    BY <1>1 DEF Op
  <1>5. [o EXCEPT !.pc = "commit", !.key = Open(o.pw), !.todo = Todo(o.kind)] \in Op
    BY <1>2, ZenonT(40) DEF Op
  <1>6. QED
    BY <1>3, <1>4, <1>5

LEMMA ContinueType ==
  ASSUME TypeOK, NEW p \in Proc, Continue(p)
  PROVE  TypeOK'
  <1> DEFINE o == op[p]
  <1>0. o \in Op /\ Stamp \in Nat
    BY DEF TypeOK, Stamp
  <1> USE <1>0
  <1>1. CASE InsertPending(p)
    <2> DEFINE row == [id |-> Stamp, table |-> Table(o.kind),
                       purpose |-> Purpose(o.kind), pw |-> o.rec, gen |-> o.gen,
                       expired |-> FALSE]
    <2>1. o.kind \in LoginKinds \cup SessionKinds
      BY <1>1 DEF InsertPending
    <2>2. row \in Row
      BY <2>1, TableType DEF Row, Op
    <2>3. pending' \subseteq Row
      BY <1>1, <2>2 DEF InsertPending, Newest, TypeOK
    <2>4. op' \in [Proc -> Op] /\ now' \in Nat
      BY <1>1, StepTypes, BecomesType DEF InsertPending
    <2>5. QED
      BY <1>1, <2>3, <2>4 DEF InsertPending, TypeOK, users, ghosts
  <1>2. CASE InsertToken(p)
    <2>1. [id |-> Stamp, kit |-> o.kit, expired |-> FALSE] \in Token
      BY DEF Token, Op
    <2>2. tokens' \subseteq Token
      BY <1>2, <2>1 DEF InsertToken, TypeOK
    <2>3. op' \in [Proc -> Op] /\ now' \in Nat
      BY <1>2, StepTypes, BecomesType DEF InsertToken
    <2>4. QED
      BY <1>2, <2>2, <2>3 DEF InsertToken, TypeOK, users, ghosts
  <1>3. CASE Authenticate(p)
    <2>1. op' \in [Proc -> Op]
      BY <1>3, StepTypes, BecomesType DEF Authenticate
    <2>2. QED
      BY <1>3, <2>1, SMTT(30) DEF Authenticate, TypeOK, users, ghosts
  <1>4. CASE TakePending(p)
    <2>1. pending' \subseteq Row
      BY <1>4, SMTT(30) DEF TakePending, TakeRow, TypeOK
    <2>2. op' \in [Proc -> Op]
      BY <1>4, StepTypes, IdleType, BecomesType DEF TakePending
    <2>3. QED
      BY <1>4, <2>1, <2>2 DEF TakePending, TypeOK, users, ghosts
  <1>5. CASE PeekToken(p)
    <2>1. op' \in [Proc -> Op]
      BY <1>5, StepTypes, BecomesType DEF PeekToken
    <2>2. QED
      BY <1>5, <2>1, SMTT(30) DEF PeekToken, TypeOK, users, ghosts
  <1>6. CASE ReadUser(p)
    <2>1. op' \in [Proc -> Op]
      BY <1>6, StepTypes, BecomesType DEF ReadUser
    <2>2. QED
      BY <1>6, <2>1, SMTT(30) DEF ReadUser, TypeOK, users, ghosts
  <1>7. CASE FindSession(p)
    <2>1. op' \in [Proc -> Op]
      BY <1>7, StepTypes, IdleType, BecomesType DEF FindSession
    <2>2. QED
      BY <1>7, <2>1, SMTT(30) DEF FindSession, TypeOK, users, ghosts
  <1>8. QED
    BY <1>1, <1>2, <1>3, <1>4, <1>5, <1>6, <1>7 DEF Continue

LEMMA GrantedType ==
  ASSUME TypeOK, NEW o \in Op, o.kind \in OpKind, NEW res \in Nat, Granted(o, res)
  PROVE  grants' \subseteq Grant
  <1>1. [by |-> o.id, what |-> o.kind, proved |-> o.gen, against |-> cred.gen,
         res |-> res] \in Grant
    BY DEF Grant, TypeOK, Op
  <1>2. QED
    BY <1>1 DEF Granted, TypeOK

LEMMA KeptType ==
  ASSUME TypeOK, NEW sid, NEW key \in Key \cup {None}
  PROVE  Kept(sid, key) \subseteq Session
  <1>1. cred.gen + 1 \in Nat
    BY DEF TypeOK
  <1>2. ASSUME NEW s \in sessions
        PROVE  [s EXCEPT !.gen = cred.gen + 1, !.key = key, !.todo = "none"] \in Session
    BY <1>1, ZenonT(40) DEF TypeOK, Session
  <1>3. QED
    BY <1>2 DEF Kept

LEMMA KeyTypes ==
  /\ \A pw \in Password : LegacyKey(pw) \in Key
  /\ \A o \in Op : o.new \in Password =>
        WrappedForNew(o) \in [pw : Password \cup {None}, key : Key \cup {None}]
  BY DEF Key, LegacyKey, WrappedForNew, Op

LEMMA CommitType ==
  ASSUME TypeOK, OpShape, NEW p \in Proc, Commit(p)
  PROVE  TypeOK'
  <1> DEFINE o == op[p]
  <1>0. o \in Op /\ Stamp \in Nat /\ cred.gen + 1 \in Nat /\ DropTokens \subseteq Token
    BY DEF TypeOK, Stamp, DropTokens
  <1>t. o.key \in Key \cup {None} /\ o.gen \in Nat
    BY <1>0 DEF Op
  <1>a. o.kind \in HandshakeKinds => o.pw \in Password
    BY DEF OpShape, Shaped
  <1>b. o.kind \in RecoverKinds \cup {"password_change"} => o.new \in Password
    BY DEF OpShape, Shaped
  <1>c. DropPendingLogins \subseteq Row
    BY DEF DropPendingLogins, TypeOK
  <1>d. \A k \in LoginKinds \cup SessionKinds \cup RecoverKinds \cup KitKinds : k \in OpKind
    BY DEF OpKind
  <1> USE <1>0, <1>t
  <1>1. CASE IssueSession(p)
    <2>1. o.kind \in LoginKinds /\ o.kind \in OpKind
      BY <1>1, <1>d DEF IssueSession
    <2>2. [id |-> Stamp, gen |-> o.gen, pw |-> o.pw, key |-> o.key,
           todo |-> o.todo, recent |-> TRUE] \in Session
      BY <2>1, <1>a DEF Session, Op, HandshakeKinds
    <2>3. sessions' \subseteq Session
      BY <1>1, <2>2 DEF IssueSession, TypeOK
    <2>4. grants' \subseteq Grant
      BY <1>1, <2>1, GrantedType DEF IssueSession
    <2>5. op' \in [Proc -> Op]
      BY <1>1, IdleType, BecomesType DEF IssueSession
    <2>6. QED
      BY <1>1, <2>3, <2>4, <2>5 DEF IssueSession, TypeOK, users
  <1>2. CASE CompleteSrpUpgrade(p)
    <2>1. o.kind = "upgrade" /\ o.kind \in OpKind /\ o.pw \in Password
      BY <1>2, <1>a DEF CompleteSrpUpgrade, HandshakeKinds, SessionKinds, OpKind
    <2>2. op' \in [Proc -> Op]
      BY <1>2, IdleType, BecomesType DEF CompleteSrpUpgrade
    <2>3. CASE ~HasVerifier
      BY <1>2, <2>2, <2>3 DEF CompleteSrpUpgrade, TypeOK
    <2>4. CASE HasVerifier
      <3>1. grants' \subseteq Grant
        BY <1>2, <2>4, <2>1, GrantedType DEF CompleteSrpUpgrade
      <3>2. sessions' \subseteq Session
        BY <1>2, <2>4, KeptType DEF CompleteSrpUpgrade
      <3>3. cred' \in [kind : {"srp", "opaque"}, pw : Password, gen : Nat]
        BY <1>2, <2>4, <2>1 DEF CompleteSrpUpgrade
      <3>4. wrap' \in [pw : Password \cup {None}, key : Key \cup {None}]
        BY <1>2, <2>4, <2>1 DEF CompleteSrpUpgrade
      <3>5. QED
        BY <1>2, <2>4, <2>2, <1>c, <3>1, <3>2, <3>3, <3>4
        DEF CompleteSrpUpgrade, TypeOK
    <2>5. QED
      BY <2>3, <2>4
  <1>3. CASE SetAccountKey(p)
    <2>1. o.kind = "account_key" /\ o.kind \in OpKind /\ o.pw \in Password
      BY <1>3, <1>a DEF SetAccountKey, HandshakeKinds, SessionKinds, OpKind
    <2>2. op' \in [Proc -> Op]
      BY <1>3, IdleType, BecomesType DEF SetAccountKey
    <2>3. CASE ~NoWrapYet
      BY <1>3, <2>2, <2>3 DEF SetAccountKey, TypeOK
    <2>4. CASE NoWrapYet
      <3>1. grants' \subseteq Grant
        BY <1>3, <2>4, <2>1, GrantedType DEF SetAccountKey
      <3>2. ASSUME NEW s \in sessions
            PROVE  Migrated(s, o) \in Session
        BY ZenonT(40) DEF TypeOK, Session, Migrated
      <3>3. sessions' \subseteq Session
        BY <1>3, <2>4, <3>2 DEF SetAccountKey, TypeOK
      <3>4. wrap' \in [pw : Password \cup {None}, key : Key \cup {None}]
        BY <1>3, <2>4, <2>1 DEF SetAccountKey
      <3>5. QED
        BY <1>3, <2>4, <2>2, <3>1, <3>3, <3>4 DEF SetAccountKey, TypeOK
    <2>5. QED
      BY <2>3, <2>4
  <1>4. CASE ChangePassword(p)
    <2>1. o.kind = "password_change" /\ o.kind \in OpKind /\ o.new \in Password
      BY <1>4, <1>b DEF ChangePassword, SessionKinds, OpKind
    <2>2. op' \in [Proc -> Op]
      BY <1>4, IdleType, BecomesType DEF ChangePassword
    <2>3. grants' \subseteq Grant
      BY <1>4, <2>1, GrantedType DEF ChangePassword
    <2>4. sessions' \subseteq Session
      BY <1>4, KeptType DEF ChangePassword
    <2>5. cred' \in [kind : {"srp", "opaque"}, pw : Password, gen : Nat]
      BY <1>4, <2>1 DEF ChangePassword
    <2>6. wrap' \in [pw : Password \cup {None}, key : Key \cup {None}]
      BY <1>4, <2>1, KeyTypes DEF ChangePassword
    <2>7. QED
      BY <1>4, <1>c, <2>2, <2>3, <2>4, <2>5, <2>6 DEF ChangePassword, TypeOK
  <1>5. ASSUME NEW kind \in {"srp", "opaque"}, CompleteRecovery(p, kind)
        PROVE  TypeOK'
    <2>1. o.kind \in RecoverKinds /\ o.kind \in OpKind /\ o.new \in Password
      BY <1>5, <1>b, <1>d DEF CompleteRecovery
    <2>2. op' \in [Proc -> Op]
      BY <1>5, IdleType, BecomesType DEF CompleteRecovery
    <2>3. CASE ~\E t \in tokens : t.id = o.id
      BY <1>5, <2>2, <2>3 DEF CompleteRecovery, TypeOK, users, ghosts
    <2>4. CASE \E t \in tokens : t.id = o.id
      <3>1. grants' \subseteq Grant
        BY <1>5, <2>4, <2>1, GrantedType DEF CompleteRecovery
      <3>2. cred' \in [kind : {"srp", "opaque"}, pw : Password, gen : Nat]
        BY <1>5, <2>4, <2>1 DEF CompleteRecovery
      <3>3. RecoveredRow(o, kind)
        BY <1>5, <2>4 DEF CompleteRecovery
      <3>4. wrap' \in [pw : Password \cup {None}, key : Key \cup {None}] /\ dataKey' \in Key
        BY <3>3, <2>1, KeyTypes DEF RecoveredRow, TypeOK
      <3>5. now + 1 \in Nat /\ LegacyKey(o.new) \in Key
        BY <2>1, KeyTypes DEF TypeOK
      <3>6. kit' \in [id : Nat, key : Key \cup {None}]
        BY <3>3, <3>5 DEF RecoveredRow, ReplacementKit
      <3>7. QED
        BY <1>5, <2>4, <1>c, <2>2, <3>1, <3>2, <3>4, <3>6 DEF CompleteRecovery, TypeOK
    <2>5. QED
      BY <2>3, <2>4
  <1>6. CASE SetKit(p)
    <2>1. op' \in [Proc -> Op]
      BY <1>6, IdleType, BecomesType DEF SetKit
    <2>2. QED
      BY <1>6, <2>1 DEF SetKit, TypeOK
  <1>7. CASE ClearKit(p)
    <2>1. op' \in [Proc -> Op]
      BY <1>7, IdleType, BecomesType DEF ClearKit
    <2>2. QED
      BY <1>7, <2>1 DEF ClearKit, TypeOK
  <1>8. QED
    BY <1>1, <1>2, <1>3, <1>4, <1>5, <1>6, <1>7 DEF Commit

LEMMA EnvironmentType ==
  ASSUME TypeOK, Environment
  PROVE  TypeOK'
  <1>1. ASSUME NEW p \in Proc, Abort(p)
        PROVE  TypeOK'
    <2>1. op' \in [Proc -> Op]
      BY <1>1, IdleType, BecomesType DEF Abort
    <2>2. QED
      BY <1>1, <2>1 DEF Abort, TypeOK, users, ghosts
  <1>2. ASSUME NEW p \in Proc, NEW q \in Proc, Resend(p, q)
        PROVE  TypeOK'
    <2>1. [op[p] EXCEPT !.pc = "answered"] \in Op
      BY StepTypes DEF TypeOK
    <2>2. op' \in [Proc -> Op]
      BY <1>2, <2>1, BecomesType DEF Resend
    <2>3. QED
      BY <1>2, <2>2, SMTT(30) DEF Resend, TypeOK, users, ghosts
  <1>3. ASSUME NEW s \in sessions, EndSession(s) \/ SignOutOthers(s) \/ AgeSession(s)
        PROVE  TypeOK'
    <2>0. s \in Session
      BY DEF TypeOK
    <2>1. [s EXCEPT !.recent = FALSE] \in Session
      BY <2>0 DEF Session
    <2>2. sessions' \subseteq Session
      BY <1>3, <2>1 DEF EndSession, SignOutOthers, AgeSession, TypeOK
    <2>3. QED
      BY <1>3, <2>2 DEF EndSession, SignOutOthers, AgeSession, TypeOK, users, ghosts
  <1>4. ASSUME NEW r \in pending, ExpirePending(r)
        PROVE  TypeOK'
    <2>0. r \in Row
      BY DEF TypeOK
    <2>1. [r EXCEPT !.expired = TRUE] \in Row
      BY <2>0 DEF Row
    <2>2. pending' \subseteq Row
      BY <1>4, <2>1 DEF ExpirePending, TypeOK
    <2>3. QED
      BY <1>4, <2>2 DEF ExpirePending, TypeOK, users, ghosts
  <1>5. ASSUME NEW t \in tokens, ExpireToken(t)
        PROVE  TypeOK'
    <2>0. t \in Token
      BY DEF TypeOK
    <2>1. [t EXCEPT !.expired = TRUE] \in Token
      BY <2>0 DEF Token
    <2>2. tokens' \subseteq Token
      BY <1>5, <2>1 DEF ExpireToken, TypeOK
    <2>3. QED
      BY <1>5, <2>2 DEF ExpireToken, TypeOK, users, ghosts
  <1>6. ASSUME NEW table, PrunePending(table) \/ PruneTokens
        PROVE  TypeOK'
    BY <1>6 DEF PrunePending, PruneTokens, TypeOK, users, ghosts
  <1>7. QED
    BY <1>1, <1>2, <1>3, <1>4, <1>5, <1>6 DEF Environment

LEMMA InitType == Init => TypeOK
  <1> SUFFICES ASSUME Init PROVE TypeOK
    OBVIOUS
  <1>1. PICK k \in InitKinds, pw \in Password :
          /\ cred = [kind |-> IF k = "srp" THEN "srp" ELSE "opaque", pw |-> pw, gen |-> 0]
          /\ wrap = IF k = "migrated" THEN [pw |-> pw, key |-> LegacyKey(pw)]
                                      ELSE [pw |-> None, key |-> None]
          /\ dataKey = LegacyKey(pw)
    BY DEF Init
  <1>2. dataKey \in Key
    BY <1>1, KeyTypes
  <1>3. cred \in [kind : {"srp", "opaque"}, pw : Password, gen : Nat]
    BY <1>1
  <1>4. wrap \in [pw : Password \cup {None}, key : Key \cup {None}]
    BY <1>1, <1>2
  <1>5. kit \in [id : Nat, key : Key \cup {None}]
    BY <1>2 DEF Init
  <1>6. op \in [Proc -> Op]
    BY IdleType DEF Init
  <1>7. QED
    BY <1>2, <1>3, <1>4, <1>5, <1>6 DEF Init, TypeOK

\* A step that replaces one operation by a shaped one keeps every operation
\* shaped.
LEMMA BecomesShaped ==
  ASSUME TypeOK, OpShape, NEW p \in Proc, NEW o, Shaped(o), Becomes(p, o)
  PROVE  \A q \in Proc : Shaped(op'[q])
  <1>1. op' = [op EXCEPT ![p] = o] /\ op \in [Proc -> Op]
    BY DEF Becomes, TypeOK
  <1>2. \A q \in Proc : op'[q] = IF q = p THEN o ELSE op[q]
    BY <1>1
  <1>3. QED
    BY <1>2 DEF OpShape

LEMMA IdleShaped == Shaped(Idle)
  BY DEF Shaped, Idle, HandshakeKinds, LoginKinds, SessionKinds, RecoverKinds

LEMMA KeyNotNone == \A k \in Key : k # None
  BY ConstAssumption DEF Key, LegacyKey

LEMMA StartShape ==
  ASSUME TypeOK, OpShape, NEW p \in Proc, Start(p)
  PROVE  OpShape'
  <1> USE DEF Shaped, HandshakeKinds, LoginKinds, SessionKinds, RecoverKinds, KitKinds, Idle
  <1>0. ASSUME NEW o, Begin(p, o), o.kind \in Ops => Shaped(o)
        PROVE  OpShape'
    <2>1. Shaped(o) /\ Becomes(p, o) /\ kit' = kit
      BY <1>0 DEF Begin, users
    <2>2. \A q \in Proc : Shaped(op'[q])
      BY <2>1, BecomesShaped
    <2>3. QED
      BY <2>1, <2>2 DEF OpShape
  <1>1. ASSUME NEW pw \in Password, LoginStart(p, pw) \/ SrpInit(p, pw)
        PROVE  OpShape'
    BY <1>0, <1>1 DEF LoginStart, SrpInit, LoginOp, SrpOp
  <1>2. ASSUME NEW s \in sessions, UpgradeStart(p, s) \/ ProofStart(p, s)
        PROVE  OpShape'
    <2>1. s.pw \in Password
      BY DEF TypeOK, Session
    <2>2. QED
      BY <1>0, <1>2, <2>1 DEF UpgradeStart, ProofStart, MigrationOp
  <1>3. ASSUME NEW s \in sessions, NEW pw \in Password, NEW new \in Password,
               ChangeStart(p, s, pw, new)
        PROVE  OpShape'
    BY <1>0, <1>3 DEF ChangeStart, ChangeOp
  <1>4. ASSUME NEW kind \in RecoverKinds, NEW new \in Password, RecoveryInit(p, kind, new)
        PROVE  OpShape'
    <2>1. kit.key # None
      BY <1>4 DEF RecoveryInit, OpShape
    <2>2. QED
      BY <1>0, <1>4, <2>1 DEF RecoveryInit, RecoveryOp
  <1>5. ASSUME NEW s \in sessions, NEW kind \in KitKinds, KitStart(p, s, kind)
        PROVE  OpShape'
    BY <1>0, <1>5 DEF KitStart, KitOp
  <1>6. QED
    BY <1>1, <1>2, <1>3, <1>4, <1>5 DEF Start

LEMMA ContinueShape ==
  ASSUME TypeOK, OpShape, NEW p \in Proc, Continue(p)
  PROVE  OpShape'
  <1> DEFINE o == op[p]
  <1>0. o \in Op /\ Shaped(o) /\ Stamp \in Nat
    BY DEF TypeOK, OpShape, Stamp
  <1>k. kit' = kit
    BY DEF Continue, InsertPending, InsertToken, Authenticate, TakePending, PeekToken,
           ReadUser, FindSession, users
  <1>a. ASSUME NEW n, Shaped(n), Becomes(p, n)
        PROVE  OpShape'
    BY <1>a, <1>k, BecomesShaped DEF OpShape
  <1>1. CASE InsertPending(p) \/ InsertToken(p)
    <2>1. Shaped([o EXCEPT !.pc = "answered", !.id = Stamp])
      BY <1>0 DEF Shaped, Op
    <2>2. QED
      BY <1>1, <1>a, <2>1 DEF InsertPending, InsertToken
  <1>2. CASE Authenticate(p)
    <2>1. Shaped([o EXCEPT !.pc = "authed"])
      BY <1>0, <1>2 DEF Shaped, Op, Authenticate
    <2>2. QED
      BY <1>2, <1>a, <2>1 DEF Authenticate
  <1>3. CASE TakePending(p)
    <2>1. Shaped([o EXCEPT !.pc = "taken"])
      BY <1>0, <1>3 DEF Shaped, Op, TakePending, SessionKinds, LoginKinds
    <2>2. QED
      BY <1>3, <1>a, <2>1, IdleShaped DEF TakePending
  <1>4. CASE PeekToken(p) \/ FindSession(p)
    <2>1. Shaped([o EXCEPT !.pc = "commit"])
      BY <1>0 DEF Shaped, Op
    <2>2. QED
      BY <1>4, <1>a, <2>1, IdleShaped DEF PeekToken, FindSession
  <1>5. CASE ReadUser(p)
    <2>1. Shaped([o EXCEPT !.pc = "commit", !.key = Open(o.pw), !.todo = Todo(o.kind)])
      BY <1>0, <1>5 DEF Shaped, Op, ReadUser, LoginKinds, RecoverKinds
    <2>2. QED
      BY <1>5, <1>a, <2>1 DEF ReadUser
  <1>6. QED
    BY <1>1, <1>2, <1>3, <1>4, <1>5 DEF Continue

LEMMA CommitShape ==
  ASSUME TypeOK, OpShape, NEW p \in Proc, Commit(p)
  PROVE  OpShape'
  <1> DEFINE o == op[p]
  <1>1. Becomes(p, Idle)
    BY DEF Commit, IssueSession, CompleteSrpUpgrade, SetAccountKey, ChangePassword,
           CompleteRecovery, SetKit, ClearKit
  <1>2. \A q \in Proc : Shaped(op'[q])
    BY <1>1, IdleShaped, BecomesShaped
  <1>3. o.kind \in RecoverKinds \cup {"set_kit"} => o.key # None
    BY DEF OpShape, Shaped
  <1>4. o.kind \in RecoverKinds => LegacyKey(o.new) # None
    BY ConstAssumption DEF OpShape, Shaped, LegacyKey
  <1>5. kit' = kit \/ kit'.id = 0 \/ kit'.key # None
    BY <1>3, <1>4
    DEF Commit, IssueSession, CompleteSrpUpgrade, SetAccountKey, ChangePassword,
        CompleteRecovery, RecoveredRow, ReplacementKit, SetKit, ClearKit, users
  <1>6. QED
    BY <1>2, <1>5 DEF OpShape

LEMMA EnvironmentShape ==
  ASSUME TypeOK, OpShape, Environment
  PROVE  OpShape'
  <1>1. kit' = kit
    BY DEF Environment, Abort, Resend, EndSession, SignOutOthers, AgeSession,
           ExpirePending, ExpireToken, PrunePending, PruneTokens, users
  <1>2. ASSUME NEW p \in Proc, Abort(p)
        PROVE  OpShape'
    BY <1>1, <1>2, IdleShaped, BecomesShaped DEF Abort, OpShape
  <1>3. ASSUME NEW p \in Proc, NEW q \in Proc, Resend(p, q)
        PROVE  OpShape'
    <2>1. op[p] \in Op /\ Shaped(op[p])
      BY DEF TypeOK, OpShape
    <2>2. Shaped([op[p] EXCEPT !.pc = "answered"])
      BY <2>1 DEF Shaped, Op
    <2>3. \A r \in Proc : Shaped(op'[r])
      BY <1>3, <2>2, BecomesShaped DEF Resend
    <2>4. QED
      BY <1>1, <2>3 DEF OpShape
  <1>4. CASE op' = op
    BY <1>1, <1>4 DEF OpShape
  <1>5. QED
    BY <1>2, <1>3, <1>4
    DEF Environment, EndSession, SignOutOthers, AgeSession, ExpirePending,
        ExpireToken, PrunePending, PruneTokens

LEMMA InitShape == Init => OpShape
  <1> SUFFICES ASSUME Init PROVE OpShape
    OBVIOUS
  <1>1. \A p \in Proc : Shaped(op[p])
    BY IdleShaped DEF Init
  <1>2. kit.id # 0 => kit.key # None
    BY InitType, KeyNotNone DEF Init, TypeOK
  <1>3. QED
    BY <1>1, <1>2 DEF OpShape

LEMMA ShapeStep ==
  TypeOK /\ OpShape /\ [Next]_vars => TypeOK' /\ OpShape'
  <1> SUFFICES ASSUME TypeOK, OpShape, [Next]_vars PROVE TypeOK' /\ OpShape'
    OBVIOUS
  <1>1. ASSUME NEW p \in Proc, Start(p) \/ Continue(p) \/ Commit(p)
        PROVE  TypeOK' /\ OpShape'
    BY <1>1, StartType, StartShape, ContinueType, ContinueShape, CommitType, CommitShape
  <1>2. CASE Environment
    BY <1>2, EnvironmentType, EnvironmentShape
  <1>3. CASE UNCHANGED vars
    BY <1>3 DEF vars, TypeOK, OpShape
  <1>4. QED
    BY <1>1, <1>2, <1>3 DEF Next

\* Type correctness of the account model: every table, every operation in
\* flight and every record the handlers build stays well formed; together with
\* what an operation carries at each point of its handler (OpShape).
THEOREM TypeCorrect == Spec => [](TypeOK /\ OpShape)
  <1>1. Init => TypeOK /\ OpShape
    BY InitType, InitShape
  <1>2. QED
    BY <1>1, ShapeStep, PTL DEF Spec

-----------------------------------------------------------------------------
(* What a credential change and a kit change leave behind.                 *)

PastAll == PastInv /\ NothingPredatesChange

LEMMA BecomesPast ==
  ASSUME TypeOK, PastInv, NEW p \in Proc, NEW o, Becomes(p, o),
         now' \in Nat, now <= now', o.id <= now'
  PROVE  \A q \in Proc : op'[q].id <= now'
  <1>1. \A q \in Proc : op'[q] = IF q = p THEN o ELSE op[q]
    BY DEF Becomes, TypeOK
  <1>2. \A q \in Proc : op[q].id \in Nat /\ op[q].id <= now
    BY DEF TypeOK, Op, PastInv
  <1>3. QED
    BY <1>1, <1>2 DEF TypeOK

\* A new operation holds no handshake yet.
LEMMA StartBegins ==
  ASSUME NEW p \in Proc, Start(p)
  PROVE  \E o : Begin(p, o) /\ o.id = 0 /\ o.pc \in {"insert", "commit"}
                            /\ (o.pc = "commit" => o.kind \in KitKinds)
  <1> DEFINE Fresh(o) == /\ o.id = 0 /\ o.pc \in {"insert", "commit"}
                         /\ (o.pc = "commit" => o.kind \in KitKinds)
  <1>1. /\ \A pw : Fresh(LoginOp(pw)) /\ Fresh(SrpOp(pw))
        /\ \A kind, s : Fresh(MigrationOp(kind, s))
        /\ \A kind \in KitKinds : \A s : Fresh(KitOp(kind, s))
    BY DEF LoginOp, SrpOp, MigrationOp, KitOp, Idle
  <1>2. \A s, pw, new : Fresh(ChangeOp(s, pw, new))
    BY DEF ChangeOp, Idle
  <1>3. \A kind, new : Fresh(RecoveryOp(kind, new))
    BY DEF RecoveryOp, Idle
  <1> HIDE DEF Fresh
  <1>4. \E o : Begin(p, o) /\ Fresh(o)
    BY <1>1, <1>2, <1>3
    DEF Start, LoginStart, SrpInit, UpgradeStart, ProofStart, ChangeStart,
        RecoveryInit, KitStart
  <1>5. QED
    BY <1>4 DEF Fresh

LEMMA StartPast ==
  ASSUME TypeOK, PastAll, NEW p \in Proc, Start(p)
  PROVE  PastAll'
  <1>1. PICK o : Begin(p, o) /\ o.id = 0
    BY StartBegins
  <1>2. now' = now /\ now \in Nat /\ UNCHANGED <<users, pending, tokens, sessions, ghosts>>
    BY <1>1 DEF Begin, TypeOK
  <1>3. \A q \in Proc : op'[q].id <= now'
    BY <1>1, <1>2, BecomesPast DEF Begin, PastAll
  <1>4. QED
    BY <1>2, <1>3
    DEF PastAll, PastInv, NothingPredatesChange, users, ghosts

\* Rows only leave the tables, sessions only leave or age.
LEMMA ShrinkPast ==
  ASSUME TypeOK, PastAll, now' = now, UNCHANGED <<cred, changedAt, grants>>,
         \A r \in pending' : \E q \in pending : r.id = q.id /\ r.gen = q.gen /\ r.pw = q.pw,
         \A r \in tokens' : \E q \in tokens : r.id = q.id,
         \A s \in sessions' : \E q \in sessions : s.id = q.id /\ s.gen = q.gen,
         \A p \in Proc : op'[p].id <= now'
  PROVE  PastAll'
  <1>1. PastInv'
    BY DEF PastAll, PastInv
  <1>2. NothingPredatesChange'
    BY DEF PastAll, NothingPredatesChange
  <1>3. QED
    BY <1>1, <1>2 DEF PastAll

LEMMA ContinuePast ==
  ASSUME TypeOK, PastAll, NEW p \in Proc, Continue(p)
  PROVE  PastAll'
  <1> DEFINE o == op[p]
  <1>0. o \in Op /\ now \in Nat /\ Stamp = now + 1 /\ o.id \in Nat /\ o.id <= now
    BY DEF TypeOK, Stamp, Op, PastAll, PastInv
  <1>n. /\ \A r \in pending : r.id \in Nat
        /\ \A r \in tokens : r.id \in Nat
        /\ changedAt \in Nat
        /\ \A g \in grants : g.by \in Nat
    BY DEF TypeOK, Row, Token, Grant
  <1>1. CASE InsertPending(p)
    <2>1. now' = Stamp /\ now <= now' /\ now' \in Nat
      BY <1>0, <1>1 DEF InsertPending
    <2>2. \A q \in Proc : op'[q].id <= now'
      <3>1. [o EXCEPT !.pc = "answered", !.id = Stamp].id <= now'
        BY <1>0, <2>1 DEF Op
      <3>2. QED
        BY <1>1, <2>1, <3>1, BecomesPast DEF InsertPending, PastAll
    <2>3. \A r \in pending' : r.id = Stamp \/ r \in pending
      BY <1>1 DEF InsertPending, Newest
    <2>4. UNCHANGED <<cred, tokens, sessions, changedAt, grants>>
      BY <1>1 DEF InsertPending, users, ghosts
    <2>5. PastInv'
      BY <1>0, <1>n, <2>1, <2>2, <2>3, <2>4 DEF PastAll, PastInv
    <2>6. NothingPredatesChange'
      BY <1>0, <1>n, <2>1, <2>3, <2>4 DEF PastAll, PastInv, NothingPredatesChange
    <2>7. QED
      BY <2>5, <2>6 DEF PastAll
  <1>2. CASE InsertToken(p)
    <2>1. now' = Stamp /\ now <= now' /\ now' \in Nat
      BY <1>0, <1>2 DEF InsertToken
    <2>2. \A q \in Proc : op'[q].id <= now'
      <3>1. [o EXCEPT !.pc = "answered", !.id = Stamp].id <= now'
        BY <1>0, <2>1 DEF Op
      <3>2. QED
        BY <1>2, <2>1, <3>1, BecomesPast DEF InsertToken, PastAll
    <2>3. \A r \in tokens' : r.id = Stamp \/ r \in tokens
      BY <1>2 DEF InsertToken
    <2>4. UNCHANGED <<cred, pending, sessions, changedAt, grants>>
      BY <1>2 DEF InsertToken, users, ghosts
    <2>5. PastInv'
      BY <1>0, <1>n, <2>1, <2>2, <2>3, <2>4 DEF PastAll, PastInv
    <2>6. QED
      BY <2>4, <2>5 DEF PastAll, NothingPredatesChange
  <1>3. CASE Authenticate(p) \/ TakePending(p) \/ PeekToken(p) \/ ReadUser(p) \/ FindSession(p)
    <2>1. now' = now /\ UNCHANGED <<cred, tokens, sessions, changedAt, grants>>
      BY <1>3 DEF Authenticate, TakePending, PeekToken, ReadUser, FindSession, users, ghosts
    <2>2. pending' \subseteq pending
      BY <1>3 DEF Authenticate, TakePending, TakeRow, PeekToken, ReadUser, FindSession
    <2>a. /\ \A c : [o EXCEPT !.pc = c].id = o.id
          /\ [o EXCEPT !.pc = "commit", !.key = Open(o.pw), !.todo = Todo(o.kind)].id = o.id
          /\ Idle.id = 0
      BY <1>0 DEF Op, Idle
    <2>3. PICK n : Becomes(p, n) /\ n.id \in {0, o.id}
      BY <1>3, <2>a DEF Authenticate, TakePending, PeekToken, ReadUser, FindSession
    <2>4. \A q \in Proc : op'[q].id <= now'
      BY <1>0, <2>1, <2>3, BecomesPast DEF PastAll
    <2>5. QED
      BY <2>1, <2>2, <2>4, ShrinkPast
  <1>4. QED
    BY <1>1, <1>2, <1>3 DEF Continue

LEMMA EnvironmentPast ==
  ASSUME TypeOK, PastAll, Environment
  PROVE  PastAll'
  <1>0. now \in Nat /\ now' = now /\ UNCHANGED <<cred, changedAt, grants>>
    BY DEF TypeOK, Environment, Abort, Resend, EndSession, SignOutOthers, AgeSession,
           ExpirePending, ExpireToken, PrunePending, PruneTokens, users, ghosts
  <1>1. \A q \in Proc : op'[q].id <= now'
    <2>0. \A q \in Proc : op[q] \in Op /\ op[q].id <= now
      BY DEF TypeOK, PastAll, PastInv
    <2>1. ASSUME NEW p \in Proc, Abort(p)
          PROVE  \A q \in Proc : op'[q].id <= now'
      BY <1>0, <2>1, BecomesPast DEF Abort, Idle, PastAll
    <2>2. ASSUME NEW p \in Proc, NEW r \in Proc, Resend(p, r)
          PROVE  \A q \in Proc : op'[q].id <= now'
      <3>1. [op[p] EXCEPT !.pc = "answered"].id <= now'
        BY <1>0, <2>0 DEF Op
      <3>2. Becomes(r, [op[p] EXCEPT !.pc = "answered"]) /\ now <= now'
        BY <1>0, <2>2 DEF Resend
      <3>3. QED
        BY <1>0, <3>1, <3>2, BecomesPast DEF PastAll
    <2>3. QED
      BY <1>0, <2>0, <2>1, <2>2
      DEF Environment, EndSession, SignOutOthers, AgeSession, ExpirePending,
          ExpireToken, PrunePending, PruneTokens
  <1>2. \A r \in pending' : \E q \in pending : r.id = q.id /\ r.gen = q.gen /\ r.pw = q.pw
    <2>1. ASSUME NEW q \in pending, ExpirePending(q), NEW r \in pending'
          PROVE  r \in pending \/ (r.id = q.id /\ r.gen = q.gen /\ r.pw = q.pw)
      BY <2>1 DEF ExpirePending, TypeOK, Row
    <2>2. (\E q \in pending : ExpirePending(q)) \/ pending' \subseteq pending
      BY DEF Environment, Abort, Resend, EndSession, SignOutOthers, AgeSession,
             ExpireToken, PrunePending, PruneTokens
    <2>3. QED
      BY <2>1, <2>2
  <1>3. \A r \in tokens' : \E q \in tokens : r.id = q.id
    <2>1. ASSUME NEW q \in tokens, ExpireToken(q), NEW r \in tokens'
          PROVE  r \in tokens \/ r.id = q.id
      BY <2>1 DEF ExpireToken, TypeOK, Token
    <2>2. (\E q \in tokens : ExpireToken(q)) \/ tokens' \subseteq tokens
      BY DEF Environment, Abort, Resend, EndSession, SignOutOthers, AgeSession,
             ExpirePending, PrunePending, PruneTokens
    <2>3. QED
      BY <2>1, <2>2
  <1>4. \A s \in sessions' : \E q \in sessions : s.id = q.id /\ s.gen = q.gen
    <2>1. ASSUME NEW q \in sessions, AgeSession(q), NEW s \in sessions'
          PROVE  s \in sessions \/ (s.id = q.id /\ s.gen = q.gen)
      BY <2>1 DEF AgeSession, TypeOK, Session
    <2>2. (\E q \in sessions : AgeSession(q)) \/ sessions' \subseteq sessions
      BY DEF Environment, Abort, Resend, EndSession, SignOutOthers, ExpirePending,
             ExpireToken, PrunePending, PruneTokens
    <2>3. QED
      BY <2>1, <2>2
  <1>5. QED
    BY <1>0, <1>1, <1>2, <1>3, <1>4, ShrinkPast

\* Kept, for the session-holding credential changes.
LEMMA KeptGen ==
  ASSUME TypeOK, NEW sid, NEW key
  PROVE  \A s \in Kept(sid, key) : s.gen = cred.gen + 1
  <1>1. ASSUME NEW x \in sessions
        PROVE  [x EXCEPT !.gen = cred.gen + 1, !.key = key, !.todo = "none"].gen = cred.gen + 1
    BY DEF TypeOK, Session
  <1>2. QED
    BY <1>1 DEF Kept

LEMMA CommitPast ==
  ASSUME TypeOK, OpShape, PastAll, NEW p \in Proc, Commit(p)
  PROVE  PastAll'
  <1> DEFINE o == op[p]
  <1>0. o \in Op /\ now \in Nat /\ Stamp = now + 1 /\ o.id \in Nat /\ o.id <= now
    BY DEF TypeOK, Stamp, Op, PastAll, PastInv
  <1>n. /\ \A r \in pending : r.id \in Nat
        /\ \A r \in tokens : r.id \in Nat
        /\ changedAt \in Nat
        /\ \A g \in grants : g.by \in Nat
    BY DEF TypeOK, Row, Token, Grant
  <1>i. Becomes(p, Idle) /\ Idle.id = 0
    BY DEF Commit, IssueSession, CompleteSrpUpgrade, SetAccountKey, ChangePassword,
           CompleteRecovery, SetKit, ClearKit, Idle
  <1>w. now' = now \/ now' = Stamp
    BY DEF Commit, IssueSession, CompleteSrpUpgrade, SetAccountKey, ChangePassword,
           CompleteRecovery, SetKit, ClearKit
  <1>o. \A q \in Proc : op'[q].id <= now'
    BY <1>0, <1>i, <1>w, BecomesPast DEF PastAll
  <1>g. \A g \in grants' : g \in grants \/ g.by = o.id
    BY DEF Commit, IssueSession, CompleteSrpUpgrade, SetAccountKey, ChangePassword,
           CompleteRecovery, SetKit, ClearKit, Granted, ghosts
  <1>r. pending' \subseteq pending /\ tokens' \subseteq tokens
    BY DEF Commit, IssueSession, CompleteSrpUpgrade, SetAccountKey, ChangePassword,
           CompleteRecovery, SetKit, ClearKit, DropPendingLogins, DropTokens
  <1>s. changedAt' \in {changedAt, now'}
    BY DEF Commit, IssueSession, CompleteSrpUpgrade, SetAccountKey, ChangePassword,
           CompleteRecovery, SetKit, ClearKit, ghosts
  <1>1. PastInv'
    BY <1>0, <1>n, <1>w, <1>o, <1>g, <1>r, <1>s DEF PastAll, PastInv
  <1>2. NothingPredatesChange'
    <2>a. \A r \in DropPendingLogins : r.pw = None
      BY DEF DropPendingLogins
    <2>1. CASE UNCHANGED <<cred, changedAt, sessions>>
      BY <2>1, <1>r DEF PastAll, NothingPredatesChange
    <2>2. CASE IssueSession(p)
      <3>1. \A s \in sessions' : s \in sessions \/ s.id = Stamp
        BY <2>2 DEF IssueSession
      <3>2. UNCHANGED <<cred, changedAt>>
        BY <2>2 DEF IssueSession, users
      <3>3. QED
        BY <3>1, <3>2, <1>0, <1>n, <1>r DEF PastAll, PastInv, NothingPredatesChange
    <2>3. CASE SetAccountKey(p)
      <3>1. ASSUME NEW s \in sessions
            PROVE  Migrated(s, o).id = s.id /\ Migrated(s, o).gen = s.gen
        BY DEF Migrated, TypeOK, Session
      <3>2. \A s \in sessions' : \E q \in sessions : s.id = q.id /\ s.gen = q.gen
        BY <2>3, <3>1 DEF SetAccountKey
      <3>3. UNCHANGED <<cred, changedAt>>
        BY <2>3 DEF SetAccountKey
      <3>4. QED
        BY <3>2, <3>3, <1>r DEF PastAll, NothingPredatesChange
    <2>4. CASE /\ cred'.gen = cred.gen + 1
               /\ pending' = DropPendingLogins
               /\ sessions' = Kept(o.sid, o.key) \/ sessions' = {}
      BY <2>4, <2>a, KeptGen DEF NothingPredatesChange
    <2>5. QED
      BY <2>1, <2>2, <2>3, <2>4
      DEF Commit, CompleteSrpUpgrade, ChangePassword, CompleteRecovery, SetKit,
          ClearKit, users, ghosts
  <1>3. QED
    BY <1>1, <1>2 DEF PastAll

LEMMA InitPast == Init => PastAll
  BY DEF Init, PastAll, PastInv, NothingPredatesChange, Idle

LEMMA PastStep ==
  TypeOK /\ OpShape /\ PastAll /\ [Next]_vars => PastAll'
  <1> SUFFICES ASSUME TypeOK, OpShape, PastAll, [Next]_vars PROVE PastAll'
    OBVIOUS
  <1>1. ASSUME NEW p \in Proc, Start(p) \/ Continue(p) \/ Commit(p)
        PROVE  PastAll'
    BY <1>1, StartPast, ContinuePast, CommitPast
  <1>2. CASE Environment
    BY <1>2, EnvironmentPast
  <1>3. CASE UNCHANGED vars
    BY <1>3 DEF vars, PastAll, PastInv, NothingPredatesChange
  <1>4. QED
    BY <1>1, <1>2, <1>3 DEF Next

LEMMA PastAlways == Spec => []PastAll
  BY TypeCorrect, InitPast, PastStep, PTL DEF Spec

\* A password change, an upgrade or a recovery deletes every handshake stored
\* for the replaced credential and every session it authenticated, except the
\* one that proved the password, whatever requests are in flight: what still
\* refers to an older credential was inserted after the change.
THEOREM ChangeRevokes == Spec => []NothingPredatesChange
  <1>1. PastAll => NothingPredatesChange
    BY DEF PastAll
  <1>2. QED
    BY <1>1, PastAlways, PTL

-----------------------------------------------------------------------------
(* One outcome per handshake or token.                                     *)

UseAll == UseInv /\ SingleUse

LEMMA OneOp ==
  ASSUME TypeOK, NEW p \in Proc, NEW o, Becomes(p, o)
  PROVE  \A q \in Proc : op'[q] = IF q = p THEN o ELSE op[q]
  BY DEF TypeOK, Becomes

\* A step that redeems nothing: rows only disappear, and no operation comes to
\* hold a redeemed handshake it did not hold.
LEMMA UseFrame ==
  ASSUME UseAll, grants' = grants,
         \A r \in pending' : \E q \in pending : r.id = q.id,
         \A r \in tokens' : \E q \in tokens : r.id = q.id,
         \A q \in Proc : Redeemed(op'[q]) => Redeemed(op[q]) /\ op'[q].id = op[q].id
  PROVE  UseAll'
  <1>1. \A id : Unused(id) => \A g \in grants' : g.by # id
    BY DEF Unused
  <1>2. \A r \in pending' \cup tokens' : \E q \in pending \cup tokens : r.id = q.id
    OBVIOUS
  <1>3. \A r \in pending' \cup tokens' : (\A g \in grants' : g.by # r.id)
    BY <1>1, <1>2 DEF UseAll, UseInv
  <1>4. \A r \in pending', t \in tokens' : r.id # t.id
    BY DEF UseAll, UseInv
  <1>5. ASSUME NEW p \in Proc, Redeemed(op'[p])
        PROVE  /\ (\A g \in grants' : g.by # op'[p].id)
               /\ \A r \in pending' \cup tokens' : r.id # op'[p].id
               /\ \A q \in Proc : Redeemed(op'[q]) /\ op'[q].id = op'[p].id => p = q
    BY <1>1, <1>2, <1>5 DEF UseAll, UseInv
  <1>6. UseInv'
    BY <1>3, <1>4, <1>5 DEF UseInv, Redeemed, Unused
  <1>7. QED
    BY <1>6 DEF UseAll, SingleUse

\* A step that accepts the handshake or the token of operation p.
LEMMA UseGrant ==
  ASSUME TypeOK, UseAll, NEW p \in Proc, NEW res, Granted(op[p], res), Becomes(p, Idle),
         Unused(op[p].id),
         pending' \subseteq pending, tokens' \subseteq tokens,
         \A r \in pending' \cup tokens' : r.id # op[p].id,
         \A q \in Proc : Redeemed(op[q]) /\ op[q].id = op[p].id => q = p
  PROVE  UseAll'
  <1> DEFINE o == op[p]
             g == [by |-> o.id, what |-> o.kind, proved |-> o.gen,
                   against |-> cred.gen, res |-> res]
  <1>1. grants' = grants \cup {g} /\ g.by = op[p].id
    BY DEF Granted
  <1> HIDE DEF g
  <1>2. \A id : Unused(id) /\ id # op[p].id => \A h \in grants' : h.by # id
    BY <1>1 DEF Unused
  <1>3. \A q \in Proc : Redeemed(op'[q]) => q # p /\ op'[q] = op[q]
    BY OneOp DEF Redeemed, Idle, HandshakeKinds, LoginKinds, SessionKinds
  <1>4. \A r \in pending' \cup tokens' : (\A h \in grants' : h.by # r.id)
    BY <1>2 DEF UseAll, UseInv
  <1>5. ASSUME NEW q \in Proc, Redeemed(op'[q])
        PROVE  /\ (\A h \in grants' : h.by # op'[q].id)
               /\ \A r \in pending' \cup tokens' : r.id # op'[q].id
               /\ \A w \in Proc : Redeemed(op'[w]) /\ op'[w].id = op'[q].id => q = w
    <2>1. q # p /\ op'[q] = op[q] /\ Redeemed(op[q])
      BY <1>3, <1>5
    <2>2. op[q].id # op[p].id
      BY <2>1
    <2>3. QED
      BY <1>2, <1>3, <2>1, <2>2 DEF UseAll, UseInv
  <1>6. UseInv'
    BY <1>4, <1>5 DEF UseAll, UseInv, Redeemed, Unused
  <1>7. SingleUse'
    BY <1>1 DEF UseAll, SingleUse, Unused
  <1>8. QED
    BY <1>6, <1>7 DEF UseAll

LEMMA StartUse ==
  ASSUME TypeOK, UseAll, NEW p \in Proc, Start(p)
  PROVE  UseAll'
  <1>1. PICK o : /\ Begin(p, o) /\ o.pc \in {"insert", "commit"}
                 /\ (o.pc = "commit" => o.kind \in KitKinds)
    BY StartBegins
  <1>2. ~Redeemed(o)
    BY <1>1 DEF Redeemed, HandshakeKinds, LoginKinds, SessionKinds, KitKinds
  <1>3. \A q \in Proc : Redeemed(op'[q]) => Redeemed(op[q]) /\ op'[q].id = op[q].id
    BY <1>1, <1>2, OneOp DEF Begin
  <1>4. QED
    BY <1>1, <1>3, UseFrame DEF Begin, ghosts

LEMMA ContinueUse ==
  ASSUME TypeOK, PastInv, UseAll, NEW p \in Proc, Continue(p)
  PROVE  UseAll'
  <1> DEFINE o == op[p]
  <1>0. o \in Op /\ now \in Nat /\ Stamp = now + 1
    BY DEF TypeOK, Stamp
  <1>n. /\ \A r \in pending \cup tokens : r.id \in Nat /\ r.id <= now
        /\ \A g \in grants : g.by \in Nat /\ g.by <= now
        /\ \A q \in Proc : op[q].id \in Nat /\ op[q].id <= now
    BY DEF TypeOK, Row, Token, Grant, Op, PastInv
  <1>g. grants' = grants
    BY DEF Continue, InsertPending, InsertToken, Authenticate, TakePending, PeekToken,
           ReadUser, FindSession, ghosts
  <1>1. CASE InsertPending(p) \/ InsertToken(p)
    <2>1. ~Redeemed([o EXCEPT !.pc = "answered", !.id = Stamp])
      BY <1>0 DEF Redeemed, Op
    <2>2. \A q \in Proc : Redeemed(op'[q]) => q # p /\ op'[q] = op[q]
      BY <1>1, <2>1, OneOp DEF InsertPending, InsertToken
    <2>3. \A id : Unused(id) => \A g \in grants' : g.by # id
      BY <1>g DEF Unused
    <2>4. Unused(Stamp)
      BY <1>0, <1>n DEF Unused
    <2>5. \/ (\A r \in pending' : r.id = Stamp \/ r \in pending) /\ tokens' = tokens
          \/ (\A r \in tokens' : r.id = Stamp \/ r \in tokens) /\ pending' = pending
      <3>1. CASE InsertPending(p)
        BY <3>1 DEF InsertPending, Newest
      <3>2. CASE InsertToken(p)
        BY <3>2 DEF InsertToken
      <3>3. QED
        BY <1>1, <3>1, <3>2
    <2>6. \A r \in pending' \cup tokens' : r.id = Stamp \/ r \in pending \cup tokens
      BY <2>5
    <2>7. \A r \in pending', t \in tokens' : r.id # t.id
      BY <1>0, <1>n, <2>5 DEF UseAll, UseInv
    <2>8. ASSUME NEW q \in Proc, Redeemed(op'[q])
          PROVE  /\ (\A g \in grants' : g.by # op'[q].id)
                 /\ \A r \in pending' \cup tokens' : r.id # op'[q].id
                 /\ \A w \in Proc : Redeemed(op'[w]) /\ op'[w].id = op'[q].id => q = w
      <3>1. op'[q] = op[q] /\ Redeemed(op[q]) /\ op[q].id # Stamp
        BY <1>0, <1>n, <2>2, <2>8
      <3>2. QED
        BY <2>2, <2>3, <2>6, <3>1 DEF UseAll, UseInv
    <2>9. UseInv'
      BY <2>3, <2>4, <2>6, <2>7, <2>8 DEF UseAll, UseInv, Redeemed, Unused
    <2>10. QED
      BY <2>9, <1>g DEF UseAll, SingleUse
  <1>2. CASE TakePending(p)
    <2>1. pending' = TakeRow(o.id) /\ tokens' = tokens
      BY <1>2 DEF TakePending
    <2>2. CASE Becomes(p, Idle)
      <3>1. \A q \in Proc : Redeemed(op'[q]) => Redeemed(op[q]) /\ op'[q].id = op[q].id
        BY <2>2, OneOp DEF Redeemed, Idle, HandshakeKinds, LoginKinds, SessionKinds
      <3>2. QED
        BY <1>g, <2>1, <3>1, UseFrame DEF TakeRow
    <2>3. CASE /\ Becomes(p, [o EXCEPT !.pc = "taken"])
               /\ \E r \in pending : r.id = o.id
      <3> DEFINE n == [o EXCEPT !.pc = "taken"]
      <3>1. n.id = o.id
        BY <1>0 DEF Op
      <3>2. \A q \in Proc : Redeemed(op[q]) => op[q].id # o.id
        BY <2>3 DEF UseAll, UseInv
      <3>3. Unused(o.id) /\ \A r \in pending' \cup tokens' : r.id # o.id
        BY <2>1, <2>3 DEF TakeRow, UseAll, UseInv
      <3>4. \A q \in Proc : op'[q] = IF q = p THEN n ELSE op[q]
        BY <2>3, OneOp
      <3>5. pending' \subseteq pending
        BY <2>1 DEF TakeRow
      <3>6. \A id : Unused(id) => \A g \in grants' : g.by # id
        BY <1>g DEF Unused
      <3> HIDE DEF n
      <3>7. ASSUME NEW q \in Proc, Redeemed(op'[q])
            PROVE  /\ (\A g \in grants' : g.by # op'[q].id)
                   /\ \A r \in pending' \cup tokens' : r.id # op'[q].id
                   /\ \A w \in Proc : Redeemed(op'[w]) /\ op'[w].id = op'[q].id => q = w
        <4>1. CASE q = p
          BY <3>1, <3>2, <3>3, <3>4, <3>6, <4>1
        <4>2. CASE q # p
          <5>1. op'[q] = op[q] /\ Redeemed(op[q])
            BY <3>4, <3>7, <4>2
          <5>2. QED
            BY <2>1, <3>1, <3>2, <3>4, <3>5, <3>6, <5>1 DEF UseAll, UseInv
        <4>3. QED
          BY <4>1, <4>2
      <3>8. UseInv'
        BY <2>1, <3>5, <3>6, <3>7 DEF UseAll, UseInv, Redeemed, Unused
      <3>9. QED
        BY <3>8, <1>g DEF UseAll, SingleUse
    <2>4. QED
      BY <1>2, <2>2, <2>3 DEF TakePending
  <1>3. CASE Authenticate(p) \/ PeekToken(p) \/ ReadUser(p) \/ FindSession(p)
    <2>1. pending' = pending /\ tokens' = tokens
      BY <1>3 DEF Authenticate, PeekToken, ReadUser, FindSession
    <2>2. ASSUME NEW n, Becomes(p, n), Redeemed(n) => Redeemed(o) /\ n.id = o.id
          PROVE  UseAll'
      <3>1. \A q \in Proc : Redeemed(op'[q]) => Redeemed(op[q]) /\ op'[q].id = op[q].id
        BY <2>2, OneOp
      <3>2. QED
        BY <1>g, <2>1, <3>1, UseFrame
    <2>3. ~Redeemed(Idle) /\ ~Redeemed([o EXCEPT !.pc = "authed"])
      BY <1>0 DEF Redeemed, Idle, Op, HandshakeKinds, LoginKinds, SessionKinds
    <2>4. CASE Authenticate(p)
      BY <2>2, <2>3, <2>4 DEF Authenticate
    <2>5. CASE PeekToken(p)
      <3>1. ~Redeemed([o EXCEPT !.pc = "commit"])
        BY <1>0, <2>5
        DEF PeekToken, Redeemed, Op, HandshakeKinds, LoginKinds, SessionKinds, RecoverKinds
      <3>2. QED
        BY <2>2, <2>5, <3>1 DEF PeekToken
    <2>6. CASE ReadUser(p)
      <3> DEFINE n == [o EXCEPT !.pc = "commit", !.key = Open(o.pw), !.todo = Todo(o.kind)]
      <3>1. Redeemed(o) /\ n.id = o.id
        BY <1>0, <2>6 DEF ReadUser, Redeemed, Op, HandshakeKinds
      <3>2. QED
        BY <2>2, <2>6, <3>1 DEF ReadUser
    <2>7. CASE FindSession(p)
      <3>1. Redeemed(o) /\ [o EXCEPT !.pc = "commit"].id = o.id
        BY <1>0, <2>7 DEF FindSession, Redeemed, Op, HandshakeKinds, SessionKinds
      <3>2. QED
        BY <2>2, <2>3, <2>7, <3>1 DEF FindSession
    <2>8. QED
      BY <1>3, <2>4, <2>5, <2>6, <2>7
  <1>4. QED
    BY <1>1, <1>2, <1>3 DEF Continue

LEMMA CommitUse ==
  ASSUME TypeOK, UseAll, NEW p \in Proc, Commit(p)
  PROVE  UseAll'
  <1> DEFINE o == op[p]
  <1>i. Becomes(p, Idle) /\ pending' \subseteq pending /\ tokens' \subseteq tokens
    BY DEF Commit, IssueSession, CompleteSrpUpgrade, SetAccountKey, ChangePassword,
           CompleteRecovery, SetKit, ClearKit, DropPendingLogins, DropTokens
  <1>a. CASE grants' = grants
    <2>1. \A q \in Proc : Redeemed(op'[q]) => Redeemed(op[q]) /\ op'[q].id = op[q].id
      BY <1>i, OneOp DEF Redeemed, Idle, HandshakeKinds, LoginKinds, SessionKinds
    <2>2. QED
      BY <1>i, <1>a, <2>1, UseFrame
  <1>b. ASSUME NEW res, Granted(o, res), Redeemed(o)
        PROVE  UseAll'
    <2>1. /\ Unused(o.id)
          /\ \A r \in pending' \cup tokens' : r.id # o.id
          /\ \A q \in Proc : Redeemed(op[q]) /\ op[q].id = o.id => q = p
      BY <1>b, <1>i DEF UseAll, UseInv
    <2>2. QED
      BY <1>b, <1>i, <2>1, UseGrant
  <1>1. CASE IssueSession(p)
    <2>1. Redeemed(o) /\ Granted(o, Stamp)
      BY <1>1 DEF IssueSession, Redeemed, HandshakeKinds
    <2>2. QED
      BY <1>b, <2>1
  <1>2. CASE CompleteSrpUpgrade(p)
    <2>1. Redeemed(o) /\ (Granted(o, cred.gen + 1) \/ grants' = grants)
      BY <1>2 DEF CompleteSrpUpgrade, Redeemed, HandshakeKinds, SessionKinds
    <2>2. QED
      BY <1>a, <1>b, <2>1
  <1>3. CASE SetAccountKey(p)
    <2>1. Redeemed(o) /\ (Granted(o, 0) \/ grants' = grants)
      BY <1>3 DEF SetAccountKey, Redeemed, HandshakeKinds, SessionKinds
    <2>2. QED
      BY <1>a, <1>b, <2>1
  <1>4. CASE ChangePassword(p)
    <2>1. Redeemed(o) /\ Granted(o, cred.gen + 1)
      BY <1>4 DEF ChangePassword, Redeemed, HandshakeKinds, SessionKinds
    <2>2. QED
      BY <1>b, <2>1
  <1>5. ASSUME NEW kind, CompleteRecovery(p, kind)
        PROVE  UseAll'
    <2>1. CASE ~\E t \in tokens : t.id = o.id
      <3>1. grants' = grants
        BY <1>5, <2>1 DEF CompleteRecovery, ghosts
      <3>2. QED
        BY <1>a, <3>1
    <2>2. CASE \E t \in tokens : t.id = o.id
      <3>1. Granted(o, cred.gen + 1) /\ tokens' = {}
        BY <1>5, <2>2 DEF CompleteRecovery, DropTokens
      <3>2. Unused(o.id) /\ \A q \in Proc : Redeemed(op[q]) => op[q].id # o.id
        BY <2>2 DEF UseAll, UseInv
      <3>3. \A r \in pending' \cup tokens' : r.id # o.id
        BY <1>i, <2>2, <3>1 DEF UseAll, UseInv
      <3>4. QED
        BY <1>i, <3>1, <3>2, <3>3, UseGrant
    <2>3. QED
      BY <2>1, <2>2
  <1>6. CASE SetKit(p) \/ ClearKit(p)
    <2>1. grants' = grants
      BY <1>6 DEF SetKit, ClearKit
    <2>2. QED
      BY <1>a, <2>1
  <1>7. QED
    BY <1>1, <1>2, <1>3, <1>4, <1>5, <1>6 DEF Commit

LEMMA EnvironmentUse ==
  ASSUME TypeOK, UseAll, Environment
  PROVE  UseAll'
  <1>0. grants' = grants
    BY DEF Environment, Abort, Resend, EndSession, SignOutOthers, AgeSession,
           ExpirePending, ExpireToken, PrunePending, PruneTokens, ghosts
  <1>1. \A q \in Proc : Redeemed(op'[q]) => Redeemed(op[q]) /\ op'[q].id = op[q].id
    <2>1. ASSUME NEW p \in Proc, Abort(p)
          PROVE  \A q \in Proc : Redeemed(op'[q]) => op'[q] = op[q]
      BY <2>1, OneOp DEF Abort, Redeemed, Idle, HandshakeKinds, LoginKinds, SessionKinds
    <2>2. ASSUME NEW p \in Proc, NEW r \in Proc, Resend(p, r)
          PROVE  \A q \in Proc : Redeemed(op'[q]) => op'[q] = op[q]
      <3>1. ~Redeemed([op[p] EXCEPT !.pc = "answered"])
        BY DEF Redeemed, TypeOK, Op
      <3>2. QED
        BY <2>2, <3>1, OneOp DEF Resend
    <2>3. QED
      BY <2>1, <2>2
      DEF Environment, EndSession, SignOutOthers, AgeSession, ExpirePending,
          ExpireToken, PrunePending, PruneTokens
  <1>2. \A r \in pending' : \E q \in pending : r.id = q.id
    <2>1. ASSUME NEW q \in pending, ExpirePending(q), NEW r \in pending'
          PROVE  r \in pending \/ r.id = q.id
      BY <2>1 DEF ExpirePending, TypeOK, Row
    <2>2. (\E q \in pending : ExpirePending(q)) \/ pending' \subseteq pending
      BY DEF Environment, Abort, Resend, EndSession, SignOutOthers, AgeSession,
             ExpireToken, PrunePending, PruneTokens
    <2>3. QED
      BY <2>1, <2>2
  <1>3. \A r \in tokens' : \E q \in tokens : r.id = q.id
    <2>1. ASSUME NEW q \in tokens, ExpireToken(q), NEW r \in tokens'
          PROVE  r \in tokens \/ r.id = q.id
      BY <2>1 DEF ExpireToken, TypeOK, Token
    <2>2. (\E q \in tokens : ExpireToken(q)) \/ tokens' \subseteq tokens
      BY DEF Environment, Abort, Resend, EndSession, SignOutOthers, AgeSession,
             ExpirePending, PrunePending, PruneTokens
    <2>3. QED
      BY <2>1, <2>2
  <1>4. QED
    BY <1>0, <1>1, <1>2, <1>3, UseFrame

LEMMA InitUse == Init => UseAll
  BY DEF Init, UseAll, UseInv, SingleUse, Redeemed, Unused, Idle, HandshakeKinds,
         LoginKinds, SessionKinds

LEMMA UseStep ==
  TypeOK /\ OpShape /\ PastAll /\ UseAll /\ [Next]_vars => UseAll'
  <1> SUFFICES ASSUME TypeOK, OpShape, PastAll, UseAll, [Next]_vars PROVE UseAll'
    OBVIOUS
  <1>1. ASSUME NEW p \in Proc, Start(p) \/ Continue(p) \/ Commit(p)
        PROVE  UseAll'
    BY <1>1, StartUse, ContinueUse, CommitUse DEF PastAll
  <1>2. CASE Environment
    BY <1>2, EnvironmentUse
  <1>3. CASE UNCHANGED vars
    BY <1>3 DEF vars, UseAll, UseInv, SingleUse, Redeemed, Unused
  <1>4. QED
    BY <1>1, <1>2, <1>3 DEF Next

\* However often and in whatever order finish requests are delivered, aborted
\* and repeated, a stored handshake or recovery token produces at most one
\* session, migration, password change or recovery: DELETE ... RETURNING in
\* take_opaque_login and take_srp, and the token check inside the transaction
\* of rotate_master_password.
THEOREM RedeemedOnce == Spec => []SingleUse
  <1>1. UseAll => SingleUse
    BY DEF UseAll
  <1>2. QED
    BY <1>1, TypeCorrect, PastAlways, InitUse, UseStep, PTL DEF Spec

-----------------------------------------------------------------------------
(* The password opens the items, as long as every recovery comes from a    *)
(* client that knows the account key.                                      *)

KeyAll ==
    /\ AccountOpens /\ KeysAgree /\ MigrationProvesCurrent
    /\ UnwrappedInv /\ MemoryInv

\* What KeyAll says of one operation.
OpKeyed(o) ==
    /\ wrap.key = None => /\ o.rec \in {None, cred.pw}
                          /\ Redeemed(o) => o.pw = cred.pw
    /\ o.gen <= cred.gen
    /\ o.kind = "account_key" => cred.kind = "opaque"
    /\ o.kind \notin {"upgrade", "account_key"} /\ o.key # None => o.key = dataKey

LEMMA OpsKeyed ==
  ASSUME KeyAll, NEW p \in Proc
  PROVE  OpKeyed(op[p])
  BY DEF KeyAll, UnwrappedInv, MemoryInv, OpKeyed

LEMMA IdleKeyed ==
  ASSUME TypeOK
  PROVE  OpKeyed(Idle)
  BY DEF TypeOK, OpKeyed, Idle, Redeemed, HandshakeKinds, LoginKinds, SessionKinds

\* A step that leaves the user row alone.
LEMMA KeyFrame ==
  ASSUME TypeOK, KeyAll, UNCHANGED users,
         \A q \in Proc : op'[q] = op[q] \/ OpKeyed(op'[q]),
         \A r \in pending' : \/ \E q \in pending : r.pw = q.pw
                             \/ wrap.key = None => r.pw \in {None, cred.pw},
         \A s \in sessions' : \/ \E q \in sessions : s.key = q.key
                              \/ s.key # None => s.key = dataKey,
         \A g \in grants' : \/ g \in grants
                            \/ g.what \in {"upgrade", "account_key"} => g.proved = g.against
  PROVE  KeyAll'
  <1>0. UNCHANGED <<cred, wrap, dataKey, kit>>
    BY DEF users
  <1>1. \A q \in Proc : OpKeyed(op'[q])
    BY OpsKeyed
  <1>2. UnwrappedInv'
    BY <1>0, <1>1 DEF KeyAll, UnwrappedInv, OpKeyed, Redeemed
  <1>3. MemoryInv'
    BY <1>0, <1>1 DEF MemoryInv, OpKeyed
  <1>4. AccountOpens'
    BY <1>0 DEF KeyAll, AccountOpens
  <1>5. KeysAgree'
    BY <1>0 DEF KeyAll, KeysAgree
  <1>6. MigrationProvesCurrent'
    BY DEF KeyAll, MigrationProvesCurrent
  <1>7. QED
    BY <1>2, <1>3, <1>4, <1>5, <1>6 DEF KeyAll

\* A step that writes a credential and wraps the account key for it.
LEMMA KeyRewrap ==
  ASSUME TypeOK, KeyAll, NEW p \in Proc, Becomes(p, Idle), dataKey' = dataKey,
         \/ cred' = cred /\ cred.kind = "opaque"
         \/ cred'.kind = "opaque" /\ cred'.gen = cred.gen + 1,
         wrap'.pw = cred'.pw, wrap'.key = dataKey,
         kit' = kit \/ kit'.key = dataKey,
         \A s \in sessions' : \/ \E q \in sessions : s.key = q.key
                              \/ s.key # None => s.key = dataKey,
         \A g \in grants' : \/ g \in grants
                            \/ g.what \in {"upgrade", "account_key"} => g.proved = g.against
  PROVE  KeyAll'
  <1>0. dataKey # None
    BY KeyNotNone DEF TypeOK
  <1>1. \A q \in Proc : op'[q] = op[q] \/ op'[q] = Idle
    BY OneOp
  <1>2. cred'.kind = "opaque" /\ cred'.kind # "srp"
    OBVIOUS
  <1>3. \A q \in Proc : op'[q].gen <= cred'.gen
    <2>1. \A q \in Proc : op[q].gen \in Nat /\ op[q].gen <= cred.gen
      BY DEF KeyAll, UnwrappedInv, TypeOK, Op
    <2>2. cred.gen \in Nat /\ Idle.gen = 0 /\ cred'.gen \in {cred.gen, cred.gen + 1}
      BY DEF TypeOK, Idle
    <2>3. QED
      BY <1>1, <2>1, <2>2
  <1>4. UnwrappedInv'
    BY <1>0, <1>2, <1>3 DEF UnwrappedInv
  <1>5. MemoryInv'
    BY <1>1 DEF KeyAll, MemoryInv, Idle
  <1>6. AccountOpens'
    BY <1>0 DEF AccountOpens
  <1>7. KeysAgree'
    BY DEF KeyAll, KeysAgree
  <1>8. MigrationProvesCurrent'
    BY DEF KeyAll, MigrationProvesCurrent
  <1>9. QED
    BY <1>4, <1>5, <1>6, <1>7, <1>8 DEF KeyAll

\* What the stored wrap opens to is the key of the items, or nothing.
LEMMA OpenKey ==
  ASSUME KeyAll, NEW pw
  PROVE  Open(pw) # None => Open(pw) = dataKey
  BY DEF KeyAll, AccountOpens, Open

LEMMA StartKey ==
  ASSUME TypeOK, KeyAll, OpShape, NEW p \in Proc, Start(p)
  PROVE  KeyAll'
  <1>0. cred.gen \in Nat /\ cred.gen <= cred.gen
    BY DEF TypeOK
  <1>a. ASSUME NEW o, Begin(p, o), OpKeyed(o)
        PROVE  KeyAll'
    <2>1. UNCHANGED <<users, pending, sessions, grants>>
      BY <1>a DEF Begin, ghosts
    <2>2. \A q \in Proc : op'[q] = op[q] \/ OpKeyed(op'[q])
      BY <1>a, OneOp DEF Begin
    <2>3. QED
      BY <2>1, <2>2, KeyFrame
  <1> USE DEF OpKeyed, Redeemed, Idle, HandshakeKinds, LoginKinds, SessionKinds,
              RecoverKinds, KitKinds
  <1>1. ASSUME NEW pw \in Password, LoginStart(p, pw) \/ SrpInit(p, pw)
        PROVE  KeyAll'
    <2>1. OpKeyed(LoginOp(pw)) /\ OpKeyed(SrpOp(pw))
      BY <1>0 DEF LoginOp, SrpOp
    <2>2. QED
      BY <1>a, <1>1, <2>1 DEF LoginStart, SrpInit
  <1>2. ASSUME NEW s \in sessions, UpgradeStart(p, s) \/ ProofStart(p, s)
        PROVE  KeyAll'
    <2>1. CASE UpgradeStart(p, s)
      <3>1. OpKeyed(MigrationOp("upgrade", s))
        BY <1>0 DEF MigrationOp
      <3>2. QED
        BY <1>a, <2>1, <3>1 DEF UpgradeStart
    <2>2. CASE ProofStart(p, s)
      <3>1. OpKeyed(MigrationOp("account_key", s))
        BY <1>0, <2>2 DEF MigrationOp, ProofStart
      <3>2. QED
        BY <1>a, <2>2, <3>1 DEF ProofStart
    <2>3. QED
      BY <1>2, <2>1, <2>2
  <1>3. ASSUME NEW s \in sessions, NEW pw \in Password, NEW new \in Password,
               ChangeStart(p, s, pw, new)
        PROVE  KeyAll'
    <2>1. OpKeyed(ChangeOp(s, pw, new))
      BY <1>0, <1>3, OpenKey DEF ChangeStart, ChangeOp
    <2>2. QED
      BY <1>a, <1>3, <2>1 DEF ChangeStart
  <1>4. ASSUME NEW kind \in RecoverKinds, NEW new \in Password, RecoveryInit(p, kind, new)
        PROVE  KeyAll'
    <2>1. kit.key = dataKey
      BY <1>4 DEF RecoveryInit, KeyAll, KeysAgree
    <2>2. OpKeyed(RecoveryOp(kind, new))
      BY <1>0, <2>1 DEF RecoveryOp
    <2>3. QED
      BY <1>a, <1>4, <2>2 DEF RecoveryInit
  <1>5. ASSUME NEW s \in sessions, NEW kind \in KitKinds, KitStart(p, s, kind)
        PROVE  KeyAll'
    <2>1. s.key = dataKey
      BY <1>5 DEF KitStart, KeyAll, KeysAgree
    <2>2. OpKeyed(KitOp(kind, s))
      BY <1>0, <2>1 DEF KitOp
    <2>3. QED
      BY <1>a, <1>5, <2>2 DEF KitStart
  <1>6. QED
    BY <1>1, <1>2, <1>3, <1>4, <1>5 DEF Start

LEMMA ContinueKey ==
  ASSUME TypeOK, OpShape, KeyAll, NEW p \in Proc, Continue(p)
  PROVE  KeyAll'
  <1> DEFINE o == op[p]
  <1>0. o \in Op /\ Stamp \in Nat /\ OpKeyed(o) /\ Shaped(o) /\ OpKeyed(Idle)
    BY OpsKeyed, IdleKeyed DEF TypeOK, Stamp, OpShape
  <1>f. UNCHANGED <<users, sessions, grants>>
    BY DEF Continue, InsertPending, InsertToken, Authenticate, TakePending, PeekToken,
           ReadUser, FindSession, users, ghosts
  <1>a. ASSUME NEW n, Becomes(p, n), OpKeyed(n), pending' \subseteq pending
        PROVE  KeyAll'
    <2>1. \A q \in Proc : op'[q] = op[q] \/ OpKeyed(op'[q])
      BY <1>a, OneOp
    <2>2. QED
      BY <1>a, <1>f, <2>1, KeyFrame
  <1>b. \A c \in {"answered", "authed"} : OpKeyed([o EXCEPT !.pc = c])
    BY <1>0 DEF OpKeyed, Redeemed, Op
  <1>c. OpKeyed([o EXCEPT !.pc = "answered", !.id = Stamp])
    BY <1>0 DEF OpKeyed, Redeemed, Op
  <1>1. CASE InsertPending(p)
    <2>1. \A r \in pending' : r \in pending \/ r.pw = o.rec
      BY <1>1 DEF InsertPending, Newest
    <2>2. wrap.key = None => o.rec \in {None, cred.pw}
      BY <1>0 DEF OpKeyed
    <2>3. \A q \in Proc : op'[q] = op[q] \/ OpKeyed(op'[q])
      BY <1>1, <1>c, OneOp DEF InsertPending
    <2>4. QED
      BY <1>f, <2>1, <2>2, <2>3, KeyFrame
  <1>2. CASE InsertToken(p)
    BY <1>2, <1>a, <1>c DEF InsertToken
  <1>3. CASE Authenticate(p)
    BY <1>3, <1>a, <1>b DEF Authenticate
  <1>4. CASE TakePending(p)
    <2>1. pending' \subseteq pending
      BY <1>4 DEF TakePending, TakeRow
    <2>2. CASE Becomes(p, Idle)
      BY <1>0, <1>a, <2>1, <2>2
    <2>3. CASE /\ Becomes(p, [o EXCEPT !.pc = "taken"])
               /\ \E r \in pending : r.pw = o.pw
      <3>1. o.pw \in Password
        BY <1>0, <1>4 DEF TakePending, Shaped, HandshakeKinds
      <3>2. wrap.key = None => o.pw = cred.pw
        BY <2>3, <3>1, ConstAssumption DEF KeyAll, UnwrappedInv
      <3>3. OpKeyed([o EXCEPT !.pc = "taken"])
        BY <1>0, <3>2 DEF OpKeyed, Redeemed, Op
      <3>4. QED
        BY <1>a, <2>1, <2>3, <3>3
    <2>4. QED
      BY <1>4, <2>2, <2>3 DEF TakePending, Proves
  <1>5. CASE PeekToken(p)
    <2>1. OpKeyed([o EXCEPT !.pc = "commit"])
      BY <1>0, <1>5
      DEF OpKeyed, Redeemed, Op, PeekToken, RecoverKinds, HandshakeKinds, LoginKinds,
          SessionKinds
    <2>2. QED
      BY <1>5, <1>a, <2>1 DEF PeekToken
  <1>6. CASE ReadUser(p)
    <2>1. Open(o.pw) # None => Open(o.pw) = dataKey
      BY OpenKey
    <2>2. OpKeyed([o EXCEPT !.pc = "commit", !.key = Open(o.pw), !.todo = Todo(o.kind)])
      BY <1>0, <1>6, <2>1 DEF OpKeyed, Redeemed, Op, ReadUser, LoginKinds
    <2>3. QED
      BY <1>6, <1>a, <2>2 DEF ReadUser
  <1>7. CASE FindSession(p)
    <2>1. OpKeyed([o EXCEPT !.pc = "commit"])
      BY <1>0, <1>7 DEF OpKeyed, Redeemed, Op, FindSession
    <2>2. QED
      BY <1>0, <1>7, <1>a, <2>1 DEF FindSession
  <1>8. QED
    BY <1>1, <1>2, <1>3, <1>4, <1>5, <1>6, <1>7 DEF Continue

LEMMA KeptKey ==
  ASSUME TypeOK, NEW sid, NEW key
  PROVE  \A s \in Kept(sid, key) : s.key = key
  <1>1. ASSUME NEW x \in sessions
        PROVE  [x EXCEPT !.gen = cred.gen + 1, !.key = key, !.todo = "none"].key = key
    BY DEF TypeOK, Session
  <1>2. QED
    BY <1>1 DEF Kept

\* A migration that finds no wrapped key proved the only credential the
\* account ever had, and carries the keys derived from its password.
LEMMA MigrationKey ==
  ASSUME TypeOK, OpShape, KeyAll, NEW p \in Proc, wrap.key = None, Redeemed(op[p]),
         op[p].kind \in {"upgrade", "account_key"}
  PROVE  op[p].pw = cred.pw /\ op[p].key = dataKey /\ op[p].gen = cred.gen
  <1>1. op[p].pw = cred.pw /\ cred.gen = 0 /\ op[p].gen <= cred.gen
    BY DEF KeyAll, UnwrappedInv
  <1>2. op[p].key = LegacyKey(op[p].pw)
    BY DEF OpShape, Shaped
  <1>3. op[p].gen \in Nat
    BY DEF TypeOK, Op
  <1>4. QED
    BY <1>1, <1>2, <1>3 DEF KeyAll, AccountOpens

LEMMA GrantedWhat ==
  ASSUME NEW o, NEW res, Granted(o, res), NEW g \in grants'
  PROVE  g \in grants \/ (g.what = o.kind /\ g.proved = o.gen /\ g.against = cred.gen)
  BY DEF Granted

LEMMA CommitKey ==
  ASSUME TypeOK, OpShape, KeyAll, "legacy_recovery" \notin Ops, NEW p \in Proc, Commit(p)
  PROVE  KeyAll'
  <1> DEFINE o == op[p]
  <1>0. o \in Op /\ OpKeyed(o) /\ Shaped(o) /\ OpKeyed(Idle)
    BY OpsKeyed, IdleKeyed DEF TypeOK, OpShape
  <1>i. Becomes(p, Idle) /\ pending' \subseteq pending
    BY DEF Commit, IssueSession, CompleteSrpUpgrade, SetAccountKey, ChangePassword,
           CompleteRecovery, SetKit, ClearKit, DropPendingLogins
  <1>o. \A q \in Proc : op'[q] = op[q] \/ OpKeyed(op'[q])
    BY <1>0, <1>i, OneOp
  <1>a. CASE UNCHANGED <<users, sessions, grants>>
    BY <1>a, <1>i, <1>o, KeyFrame
  <1>1. CASE IssueSession(p)
    <2>1. o.kind \notin {"upgrade", "account_key"} /\ UNCHANGED users
      BY <1>1 DEF IssueSession, LoginKinds, users
    <2>2. o.key # None => o.key = dataKey
      BY <1>0, <2>1 DEF OpKeyed
    <2>3. \A s \in sessions' : s \in sessions \/ s.key = o.key
      BY <1>1 DEF IssueSession
    <2>4. \A g \in grants' : g \in grants \/ g.what = o.kind
      BY <1>1, GrantedWhat DEF IssueSession
    <2>5. QED
      BY <1>i, <1>o, <2>1, <2>2, <2>3, <2>4, KeyFrame
  <1>2. CASE CompleteSrpUpgrade(p)
    <2>1. CASE ~HasVerifier
      BY <1>2, <1>a, <2>1 DEF CompleteSrpUpgrade, users
    <2>2. CASE HasVerifier
      <3>1. wrap.key = None /\ Redeemed(o) /\ o.kind = "upgrade"
        BY <1>2, <2>2
        DEF CompleteSrpUpgrade, HasVerifier, KeyAll, UnwrappedInv, Redeemed, HandshakeKinds,
            SessionKinds
      <3>2. o.pw = cred.pw /\ o.key = dataKey /\ o.gen = cred.gen
        BY <3>1, MigrationKey
      <3>3. /\ cred'.kind = "opaque" /\ cred'.gen = cred.gen + 1 /\ cred'.pw = o.pw
            /\ wrap'.pw = o.pw /\ wrap'.key = o.key /\ dataKey' = dataKey /\ kit' = kit
        BY <1>2, <2>2 DEF CompleteSrpUpgrade
      <3>4. \A s \in sessions' : s.key = dataKey
        BY <1>2, <2>2, <3>2, KeptKey DEF CompleteSrpUpgrade
      <3>5. \A g \in grants' : g \in grants \/ g.proved = g.against
        BY <1>2, <2>2, <3>2, GrantedWhat DEF CompleteSrpUpgrade
      <3>6. QED
        BY <1>i, <3>2, <3>3, <3>4, <3>5, KeyRewrap
    <2>3. QED
      BY <2>1, <2>2
  <1>3. CASE SetAccountKey(p)
    <2>1. CASE ~NoWrapYet
      BY <1>3, <1>a, <2>1 DEF SetAccountKey, users
    <2>2. CASE NoWrapYet
      <3>1. wrap.key = None /\ Redeemed(o) /\ o.kind = "account_key"
        BY <1>3, <2>2
        DEF SetAccountKey, NoWrapYet, Redeemed, HandshakeKinds, SessionKinds
      <3>2. o.pw = cred.pw /\ o.key = dataKey /\ o.gen = cred.gen
        BY <3>1, MigrationKey
      <3>3. cred.kind = "opaque"
        BY <3>1 DEF KeyAll, UnwrappedInv
      <3>4. /\ cred' = cred /\ dataKey' = dataKey /\ kit' = kit
            /\ wrap'.pw = o.pw /\ wrap'.key = o.key
        BY <1>3, <2>2 DEF SetAccountKey
      <3>5. ASSUME NEW s \in sessions
            PROVE  Migrated(s, o).key \in {s.key, o.key}
        BY DEF Migrated, TypeOK, Session
      <3>6. \A s \in sessions' : (\E q \in sessions : s.key = q.key) \/ s.key = dataKey
        BY <1>3, <2>2, <3>2, <3>5 DEF SetAccountKey
      <3>7. \A g \in grants' : g \in grants \/ g.proved = g.against
        BY <1>3, <2>2, <3>2, GrantedWhat DEF SetAccountKey
      <3>8. QED
        BY <1>i, <3>2, <3>3, <3>4, <3>6, <3>7, KeyRewrap
    <2>3. QED
      BY <2>1, <2>2
  <1>4. CASE ChangePassword(p)
    <2>1. o.kind = "password_change" /\ o.key # None
      BY <1>0, <1>4 DEF ChangePassword, Shaped
    <2>2. o.key = dataKey
      BY <1>0, <2>1 DEF OpKeyed
    <2>3. /\ cred'.kind = "opaque" /\ cred'.gen = cred.gen + 1 /\ cred'.pw = o.new
          /\ wrap'.pw = o.new /\ wrap'.key = o.key /\ dataKey' = dataKey /\ kit' = kit
      BY <1>4 DEF ChangePassword, WrappedForNew
    <2>4. \A s \in sessions' : s.key = dataKey
      BY <1>4, <2>2, KeptKey DEF ChangePassword
    <2>5. \A g \in grants' : g \in grants \/ g.what = "password_change"
      BY <1>4, <2>1, GrantedWhat DEF ChangePassword
    <2>6. QED
      BY <1>i, <2>2, <2>3, <2>4, <2>5, KeyRewrap
  <1>5. ASSUME NEW kind, CompleteRecovery(p, kind)
        PROVE  KeyAll'
    <2>1. o.kind = "recovery" /\ o.key # None
      BY <1>0, <1>5 DEF CompleteRecovery, Shaped, RecoverKinds
    <2>2. o.key = dataKey
      BY <1>0, <2>1 DEF OpKeyed
    <2>3. CASE ~\E t \in tokens : t.id = o.id
      BY <1>5, <1>a, <2>3 DEF CompleteRecovery, users, ghosts
    <2>4. CASE \E t \in tokens : t.id = o.id
      <3>1. kind = "opaque" /\ wrap' = WrappedForNew(o) /\ kit' = ReplacementKit(o)
                            /\ dataKey' = dataKey
        BY <1>5, <2>1, <2>4 DEF CompleteRecovery, RecoveredRow
      <3>2. /\ cred'.kind = "opaque" /\ cred'.gen = cred.gen + 1 /\ cred'.pw = o.new
            /\ wrap'.pw = o.new /\ wrap'.key = o.key /\ kit'.key = o.key /\ sessions' = {}
        BY <1>5, <2>4, <3>1 DEF CompleteRecovery, WrappedForNew, ReplacementKit
      <3>3. \A g \in grants' : g \in grants \/ g.what = "recovery"
        BY <1>5, <2>1, <2>4, GrantedWhat DEF CompleteRecovery
      <3>4. QED
        BY <1>i, <2>2, <3>1, <3>2, <3>3, KeyRewrap
    <2>5. QED
      BY <2>3, <2>4
  <1>6. CASE SetKit(p) \/ ClearKit(p)
    <2>1. UNCHANGED <<cred, wrap, dataKey, sessions, grants>>
      BY <1>6 DEF SetKit, ClearKit
    <2>2. kit'.id # 0 => kit'.key = dataKey
      BY <1>0, <1>6 DEF SetKit, ClearKit, OpKeyed, Shaped
    <2>3. \A q \in Proc : OpKeyed(op'[q])
      BY <1>o, OpsKeyed
    <2>4. UnwrappedInv'
      BY <1>i, <2>1, <2>3 DEF KeyAll, UnwrappedInv, OpKeyed, Redeemed
    <2>5. MemoryInv'
      BY <2>1, <2>3 DEF MemoryInv, OpKeyed
    <2>6. QED
      BY <2>1, <2>2, <2>4, <2>5 DEF KeyAll, AccountOpens, KeysAgree, MigrationProvesCurrent
  <1>7. QED
    BY <1>1, <1>2, <1>3, <1>4, <1>5, <1>6 DEF Commit

LEMMA EnvironmentKey ==
  ASSUME TypeOK, KeyAll, Environment
  PROVE  KeyAll'
  <1>0. UNCHANGED <<users, grants>>
    BY DEF Environment, Abort, Resend, EndSession, SignOutOthers, AgeSession,
           ExpirePending, ExpireToken, PrunePending, PruneTokens, users, ghosts
  <1>1. \A q \in Proc : op'[q] = op[q] \/ OpKeyed(op'[q])
    <2>1. ASSUME NEW p \in Proc, Abort(p)
          PROVE  \A q \in Proc : op'[q] = op[q] \/ OpKeyed(op'[q])
      BY <2>1, OneOp, IdleKeyed DEF Abort
    <2>2. ASSUME NEW p \in Proc, NEW r \in Proc, Resend(p, r)
          PROVE  \A q \in Proc : op'[q] = op[q] \/ OpKeyed(op'[q])
      <3>0. op[p] \in Op /\ OpKeyed(op[p])
        BY OpsKeyed DEF TypeOK
      <3>1. OpKeyed([op[p] EXCEPT !.pc = "answered"])
        BY <3>0 DEF Redeemed, OpKeyed, Op
      <3>2. QED
        BY <2>2, <3>1, OneOp DEF Resend
    <2>3. QED
      BY <2>1, <2>2
      DEF Environment, EndSession, SignOutOthers, AgeSession, ExpirePending,
          ExpireToken, PrunePending, PruneTokens
  <1>2. \A r \in pending' : \E q \in pending : r.pw = q.pw
    <2>1. ASSUME NEW q \in pending, ExpirePending(q), NEW r \in pending'
          PROVE  r \in pending \/ r.pw = q.pw
      BY <2>1 DEF ExpirePending, TypeOK, Row
    <2>2. (\E q \in pending : ExpirePending(q)) \/ pending' \subseteq pending
      BY DEF Environment, Abort, Resend, EndSession, SignOutOthers, AgeSession,
             ExpireToken, PrunePending, PruneTokens
    <2>3. QED
      BY <2>1, <2>2
  <1>3. \A s \in sessions' : \E q \in sessions : s.key = q.key
    <2>1. ASSUME NEW q \in sessions, AgeSession(q), NEW s \in sessions'
          PROVE  s \in sessions \/ s.key = q.key
      BY <2>1 DEF AgeSession, TypeOK, Session
    <2>2. (\E q \in sessions : AgeSession(q)) \/ sessions' \subseteq sessions
      BY DEF Environment, Abort, Resend, EndSession, SignOutOthers, ExpirePending,
             ExpireToken, PrunePending, PruneTokens
    <2>3. QED
      BY <2>1, <2>2
  <1>4. QED
    BY <1>0, <1>1, <1>2, <1>3, KeyFrame

LEMMA InitKey == Init => KeyAll
  <1> SUFFICES ASSUME Init PROVE KeyAll
    OBVIOUS
  <1>1. PICK k \in InitKinds, pw \in Password :
          /\ cred = [kind |-> IF k = "srp" THEN "srp" ELSE "opaque", pw |-> pw, gen |-> 0]
          /\ wrap = IF k = "migrated" THEN [pw |-> pw, key |-> LegacyKey(pw)]
                                      ELSE [pw |-> None, key |-> None]
          /\ dataKey = LegacyKey(pw)
    BY DEF Init
  <1>2. AccountOpens
    BY <1>1, ConstAssumption DEF AccountOpens, LegacyKey
  <1>3. KeysAgree
    BY DEF Init, KeysAgree
  <1>4. UnwrappedInv
    BY <1>1
    DEF UnwrappedInv, Init, Idle, Redeemed, HandshakeKinds, LoginKinds, SessionKinds
  <1>5. MemoryInv /\ MigrationProvesCurrent
    BY DEF MemoryInv, MigrationProvesCurrent, Init, Idle
  <1>6. QED
    BY <1>2, <1>3, <1>4, <1>5 DEF KeyAll

LEMMA KeyStep ==
  ASSUME "legacy_recovery" \notin Ops
  PROVE  TypeOK /\ OpShape /\ KeyAll /\ [Next]_vars => KeyAll'
  <1> SUFFICES ASSUME TypeOK, OpShape, KeyAll, [Next]_vars PROVE KeyAll'
    OBVIOUS
  <1>1. ASSUME NEW p \in Proc, Start(p) \/ Continue(p) \/ Commit(p)
        PROVE  KeyAll'
    BY <1>1, StartKey, ContinueKey, CommitKey
  <1>2. CASE Environment
    BY <1>2, EnvironmentKey
  <1>3. CASE UNCHANGED vars
    BY <1>3
    DEF vars, KeyAll, AccountOpens, KeysAgree, MigrationProvesCurrent, UnwrappedInv,
        MemoryInv, Redeemed
  <1>4. QED
    BY <1>1, <1>2, <1>3 DEF Next

LEMMA KeyAlways ==
  ASSUME "legacy_recovery" \notin Ops
  PROVE  Spec => []KeyAll
  BY TypeCorrect, InitKey, KeyStep, PTL DEF Spec

\* While every recovery is made by a client that knows the account key, no
\* interleaving of logins, migrations, password changes, kit changes and
\* recoveries, and no request dying on the way, leaves an account whose
\* password does not open its items.
THEOREM PasswordOpensItems ==
  ASSUME "legacy_recovery" \notin Ops
  PROVE  Spec => []AccountOpens
  <1>1. KeyAll => AccountOpens
    BY DEF KeyAll
  <1>2. QED
    BY <1>1, KeyAlways, PTL

\* Under the same assumption the recovery kit and every unlocked client hold
\* the key of the items.
THEOREM KitOpensItems ==
  ASSUME "legacy_recovery" \notin Ops
  PROVE  Spec => []KeysAgree
  <1>1. KeyAll => KeysAgree
    BY DEF KeyAll
  <1>2. QED
    BY <1>1, KeyAlways, PTL

\* Under the same assumption the conditional UPDATEs of complete_srp_upgrade
\* and set_account_key succeed only for the credential that was proved.
THEOREM MigrationsProveCurrent ==
  ASSUME "legacy_recovery" \notin Ops
  PROVE  Spec => []MigrationProvesCurrent
  <1>1. KeyAll => MigrationProvesCurrent
    BY DEF KeyAll
  <1>2. QED
    BY <1>1, KeyAlways, PTL

=============================================================================
