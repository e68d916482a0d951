------------------------ MODULE ExtensionPasskeysProofs -------------------------
(***************************************************************************)
(* Proofs about ExtensionPasskeys, for every set of devices and any number *)
(* of calls, unlocks and edits.                                            *)
(***************************************************************************)
EXTENDS ExtensionPasskeys, TLAPS

LEMMA TabParts ==
  ASSUME NEW t \in Tab
  PROVE  t[1] \in Device
  BY DEF Tab

LEMMA OneTabEach ==
  ASSUME TabsPer = 1, NEW t \in Tab, NEW u \in Tab, t[1] = u[1]
  PROVE  t = u
  <1>1. t \in Device \X (1..1) /\ u \in Device \X (1..1)
    BY DEF Tab
  <1>2. t = <<t[1], t[2]>> /\ u = <<u[1], u[2]>> /\ t[2] = 1 /\ u[2] = 1
    BY <1>1
  <1>3. QED
    BY <1>2

-----------------------------------------------------------------------------
(* Types, and what a ceremony holds at each point.                         *)

Holding == {"ask", "yes", "no", "sign", "sent", "stored"}

\* A running ceremony has its number and, once it has asked, the unlock whose
\* items it looked at.
HeldInv ==
    /\ \A d \in Device : opened[d] <= unlocks /\ (unlocked[d] => opened[d] # 0)
    /\ \A t \in Tab :
          /\ cer[t].at \notin {"none", "failed"} => cer[t].no # 0
          /\ cer[t].at \in Holding => cer[t].obj # 0 /\ cer[t].obj <= unlocks

TypeInv == TypeOK /\ HeldInv

LEMMA BareType ==
  ASSUME NEW n \in 0..MaxCalls, NEW at \in {"none", "check", "failed"},
         NEW kind \in {"create", "get"}
  PROVE  Bare(n, kind, at) \in Ceremony /\ Bare(n, kind, at).at = at
         /\ Bare(n, kind, at).no = n
  BY PasskeyAssumption DEF Bare, Ceremony

\* A step that replaces one ceremony by a well-typed one.
LEMMA Replaced ==
  ASSUME TypeOK, NEW t \in Tab, NEW c \in Ceremony,
         cer' = [cer EXCEPT ![t] = c]
  PROVE  /\ cer' \in [Tab -> Ceremony]
         /\ \A u \in Tab : cer'[u] = IF u = t THEN c ELSE cer[u]
  BY DEF TypeOK

LEMMA MovesTo ==
  ASSUME TypeOK, NEW t \in Tab,
         NEW at \in {"none", "check", "ask", "yes", "no", "sign", "sent",
                     "stored", "failed"}, Moves(t, at)
  PROVE  /\ cer' \in [Tab -> Ceremony]
         /\ \A u \in Tab \ {t} : cer'[u] = cer[u]
         /\ cer'[t].at = at /\ cer'[t].no = cer[t].no /\ cer'[t].obj = cer[t].obj
         /\ cer'[t].kind = cer[t].kind /\ cer'[t].count = cer[t].count
         /\ cer'[t].version = cer[t].version
  BY DEF TypeOK, Moves, Ceremony

LEMMA EndsAt ==
  ASSUME TypeOK, NEW t \in Tab, NEW at \in {"none", "failed"}, Ends(t, at)
  PROVE  /\ cer' \in [Tab -> Ceremony]
         /\ \A u \in Tab \ {t} : cer'[u] = cer[u]
         /\ cer'[t].at = at
  <1>1. cer[t].no \in 0..MaxCalls
    BY DEF TypeOK, Ceremony
  <1>2. Bare(cer[t].no, "get", at) \in Ceremony /\ Bare(cer[t].no, "get", at).at = at
    BY <1>1, BareType
  <1>3. QED
    BY <1>2, Replaced DEF Ends

LEMMA InitType == Init => TypeInv
  BY PasskeyAssumption DEF Init, TypeInv, TypeOK, HeldInv, Row, Ceremony, Idle, Bare, Holding

LEMMA VaultType ==
  ASSUME TypeInv, NEW d \in Device,
         UnlockVault(d) \/ LockVault(d) \/ EditItem
  PROVE  TypeInv'
  <1>1. CASE UnlockVault(d)
    <2>1. unlocks + 1 \in 1..MaxUnlocks /\ opened[d] \in 0..MaxUnlocks
      BY <1>1, PasskeyAssumption DEF TypeInv, TypeOK, UnlockVault
    <2>2. copy' \in [Device -> [1..MaxUnlocks -> Row]]
      BY <1>1, <2>1 DEF TypeInv, TypeOK, UnlockVault
    <2>3. TypeOK'
      BY <1>1, <2>1, <2>2 DEF TypeInv, TypeOK, UnlockVault, ghosts
    <2>4. HeldInv'
      BY <1>1, <2>1 DEF TypeInv, TypeOK, HeldInv, UnlockVault, Ceremony
    <2>5. QED
      BY <2>3, <2>4 DEF TypeInv
  <1>2. CASE LockVault(d)
    <2>1. TypeOK'
      BY <1>2 DEF TypeInv, TypeOK, LockVault, ghosts
    <2>2. \A e \in Device : unlocked'[e] => unlocked[e]
      BY <1>2 DEF TypeInv, TypeOK, LockVault
    <2>3. HeldInv'
      BY <1>2, <2>2 DEF TypeInv, HeldInv, LockVault
    <2>4. QED
      BY <2>1, <2>3 DEF TypeInv
  <1>3. CASE EditItem
    <2>1. row' \in Row /\ edits' \in 0..MaxEdits
      <3>1. row.version + 1 \in Nat /\ row.count \in Nat
        BY DEF TypeInv, TypeOK, Row
      <3>2. edits' \in 0..MaxEdits
        BY <1>3, PasskeyAssumption DEF TypeInv, TypeOK, EditItem
      <3>3. row' \in Row
        BY <1>3, <3>1, ZenonT(30) DEF TypeInv, TypeOK, EditItem, Row
      <3>4. QED
        BY <3>2, <3>3
    <2>2. QED
      BY <1>3, <2>1 DEF TypeInv, TypeOK, HeldInv, EditItem, ghosts
  <1>4. QED
    BY <1>1, <1>2, <1>3

LEMMA RelayType ==
  ASSUME TypeInv, NEW t \in Tab,
         Call(t) \/ GiveUp(t) \/ FallBack(t) \/ Refuse(t) \/ Declined(t)
           \/ SendFails(t)
  PROVE  TypeInv'
  <1>1. CASE Call(t)
    <2>1. calls + 1 \in 1..MaxCalls
      BY <1>1, PasskeyAssumption DEF TypeInv, TypeOK, Call
    <2>2. PICK kind \in {"create", "get"} :
             cer' = [cer EXCEPT ![t] = Bare(calls + 1, kind, "check")]
      BY <1>1 DEF Call
    <2>3. /\ Bare(calls + 1, kind, "check") \in Ceremony
          /\ Bare(calls + 1, kind, "check").at = "check"
          /\ Bare(calls + 1, kind, "check").no = calls + 1
      BY <2>1, BareType
    <2>5. /\ cer' \in [Tab -> Ceremony]
          /\ \A u \in Tab \ {t} : cer'[u] = cer[u]
          /\ cer'[t].at = "check" /\ cer'[t].no # 0
      <3>1. /\ cer' \in [Tab -> Ceremony]
            /\ \A u \in Tab : cer'[u] = IF u = t THEN Bare(calls + 1, kind, "check")
                                         ELSE cer[u]
        BY <2>2, <2>3, Replaced DEF TypeInv
      <3>2. cer'[t] = Bare(calls + 1, kind, "check")
        BY <3>1
      <3>3. cer'[t].at = "check" /\ cer'[t].no # 0
        BY <2>1, <2>3, <3>2
      <3>4. QED
        BY <3>1, <3>3
    <2>6. TypeOK'
      BY <1>1, <2>1, <2>5 DEF TypeInv, TypeOK, Call, ghosts
    <2>7. HeldInv'
      BY <1>1, <2>5 DEF TypeInv, HeldInv, Call, Holding
    <2>8. QED
      BY <2>6, <2>7 DEF TypeInv
  <1>2. CASE GiveUp(t)
    BY <1>2 DEF TypeInv, TypeOK, HeldInv, GiveUp, ghosts
  <1>3. CASE FallBack(t) \/ Refuse(t) \/ Declined(t) \/ SendFails(t)
    <2>1. /\ cer' \in [Tab -> Ceremony]
          /\ \A u \in Tab \ {t} : cer'[u] = cer[u]
          /\ cer'[t].at \in {"none", "failed"}
      BY <1>3, EndsAt DEF TypeInv, FallBack, Refuse, Declined, SendFails
    <2>2. page' \in [Tab -> BOOLEAN]
      BY <1>3 DEF TypeInv, TypeOK, FallBack, Refuse, Declined, SendFails
    <2>3. UNCHANGED <<row, saved, unlocks, opened, unlocked, copy, calls, windows,
                      edits, approved, delivered>>
      BY <1>3 DEF FallBack, Refuse, Declined, SendFails, ghosts
    <2>4. TypeOK'
      BY <2>1, <2>2, <2>3 DEF TypeInv, TypeOK
    <2>5. HeldInv'
      BY <2>1, <2>3 DEF TypeInv, HeldInv, Holding
    <2>6. QED
      BY <2>4, <2>5 DEF TypeInv
  <1>4. QED
    BY <1>1, <1>2, <1>3

LEMMA AskType ==
  ASSUME TypeInv, NEW t \in Tab, Ask(t)
  PROVE  /\ TypeInv'
         /\ \A u \in Tab \ {t} : cer'[u] = cer[u]
         /\ cer'[t].at = "ask" /\ cer'[t].kind = cer[t].kind
         /\ cer'[t].obj = opened[t[1]]
         /\ cer'[t].count = copy[t[1]][opened[t[1]]].count
  <1> DEFINE d == t[1]
  <1>1. d \in Device /\ opened[d] \in 1..MaxUnlocks /\ opened[d] <= unlocks
    BY TabParts DEF TypeInv, TypeOK, HeldInv, Ask, Available
  <1>2. copy[d][opened[d]].count \in Nat
    BY <1>1 DEF TypeInv, TypeOK, Row
  <1>3. cer[t] \in Ceremony /\ cer[t].no \in 1..MaxCalls
    BY DEF TypeInv, TypeOK, HeldInv, Ceremony, Ask
  <1>4. /\ cer' \in [Tab -> Ceremony]
        /\ \A u \in Tab \ {t} : cer'[u] = cer[u]
        /\ cer'[t].at = "ask" /\ cer'[t].kind = cer[t].kind
        /\ cer'[t].obj = opened[d] /\ cer'[t].no = cer[t].no
        /\ cer'[t].count = copy[d][opened[d]].count
    BY <1>1, <1>2, <1>3 DEF TypeInv, TypeOK, Ask, Candidate, Ceremony
  <1>5. TypeOK'
    BY <1>3, <1>4 DEF TypeInv, TypeOK, Ask, ghosts
  <1>6. HeldInv'
    BY <1>1, <1>3, <1>4 DEF TypeInv, HeldInv, Ask, Holding
  <1>7. QED
    BY <1>4, <1>5, <1>6 DEF TypeInv

LEMMA AnswerType ==
  ASSUME TypeInv, NEW n \in 1..MaxCalls, NEW answer \in {"yes", "no"},
         Answer(n, answer)
  PROVE  /\ TypeInv'
         /\ \A t \in Tab :
               \/ cer'[t] = cer[t]
               \/ /\ cer[t].at = "ask" /\ cer[t].no = n /\ cer'[t].at = answer
                  /\ cer'[t].no = n /\ cer'[t].kind = cer[t].kind
                  /\ cer'[t].obj = cer[t].obj /\ cer'[t].count = cer[t].count
  <1>1. ASSUME NEW t \in Tab
        PROVE  /\ cer'[t] \in Ceremony
               /\ \/ cer'[t] = cer[t]
                  \/ /\ cer[t].at = "ask" /\ cer[t].no = n /\ cer'[t].at = answer
                     /\ cer'[t].no = n /\ cer'[t].kind = cer[t].kind
                     /\ cer'[t].obj = cer[t].obj /\ cer'[t].count = cer[t].count
    <2>1. cer[t] \in Ceremony
      BY DEF TypeInv, TypeOK
    <2>2. cer'[t] = IF cer[t].at = "ask" /\ cer[t].no = n
                    THEN [cer[t] EXCEPT !.at = answer] ELSE cer[t]
      BY DEF Answer, Settles
    <2>3. QED
      BY <2>1, <2>2 DEF Ceremony
  <1>2. cer' \in [Tab -> Ceremony]
    BY <1>1 DEF Answer, Settles
  <1>3. TypeOK'
    BY <1>2 DEF TypeInv, TypeOK, Answer
  <1>4. HeldInv'
    BY <1>1 DEF TypeInv, HeldInv, Answer, Holding
  <1>5. QED
    BY <1>1, <1>3, <1>4 DEF TypeInv

LEMMA WindowType ==
  ASSUME TypeInv, NEW t \in Tab, LoseWindow(t) \/ ConsentTimeout(t)
  PROVE  TypeInv'
  <1>1. CASE LoseWindow(t)
    BY <1>1 DEF TypeInv, TypeOK, HeldInv, LoseWindow, ghosts
  <1>2. CASE ConsentTimeout(t)
    <2>1. /\ cer' \in [Tab -> Ceremony]
          /\ \A u \in Tab \ {t} : cer'[u] = cer[u]
          /\ cer'[t].at = "no" /\ cer'[t].no = cer[t].no /\ cer'[t].obj = cer[t].obj
      BY <1>2, MovesTo DEF TypeInv, ConsentTimeout
    <2>2. TypeOK'
      BY <1>2, <2>1 DEF TypeInv, TypeOK, ConsentTimeout, ghosts
    <2>3. HeldInv'
      BY <1>2, <2>1 DEF TypeInv, HeldInv, ConsentTimeout, Holding
    <2>4. QED
      BY <2>2, <2>3 DEF TypeInv
  <1>3. QED
    BY <1>1, <1>2

\* Sign and Send set the point, the counter and the version of one ceremony.
LEMMA SignType ==
  ASSUME TypeInv, NEW t \in Tab, Sign(t)
  PROVE  /\ TypeInv'
         /\ \A u \in Tab \ {t} : cer'[u] = cer[u]
         /\ cer'[t].at \in {"sign", "failed"} /\ cer'[t].kind = cer[t].kind
         /\ cer'[t].obj = cer[t].obj /\ cer'[t].no = cer[t].no
         /\ cer[t].kind = "get" => cer'[t].count = cer[t].count + 1
  <1>1. cer[t] \in Ceremony
    BY DEF TypeInv, TypeOK
  <1>2. cer[t].count + 1 \in Nat
    BY <1>1 DEF Ceremony
  <1>3. /\ cer' \in [Tab -> Ceremony]
        /\ \A u \in Tab \ {t} : cer'[u] = cer[u]
        /\ cer'[t].at \in {"sign", "failed"} /\ cer'[t].kind = cer[t].kind
        /\ cer'[t].obj = cer[t].obj /\ cer'[t].no = cer[t].no
        /\ cer[t].kind = "get" => cer'[t].count = cer[t].count + 1
    BY <1>1, <1>2 DEF TypeInv, TypeOK, Sign, NewCount, FreshCount, Ceremony
  <1>4. TypeOK'
    BY <1>3 DEF TypeInv, TypeOK, Sign, ghosts
  <1>5. HeldInv'
    BY <1>3 DEF TypeInv, HeldInv, Sign, Holding
  <1>6. QED
    BY <1>3, <1>4, <1>5 DEF TypeInv

LEMMA SendType ==
  ASSUME TypeInv, NEW t \in Tab, Send(t)
  PROVE  /\ TypeInv'
         /\ \A u \in Tab \ {t} : cer'[u] = cer[u]
         /\ cer'[t].at \in {"sent", "failed"} /\ cer'[t].kind = cer[t].kind
         /\ cer'[t].obj = cer[t].obj /\ cer'[t].no = cer[t].no
         /\ cer'[t].count = cer[t].count
         /\ cer'[t].version = copy[t[1]][cer[t].obj].version
  <1> DEFINE d == t[1]
  <1>1. cer[t] \in Ceremony /\ d \in Device
    BY TabParts DEF TypeInv, TypeOK
  <1>2. cer[t].obj \in 1..MaxUnlocks
    BY <1>1 DEF TypeInv, HeldInv, Send, Holding, Ceremony
  <1>3. copy[d][cer[t].obj].version \in Nat
    BY <1>1, <1>2 DEF TypeInv, TypeOK, Row
  <1>4. /\ cer' \in [Tab -> Ceremony]
        /\ \A u \in Tab \ {t} : cer'[u] = cer[u]
        /\ cer'[t].at \in {"sent", "failed"} /\ cer'[t].kind = cer[t].kind
        /\ cer'[t].obj = cer[t].obj /\ cer'[t].no = cer[t].no
        /\ cer'[t].count = cer[t].count
        /\ cer'[t].version = copy[d][cer[t].obj].version
    BY <1>1, <1>3 DEF TypeInv, TypeOK, Send, Ceremony
  <1>5. TypeOK'
    BY <1>4 DEF TypeInv, TypeOK, Send, ghosts
  <1>6. HeldInv'
    BY <1>4, ZenonT(40) DEF TypeInv, HeldInv, Send, Holding
  <1>7. QED
    BY <1>4, <1>5, <1>6 DEF TypeInv

LEMMA StoreType ==
  ASSUME TypeInv, NEW t \in Tab, Store(t)
  PROVE  /\ TypeInv'
         /\ \A u \in Tab \ {t} : cer'[u] = cer[u]
         /\ cer'[t].at = "stored" /\ cer'[t].no = cer[t].no
         /\ cer'[t].kind = cer[t].kind /\ cer'[t].count = cer[t].count
         /\ cer'[t].version = cer[t].version
  <1>1. /\ cer' \in [Tab -> Ceremony]
        /\ \A u \in Tab \ {t} : cer'[u] = cer[u]
        /\ cer'[t].at = "stored" /\ cer'[t].no = cer[t].no
        /\ cer'[t].obj = cer[t].obj
        /\ cer'[t].kind = cer[t].kind /\ cer'[t].count = cer[t].count
        /\ cer'[t].version = cer[t].version
    BY MovesTo DEF TypeInv, Store
  <1>2. cer[t].no \in 1..MaxCalls /\ cer[t].count \in Nat
    <2>1. cer[t] \in Ceremony
      BY DEF TypeInv, TypeOK
    <2>2. cer[t].no # 0
      BY DEF TypeInv, HeldInv, Store
    <2>3. QED
      BY <2>1, <2>2, PasskeyAssumption DEF Ceremony
  <1>3. row' \in Row /\ saved' \subseteq 1..MaxCalls
    <2>1. row.version + 1 \in Nat /\ row \in Row /\ saved \subseteq 1..MaxCalls
      BY DEF TypeInv, TypeOK, Row
    <2>2. [version |-> row.version + 1, count |-> cer[t].count] \in Row
      BY <1>2, <2>1 DEF Row
    <2>3. QED
      BY <1>2, <2>1, <2>2 DEF Store
  <1>4. TypeOK'
    BY <1>1, <1>3 DEF TypeInv, TypeOK, Store, ghosts
  <1>5. HeldInv'
    BY <1>1 DEF TypeInv, HeldInv, Store, Holding
  <1>6. QED
    BY <1>1, <1>4, <1>5 DEF TypeInv

LEMMA ReturnType ==
  ASSUME TypeInv, NEW t \in Tab, Return(t)
  PROVE  /\ TypeInv'
         /\ \A u \in Tab \ {t} : cer'[u] = cer[u]
         /\ cer'[t].at \in {"none", "failed"}
         /\ delivered' \subseteq delivered \cup {Credential(cer[t])}
         /\ \A d \in Device, n \in 1..MaxUnlocks :
               \/ copy'[d][n] = copy[d][n]
               \/ /\ d = t[1] /\ cer[t].kind = "get"
                  /\ copy'[d][n] = [version |-> cer[t].version + 1,
                                    count |-> cer[t].count]
  <1> DEFINE d == t[1]
             new == [version |-> cer[t].version + 1, count |-> cer[t].count]
  <1>1. /\ cer' \in [Tab -> Ceremony]
        /\ \A u \in Tab \ {t} : cer'[u] = cer[u]
        /\ cer'[t].at \in {"none", "failed"}
    <2>1. CASE unlocked[d]
      BY <2>1, EndsAt DEF TypeInv, Return
    <2>2. CASE ~unlocked[d]
      BY <2>2, EndsAt DEF TypeInv, Return
    <2>3. QED
      BY <2>1, <2>2
  <1>2. cer[t] \in Ceremony /\ cer[t].no \in 1..MaxCalls /\ d \in Device
        /\ cer[t].obj \in 1..MaxUnlocks
    BY TabParts DEF TypeInv, TypeOK, HeldInv, Return, Holding, Ceremony
  <1>3. new \in Row
    BY <1>2 DEF Row, Ceremony
  <1>4. /\ copy' \in [Device -> [1..MaxUnlocks -> Row]]
        /\ \A e \in Device, n \in 1..MaxUnlocks :
              copy'[e][n] = copy[e][n] \/ (e = d /\ cer[t].kind = "get" /\ copy'[e][n] = new)
    <2>1. CASE unlocked[d] /\ cer[t].kind = "get"
      <3>1. copy' = [copy EXCEPT ![d][cer[t].obj] = new]
        BY <2>1 DEF Return
      <3> HIDE DEF new
      <3>2. QED
        BY <1>2, <1>3, <2>1, <3>1 DEF TypeInv, TypeOK
    <2>2. CASE ~(unlocked[d] /\ cer[t].kind = "get")
      <3>1. copy' = copy
        BY <2>2 DEF Return
      <3>2. QED
        BY <3>1 DEF TypeInv, TypeOK
    <2>3. QED
      BY <2>1, <2>2
  <1>5. Credential(cer[t]) \in [id : 1..MaxCalls, kind : {"create", "get"}, count : Nat]
    BY <1>2 DEF Credential, Ceremony
  <1>6. delivered' \subseteq delivered \cup {Credential(cer[t])}
    BY DEF Return
  <1>7. page' \in [Tab -> BOOLEAN]
    BY DEF TypeInv, TypeOK, Return
  <1>8. TypeOK'
    BY <1>1, <1>4, <1>5, <1>6, <1>7 DEF TypeInv, TypeOK, Return
  <1>9. HeldInv'
    BY <1>1 DEF TypeInv, HeldInv, Return, Holding
  <1>10. QED
    BY <1>1, <1>4, <1>6, <1>8, <1>9 DEF TypeInv

LEMMA StopType ==
  ASSUME TypeInv, NEW d \in Device, StopWorker(d)
  PROVE  /\ TypeInv'
         /\ \A t \in Tab : cer'[t] = cer[t] \/ cer'[t].at = "failed"
  <1>1. ASSUME NEW t \in Tab
        PROVE  /\ cer'[t] \in Ceremony
               /\ cer'[t] = cer[t] \/ cer'[t].at = "failed"
    <2>1. cer[t] \in Ceremony /\ cer[t].no \in 0..MaxCalls
      BY DEF TypeInv, TypeOK, Ceremony
    <2>2. /\ Bare(cer[t].no, "get", "failed") \in Ceremony
          /\ Bare(cer[t].no, "get", "failed").at = "failed"
      BY <2>1, BareType
    <2>3. QED
      BY <2>1, <2>2 DEF StopWorker
  <1>2. cer' \in [Tab -> Ceremony]
    BY <1>1 DEF StopWorker
  <1>3. /\ unlocked' \in [Device -> BOOLEAN]
        /\ \A e \in Device : unlocked'[e] => unlocked[e]
    BY DEF TypeInv, TypeOK, StopWorker
  <1>4. TypeOK'
    BY <1>2, <1>3 DEF TypeInv, TypeOK, StopWorker, ghosts
  <1>5. HeldInv'
    BY <1>1, <1>3 DEF TypeInv, HeldInv, StopWorker, Holding
  <1>6. QED
    BY <1>1, <1>4, <1>5 DEF TypeInv

LEMMA TypeStep ==
  ASSUME TypeInv, [Next]_vars
  PROVE  TypeInv'
  <1>1. CASE UNCHANGED vars
    BY <1>1 DEF vars, TypeInv, TypeOK, HeldInv
  <1>2. CASE EditItem
    <2>1. CASE Device = {}
      <3>1. row' \in Row /\ edits' \in 0..MaxEdits
        <4>1. row.version + 1 \in Nat /\ row.count \in Nat
          BY DEF TypeInv, TypeOK, Row
        <4>2. edits' \in 0..MaxEdits
          BY <1>2, PasskeyAssumption DEF TypeInv, TypeOK, EditItem
        <4>3. row' \in Row
          BY <1>2, <4>1, ZenonT(30) DEF TypeInv, TypeOK, EditItem, Row
        <4>4. QED
          BY <4>2, <4>3
      <3>2. QED
        BY <1>2, <3>1 DEF TypeInv, TypeOK, HeldInv, EditItem, ghosts
    <2>2. QED
      BY <1>2, <2>1, VaultType
  <1>3. ASSUME NEW n \in 1..MaxCalls, NEW answer \in {"yes", "no"}, Answer(n, answer)
        PROVE  TypeInv'
    BY <1>3, AnswerType
  <1>4. ASSUME NEW d \in Device, UnlockVault(d) \/ LockVault(d) \/ StopWorker(d)
        PROVE  TypeInv'
    BY <1>4, VaultType, StopType
  <1>5. ASSUME NEW t \in Tab,
               Call(t) \/ GiveUp(t) \/ FallBack(t) \/ Ask(t) \/ Refuse(t)
                 \/ LoseWindow(t) \/ ConsentTimeout(t) \/ Declined(t)
                 \/ Sign(t) \/ Send(t) \/ Store(t) \/ SendFails(t) \/ Return(t)
        PROVE  TypeInv'
    BY <1>5, RelayType, AskType, WindowType, SignType, SendType, StoreType, ReturnType
  <1>6. QED
    BY <1>1, <1>2, <1>3, <1>4, <1>5 DEF Next

\* Every ceremony, copy and window of the model stays well formed, and a
\* ceremony that has asked for consent refers to an unlock that happened.
THEOREM TypeCorrect == Spec => []TypeInv
  BY InitType, TypeStep, PTL DEF Spec

\* What the steps that give up, refuse or begin a ceremony leave of it.
LEMMA RestsElsewhere ==
  ASSUME TypeInv, NEW t \in Tab,
         Call(t) \/ GiveUp(t) \/ FallBack(t) \/ Refuse(t) \/ Declined(t)
           \/ SendFails(t) \/ LoseWindow(t) \/ ConsentTimeout(t)
  PROVE  \A u \in Tab : \/ cer'[u] = cer[u]
                         \/ cer'[u].at \in {"none", "check", "no", "failed"}
  <1>1. CASE Call(t)
    <2>1. PICK kind \in {"create", "get"} :
             cer' = [cer EXCEPT ![t] = Bare(calls + 1, kind, "check")]
      BY <1>1 DEF Call
    <2>2. Bare(calls + 1, kind, "check").at = "check"
      BY DEF Bare
    <2>3. QED
      BY <2>1, <2>2 DEF TypeInv, TypeOK
  <1>2. CASE GiveUp(t) \/ LoseWindow(t)
    BY <1>2 DEF GiveUp, LoseWindow
  <1>3. CASE FallBack(t) \/ Refuse(t) \/ Declined(t) \/ SendFails(t)
    <2>1. /\ \A u \in Tab \ {t} : cer'[u] = cer[u]
          /\ cer'[t].at \in {"none", "failed"}
      BY <1>3, EndsAt DEF TypeInv, FallBack, Refuse, Declined, SendFails
    <2>2. QED
      BY <2>1
  <1>4. CASE ConsentTimeout(t)
    BY <1>4, MovesTo DEF TypeInv, ConsentTimeout
  <1>5. QED
    BY <1>1, <1>2, <1>3, <1>4

-----------------------------------------------------------------------------
(* Consent.                                                                *)

Consented == {"yes", "sign", "sent", "stored"}

\* A ceremony past its prompt was approved in its own window.
ConsentInv ==
    /\ \A t \in Tab : cer[t].at \in Consented => cer[t].no \in approved
    /\ OwnConsent

LEMMA ConsentStep ==
  ASSUME TypeInv, ConsentInv, [Next]_vars
  PROVE  ConsentInv'
  <1>1. CASE UNCHANGED vars
    BY <1>1 DEF vars, ConsentInv, OwnConsent
  <1>2. CASE EditItem
    BY <1>2 DEF EditItem, ghosts, ConsentInv, OwnConsent
  <1>3. ASSUME NEW n \in 1..MaxCalls, NEW answer \in {"yes", "no"}, Answer(n, answer)
        PROVE  ConsentInv'
    <2>1. approved \subseteq approved' /\ delivered' = delivered
          /\ (answer = "yes" => n \in approved')
      BY <1>3 DEF Answer
    <2>2. QED
      BY <1>3, <2>1, AnswerType DEF ConsentInv, OwnConsent, Consented
  <1>4. ASSUME NEW d \in Device, UnlockVault(d) \/ LockVault(d) \/ StopWorker(d)
        PROVE  ConsentInv'
    <2>1. UNCHANGED <<approved, delivered>>
      BY <1>4 DEF UnlockVault, LockVault, StopWorker, ghosts
    <2>2. \A t \in Tab : cer'[t] = cer[t] \/ cer'[t].at = "failed"
      BY <1>4, StopType DEF UnlockVault, LockVault
    <2>3. QED
      BY <2>1, <2>2 DEF ConsentInv, OwnConsent, Consented
  <1>5. ASSUME NEW t \in Tab, Call(t) \/ GiveUp(t) \/ FallBack(t) \/ Refuse(t)
                 \/ Declined(t) \/ SendFails(t) \/ LoseWindow(t) \/ ConsentTimeout(t)
        PROVE  ConsentInv'
    <2>1. UNCHANGED <<approved, delivered>>
      BY <1>5 DEF Call, GiveUp, FallBack, Refuse, Declined, SendFails, LoseWindow,
                  ConsentTimeout, ghosts
    <2>2. \A u \in Tab : cer'[u] = cer[u] \/ cer'[u].at \in {"none", "check", "no", "failed"}
      BY <1>5, RestsElsewhere
    <2>3. QED
      BY <2>1, <2>2 DEF ConsentInv, OwnConsent, Consented
  <1>6. ASSUME NEW t \in Tab, Ask(t) \/ Sign(t) \/ Send(t) \/ Store(t)
        PROVE  ConsentInv'
    <2>1. UNCHANGED <<approved, delivered>>
      BY <1>6 DEF Ask, Sign, Send, Store, ghosts
    <2>2. /\ \A u \in Tab \ {t} : cer'[u] = cer[u]
          /\ cer'[t].at \in Consented => cer[t].at \in Consented /\ cer'[t].no = cer[t].no
      <3>1. CASE Ask(t)
        BY <3>1, AskType DEF Consented
      <3>2. CASE Sign(t)
        BY <3>2, SignType DEF Consented, Sign
      <3>3. CASE Send(t)
        BY <3>3, SendType DEF Consented, Send
      <3>4. CASE Store(t)
        BY <3>4, StoreType DEF Consented, Store
      <3>5. QED
        BY <1>6, <3>1, <3>2, <3>3, <3>4
    <2>3. QED
      BY <2>1, <2>2 DEF ConsentInv, OwnConsent
  <1>7. ASSUME NEW t \in Tab, Return(t)
        PROVE  ConsentInv'
    <2>1. cer[t].no \in approved /\ approved' = approved
      BY <1>7 DEF Return, ConsentInv, Consented
    <2>2. Credential(cer[t]).id = cer[t].no
      BY DEF Credential
    <2>3. OwnConsent'
      BY <1>7, <2>1, <2>2, ReturnType DEF ConsentInv, OwnConsent
    <2>4. QED
      BY <1>7, <2>1, <2>3, ReturnType DEF ConsentInv, Consented
  <1>8. QED
    BY <1>1, <1>2, <1>3, <1>4, <1>5, <1>6, <1>7 DEF Next

\* pendingConsents is keyed by the request, and settle removes its entry: a page
\* gets nothing without a click on Continue in the window of its own ceremony,
\* however many devices and tabs run ceremonies and whatever windows stopped
\* workers leave behind.
THEOREM ConsentIsOwn == Spec => []OwnConsent
  <1>1. Init => ConsentInv
    BY DEF Init, ConsentInv, OwnConsent, Consented, Idle, Bare
  <1>2. ConsentInv => OwnConsent
    BY DEF ConsentInv
  <1>3. QED
    BY <1>1, <1>2, TypeCorrect, ConsentStep, PTL DEF Spec

-----------------------------------------------------------------------------
(* Counters, with one tab for each device.                                 *)

\* A copy is never ahead of the row, and one of the same version is the row.
CopyInv ==
    \A d \in Device, u \in 1..MaxUnlocks :
       /\ copy[d][u].version <= row.version
       /\ copy[d][u].version = row.version => copy[d][u].count = row.count

\* What an assertion relies on at each point: until it is sent, the counter it
\* read is the one of the copy it keeps; then, that no other update has reached
\* the row if the version is still the one it names; and once stored, that its
\* counter is one the row has reached.
Counts(c, d) ==
    /\ c.at \in {"ask", "yes"} => c.count = copy[d][c.obj].count
    /\ c.at = "sign" => c.count = copy[d][c.obj].count + 1
    /\ c.at = "sent" => /\ c.version <= row.version
                        /\ c.version = row.version => c.count = row.count + 1
    /\ c.at = "stored" => /\ c.version < row.version /\ c.count <= row.count
                          /\ c.version + 1 = row.version => c.count = row.count

Stored(t) == cer[t].at = "stored" /\ cer[t].kind = "get"

CountInv ==
    /\ \A t \in Tab : cer[t].kind = "get" => Counts(cer[t], t[1])
    /\ \A t \in Tab : cer[t].at = "stored" /\ cer[t].kind = "create" => cer[t].no \in saved
    /\ \A t, u \in Tab : Stored(t) /\ Stored(u) /\ t # u => cer[t].count # cer[u].count
    /\ \A t \in Tab : Stored(t) =>
          \A a \in delivered : a.kind = "get" => a.count # cer[t].count

CounterInv == CopyInv /\ CountInv /\ DeliveredIsStored /\ CountersNeverRepeat

\* Steps that leave the row, the copies and what was handed out alone, and
\* every other ceremony as it was.
LEMMA CounterFrame ==
  ASSUME TypeInv, CounterInv, NEW T \in SUBSET Tab,
         UNCHANGED <<row, saved, copy, delivered>>,
         \A u \in Tab \ T : cer'[u] = cer[u],
         \A t \in T : /\ cer'[t].at # "stored"
                      /\ cer'[t].kind = "get" => Counts(cer[t], t[1])'
  PROVE  CounterInv'
  <1>1. CopyInv'
    BY DEF CounterInv, CopyInv
  <1>2. DeliveredIsStored' /\ CountersNeverRepeat'
    BY DEF CounterInv, DeliveredIsStored, CountersNeverRepeat
  <1>3. ASSUME NEW u \in Tab, cer'[u].kind = "get"
        PROVE  Counts(cer[u], u[1])'
    <2>1. CASE u \in T
      BY <1>3, <2>1
    <2>2. CASE u \notin T
      BY <1>3, <2>2 DEF CounterInv, CountInv, Counts
    <2>3. QED
      BY <2>1, <2>2
  <1>4. \A u \in Tab : cer'[u].at = "stored" => cer'[u] = cer[u] /\ u \notin T
    OBVIOUS
  <1>5. CountInv'
    BY <1>3, <1>4 DEF CounterInv, CountInv, Stored
  <1>6. QED
    BY <1>1, <1>2, <1>5 DEF CounterInv

\* Steps that end or begin a ceremony, or lose its window.
LEMMA CounterRests ==
  ASSUME TypeInv, CounterInv, UNCHANGED <<row, saved, copy, delivered>>,
         \A u \in Tab : \/ cer'[u] = cer[u]
                        \/ cer'[u].at \in {"none", "check", "no", "failed"}
  PROVE  CounterInv'
  <1> DEFINE T == {u \in Tab : cer'[u] # cer[u]}
  <1>1. \A t \in T : /\ cer'[t].at # "stored"
                     /\ cer'[t].kind = "get" => Counts(cer[t], t[1])'
    BY DEF Counts
  <1>2. T \in SUBSET Tab /\ \A u \in Tab \ T : cer'[u] = cer[u]
    OBVIOUS
  <1> HIDE DEF T
  <1>3. QED
    BY <1>1, <1>2, CounterFrame

LEMMA CounterEdit ==
  ASSUME TypeInv, CounterInv, EditItem
  PROVE  CounterInv'
  <1>1. /\ row.version \in Nat /\ row'.version = row.version + 1
        /\ row'.count = row.count
    BY DEF TypeInv, TypeOK, EditItem, Row
  <1>2. UNCHANGED <<saved, copy, cer, delivered>>
    BY DEF EditItem, ghosts
  <1>3. CopyInv'
    <2>1. \A d \in Device, u \in 1..MaxUnlocks : copy[d][u].version \in Nat
      BY DEF TypeInv, TypeOK, Row
    <2>2. QED
      BY <1>1, <1>2, <2>1 DEF CounterInv, CopyInv
  <1>4. DeliveredIsStored' /\ CountersNeverRepeat'
    BY <1>1, <1>2 DEF CounterInv, DeliveredIsStored, CountersNeverRepeat
  <1>5. CountInv'
    <2>1. \A t \in Tab : cer[t].version \in Nat
      BY DEF TypeInv, TypeOK, Ceremony
    <2>2. \A t \in Tab : cer'[t].kind = "get" => Counts(cer[t], t[1])'
      BY <1>1, <1>2, <2>1 DEF CounterInv, CountInv, Counts
    <2>3. QED
      BY <1>2, <2>2 DEF CounterInv, CountInv, Stored
  <1>6. QED
    BY <1>3, <1>4, <1>5 DEF CounterInv

LEMMA CounterUnlock ==
  ASSUME TypeInv, CounterInv, NEW d \in Device, UnlockVault(d)
  PROVE  CounterInv'
  <1>1. UNCHANGED <<row, saved, cer, delivered>>
    BY DEF UnlockVault, ghosts
  <1>2. unlocks \in Nat /\ unlocks + 1 \in 1..MaxUnlocks
    BY PasskeyAssumption DEF TypeInv, TypeOK, UnlockVault
  <1>3. \A e \in Device, u \in 1..MaxUnlocks :
           copy'[e][u] = IF e = d /\ u = unlocks + 1 THEN row ELSE copy[e][u]
    BY <1>2 DEF TypeInv, TypeOK, UnlockVault
  <1>4. CopyInv'
    <2>1. row.version \in Nat
      BY DEF TypeInv, TypeOK, Row
    <2>2. QED
      BY <1>1, <1>3, <2>1 DEF CounterInv, CopyInv
  <1>5. DeliveredIsStored' /\ CountersNeverRepeat'
    BY <1>1 DEF CounterInv, DeliveredIsStored, CountersNeverRepeat
  <1>6. ASSUME NEW t \in Tab, cer'[t].kind = "get"
        PROVE  Counts(cer[t], t[1])'
    <2>1. cer[t].obj \in 0..MaxUnlocks /\ t[1] \in Device
      BY TabParts DEF TypeInv, TypeOK, Ceremony
    <2>2. cer[t].at \in {"ask", "yes", "sign"} =>
             cer[t].obj \in 1..MaxUnlocks /\ cer[t].obj <= unlocks
      BY <2>1 DEF TypeInv, HeldInv, Holding
    <2>3. cer[t].at \in {"ask", "yes", "sign"} =>
             copy'[t[1]][cer[t].obj] = copy[t[1]][cer[t].obj]
      BY <1>2, <1>3, <2>1, <2>2
    <2>4. QED
      BY <1>1, <1>6, <2>3 DEF CounterInv, CountInv, Counts
  <1>7. CountInv'
    BY <1>1, <1>6 DEF CounterInv, CountInv, Stored
  <1>8. QED
    BY <1>4, <1>5, <1>7 DEF CounterInv

LEMMA CounterAsk ==
  ASSUME TypeInv, CounterInv, NEW t \in Tab, Ask(t)
  PROVE  CounterInv'
  <1>1. UNCHANGED <<row, saved, copy, delivered>>
    BY DEF Ask, ghosts
  <1>2. Counts(cer[t], t[1])' /\ cer'[t].at # "stored"
    BY <1>1, AskType DEF Counts
  <1>3. QED
    BY <1>1, <1>2, AskType, CounterFrame, {t} \in SUBSET Tab

LEMMA CounterAnswer ==
  ASSUME TypeInv, CounterInv, NEW n \in 1..MaxCalls, NEW answer \in {"yes", "no"},
         Answer(n, answer)
  PROVE  CounterInv'
  <1> DEFINE T == {u \in Tab : cer'[u] # cer[u]}
  <1>1. UNCHANGED <<row, saved, copy, delivered>>
    BY DEF Answer
  <1>2. ASSUME NEW t \in T
        PROVE  /\ cer'[t].at # "stored"
               /\ cer'[t].kind = "get" => Counts(cer[t], t[1])'
    BY <1>1, AnswerType DEF CounterInv, CountInv, Counts
  <1>3. T \in SUBSET Tab /\ \A u \in Tab \ T : cer'[u] = cer[u]
    OBVIOUS
  <1> HIDE DEF T
  <1>4. QED
    BY <1>1, <1>2, <1>3, CounterFrame

LEMMA CounterSign ==
  ASSUME TypeInv, CounterInv, NEW t \in Tab, Sign(t)
  PROVE  CounterInv'
  <1>1. UNCHANGED <<row, saved, copy, delivered>>
    BY DEF Sign, ghosts
  <1>2. cer'[t].at # "stored" /\ (cer'[t].kind = "get" => Counts(cer[t], t[1])')
    <2>1. cer[t].kind = "get" => cer[t].count = copy[t[1]][cer[t].obj].count
      BY DEF CounterInv, CountInv, Counts, Sign
    <2>2. /\ cer'[t].at \in {"sign", "failed"} /\ cer'[t].kind = cer[t].kind
          /\ cer'[t].obj = cer[t].obj
          /\ cer[t].kind = "get" => cer'[t].count = cer[t].count + 1
      BY SignType
    <2>3. QED
      BY <1>1, <2>1, <2>2 DEF Counts
  <1>3. QED
    BY <1>1, <1>2, SignType, CounterFrame, {t} \in SUBSET Tab

LEMMA CounterSend ==
  ASSUME TypeInv, CounterInv, NEW t \in Tab, Send(t)
  PROVE  CounterInv'
  <1> DEFINE k == copy[t[1]][cer[t].obj]
  <1>1. UNCHANGED <<row, saved, copy, delivered>>
    BY DEF Send, ghosts
  <1>2. t[1] \in Device /\ cer[t].obj \in 1..MaxUnlocks
    <2>1. cer[t].obj \in 0..MaxUnlocks
      BY DEF TypeInv, TypeOK, Ceremony
    <2>2. cer[t].obj # 0
      BY DEF TypeInv, HeldInv, Holding, Send
    <2>3. QED
      BY <2>1, <2>2, TabParts, PasskeyAssumption
  <1>3. k.version <= row.version /\ (k.version = row.version => k.count = row.count)
    BY <1>2 DEF CounterInv, CopyInv
  <1>4. cer[t].kind = "get" => cer[t].count = k.count + 1
    BY DEF CounterInv, CountInv, Counts, Send
  <1>5. cer'[t].at # "stored" /\ (cer'[t].kind = "get" => Counts(cer[t], t[1])')
    BY <1>1, <1>3, <1>4, SendType DEF Counts
  <1>6. QED
    BY <1>1, <1>5, SendType, CounterFrame, {t} \in SUBSET Tab

\* The update names the version of the row, so its counter is the next one:
\* no other assertion has it.
LEMMA CounterStore ==
  ASSUME TypeInv, CounterInv, NEW t \in Tab, Store(t)
  PROVE  CounterInv'
  <1>1. /\ \A u \in Tab \ {t} : cer'[u] = cer[u]
        /\ cer'[t].at = "stored" /\ cer'[t].no = cer[t].no
        /\ cer'[t].kind = cer[t].kind /\ cer'[t].count = cer[t].count
        /\ cer'[t].version = cer[t].version
    BY StoreType
  <1>2. UNCHANGED <<copy, delivered>>
    BY DEF Store, ghosts
  <1>3. \A u \in Tab : cer[u].version \in Nat /\ cer[u].count \in Nat
    BY DEF TypeInv, TypeOK, Ceremony
  <1>4. row.version \in Nat /\ row.count \in Nat
    BY DEF TypeInv, TypeOK, Row
  <1>5. CASE cer[t].kind = "get"
    <2>1. /\ row'.version = row.version + 1 /\ row'.count = cer[t].count
          /\ saved' = saved /\ cer[t].version = row.version
      BY <1>5 DEF Store, SameVersion
    <2>2. cer[t].count = row.count + 1
      BY <1>5, <2>1 DEF CounterInv, CountInv, Counts, Store
    <2>3. CopyInv'
      <3>1. \A d \in Device, u \in 1..MaxUnlocks : copy[d][u].version \in Nat
        BY DEF TypeInv, TypeOK, Row
      <3>2. QED
        BY <1>2, <1>4, <2>1, <3>1 DEF CounterInv, CopyInv
    <2>4. \A a \in delivered : a.kind = "get" => a.count \in Nat /\ a.count <= row.count
      BY DEF TypeInv, TypeOK, CounterInv, DeliveredIsStored
    <2>5. DeliveredIsStored' /\ CountersNeverRepeat'
      <3>1. DeliveredIsStored'
        BY <1>2, <1>4, <2>1, <2>2, <2>4 DEF CounterInv, DeliveredIsStored
      <3>2. QED
        BY <1>2, <3>1 DEF CounterInv, CountersNeverRepeat
    <2>6. \A u \in Tab : Stored(u) => cer[u].count <= row.count /\ u # t
      BY DEF CounterInv, CountInv, Counts, Stored, Store
    <2>7. ASSUME NEW u \in Tab, cer'[u].kind = "get"
          PROVE  Counts(cer[u], u[1])'
      <3>1. CASE u = t
        BY <1>1, <1>3, <1>4, <2>1, <3>1 DEF Counts
      <3>2. CASE u # t
        <4>1. Counts(cer[u], u[1]) /\ cer'[u] = cer[u]
          BY <1>1, <2>7, <3>2 DEF CounterInv, CountInv
        <4>2. QED
          BY <1>2, <1>3, <1>4, <2>1, <2>2, <4>1 DEF Counts
      <3>3. QED
        BY <3>1, <3>2
    <2>8. \A u \in Tab : Stored(u)' => u = t \/ Stored(u)
      BY <1>1 DEF Stored
    <2>9. \A u, v \in Tab : Stored(u)' /\ Stored(v)' /\ u # v => cer'[u].count # cer'[v].count
      <3>1. SUFFICES ASSUME NEW u \in Tab, NEW v \in Tab, Stored(u)', Stored(v)', u # v
                     PROVE  cer'[u].count # cer'[v].count
        OBVIOUS
      <3>2. CASE u = t
        <4>1. Stored(v) /\ cer'[v] = cer[v]
          BY <1>1, <2>8, <3>1, <3>2
        <4>2. QED
          BY <1>1, <1>3, <1>4, <2>2, <2>6, <3>2, <4>1
      <3>3. CASE v = t
        <4>1. Stored(u) /\ cer'[u] = cer[u]
          BY <1>1, <2>8, <3>1, <3>3
        <4>2. QED
          BY <1>1, <1>3, <1>4, <2>2, <2>6, <3>3, <4>1
      <3>4. CASE u # t /\ v # t
        BY <1>1, <2>8, <3>1, <3>4 DEF CounterInv, CountInv
      <3>5. QED
        BY <3>2, <3>3, <3>4
    <2>10. \A u \in Tab : Stored(u)' =>
              \A a \in delivered' : a.kind = "get" => a.count # cer'[u].count
      <3>1. SUFFICES ASSUME NEW u \in Tab, Stored(u)', NEW a \in delivered, a.kind = "get"
                     PROVE  a.count # cer'[u].count
        BY <1>2
      <3>2. CASE u = t
        BY <1>1, <1>4, <2>2, <2>4, <3>1, <3>2
      <3>3. CASE u # t
        BY <1>1, <2>8, <3>1, <3>3 DEF CounterInv, CountInv
      <3>4. QED
        BY <3>2, <3>3
    <2>11. \A u \in Tab : cer'[u].at = "stored" /\ cer'[u].kind = "create" => cer'[u].no \in saved'
      BY <1>1, <1>5, <2>1 DEF CounterInv, CountInv
    <2>12. CountInv'
      BY <2>7, <2>9, <2>10, <2>11 DEF CountInv
    <2>13. QED
      BY <2>3, <2>5, <2>12 DEF CounterInv
  <1>6. CASE cer[t].kind = "create"
    <2>1. row' = row /\ saved' = saved \cup {cer[t].no}
      BY <1>6 DEF Store
    <2>2. CopyInv'
      BY <1>2, <2>1 DEF CounterInv, CopyInv
    <2>3. DeliveredIsStored' /\ CountersNeverRepeat'
      BY <1>2, <2>1 DEF CounterInv, DeliveredIsStored, CountersNeverRepeat
    <2>4. \A u \in Tab : cer'[u].kind = "get" => cer'[u] = cer[u]
      BY <1>1, <1>6
    <2>5. \A u \in Tab : cer'[u].kind = "get" => Counts(cer[u], u[1])'
      BY <1>2, <2>1, <2>4 DEF CounterInv, CountInv, Counts
    <2>6. \A u \in Tab : Stored(u)' => Stored(u) /\ cer'[u] = cer[u]
      BY <2>4 DEF Stored
    <2>7. \A u \in Tab : cer'[u].at = "stored" /\ cer'[u].kind = "create" => cer'[u].no \in saved'
      BY <1>1, <2>1 DEF CounterInv, CountInv
    <2>8. CountInv'
      BY <1>2, <2>5, <2>6, <2>7 DEF CounterInv, CountInv
    <2>9. QED
      BY <2>2, <2>3, <2>8 DEF CounterInv
  <1>7. QED
    BY <1>5, <1>6 DEF TypeInv, TypeOK, Ceremony

\* The counter that is handed out is one that no other stored assertion has, and
\* the copy that follows the row is of a device whose only ceremony this was.
LEMMA CounterReturn ==
  ASSUME TypeInv, CounterInv, TabsPer = 1, NEW t \in Tab, Return(t)
  PROVE  CounterInv'
  <1> DEFINE c == Credential(cer[t])
  <1>1. /\ \A u \in Tab \ {t} : cer'[u] = cer[u]
        /\ cer'[t].at \in {"none", "failed"}
        /\ delivered' \subseteq delivered \cup {c}
        /\ \A d \in Device, n \in 1..MaxUnlocks :
              \/ copy'[d][n] = copy[d][n]
              \/ /\ d = t[1] /\ cer[t].kind = "get"
                 /\ copy'[d][n] = [version |-> cer[t].version + 1, count |-> cer[t].count]
    BY ReturnType
  <1>2. UNCHANGED <<row, saved>> /\ cer[t].at = "stored"
    BY DEF Return
  <1>3. /\ \A u \in Tab : cer[u].version \in Nat /\ cer[u].count \in Nat
        /\ row.version \in Nat /\ row.count \in Nat
    BY DEF TypeInv, TypeOK, Ceremony, Row
  <1>4. cer[t].kind = "get" =>
           /\ cer[t].version < row.version /\ cer[t].count <= row.count
           /\ cer[t].version + 1 = row.version => cer[t].count = row.count
    BY <1>2 DEF CounterInv, CountInv, Counts
  <1>5. CopyInv'
    <2>1. SUFFICES ASSUME NEW d \in Device, NEW n \in 1..MaxUnlocks
                   PROVE  /\ copy'[d][n].version <= row.version
                          /\ copy'[d][n].version = row.version => copy'[d][n].count = row.count
      BY <1>2 DEF CopyInv
    <2>2. CASE copy'[d][n] = copy[d][n]
      BY <2>2 DEF CounterInv, CopyInv
    <2>3. CASE /\ cer[t].kind = "get"
               /\ copy'[d][n] = [version |-> cer[t].version + 1, count |-> cer[t].count]
      BY <1>3, <1>4, <2>3
    <2>4. QED
      BY <1>1, <2>2, <2>3
  <1>6. c.id = cer[t].no /\ c.kind = cer[t].kind /\ c.count = cer[t].count
    BY DEF Credential
  <1>7. DeliveredIsStored'
    <2>1. SUFFICES ASSUME NEW a \in delivered'
                   PROVE  \/ a.kind = "get" /\ a.count <= row.count
                          \/ a.kind = "create" /\ a.id \in saved
      BY <1>2 DEF DeliveredIsStored
    <2>2. CASE a \in delivered
      BY <2>2 DEF CounterInv, DeliveredIsStored
    <2>3. CASE a = c
      <3>1. cer[t].kind \in {"create", "get"}
        BY DEF TypeInv, TypeOK, Ceremony
      <3>2. cer[t].kind = "create" => cer[t].no \in saved
        BY <1>2 DEF CounterInv, CountInv
      <3>3. QED
        BY <1>4, <1>6, <2>3, <3>1, <3>2
    <2>4. QED
      BY <1>1, <2>2, <2>3
  <1>8. cer[t].kind = "get" => \A a \in delivered : a.kind = "get" => a.count # cer[t].count
    BY <1>2 DEF CounterInv, CountInv, Stored
  <1>9. CountersNeverRepeat'
    <2>1. SUFFICES ASSUME NEW a \in delivered', NEW b \in delivered',
                          a.kind = "get", b.kind = "get", a # b
                   PROVE  a.count # b.count
      BY DEF CountersNeverRepeat
    <2>2. CASE a = c
      BY <1>1, <1>6, <1>8, <2>1, <2>2
    <2>3. CASE b = c
      BY <1>1, <1>6, <1>8, <2>1, <2>3
    <2>4. CASE a \in delivered /\ b \in delivered
      BY <2>1, <2>4 DEF CounterInv, CountersNeverRepeat
    <2>5. QED
      BY <1>1, <2>2, <2>3, <2>4
  <1>10. ASSUME NEW u \in Tab, cer'[u].kind = "get"
         PROVE  Counts(cer[u], u[1])'
    <2>1. CASE u = t
      BY <1>1, <2>1 DEF Counts
    <2>2. CASE u # t
      <3>1. u[1] # t[1] /\ u[1] \in Device
        BY <2>2, OneTabEach, TabParts
      <3>2. Counts(cer[u], u[1]) /\ cer'[u] = cer[u]
        BY <1>1, <1>10, <2>2 DEF CounterInv, CountInv
      <3>3. cer[u].at \in {"ask", "yes", "sign"} => cer[u].obj \in 1..MaxUnlocks
        <4>1. cer[u].obj \in 0..MaxUnlocks
          BY DEF TypeInv, TypeOK, Ceremony
        <4>2. cer[u].at \in {"ask", "yes", "sign"} => cer[u].obj # 0
          BY DEF TypeInv, HeldInv, Holding
        <4>3. QED
          BY <4>1, <4>2, PasskeyAssumption
      <3>4. cer[u].at \in {"ask", "yes", "sign"} =>
               copy'[u[1]][cer[u].obj] = copy[u[1]][cer[u].obj]
        BY <1>1, <3>1, <3>3
      <3>5. QED
        BY <1>2, <3>2, <3>4 DEF Counts
    <2>3. QED
      BY <2>1, <2>2
  <1>11. \A u \in Tab : cer'[u].at = "stored" => u # t /\ cer'[u] = cer[u]
    BY <1>1
  <1>12. \A u \in Tab : Stored(u)' => u # t /\ Stored(u) /\ cer'[u] = cer[u]
    BY <1>11 DEF Stored
  <1>13. ASSUME NEW u \in Tab, Stored(u)', NEW a \in delivered', a.kind = "get"
         PROVE  a.count # cer'[u].count
    <2>1. u # t /\ Stored(u) /\ cer'[u] = cer[u]
      BY <1>12, <1>13
    <2>2. CASE a \in delivered
      BY <1>13, <2>1, <2>2 DEF CounterInv, CountInv
    <2>3. CASE a = c
      <3>1. Stored(t)
        BY <1>2, <1>6, <1>13, <2>3 DEF Stored
      <3>2. QED
        BY <1>6, <2>1, <2>3, <3>1 DEF CounterInv, CountInv
    <2>4. QED
      BY <1>1, <2>2, <2>3
  <1>14. CountInv'
    <2>1. \A u \in Tab : cer'[u].at = "stored" /\ cer'[u].kind = "create" => cer'[u].no \in saved'
      BY <1>2, <1>11 DEF CounterInv, CountInv
    <2>2. \A u, v \in Tab : Stored(u)' /\ Stored(v)' /\ u # v => cer'[u].count # cer'[v].count
      BY <1>12 DEF CounterInv, CountInv
    <2>3. QED
      BY <1>10, <1>13, <2>1, <2>2 DEF CountInv
  <1>15. QED
    BY <1>5, <1>7, <1>9, <1>14 DEF CounterInv

LEMMA CounterStep ==
  ASSUME TypeInv, CounterInv, TabsPer = 1, [Next]_vars
  PROVE  CounterInv'
  <1>1. CASE UNCHANGED vars
    BY <1>1, CounterRests DEF vars
  <1>2. CASE EditItem
    BY <1>2, CounterEdit
  <1>3. ASSUME NEW n \in 1..MaxCalls, NEW answer \in {"yes", "no"}, Answer(n, answer)
        PROVE  CounterInv'
    BY <1>3, CounterAnswer
  <1>4. ASSUME NEW d \in Device, UnlockVault(d) \/ LockVault(d) \/ StopWorker(d)
        PROVE  CounterInv'
    <2>1. CASE UnlockVault(d)
      BY <2>1, CounterUnlock
    <2>2. CASE LockVault(d) \/ StopWorker(d)
      <3>1. UNCHANGED <<row, saved, copy, delivered>>
        BY <2>2 DEF LockVault, StopWorker, ghosts
      <3>2. \A u \in Tab : cer'[u] = cer[u] \/ cer'[u].at = "failed"
        BY <2>2, StopType DEF LockVault
      <3>3. QED
        BY <3>1, <3>2, CounterRests
    <2>3. QED
      BY <1>4, <2>1, <2>2
  <1>5. ASSUME NEW t \in Tab, Call(t) \/ GiveUp(t) \/ FallBack(t) \/ Refuse(t)
                 \/ Declined(t) \/ SendFails(t) \/ LoseWindow(t) \/ ConsentTimeout(t)
        PROVE  CounterInv'
    <2>1. UNCHANGED <<row, saved, copy, delivered>>
      BY <1>5 DEF Call, GiveUp, FallBack, Refuse, Declined, SendFails, LoseWindow,
                  ConsentTimeout, ghosts
    <2>2. QED
      BY <1>5, <2>1, RestsElsewhere, CounterRests
  <1>6. ASSUME NEW t \in Tab, Ask(t) \/ Sign(t) \/ Send(t) \/ Store(t) \/ Return(t)
        PROVE  CounterInv'
    BY <1>6, CounterAsk, CounterSign, CounterSend, CounterStore, CounterReturn
  <1>7. QED
    BY <1>1, <1>2, <1>3, <1>4, <1>5, <1>6 DEF Next

LEMMA CounterAlways ==
  ASSUME TabsPer = 1
  PROVE  Spec => []CounterInv
  <1>1. Init => CounterInv
    BY PasskeyAssumption
       DEF Init, CounterInv, CopyInv, CountInv, Counts, Stored, DeliveredIsStored,
           CountersNeverRepeat, Idle, Bare
  <1>2. TypeInv /\ CounterInv /\ [Next]_vars => CounterInv'
    BY CounterStep
  <1>3. QED
    BY <1>1, <1>2, TypeCorrect, PTL DEF Spec

\* The sign counter is stored before the signature is returned, under the version
\* the item was read at.  Where each device runs one ceremony at a time, however
\* many devices there are, no two assertions that reach a site have one counter.
THEOREM CountersAreUnique ==
  ASSUME TabsPer = 1
  PROVE  Spec => []CountersNeverRepeat
  <1>1. CounterInv => CountersNeverRepeat
    BY DEF CounterInv
  <1>2. QED
    BY <1>1, CounterAlways, PTL

\* Under the same assumption whatever a page was handed is in the vault: the row
\* has reached the counter of every assertion, and a new passkey is stored.
THEOREM DeliveredStays ==
  ASSUME TabsPer = 1
  PROVE  Spec => []DeliveredIsStored
  <1>1. CounterInv => DeliveredIsStored
    BY DEF CounterInv
  <1>2. QED
    BY <1>1, CounterAlways, PTL

=============================================================================
