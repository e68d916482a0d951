---------------------------- MODULE VaultItemsProofs ----------------------------
(***************************************************************************)
(* Proofs about VaultItems, for every set of clients, vaults and items and *)
(* every bound.                                                            *)
(***************************************************************************)
EXTENDS VaultItems, TLAPS

LEMMA MaximumFacts ==
  ASSUME NEW a \in Nat, NEW b \in Nat
  PROVE  /\ Maximum(a, b) \in Nat
         /\ Maximum(a, b) >= a /\ Maximum(a, b) >= b
         /\ Maximum(a, b) \in {a, b}
  BY DEF Maximum

LEMMA IdleType == Idle \in Req /\ Rested \in Upgrade
  BY DEF Idle, Req, Rested, Upgrade

\* A step that replaces one request by a well-typed one.
LEMMA BecomesType ==
  ASSUME TypeOK, NEW c \in Client, NEW s \in Slot, NEW q \in Req, Becomes(c, s, q)
  PROVE  /\ req' \in [Client -> [Slot -> Req]]
         /\ \A d \in Client, t \in Slot :
               req'[d][t] = IF d = c /\ t = s THEN q ELSE req[d][t]
  BY DEF TypeOK, Becomes

LEMMA RecordType ==
  ASSUME TypeOK, NEW c \in Client, NEW i \in Item, NEW rev \in Nat, Record(c, i, rev)
  PROVE  /\ seen' \in [Client -> [Item -> Nat]]
         /\ \A d \in Client, j \in Item :
               seen'[d][j] = IF d = c /\ j = i THEN Maximum(seen[c][i], rev)
                                               ELSE seen[d][j]
  <1>1. seen \in [Client -> [Item -> Nat]] /\ seen[c][i] \in Nat
    BY DEF TypeOK
  <1>2. Maximum(seen[c][i], rev) \in Nat
    BY <1>1, MaximumFacts
  <1>3. seen' = [seen EXCEPT ![c][i] = Maximum(seen[c][i], rev)]
    BY DEF Record
  <1>4. QED
    BY <1>1, <1>2, <1>3

\* The rows a request or an answer makes of a row.
LEMMA Rewritten ==
  ASSUME NEW row \in Row, NEW rev \in Nat, NEW text \in Nat
  PROVE  [row EXCEPT !.rev = rev, !.text = text] \in Row
  BY DEF Row

LEMMA Reencrypted ==
  ASSUME NEW row \in Row, NEW rev \in Nat
  PROVE  [row EXCEPT !.rev = rev] \in Row
  BY DEF Row

LEMMA Counted ==
  ASSUME NEW row \in Row
  PROVE  [row EXCEPT !.version = @ + 1] \in Row
  BY DEF Row

LEMMA Moved ==
  ASSUME NEW row \in Row, NEW v \in Vault
  PROVE  [row EXCEPT !.vault = v, !.version = @ + 1] \in Row
  <1>1. row.version + 1 \in Nat
    BY DEF Row
  <1>2. QED
    BY <1>1, ZenonT(40) DEF Row

LEMMA Deleted ==
  ASSUME NEW row \in Row
  PROVE  [row EXCEPT !.gone = TRUE] \in Row
  BY DEF Row

LEMMA Updated ==
  ASSUME NEW row \in Row, NEW rev \in Nat, NEW text \in Nat
  PROVE  [row EXCEPT !.version = @ + 1, !.rev = rev, !.text = text] \in Row
  <1>1. row.version + 1 \in Nat
    BY DEF Row
  <1>2. QED
    BY <1>1, ZenonT(40) DEF Row

LEMMA NextRevisionType ==
  ASSUME TypeOK, NEW c \in Client, NEW row \in Row
  PROVE  /\ NextRevision(c, row) \in Nat
         /\ NextRevision(c, row) > row.rev
         /\ NextRevision(c, row) > seen[c][row.id]
  <1>1. seen[c][row.id] \in Nat /\ row.rev \in Nat
    BY DEF TypeOK, Row
  <1>2. QED
    BY <1>1 DEF NextRevision, Maximum

LEMMA HeldRow ==
  ASSUME TypeOK, NEW c \in Client, NEW r \in Held(c)
  PROVE  r \in Row
  BY DEF TypeOK, Held, Upgrade

-----------------------------------------------------------------------------
(* Types                                                                   *)

LEMMA KeptType ==
  ASSUME NEW q \in Req, q.row \in Row,
         q.op \in {"save", "upgrade", "create", "move"},
         q.op = "move" => q.to \in Vault
  PROVE  /\ Kept(q) \in Row
         /\ Kept(q).id = q.row.id /\ Kept(q).rev = q.row.rev
         /\ Kept(q).text = q.row.text
  <1>1. CASE q.op \in {"save", "upgrade"}
    <2>1. Kept(q) = [q.row EXCEPT !.version = @ + 1]
      BY <1>1 DEF Kept
    <2>2. QED
      BY <2>1, Counted DEF Row
  <1>2. CASE q.op = "create"
    <2>1. Kept(q) = q.row
      BY <1>2 DEF Kept
    <2>2. QED
      BY <2>1
  <1>3. CASE q.op = "move"
    <2>1. Kept(q) = [q.row EXCEPT !.vault = q.to, !.version = @ + 1]
      BY <1>3 DEF Kept
    <2>2. QED
      BY <1>3, <2>1, Moved DEF Row
  <1>4. QED
    BY <1>1, <1>2, <1>3

LEMMA BecomesShape ==
  ASSUME TypeOK, ReqShape, NEW c \in Client, NEW s \in Slot, NEW q \in Req,
         Shaped(s, q), Becomes(c, s, q)
  PROVE  req' \in [Client -> [Slot -> Req]] /\ ReqShape'
  <1>1. \A d \in Client, t \in Slot :
           req'[d][t] = IF d = c /\ t = s THEN q ELSE req[d][t]
    BY BecomesType
  <1>2. QED
    BY <1>1, BecomesType DEF ReqShape

LEMMA IdleShape == \A s \in Slot : Shaped(s, Idle)
  BY DEF Shaped

\* A request that is sent.
LEMMA SentType ==
  ASSUME NEW op \in OpKind, NEW row \in Row, NEW base \in Nat,
         NEW to \in Vault \cup {None}
  PROVE  [op |-> op, at |-> "sent", base |-> base, row |-> row, to |-> to] \in Req
  BY DEF Req

\* A request that has been answered.
LEMMA AnsweredType ==
  ASSUME NEW s \in Slot, NEW q \in Req, Shaped(s, q), q.at # "idle",
         NEW at \in {"done", "refused"}
  PROVE  /\ [q EXCEPT !.at = at] \in Req
         /\ Shaped(s, [q EXCEPT !.at = at])
  <1>1. [q EXCEPT !.at = at] \in Req
    BY DEF Req
  <1>2. q # Idle
    BY DEF Idle
  <1>3. /\ [q EXCEPT !.at = at].at # "idle" /\ [q EXCEPT !.at = at].op = q.op
        /\ [q EXCEPT !.at = at].row = q.row /\ [q EXCEPT !.at = at].to = q.to
    BY DEF Req
  <1>4. QED
    BY <1>1, <1>2, <1>3 DEF Shaped

LEMMA RequestFacts ==
  ASSUME TypeOK, ReqShape, NEW c \in Client, NEW s \in Slot,
         req[c][s].at # "idle"
  PROVE  /\ req[c][s] \in Req /\ Shaped(s, req[c][s])
         /\ req[c][s].row \in Row
         /\ req[c][s].op \in {"save", "upgrade", "create", "move", "delete"}
         /\ s = "upgrade" <=> req[c][s].op = "upgrade"
         /\ req[c][s].op = "move" => "move" \in Ops /\ req[c][s].to \in Vault
         /\ req[c][s].op \in Writes \cup {"create"} => req[c][s].row.rev # 0
  <1>1. req[c][s] \in Req /\ Shaped(s, req[c][s])
    BY DEF TypeOK, ReqShape
  <1>2. req[c][s] # Idle
    BY DEF Idle
  <1>3. QED
    BY <1>1, <1>2 DEF Shaped, Slot

LEMMA LoadType ==
  ASSUME TypeOK, ReqShape, NEW c \in Client,
         \/ ListVaults(c) \/ FinishLoad(c) \/ LoadFails(c) \/ Lock(c)
         \/ \E v \in Vault : ListItems(c, v)
         \/ \E fetched \in BOOLEAN : OpenStore(c, fetched)
  PROVE  TypeOK' /\ ReqShape'
  <1>1. CASE ListVaults(c)
    BY <1>1 DEF ListVaults, TypeOK, ReqShape, server, trust, ghosts
  <1>2. CASE FinishLoad(c)
    BY <1>2 DEF FinishLoad, TypeOK, ReqShape, server, trust, ghosts
  <1>3. CASE LoadFails(c)
    BY <1>3 DEF LoadFails, TypeOK, ReqShape, server, trust, ghosts
  <1>4. CASE Lock(c)
    <2>1. up' \in [Client -> Upgrade]
      BY <1>4, IdleType DEF Lock, TypeOK
    <2>2. /\ req' \in [Client -> [Slot -> Req]]
          /\ \A d \in Client, s \in Slot : req'[d][s] = IF d = c THEN Idle ELSE req[d][s]
      BY <1>4, IdleType DEF Lock, TypeOK
    <2>3. ReqShape'
      BY <2>2, IdleShape DEF ReqShape
    <2>4. QED
      BY <1>4, <2>1, <2>2, <2>3 DEF Lock, TypeOK, server, trust, ghosts
  <1>5. ASSUME NEW v \in Vault, ListItems(c, v)
        PROVE  TypeOK' /\ ReqShape'
    <2>1. \A i \in {j \in Item : items[j] # None /\ items[j].vault = v} : items[i] \in Row
      BY DEF TypeOK
    <2>2. got' \in [Client -> SUBSET Row]
      BY <1>5, <2>1 DEF ListItems, TypeOK
    <2>3. QED
      BY <1>5, <2>2 DEF ListItems, TypeOK, ReqShape, server, trust, ghosts
  <1>6. ASSUME NEW fetched \in BOOLEAN, OpenStore(c, fetched)
        PROVE  TypeOK' /\ ReqShape'
    <2>1. store' \in [Client -> BOOLEAN]
      BY <1>6 DEF OpenStore, TypeOK
    <2>2. (v2Only[c] \/ (fetched /\ marker)) \in BOOLEAN
      OBVIOUS
    <2>3. v2Only' \in [Client -> BOOLEAN]
      BY <1>6, <2>2 DEF OpenStore, TypeOK
    <2>4. QED
      BY <1>6, <2>1, <2>3 DEF OpenStore, TypeOK, ReqShape, server, ghosts
  <1>7. QED
    BY <1>1, <1>2, <1>3, <1>4, <1>5, <1>6

LEMMA UserType ==
  ASSUME TypeOK, ReqShape, NEW c \in Client,
         \/ \E row \in local[c] : \/ Decrypt(c, row) \/ StartSave(c, row)
                                  \/ StartDelete(c, row)
                                  \/ \E v \in Vault : StartMove(c, row, v)
         \/ \E i \in Item, v \in Vault : StartCreate(c, i, v)
  PROVE  TypeOK' /\ ReqShape'
  <1>0. "user" \in Slot /\ {"save", "create", "move", "delete"} \subseteq OpKind
    BY DEF Slot, OpKind
  <1>a. ASSUME NEW row \in local[c]
        PROVE  row \in Row /\ row.id \in Item /\ row.rev \in Nat /\ row.text \in Nat
    BY DEF TypeOK, Row
  <1>1. ASSUME NEW row \in local[c], Decrypt(c, row)
        PROVE  TypeOK' /\ ReqShape'
    <2>1. seen' \in [Client -> [Item -> Nat]]
      BY <1>1, <1>a, RecordType DEF Decrypt
    <2>2. QED
      BY <1>1, <2>1 DEF Decrypt, TypeOK, ReqShape, server, loading, ghosts
  <1>2. ASSUME NEW row \in local[c], StartSave(c, row)
        PROVE  TypeOK' /\ ReqShape'
    <2> DEFINE new == [row EXCEPT !.rev = NextRevision(c, row), !.text = made + 1]
               q == [op |-> "save", at |-> "sent", base |-> row.text, row |-> new,
                     to |-> None]
    <2>1. made + 1 \in Nat
      BY DEF TypeOK
    <2>2. new \in Row /\ new.rev = NextRevision(c, row)
      BY <1>a, <2>1, NextRevisionType, Rewritten DEF Row
    <2>3. q \in Req
      BY <1>0, <1>a, <2>2, SentType
    <2>4. new.rev # 0
      BY <1>a, <2>2, NextRevisionType
    <2>5. Shaped("user", q)
      BY <1>2, <2>2, <2>4 DEF StartSave, Shaped
    <2>6. req' \in [Client -> [Slot -> Req]] /\ ReqShape'
      BY <1>0, <1>2, <2>3, <2>5, BecomesShape DEF StartSave
    <2>7. seen' \in [Client -> [Item -> Nat]]
      BY <1>2, <1>a, RecordType DEF StartSave, RecordCurrent
    <2>8. QED
      BY <1>2, <2>1, <2>6, <2>7 DEF StartSave, TypeOK, server, loading
  <1>3. ASSUME NEW row \in local[c], StartDelete(c, row)
        PROVE  TypeOK' /\ ReqShape'
    <2> DEFINE q == [op |-> "delete", at |-> "sent", base |-> row.text, row |-> row,
                     to |-> None]
    <2>1. q \in Req
      BY <1>0, <1>a, SentType
    <2>2. Shaped("user", q)
      BY <1>3, <1>a DEF StartDelete, Shaped, Writes
    <2>3. req' \in [Client -> [Slot -> Req]] /\ ReqShape'
      BY <1>0, <1>3, <2>1, <2>2, BecomesShape DEF StartDelete
    <2>4. QED
      BY <1>3, <2>3 DEF StartDelete, TypeOK, server, loading, trust, ghosts
  <1>4. ASSUME NEW row \in local[c], NEW v \in Vault, StartMove(c, row, v)
        PROVE  TypeOK' /\ ReqShape'
    <2> DEFINE q == [op |-> "move", at |-> "sent", base |-> row.text, row |-> row,
                     to |-> v]
    <2>1. q \in Req
      BY <1>0, <1>a, SentType
    <2>2. Shaped("user", q)
      BY <1>4, <1>a DEF StartMove, Shaped, Writes
    <2>3. req' \in [Client -> [Slot -> Req]] /\ ReqShape'
      BY <1>0, <1>4, <2>1, <2>2, BecomesShape DEF StartMove
    <2>4. QED
      BY <1>4, <2>3 DEF StartMove, TypeOK, server, loading, trust, ghosts
  <1>5. ASSUME NEW i \in Item, NEW v \in Vault, StartCreate(c, i, v)
        PROVE  TypeOK' /\ ReqShape'
    <2> DEFINE new == [id |-> i, vault |-> v, version |-> 1, rev |-> 1,
                       text |-> made + 1, gone |-> FALSE]
               q == [op |-> "create", at |-> "sent", base |-> 0, row |-> new,
                     to |-> None]
    <2>1. made + 1 \in Nat
      BY DEF TypeOK
    <2>2. new \in Row /\ new.rev # 0
      BY <2>1 DEF Row
    <2>3. q \in Req
      BY <1>0, <2>2, SentType
    <2>4. Shaped("user", q)
      BY <1>5, <2>2 DEF StartCreate, Shaped
    <2>5. req' \in [Client -> [Slot -> Req]] /\ ReqShape'
      BY <1>0, <1>5, <2>3, <2>4, BecomesShape DEF StartCreate
    <2>6. QED
      BY <1>5, <2>1, <2>5 DEF StartCreate, TypeOK, server, loading, trust
  <1>6. QED
    BY <1>1, <1>2, <1>3, <1>4, <1>5

\* What the statement of a request leaves in its row.
LEMMA StoredType ==
  ASSUME TypeOK, ReqShape, NEW c \in Client, NEW s \in Slot,
         req[c][s].at = "sent", Applies(req[c][s])
  PROVE  /\ Stored(req[c][s]) \in Row
         /\ Stored(req[c][s]).id = req[c][s].row.id
         /\ Stored(req[c][s]).vault \in vaults
  <1> DEFINE q == req[c][s]
             old == items[q.row.id]
  <1>1. /\ q \in Req /\ q.row \in Row /\ q.row.id \in Item
        /\ q.row.rev \in Nat /\ q.row.text \in Nat
        /\ q.op \in {"save", "upgrade", "create", "move", "delete"}
        /\ q.op = "move" => q.to \in Vault
    BY RequestFacts DEF Row
  <1>2. old # None => old \in Row /\ old.id = q.row.id /\ old.vault \in vaults
    BY <1>1 DEF TypeOK
  <1>3. CASE q.op \in {"save", "upgrade"}
    <2>1. Stored(q) = [old EXCEPT !.version = @ + 1, !.rev = q.row.rev, !.text = q.row.text]
      BY <1>3 DEF Stored
    <2>2. old # None
      BY <1>3 DEF Applies, SameVersion
    <2>3. QED
      BY <1>1, <1>2, <2>1, <2>2, Updated DEF Row
  <1>4. CASE q.op = "create"
    <2>1. Stored(q) = q.row
      BY <1>4 DEF Stored
    <2>2. q.row.vault \in vaults
      BY <1>4 DEF Applies
    <2>3. QED
      BY <1>1, <2>1, <2>2
  <1>5. CASE q.op = "move"
    <2>1. Stored(q) = [old EXCEPT !.vault = q.to, !.version = @ + 1]
      BY <1>5 DEF Stored
    <2>2. old # None /\ q.to \in vaults
      BY <1>5 DEF Applies
    <2>3. QED
      BY <1>1, <1>2, <1>5, <2>1, <2>2, Moved DEF Row
  <1>6. CASE q.op = "delete"
    <2>1. Stored(q) = [old EXCEPT !.gone = TRUE]
      BY <1>6 DEF Stored
    <2>2. old # None
      BY <1>6 DEF Applies, Live
    <2>3. QED
      BY <1>1, <1>2, <2>1, <2>2, Deleted DEF Row
  <1>7. QED
    BY <1>1, <1>3, <1>4, <1>5, <1>6

LEMMA ServerType ==
  ASSUME TypeOK, ReqShape,
         \/ \E c \in Client, s \in Slot : Serve(c, s) \/ Refuse(c, s)
         \/ \E c \in Client, v \in Vault, heard \in BOOLEAN : CreateVault(c, v, heard)
         \/ \E v \in Vault : CheckVault(v) \/ DeleteVault(v)
  PROVE  TypeOK' /\ ReqShape'
  <1>1. ASSUME NEW c \in Client, NEW s \in Slot, Serve(c, s)
        PROVE  TypeOK' /\ ReqShape'
    <2> DEFINE q == req[c][s]
               i == q.row.id
    <2>1. q.at = "sent" /\ Applies(q) /\ items' = [items EXCEPT ![i] = Stored(q)]
      BY <1>1 DEF Serve
    <2>2. q \in Req /\ Shaped(s, q) /\ i \in Item
      BY <2>1, RequestFacts DEF Row
    <2>3. Stored(q) \in Row /\ Stored(q).id = i /\ Stored(q).vault \in vaults
      BY <2>1, StoredType
    <2>4. /\ items' \in [Item -> Row \cup {None}]
          /\ \A j \in Item : items'[j] # None => items'[j].id = j /\ items'[j].vault \in vaults
      BY <2>1, <2>2, <2>3 DEF TypeOK
    <2>5. blind' \subseteq Item
      BY <1>1, <2>2 DEF Serve, TypeOK
    <2>6. req' \in [Client -> [Slot -> Req]] /\ ReqShape'
      BY <1>1, <2>1, <2>2, AnsweredType, BecomesShape DEF Serve
    <2>7. QED
      BY <1>1, <2>4, <2>5, <2>6 DEF Serve, TypeOK, loading, trust
  <1>2. ASSUME NEW c \in Client, NEW s \in Slot, Refuse(c, s)
        PROVE  TypeOK' /\ ReqShape'
    <2>1. req[c][s].at = "sent" /\ req[c][s] \in Req /\ Shaped(s, req[c][s])
      BY <1>2, RequestFacts DEF Refuse
    <2>2. req' \in [Client -> [Slot -> Req]] /\ ReqShape'
      BY <1>2, <2>1, AnsweredType, BecomesShape DEF Refuse
    <2>3. QED
      BY <1>2, <2>2 DEF Refuse, TypeOK, server, loading, trust, ghosts
  <1>3. ASSUME NEW c \in Client, NEW v \in Vault, NEW heard \in BOOLEAN,
               CreateVault(c, v, heard)
        PROVE  TypeOK' /\ ReqShape'
    BY <1>3 DEF CreateVault, TypeOK, ReqShape, trust
  <1>4. ASSUME NEW v \in Vault, CheckVault(v)
        PROVE  TypeOK' /\ ReqShape'
    BY <1>4 DEF CheckVault, TypeOK, ReqShape, loading, trust, ghosts
  <1>5. ASSUME NEW v \in Vault, DeleteVault(v)
        PROVE  TypeOK' /\ ReqShape'
    <2>1. \A j \in Item : items'[j] = IF items[j] # None /\ items[j].vault = v
                                      THEN None ELSE items[j]
      BY <1>5 DEF DeleteVault, Cascade
    <2>2. items' \in [Item -> Row \cup {None}]
      BY <1>5 DEF DeleteVault, Cascade, TypeOK
    <2>3. \A j \in Item : items'[j] # None => items'[j].id = j /\ items'[j].vault \in vaults \ {v}
      BY <2>1 DEF TypeOK
    <2>4. QED
      BY <1>5, <2>2, <2>3 DEF DeleteVault, TypeOK, ReqShape, loading, trust, ghosts
  <1>6. QED
    BY <1>1, <1>2, <1>3, <1>4, <1>5

\* The rows a client holds once its request was answered.
LEMMA AnsweredRows ==
  ASSUME TypeOK, ReqShape, NEW c \in Client, NEW s \in Slot, req[c][s].at = "done"
  PROVE  /\ req[c][s].op = "delete" =>
               \A r \in Answered(c, req[c][s]) : \E o \in local[c] :
                  /\ r \in Row
                  /\ r.id = o.id /\ r.version = o.version /\ r.rev = o.rev
                  /\ r.text = o.text
         /\ req[c][s].op # "delete" =>
               /\ Kept(req[c][s]) \in Row
               /\ Kept(req[c][s]).id = req[c][s].row.id
               /\ Kept(req[c][s]).rev = req[c][s].row.rev
               /\ Answered(c, req[c][s]) = Upserted(c, Kept(req[c][s]))
               /\ Upserted(c, Kept(req[c][s])) \subseteq local[c] \cup {Kept(req[c][s])}
  <1> DEFINE q == req[c][s]
  <1>1. /\ q \in Req /\ q.row \in Row
        /\ q.op \in {"save", "upgrade", "create", "move", "delete"}
        /\ q.op = "move" => q.to \in Vault
    BY RequestFacts
  <1>2. CASE q.op = "delete"
    <2>1. \A o \in local[c] : o \in Row
      BY DEF TypeOK
    <2>2. ASSUME NEW o \in local[c]
          PROVE  LET r == Trashed(o, q.row.id)
                 IN  /\ r \in Row
                     /\ r.id = o.id /\ r.version = o.version /\ r.rev = o.rev
                     /\ r.text = o.text
      BY <2>1, Deleted DEF Trashed, Row
    <2>3. Answered(c, q) = {Trashed(o, q.row.id) : o \in local[c]}
      BY <1>2 DEF Answered
    <2>4. QED
      BY <1>2, <2>2, <2>3
  <1>3. CASE q.op # "delete"
    <2>1. Kept(q) \in Row /\ Kept(q).id = q.row.id /\ Kept(q).rev = q.row.rev
      BY <1>1, <1>3, KeptType
    <2>2. QED
      BY <1>3, <2>1 DEF Answered, Upserted
  <1>4. QED
    BY <1>2, <1>3

LEMMA AnswerType ==
  ASSUME TypeOK, ReqShape, NEW c \in Client, Finish(c) \/ Fail(c)
  PROVE  TypeOK' /\ ReqShape'
  <1>0. "user" \in Slot
    BY DEF Slot
  <1>1. CASE Finish(c)
    <2> DEFINE q == req[c]["user"]
    <2>1. q.at = "done" /\ local' = [local EXCEPT ![c] = Answered(c, q)]
      BY <1>1 DEF Finish
    <2>2. q.row \in Row /\ q.row.id \in Item /\ q.row.rev \in Nat
      BY <1>0, <2>1, RequestFacts DEF Row
    <2>3. Answered(c, q) \subseteq Row
      <3>1. local[c] \subseteq Row
        BY DEF TypeOK
      <3>2. CASE q.op = "delete"
        BY <1>0, <2>1, <3>2, AnsweredRows
      <3>3. CASE q.op # "delete"
        BY <1>0, <2>1, <3>1, <3>3, AnsweredRows
      <3>4. QED
        BY <3>2, <3>3
    <2>4. local' \in [Client -> SUBSET Row]
      BY <2>1, <2>3 DEF TypeOK
    <2>5. seen' \in [Client -> [Item -> Nat]]
      <3>1. CASE Record(c, q.row.id, q.row.rev)
        BY <2>2, <3>1, RecordType
      <3>2. CASE UNCHANGED seen
        BY <3>2 DEF TypeOK
      <3>3. QED
        BY <1>1, <3>1, <3>2 DEF Finish
    <2>6. req' \in [Client -> [Slot -> Req]] /\ ReqShape'
      BY <1>0, <1>1, IdleType, IdleShape, BecomesShape DEF Finish
    <2>7. QED
      BY <1>1, <2>4, <2>5, <2>6 DEF Finish, TypeOK, server, loading, ghosts
  <1>2. CASE Fail(c)
    <2>1. req' \in [Client -> [Slot -> Req]] /\ ReqShape'
      BY <1>0, <1>2, IdleType, IdleShape, BecomesShape DEF Fail
    <2>2. QED
      BY <1>2, <2>1 DEF Fail, TypeOK, server, loading, trust, ghosts
  <1>3. QED
    BY <1>1, <1>2

LEMMA UpgradeType ==
  ASSUME TypeOK, ReqShape, NEW c \in Client,
         \/ StartUpgrade(c) \/ ItemUpgraded(c) \/ ItemFailed(c)
         \/ \E row \in up[c].todo : UpgradeItem(c, row) \/ RejectItem(c, row)
         \/ PublishV2Only(c) \/ MarkV2Only(c)
  PROVE  TypeOK' /\ ReqShape'
  <1>0. "upgrade" \in Slot /\ "upgrade" \in OpKind /\ up[c] \in Upgrade
    BY DEF Slot, OpKind, TypeOK
  <1>a. ASSUME NEW row \in up[c].todo
        PROVE  row \in Row /\ row.id \in Item /\ row.rev \in Nat /\ row.text \in Nat
    BY <1>0 DEF Upgrade, Row
  <1>1. CASE StartUpgrade(c)
    <2>1. [on |-> "run", failed |-> FALSE, todo |-> {r \in local[c] : r.rev = 0}] \in Upgrade
      BY DEF Upgrade, TypeOK
    <2>2. QED
      BY <1>1, <2>1 DEF StartUpgrade, TypeOK, ReqShape, server, loading, trust, ghosts
  <1>2. CASE ItemUpgraded(c)
    <2> DEFINE q == req[c]["upgrade"]
    <2>1. q.at = "done" /\ q.op # "delete" /\ q.row.id \in Item /\ q.row.rev \in Nat
      BY <1>0, <1>2, RequestFacts DEF ItemUpgraded, Row
    <2>2. Upserted(c, Kept(q)) \subseteq Row
      BY <1>0, <2>1, AnsweredRows DEF TypeOK
    <2>3. local' \in [Client -> SUBSET Row]
      BY <1>2, <2>2 DEF ItemUpgraded, TypeOK
    <2>4. seen' \in [Client -> [Item -> Nat]]
      BY <1>2, <2>1, RecordType DEF ItemUpgraded
    <2>5. req' \in [Client -> [Slot -> Req]] /\ ReqShape'
      BY <1>0, <1>2, IdleType, IdleShape, BecomesShape DEF ItemUpgraded
    <2>6. QED
      BY <1>2, <2>3, <2>4, <2>5 DEF ItemUpgraded, TypeOK, server, loading, ghosts
  <1>3. CASE ItemFailed(c)
    <2>1. [up[c] EXCEPT !.failed = TRUE] \in Upgrade
      BY <1>0 DEF Upgrade
    <2>2. up' \in [Client -> Upgrade]
      BY <1>3, <2>1 DEF ItemFailed, TypeOK
    <2>3. req' \in [Client -> [Slot -> Req]] /\ ReqShape'
      BY <1>0, <1>3, IdleType, IdleShape, BecomesShape DEF ItemFailed
    <2>4. QED
      BY <1>3, <2>2, <2>3 DEF ItemFailed, TypeOK, server, loading, trust, ghosts
  <1>4. ASSUME NEW row \in up[c].todo, UpgradeItem(c, row)
        PROVE  TypeOK' /\ ReqShape'
    <2> DEFINE new == [row EXCEPT !.rev = NextRevision(c, row)]
               q == [op |-> "upgrade", at |-> "sent", base |-> row.text,
                     row |-> new, to |-> None]
    <2>1. new \in Row /\ new.rev = NextRevision(c, row)
      BY <1>a, NextRevisionType, Reencrypted DEF Row
    <2>2. q \in Req
      BY <1>0, <1>a, <2>1, SentType
    <2>3. new.rev # 0
      BY <1>a, <2>1, NextRevisionType
    <2>4. Shaped("upgrade", q)
      BY <2>1, <2>3 DEF Shaped
    <2>5. req' \in [Client -> [Slot -> Req]] /\ ReqShape'
      BY <1>0, <1>4, <2>2, <2>4, BecomesShape DEF UpgradeItem
    <2>6. seen' \in [Client -> [Item -> Nat]]
      BY <1>4, <1>a, RecordType DEF UpgradeItem
    <2>7. [up[c] EXCEPT !.todo = @ \ {row}] \in Upgrade
      BY <1>0 DEF Upgrade
    <2>8. up' \in [Client -> Upgrade]
      BY <1>4, <2>7 DEF UpgradeItem, TypeOK
    <2>9. QED
      BY <1>4, <2>5, <2>6, <2>8 DEF UpgradeItem, TypeOK, server, loading, ghosts
  <1>5. ASSUME NEW row \in up[c].todo, RejectItem(c, row)
        PROVE  TypeOK' /\ ReqShape'
    <2>1. [up[c] EXCEPT !.todo = @ \ {row}, !.failed = TRUE] \in Upgrade
      BY <1>0 DEF Upgrade
    <2>2. up' \in [Client -> Upgrade]
      BY <1>5, <2>1 DEF RejectItem, TypeOK
    <2>3. QED
      BY <1>5, <2>2 DEF RejectItem, TypeOK, ReqShape, server, loading, trust, ghosts
  <1>6. CASE PublishV2Only(c)
    <2>1. [up[c] EXCEPT !.on = "sent"] \in Upgrade
      BY <1>0 DEF Upgrade
    <2>2. up' \in [Client -> Upgrade]
      BY <1>6, <2>1 DEF PublishV2Only, TypeOK
    <2>3. QED
      BY <1>6, <2>2 DEF PublishV2Only, TypeOK, ReqShape, loading, trust, ghosts
  <1>7. CASE MarkV2Only(c)
    <2>1. [up[c] EXCEPT !.on = "over"] \in Upgrade
      BY <1>0 DEF Upgrade
    <2>2. up' \in [Client -> Upgrade]
      BY <1>7, <2>1 DEF MarkV2Only, TypeOK
    <2>3. QED
      BY <1>7, <2>2 DEF MarkV2Only, TypeOK, ReqShape, server, loading, ghosts
  <1>8. QED
    BY <1>1, <1>2, <1>3, <1>4, <1>5, <1>6, <1>7

LEMMA InitType == Init => TypeOK /\ ReqShape
  <1> SUFFICES ASSUME Init PROVE TypeOK /\ ReqShape
    OBVIOUS
  <1>1. /\ vaults \subseteq Vault
        /\ \A i \in Item : items[i] # None =>
              items[i] \in Row /\ items[i].id = i /\ items[i].vault \in vaults
        /\ items \in [Item -> Row \cup {None}]
    <2>1. vaults \subseteq Vault
      BY DEF Init
    <2>2. \A i \in Item : items[i] # None => 
             items[i] \in [id : Item, vault : vaults, version : {1}, rev : {0, 1},
                          text : {0}, gone : BOOLEAN]
      BY DEF Init
    <2>3. \A i \in Item : items[i] # None =>
             items[i] \in Row /\ items[i].vault \in vaults
      BY <2>1, <2>2 DEF Row
    <2>4. items = [i \in Item |-> items[i]]
      BY DEF Init
    <2>5. QED
      BY <2>1, <2>3, <2>4 DEF Init
  <1>2. up \in [Client -> Upgrade] /\ req \in [Client -> [Slot -> Req]]
    BY IdleType DEF Init
  <1>3. ReqShape
    BY IdleShape DEF Init, ReqShape
  <1>4. QED
    BY <1>1, <1>2, <1>3 DEF Init, TypeOK

LEMMA TypeStep ==
  ASSUME TypeOK, ReqShape, [Next]_vars
  PROVE  TypeOK' /\ ReqShape'
  <1>1. CASE Next
    BY <1>1, LoadType, UserType, ServerType, AnswerType, UpgradeType DEF Next, Step
  <1>2. CASE UNCHANGED vars
    BY <1>2 DEF vars, TypeOK, ReqShape
  <1>3. QED
    BY <1>1, <1>2

\* The tables of the server, the rows, marks and requests of every client stay
\* well formed: an item is always in a vault of the account, and a request
\* keeps what its handler needs until it has been answered.
THEOREM TypeCorrect == Spec => [](TypeOK /\ ReqShape)
  <1>1. QED
    BY InitType, TypeStep, PTL DEF Spec

-----------------------------------------------------------------------------
(* Copies                                                                  *)

CopyAll == /\ ItemInv /\ HeldInv /\ ReqInv /\ SeenInv
           /\ NoFalseRollback /\ NoLostUpdate

\* Items that only a DELETE can touch.
Shrinks == \A i \in Item : items'[i] = items[i] \/ items'[i] = None

KnownStays == \A i \in Item : Known(i) => Known(i)'

LEMMA MatchesStays ==
  ASSUME NEW r \in Row, Matches(r), Shrinks
  PROVE  Matches(r)'
  BY DEF Matches, Shrinks, Row

LEMMA HoldsStays ==
  ASSUME TypeOK, ReqShape, NEW c \in Client, NEW s \in Slot, Holds(req[c][s]), Shrinks,
         req'[c][s] = req[c][s]
  PROVE  Holds(req[c][s])'
  <1> DEFINE q == req[c][s]
  <1>1. CASE q.at = "idle"
    BY <1>1 DEF Holds
  <1>2. CASE q.at # "idle"
    <2>1. /\ q \in Req /\ q.row \in Row /\ q.row.id \in Item
          /\ q.op # "delete" => Kept(q) \in Row
      BY <1>2, RequestFacts, KeptType DEF Row
    <2>2. Matches(q.row) => Matches(q.row)'
      BY <2>1 DEF Matches, Shrinks
    <2>3. q.op # "delete" /\ Matches(Kept(q)) => Matches(Kept(q))'
      BY <2>1, MatchesStays
    <2>4. Replaces(q) => Replaces(q)'
      BY <2>1 DEF Replaces, Shrinks
    <2>5. QED
      BY <2>2, <2>3, <2>4 DEF Holds
  <1>3. QED
    BY <1>1, <1>2

LEMMA IdleHolds == Holds(Idle)
  BY DEF Holds, Idle

\* Requests that are given up, or answered for good.
LEMMA LessRequests ==
  ASSUME TypeOK, ReqShape, ReqInv, Shrinks, born \subseteq born',
         \A d \in Client, t \in Slot : req'[d][t] = req[d][t] \/ req'[d][t] = Idle
  PROVE  KnownStays /\ ReqInv'
  <1>0. Idle.at = "idle" /\ "user" \in Slot
    BY DEF Idle, Slot
  <1>1. \A d \in Client : \A i : CreateSent(d, i)' => CreateSent(d, i)
    BY <1>0 DEF CreateSent
  <1>2. KnownStays
    BY <1>1 DEF KnownStays, Known
  <1>3. ASSUME NEW d \in Client, NEW t \in Slot
        PROVE  Holds(req[d][t])' /\ Owns(d, t)'
    <2>1. CASE req'[d][t] = req[d][t]
      <3>1. Holds(req[d][t])'
        BY <2>1, HoldsStays DEF ReqInv
      <3>2. Owns(d, t)'
        BY <1>1, <2>1 DEF ReqInv, Owns
      <3>3. QED
        BY <3>1, <3>2
    <2>2. CASE req'[d][t] = Idle
      BY <1>0, <2>2 DEF Holds, Owns
    <2>3. QED
      BY <2>1, <2>2
  <1>4. QED
    BY <1>2, <1>3 DEF ReqInv

\* A request about a known item is sent.
LEMMA MoreRequests ==
  ASSUME TypeOK, ReqShape, ReqInv, items' = items, born' = born,
         NEW c \in Client, NEW s \in Slot, NEW q \in Req, Becomes(c, s, q),
         q.at = "sent", q.op # "create", q.row \in Row, Known(q.row.id), Holds(q)
  PROVE  KnownStays /\ ReqInv'
  <1>0. "user" \in Slot /\ Shrinks
    BY DEF Slot, Shrinks
  <1>1. \A d \in Client, t \in Slot :
           req'[d][t] = IF d = c /\ t = s THEN q ELSE req[d][t]
    BY BecomesType
  <1>2. \A d \in Client : \A i : CreateSent(d, i)' => CreateSent(d, i)
    BY <1>0, <1>1 DEF CreateSent
  <1>3. KnownStays
    BY <1>2 DEF KnownStays, Known
  <1>4. ASSUME NEW d \in Client, NEW t \in Slot
        PROVE  Holds(req[d][t])' /\ Owns(d, t)'
    <2>1. CASE d = c /\ t = s
      <3>1. Holds(q)'
        BY DEF Holds, Matches, Replaces
      <3>2. Owns(d, t)'
        BY <1>1, <1>2, <2>1 DEF Owns, Known
      <3>3. QED
        BY <1>1, <2>1, <3>1, <3>2 DEF Holds, Matches, Replaces
    <2>2. CASE ~(d = c /\ t = s)
      <3>1. req'[d][t] = req[d][t]
        BY <1>1, <2>2
      <3>2. Holds(req[d][t])'
        BY <1>0, <3>1, HoldsStays DEF ReqInv
      <3>3. Owns(d, t)'
        BY <1>2, <3>1 DEF ReqInv, Owns
      <3>4. QED
        BY <3>2, <3>3
    <2>3. QED
      BY <2>1, <2>2
  <1>5. QED
    BY <1>3, <1>4 DEF ReqInv

\* A step that leaves the rows of the server alone, or deletes them, keeps the
\* copies consistent if what clients newly hold and record is.
LEMMA CopiesStay ==
  ASSUME TypeOK, TypeOK', CopyAll, Shrinks, KnownStays, ReqInv', blind' = blind,
         \A d \in Client : \A r \in Held(d)' :
             r \in Held(d) \/ (Known(r.id) /\ Matches(r)),
         \A d \in Client, i \in Item :
             \/ seen'[d][i] = seen[d][i]
             \/ Known(i) /\ (items[i] # None => seen'[d][i] <= items[i].rev)
  PROVE  CopyAll'
  <1>1. ItemInv'
    BY DEF CopyAll, ItemInv, Shrinks, KnownStays
  <1>2. HeldInv'
    <2> SUFFICES ASSUME NEW d \in Client, NEW r \in Held(d)'
                 PROVE  Known(r.id)' /\ Matches(r)'
      BY DEF HeldInv
    <2>1. r \in Row
      BY DEF TypeOK, Held, Upgrade
    <2>2. Known(r.id) /\ Matches(r) /\ r.id \in Item
      BY <2>1 DEF CopyAll, HeldInv, Row
    <2>3. QED
      BY <2>1, <2>2, MatchesStays DEF KnownStays
  <1>3. SeenInv'
    BY DEF CopyAll, SeenInv, KnownStays
  <1>4. NoFalseRollback'
    <2> SUFFICES ASSUME NEW d \in Client, NEW i \in Item, items'[i] # None
                 PROVE  items'[i].rev >= seen'[d][i]
      BY DEF NoFalseRollback
    <2>1. items'[i] = items[i] /\ items[i].rev >= seen[d][i]
      BY DEF CopyAll, Shrinks, NoFalseRollback
    <2>2. items[i].rev \in Nat /\ seen[d][i] \in Nat /\ seen'[d][i] \in Nat
      BY <2>1 DEF TypeOK, Row
    <2>3. QED
      BY <2>1, <2>2
  <1>5. NoLostUpdate'
    BY DEF CopyAll, NoLostUpdate
  <1>6. QED
    BY <1>1, <1>2, <1>3, <1>4, <1>5 DEF CopyAll

\* Recording the revision of a copy.
LEMMA RecordSeen ==
  ASSUME TypeOK, CopyAll, NEW c \in Client, NEW r \in Row, Known(r.id), Matches(r),
         Record(c, r.id, r.rev)
  PROVE  \A d \in Client, i \in Item :
             \/ seen'[d][i] = seen[d][i]
             \/ Known(i) /\ (items[i] # None => seen'[d][i] <= items[i].rev)
  <1>1. r.id \in Item /\ r.rev \in Nat
    BY DEF Row
  <1>2. \A d \in Client, i \in Item :
           seen'[d][i] = IF d = c /\ i = r.id THEN Maximum(seen[c][r.id], r.rev)
                                              ELSE seen[d][i]
    BY <1>1, RecordType
  <1>3. items[r.id] # None => /\ r.rev <= items[r.id].rev
                              /\ seen[c][r.id] <= items[r.id].rev
    <2>1. SUFFICES ASSUME items[r.id] # None
                   PROVE  /\ r.rev <= items[r.id].rev
                          /\ seen[c][r.id] <= items[r.id].rev
      OBVIOUS
    <2>2. items[r.id].rev \in Nat /\ seen[c][r.id] \in Nat
      BY <1>1, <2>1 DEF TypeOK, Row
    <2>3. QED
      BY <1>1, <2>1, <2>2 DEF Matches, Behind, CopyAll, NoFalseRollback
  <1>4. Maximum(seen[c][r.id], r.rev) \in {seen[c][r.id], r.rev}
    BY DEF Maximum
  <1>5. QED
    BY <1>2, <1>3, <1>4

LEMMA SameRequests ==
  ASSUME TypeOK, ReqShape, CopyAll, Shrinks, req' = req, born \subseteq born'
  PROVE  KnownStays /\ ReqInv'
  BY LessRequests DEF CopyAll

LEMMA LoadCopies ==
  ASSUME TypeOK, TypeOK', ReqShape, CopyAll, NEW c \in Client,
         \/ ListVaults(c) \/ FinishLoad(c) \/ LoadFails(c) \/ Lock(c)
         \/ \E v \in Vault : ListItems(c, v)
         \/ \E fetched \in BOOLEAN : OpenStore(c, fetched)
  PROVE  CopyAll'
  <1>0. Shrinks /\ blind' = blind /\ born' = born /\ seen' = seen
    BY DEF ListVaults, FinishLoad, LoadFails, Lock, ListItems, OpenStore, server,
           trust, ghosts, Shrinks
  <1>1. CASE Lock(c)
    <2>1. \A d \in Client, t \in Slot : req'[d][t] = req[d][t] \/ req'[d][t] = Idle
      BY <1>1 DEF Lock, TypeOK
    <2>2. KnownStays /\ ReqInv'
      BY <1>0, <2>1, LessRequests DEF CopyAll
    <2>3. \A d \in Client : Held(d)' \subseteq Held(d)
      BY <1>1 DEF Lock, Held, TypeOK, Rested
    <2>4. QED
      BY <1>0, <2>2, <2>3, CopiesStay
  <1>2. CASE ~Lock(c)
    <2>1. req' = req
      BY <1>2 DEF ListVaults, FinishLoad, LoadFails, ListItems, OpenStore
    <2>2. KnownStays /\ ReqInv'
      BY <1>0, <2>1, SameRequests
    <2>3. ASSUME NEW v \in Vault, ListItems(c, v)
          PROVE  \A d \in Client : \A r \in Held(d)' :
                    r \in Held(d) \/ (Known(r.id) /\ Matches(r))
      <3>1. \A i \in Item : items[i] # None => Known(items[i].id) /\ Matches(items[i])
        <4>1. SUFFICES ASSUME NEW i \in Item, items[i] # None
                       PROVE  Known(items[i].id) /\ Matches(items[i])
          OBVIOUS
        <4>2. items[i] \in Row /\ items[i].id = i
          BY <4>1 DEF TypeOK
        <4>3. QED
          BY <4>1, <4>2 DEF CopyAll, ItemInv, Matches, Behind, Row
      <3>2. \A d \in Client : \A r \in got'[d] :
               r \in got[d] \/ \E i \in Item : items[i] # None /\ r = items[i]
        BY <2>3 DEF ListItems, TypeOK
      <3>3. QED
        BY <2>3, <3>1, <3>2 DEF ListItems, Held
    <2>4. ASSUME ~\E v \in Vault : ListItems(c, v)
          PROVE  \A d \in Client : Held(d)' \subseteq Held(d)
      <3>1. CASE ListVaults(c) \/ \E fetched \in BOOLEAN : OpenStore(c, fetched)
        BY <3>1 DEF ListVaults, OpenStore, Held
      <3>2. CASE FinishLoad(c)
        <4>1. \A d \in Client : got'[d] \subseteq got[d] /\ local'[d] \subseteq got[d] \cup local[d]
          BY <3>2 DEF FinishLoad, TypeOK
        <4>2. QED
          BY <3>2, <4>1 DEF FinishLoad, Held
      <3>3. CASE LoadFails(c)
        <4>1. \A d \in Client : got'[d] \subseteq got[d]
          BY <3>3 DEF LoadFails, TypeOK
        <4>2. QED
          BY <3>3, <4>1 DEF LoadFails, Held
      <3>4. QED
        BY <1>2, <2>4, <3>1, <3>2, <3>3
    <2>5. QED
      BY <1>0, <2>2, <2>3, <2>4, CopiesStay
  <1>3. QED
    BY <1>1, <1>2

LEMMA LocalCopies ==
  ASSUME TypeOK, CopyAll, NEW c \in Client, NEW r \in Held(c)
  PROVE  r \in Row /\ r.id \in Item /\ Known(r.id) /\ Matches(r)
  BY HeldRow DEF CopyAll, HeldInv, Row

\* A write based on a copy.
LEMMA SentHolds ==
  ASSUME TypeOK, CopyAll, NEW c \in Client, NEW r \in Held(c),
         NEW new \in Row, new.id = r.id, new.version = r.version,
         new.rev = NextRevision(c, r), NEW op \in Writes
  PROVE  Holds([op |-> op, at |-> "sent", base |-> r.text, row |-> new, to |-> None])
  <1>1. r \in Row /\ r.id \in Item /\ Matches(r)
    BY LocalCopies
  <1>2. new.rev > r.rev
    BY <1>1, NextRevisionType
  <1>3. items[r.id] # None => /\ r.version <= items[r.id].version
                              /\ r.version = items[r.id].version =>
                                    /\ items[r.id].text = r.text
                                    /\ items[r.id].rev = r.rev
    BY <1>1 DEF Matches, Behind
  <1>4. op # "move"
    BY DEF Writes
  <1>5. QED
    BY <1>2, <1>3, <1>4 DEF Holds, Replaces

LEMMA UserCopies ==
  ASSUME TypeOK, TypeOK', ReqShape, CopyAll, NEW c \in Client,
         \/ \E row \in local[c] : \/ Decrypt(c, row) \/ StartSave(c, row)
                                  \/ StartDelete(c, row)
                                  \/ \E v \in Vault : StartMove(c, row, v)
         \/ \E i \in Item, v \in Vault : StartCreate(c, i, v)
  PROVE  CopyAll'
  <1>0. /\ Shrinks /\ items' = items /\ blind' = blind
        /\ \A d \in Client : Held(d)' = Held(d)
        /\ "user" \in Slot
    BY DEF Decrypt, StartSave, StartDelete, StartMove, StartCreate, server, ghosts,
           loading, Shrinks, Held, Slot
  <1>a. ASSUME NEW row \in local[c]
        PROVE  /\ row \in Held(c) /\ row \in Row /\ row.id \in Item
               /\ Known(row.id) /\ Matches(row)
               /\ row.text \in Nat
    BY LocalCopies DEF Held, Row
  <1>1. ASSUME NEW row \in local[c], Decrypt(c, row)
        PROVE  CopyAll'
    <2>1. KnownStays /\ ReqInv'
      BY <1>0, <1>1, SameRequests DEF Decrypt, ghosts
    <2>2. QED
      BY <1>0, <1>1, <1>a, <2>1, RecordSeen, CopiesStay DEF Decrypt
  <1>2. ASSUME NEW row \in local[c], StartSave(c, row)
        PROVE  CopyAll'
    <2> DEFINE new == [row EXCEPT !.rev = NextRevision(c, row), !.text = made + 1]
               q == [op |-> "save", at |-> "sent", base |-> row.text, row |-> new,
                     to |-> None]
    <2>1. made + 1 \in Nat
      BY DEF TypeOK
    <2>2. /\ new \in Row /\ new.rev = NextRevision(c, row)
          /\ new.id = row.id /\ new.version = row.version
      BY <1>a, <2>1, NextRevisionType, Rewritten DEF Row
    <2>3. q \in Req
      BY <1>a, <2>2, SentType DEF OpKind
    <2>4. Holds(q)
      BY <1>a, <2>2, SentHolds DEF Writes
    <2>5. q.at = "sent" /\ q.op # "create" /\ q.row = new
      OBVIOUS
    <2>6. Becomes(c, "user", q) /\ born' = born
      BY <1>2 DEF StartSave
    <2> HIDE DEF new, q
    <2>7. KnownStays /\ ReqInv'
      BY <1>0, <1>a, <2>2, <2>3, <2>4, <2>5, <2>6, MoreRequests DEF CopyAll
    <2>8. QED
      BY <1>0, <1>2, <1>a, <2>7, RecordSeen, CopiesStay DEF StartSave, RecordCurrent
  <1>3. ASSUME NEW row \in local[c], StartDelete(c, row)
        PROVE  CopyAll'
    <2> DEFINE q == [op |-> "delete", at |-> "sent", base |-> row.text, row |-> row,
                     to |-> None]
    <2>1. q \in Req
      BY <1>a, SentType DEF OpKind
    <2>2. Holds(q) /\ q.at = "sent" /\ q.op # "create" /\ q.row = row
      BY DEF Holds, Writes
    <2>3. Becomes(c, "user", q) /\ born' = born /\ seen' = seen
      BY <1>3 DEF StartDelete, ghosts, trust
    <2> HIDE DEF q
    <2>4. KnownStays /\ ReqInv'
      BY <1>0, <1>a, <2>1, <2>2, <2>3, MoreRequests DEF CopyAll
    <2>5. QED
      BY <1>0, <2>3, <2>4, CopiesStay
  <1>4. ASSUME NEW row \in local[c], NEW v \in Vault, StartMove(c, row, v)
        PROVE  CopyAll'
    <2> DEFINE q == [op |-> "move", at |-> "sent", base |-> row.text, row |-> row,
                     to |-> v]
    <2>1. q \in Req
      BY <1>a, SentType DEF OpKind
    <2>2. Holds(q) /\ q.at = "sent" /\ q.op # "create" /\ q.row = row
      BY <1>a DEF Holds, Writes
    <2>3. Becomes(c, "user", q) /\ born' = born /\ seen' = seen
      BY <1>4 DEF StartMove, ghosts, trust
    <2> HIDE DEF q
    <2>4. KnownStays /\ ReqInv'
      BY <1>0, <1>a, <2>1, <2>2, <2>3, MoreRequests DEF CopyAll
    <2>5. QED
      BY <1>0, <2>3, <2>4, CopiesStay
  <1>5. ASSUME NEW i \in Item, NEW v \in Vault, StartCreate(c, i, v)
        PROVE  CopyAll'
    <2> DEFINE new == [id |-> i, vault |-> v, version |-> 1, rev |-> 1,
                       text |-> made + 1, gone |-> FALSE]
               q == [op |-> "create", at |-> "sent", base |-> 0, row |-> new,
                     to |-> None]
    <2>1. new \in Row
      BY DEF TypeOK, Row
    <2>2. q \in Req
      BY <2>1, SentType DEF OpKind
    <2>3. Holds(q) /\ q.at = "sent" /\ q.op = "create" /\ q.row.id = i
      BY DEF Holds, Writes
    <2>4. /\ Becomes(c, "user", q) /\ born' = born \cup {i} /\ i \notin born
          /\ seen' = seen
      BY <1>5 DEF StartCreate, trust
    <2> HIDE DEF new, q
    <2>5. \A d \in Client, t \in Slot :
             req'[d][t] = IF d = c /\ t = "user" THEN q ELSE req[d][t]
      BY <1>0, <2>2, <2>4, BecomesType
    <2>6. \A d \in Client : \A j : CreateSent(d, j)' => CreateSent(d, j) \/ (d = c /\ j = i)
      BY <1>0, <2>3, <2>5 DEF CreateSent
    <2>7. \A d \in Client : ~CreateSent(d, i)
      BY <1>0, <2>4 DEF CopyAll, ReqInv, Owns, CreateSent
    <2>8. KnownStays
      BY <2>4, <2>6 DEF KnownStays, Known
    <2>9. ASSUME NEW d \in Client, NEW t \in Slot
          PROVE  Holds(req[d][t])' /\ Owns(d, t)'
      <3>1. CASE d = c /\ t = "user"
        <4>1. req'[d][t] = q
          BY <2>5, <3>1
        <4>2. Holds(req[d][t])'
          BY <2>3, <4>1 DEF Holds, Writes
        <4>3. Owns(d, t)'
          BY <2>3, <2>4, <2>6, <2>7, <3>1, <4>1 DEF Owns
        <4>4. QED
          BY <4>2, <4>3
      <3>2. CASE ~(d = c /\ t = "user")
        <4>1. req'[d][t] = req[d][t]
          BY <2>5, <3>2
        <4>2. Holds(req[d][t])'
          BY <1>0, <4>1, HoldsStays DEF CopyAll, ReqInv
        <4>3. Owns(d, t)'
          BY <2>4, <2>6, <4>1 DEF CopyAll, ReqInv, Owns
        <4>4. QED
          BY <4>2, <4>3
      <3>3. QED
        BY <3>1, <3>2
    <2>10. QED
      BY <1>0, <2>4, <2>8, <2>9, CopiesStay DEF ReqInv
  <1>6. QED
    BY <1>1, <1>2, <1>3, <1>4, <1>5

\* Once a request is done its item is known.
LEMMA DoneKnown ==
  ASSUME TypeOK, ReqShape, CopyAll, NEW c \in Client, NEW s \in Slot,
         req[c][s].at = "done"
  PROVE  /\ Known(req[c][s].row.id)
         /\ req[c][s].op # "delete" =>
               /\ Kept(req[c][s]) \in Row
               /\ Kept(req[c][s]).id = req[c][s].row.id
               /\ Kept(req[c][s]).rev = req[c][s].row.rev
               /\ Matches(Kept(req[c][s]))
  <1>1. Known(req[c][s].row.id)
    BY DEF CopyAll, ReqInv, Owns, Known, CreateSent
  <1>2. QED
    BY <1>1, AnsweredRows DEF CopyAll, ReqInv, Holds

LEMMA AnswerCopies ==
  ASSUME TypeOK, TypeOK', ReqShape, CopyAll, NEW c \in Client, Finish(c) \/ Fail(c)
  PROVE  CopyAll'
  <1>0. /\ Shrinks /\ items' = items /\ blind' = blind /\ born' = born
        /\ got' = got /\ up' = up /\ "user" \in Slot /\ Becomes(c, "user", Idle)
    BY DEF Finish, Fail, server, ghosts, loading, Shrinks, Slot
  <1>1. KnownStays /\ ReqInv'
    <2>1. \A d \in Client, t \in Slot : req'[d][t] = req[d][t] \/ req'[d][t] = Idle
      BY <1>0, IdleType, BecomesType
    <2>2. QED
      BY <1>0, <2>1, LessRequests DEF CopyAll
  <1>2. CASE Fail(c)
    <2>1. seen' = seen /\ \A d \in Client : Held(d)' = Held(d)
      BY <1>0, <1>2 DEF Fail, trust, Held
    <2>2. QED
      BY <1>0, <1>1, <2>1, CopiesStay
  <1>3. CASE Finish(c)
    <2> DEFINE q == req[c]["user"]
    <2>1. q.at = "done" /\ local' = [local EXCEPT ![c] = Answered(c, q)]
      BY <1>3 DEF Finish
    <2>2. \A r \in Answered(c, q) : r \in Held(c) \/ (Known(r.id) /\ Matches(r))
      <3>1. CASE q.op = "delete"
        <4>1. SUFFICES ASSUME NEW r \in Answered(c, q)
                       PROVE  Known(r.id) /\ Matches(r)
          OBVIOUS
        <4>2. PICK o \in local[c] : /\ r.id = o.id /\ r.version = o.version
                                    /\ r.rev = o.rev /\ r.text = o.text
          BY <1>0, <2>1, <3>1, <4>1, AnsweredRows
        <4>3. Known(o.id) /\ Matches(o)
          BY LocalCopies DEF Held
        <4>4. QED
          BY <4>2, <4>3 DEF Matches, Behind
      <3>2. CASE q.op # "delete"
        <4>1. Answered(c, q) \subseteq local[c] \cup {Kept(q)}
          BY <1>0, <2>1, <3>2, AnsweredRows
        <4>2. Known(Kept(q).id) /\ Matches(Kept(q))
          BY <1>0, <2>1, <3>2, DoneKnown
        <4>3. QED
          BY <4>1, <4>2 DEF Held
      <3>3. QED
        BY <3>1, <3>2
    <2>3. \A d \in Client : local'[d] = IF d = c THEN Answered(c, q) ELSE local[d]
      BY <2>1 DEF TypeOK
    <2>4. \A d \in Client : \A r \in Held(d)' :
             r \in Held(d) \/ (Known(r.id) /\ Matches(r))
      BY <1>0, <2>2, <2>3 DEF Held
    <2>5. \A d \in Client, i \in Item :
             \/ seen'[d][i] = seen[d][i]
             \/ Known(i) /\ (items[i] # None => seen'[d][i] <= items[i].rev)
      <3>1. CASE q.op \in {"save", "create"}
        <4>1. Record(c, q.row.id, q.row.rev)
          BY <1>3, <3>1 DEF Finish
        <4>2. /\ Kept(q) \in Row /\ Kept(q).id = q.row.id /\ Kept(q).rev = q.row.rev
              /\ Known(Kept(q).id) /\ Matches(Kept(q))
          BY <1>0, <2>1, <3>1, DoneKnown
        <4>3. QED
          BY <4>1, <4>2, RecordSeen
      <3>2. CASE q.op \notin {"save", "create"}
        BY <1>3, <3>2 DEF Finish
      <3>3. QED
        BY <3>1, <3>2
    <2>6. QED
      BY <1>0, <1>1, <2>4, <2>5, CopiesStay
  <1>4. QED
    BY <1>2, <1>3

LEMMA UpgradeCopies ==
  ASSUME TypeOK, TypeOK', ReqShape, CopyAll, NEW c \in Client,
         \/ StartUpgrade(c) \/ ItemUpgraded(c) \/ ItemFailed(c)
         \/ \E row \in up[c].todo : UpgradeItem(c, row) \/ RejectItem(c, row)
         \/ PublishV2Only(c) \/ MarkV2Only(c)
  PROVE  CopyAll'
  <1>0. /\ Shrinks /\ items' = items /\ blind' = blind /\ born' = born
        /\ got' = got /\ "upgrade" \in Slot /\ up[c] \in Upgrade
    BY DEF StartUpgrade, ItemUpgraded, ItemFailed, UpgradeItem, RejectItem,
           PublishV2Only, MarkV2Only, server, ghosts, loading, Shrinks, Slot, TypeOK
  <1>a. ASSUME NEW row \in up[c].todo
        PROVE  /\ row \in Held(c) /\ row \in Row /\ row.id \in Item
               /\ Known(row.id) /\ Matches(row)
               /\ row.text \in Nat
    BY LocalCopies DEF Held, Row
  <1>1. CASE StartUpgrade(c)
    <2>1. \A d \in Client : up'[d].todo \subseteq local[d] \cup up[d].todo
      BY <1>1 DEF StartUpgrade, TypeOK
    <2>2. \A d \in Client : Held(d)' \subseteq Held(d)
      BY <1>0, <1>1, <2>1 DEF StartUpgrade, Held
    <2>3. KnownStays /\ ReqInv' /\ seen' = seen
      BY <1>0, <1>1, SameRequests DEF StartUpgrade, trust
    <2>4. QED
      BY <1>0, <2>2, <2>3, CopiesStay
  <1>2. CASE ItemUpgraded(c)
    <2> DEFINE q == req[c]["upgrade"]
    <2>1. /\ q.at = "done" /\ q.op # "delete" /\ Record(c, q.row.id, q.row.rev)
          /\ up' = up
      BY <1>0, <1>2, RequestFacts DEF ItemUpgraded
    <2>2. /\ Kept(q) \in Row /\ Kept(q).id = q.row.id /\ Kept(q).rev = q.row.rev
          /\ Known(Kept(q).id) /\ Matches(Kept(q))
      BY <1>0, <2>1, DoneKnown
    <2>3. \A d \in Client : local'[d] \subseteq local[d] \cup {Kept(q)}
      BY <1>2 DEF ItemUpgraded, Upserted, TypeOK
    <2>4. \A d \in Client : \A r \in Held(d)' :
             r \in Held(d) \/ (Known(r.id) /\ Matches(r))
      BY <1>0, <2>1, <2>2, <2>3 DEF Held
    <2>5. \A d \in Client, t \in Slot : req'[d][t] = req[d][t] \/ req'[d][t] = Idle
      BY <1>0, <1>2, IdleType, BecomesType DEF ItemUpgraded
    <2>6. KnownStays /\ ReqInv'
      BY <1>0, <2>5, LessRequests DEF CopyAll
    <2>7. \A d \in Client, i \in Item :
             \/ seen'[d][i] = seen[d][i]
             \/ Known(i) /\ (items[i] # None => seen'[d][i] <= items[i].rev)
      BY <2>1, <2>2, RecordSeen
    <2>8. QED
      BY <1>0, <2>4, <2>6, <2>7, CopiesStay
  <1>3. CASE ItemFailed(c)
    <2>1. \A d \in Client : up'[d].todo = up[d].todo
      BY <1>0, <1>3 DEF ItemFailed, TypeOK, Upgrade
    <2>2. \A d \in Client : Held(d)' = Held(d)
      BY <1>0, <1>3, <2>1 DEF ItemFailed, Held
    <2>3. \A d \in Client, t \in Slot : req'[d][t] = req[d][t] \/ req'[d][t] = Idle
      BY <1>0, <1>3, IdleType, BecomesType DEF ItemFailed
    <2>4. KnownStays /\ ReqInv' /\ seen' = seen
      BY <1>0, <1>3, <2>3, LessRequests DEF CopyAll, ItemFailed, trust
    <2>5. QED
      BY <1>0, <2>2, <2>4, CopiesStay
  <1>4. ASSUME NEW row \in up[c].todo, UpgradeItem(c, row)
        PROVE  CopyAll'
    <2> DEFINE new == [row EXCEPT !.rev = NextRevision(c, row)]
               q == [op |-> "upgrade", at |-> "sent", base |-> row.text,
                     row |-> new, to |-> None]
    <2>1. /\ new \in Row /\ new.rev = NextRevision(c, row)
          /\ new.id = row.id /\ new.version = row.version
      BY <1>a, NextRevisionType, Reencrypted DEF Row
    <2>2. q \in Req
      BY <1>a, <2>1, SentType DEF OpKind
    <2>3. Holds(q)
      BY <1>a, <2>1, SentHolds DEF Writes
    <2>4. q.at = "sent" /\ q.op # "create" /\ q.row = new
      OBVIOUS
    <2>5. Becomes(c, "upgrade", q)
      BY <1>4 DEF UpgradeItem
    <2> HIDE DEF new, q
    <2>6. KnownStays /\ ReqInv'
      BY <1>0, <1>a, <2>1, <2>2, <2>3, <2>4, <2>5, MoreRequests DEF CopyAll
    <2>7. \A d \in Client : up'[d].todo \subseteq up[d].todo
      BY <1>0, <1>4 DEF UpgradeItem, TypeOK, Upgrade
    <2>8. \A d \in Client : Held(d)' \subseteq Held(d)
      BY <1>0, <1>4, <2>7 DEF UpgradeItem, Held
    <2>9. QED
      BY <1>0, <1>4, <1>a, <2>6, <2>8, RecordSeen, CopiesStay DEF UpgradeItem
  <1>5. ASSUME NEW row \in up[c].todo, RejectItem(c, row)
        PROVE  CopyAll'
    <2> DEFINE u == [up[c] EXCEPT !.todo = @ \ {row}, !.failed = TRUE]
    <2>a. u.todo \subseteq up[c].todo
      BY <1>0 DEF Upgrade
    <2>b. up' = [up EXCEPT ![c] = u]
      BY <1>5 DEF RejectItem
    <2> HIDE DEF u
    <2>1. \A d \in Client : up'[d].todo \subseteq up[d].todo
      BY <2>a, <2>b DEF TypeOK
    <2>2. \A d \in Client : Held(d)' \subseteq Held(d)
      BY <1>0, <1>5, <2>1 DEF RejectItem, Held
    <2>3. KnownStays /\ ReqInv' /\ seen' = seen
      BY <1>0, <1>5, SameRequests DEF RejectItem, trust
    <2>4. QED
      BY <1>0, <2>2, <2>3, CopiesStay
  <1>6. CASE PublishV2Only(c) \/ MarkV2Only(c)
    <2>1. \A d \in Client : up'[d].todo = up[d].todo
      BY <1>0, <1>6, SMTT(30) DEF PublishV2Only, MarkV2Only, TypeOK, Upgrade
    <2>2. \A d \in Client : Held(d)' = Held(d)
      BY <1>0, <1>6, <2>1 DEF PublishV2Only, MarkV2Only, Held
    <2>3. KnownStays /\ ReqInv' /\ seen' = seen
      BY <1>0, <1>6, SameRequests DEF PublishV2Only, MarkV2Only, trust
    <2>4. QED
      BY <1>0, <2>2, <2>3, CopiesStay
  <1>7. QED
    BY <1>1, <1>2, <1>3, <1>4, <1>5, <1>6

-----------------------------------------------------------------------------
(* The statements that change rows                                         *)

\* How the row of an item changes while the item exists.
Advances(old, new) ==
    \/ /\ new.version > old.version
       /\ new.rev > old.rev \/ (new.rev = old.rev /\ new.text = old.text)
    \/ new.version = old.version /\ new.rev = old.rev /\ new.text = old.text

LEMMA StaysBehind ==
  ASSUME NEW copy \in Row, NEW old \in Row, NEW new \in Row,
         Behind(copy, old), Advances(old, new)
  PROVE  Behind(copy, new)
  BY DEF Behind, Advances, Row

\* What an accepted request does to its row, and that its author read what it
\* replaces.
LEMMA StoredAdvances ==
  ASSUME TypeOK, ReqShape, CopyAll, NEW c \in Client, NEW s \in Slot,
         req[c][s].at = "sent", Applies(req[c][s])
  PROVE  LET q == req[c][s]
         IN  /\ q.op # "create" => /\ items[q.row.id] # None
                                   /\ Advances(items[q.row.id], Stored(q))
             /\ q.op \in Writes => items[q.row.id].text = q.base
             /\ q.op # "delete" => Behind(Kept(q), Stored(q))
  <1> DEFINE q == req[c][s]
             old == items[q.row.id]
  <1>1. /\ q \in Req /\ q.row \in Row /\ q.row.id \in Item
        /\ q.row.rev \in Nat /\ q.row.version \in Nat
        /\ q.op \in {"save", "upgrade", "create", "move", "delete"}
    BY RequestFacts DEF Row
  <1>2. old # None => /\ old \in Row /\ old.version \in Nat /\ old.rev \in Nat
    BY <1>1 DEF TypeOK, Row
  <1>3. Holds(q)
    BY DEF CopyAll, ReqInv
  <1>4. CASE q.op \in Writes
    <2>1. old # None /\ old.version = q.row.version
      BY <1>4 DEF Applies, SameVersion, Writes
    <2>2. old.text = q.base /\ old.rev < q.row.rev
      BY <1>3, <1>4, <2>1 DEF Holds, Replaces
    <2>3. Stored(q) = [old EXCEPT !.version = @ + 1, !.rev = q.row.rev, !.text = q.row.text]
      BY <1>4 DEF Stored, Writes
    <2>4. Kept(q) = [q.row EXCEPT !.version = @ + 1]
      BY <1>4 DEF Kept, Writes
    <2>5. /\ Stored(q).version = old.version + 1 /\ Stored(q).rev = q.row.rev
          /\ Stored(q).text = q.row.text
      BY <1>1, <1>2, <2>1, <2>3 DEF Row
    <2>6. /\ Kept(q).version = q.row.version + 1 /\ Kept(q).rev = q.row.rev
          /\ Kept(q).text = q.row.text
      BY <1>1, <2>4 DEF Row
    <2>7. QED
      BY <1>1, <1>2, <1>4, <2>1, <2>2, <2>5, <2>6 DEF Advances, Behind, Writes
  <1>5. CASE q.op = "create"
    <2>1. Stored(q) = q.row /\ Kept(q) = q.row
      BY <1>5 DEF Stored, Kept
    <2>2. QED
      BY <1>1, <1>5, <2>1 DEF Behind, Writes
  <1>6. CASE q.op = "move"
    <2>1. old # None /\ Behind(q.row, old)
      BY <1>3, <1>6 DEF Applies, Holds, Matches
    <2>2. Stored(q) = [old EXCEPT !.vault = q.to, !.version = @ + 1]
      BY <1>6 DEF Stored
    <2>3. Kept(q) = [q.row EXCEPT !.vault = q.to, !.version = @ + 1]
      BY <1>6 DEF Kept
    <2>4. /\ Stored(q).version = old.version + 1 /\ Stored(q).rev = old.rev
          /\ Stored(q).text = old.text
      BY <1>2, <2>1, <2>2 DEF Row
    <2>5. /\ Kept(q).version = q.row.version + 1 /\ Kept(q).rev = q.row.rev
          /\ Kept(q).text = q.row.text
      BY <1>1, <2>3 DEF Row
    <2>6. QED
      BY <1>1, <1>2, <1>6, <2>1, <2>4, <2>5, SMTT(30) DEF Advances, Behind, Writes
  <1>7. CASE q.op = "delete"
    <2>1. old # None
      BY <1>7 DEF Applies, Live
    <2>2. Stored(q) = [old EXCEPT !.gone = TRUE]
      BY <1>7 DEF Stored
    <2>3. /\ Stored(q).version = old.version /\ Stored(q).rev = old.rev
          /\ Stored(q).text = old.text
      BY <1>2, <2>1, <2>2 DEF Row
    <2>4. QED
      BY <1>7, <2>1, <2>3 DEF Advances, Writes
  <1>8. QED
    BY <1>1, <1>4, <1>5, <1>6, <1>7 DEF Writes

LEMMA ServeCopies ==
  ASSUME TypeOK, TypeOK', ReqShape, CopyAll, NEW c \in Client, NEW s \in Slot, Serve(c, s)
  PROVE  CopyAll'
  <1> PICK q \in Req : q = req[c][s]
    BY DEF TypeOK
  <1>0. q.at = "sent" /\ Applies(q)
    BY DEF Serve
  <1> PICK i \in Item : i = q.row.id
    BY <1>0, RequestFacts DEF Row
  <1> DEFINE done == [q EXCEPT !.at = "done"]
             new == Stored(q)
  <1>1. /\ q \in Req /\ q.row \in Row /\ i \in Item
        /\ q.op \in {"save", "upgrade", "create", "move", "delete"}
        /\ (s = "upgrade" <=> q.op = "upgrade")
        /\ q.op = "move" => q.to \in Vault
    BY <1>0, RequestFacts DEF Row
  <1>2. /\ new \in Row /\ new.id = i
        /\ q.op # "create" => items[i] # None /\ Advances(items[i], new)
        /\ q.op \in Writes => items[i].text = q.base
        /\ q.op # "delete" => Behind(Kept(q), new)
    BY <1>0, StoredType, StoredAdvances
  <1>3. /\ \A j \in Item : items'[j] = IF j = i THEN new ELSE items[j]
        /\ born' = born /\ seen' = seen
        /\ \A d \in Client : Held(d)' = Held(d)
    BY <1>1 DEF Serve, TypeOK, loading, trust, Held
  <1>4. done \in Req /\ done.at = "done" /\ done.op = q.op /\ done.row = q.row /\ done.to = q.to
    BY <1>1 DEF Req
  <1>5. \A d \in Client, t \in Slot :
           req'[d][t] = IF d = c /\ t = s THEN done ELSE req[d][t]
    BY <1>4, BecomesType DEF Serve
  <1>6. q.op = "create" => s = "user" /\ CreateSent(c, i) /\ ~Known(i)
    BY <1>0, <1>1 DEF CreateSent, Known, Slot
  <1>7. Kept(done) = Kept(q)
    BY <1>4 DEF Kept
  <1>8. items[i] # None => items[i] \in Row
    BY <1>1 DEF TypeOK
  <1>9. "user" \in Slot /\ NoLostUpdate'
    BY <1>2 DEF Serve, CopyAll, NoLostUpdate, Slot, Writes
  <1> HIDE DEF new, done
  <1>10. \A d \in Client : \A j : CreateSent(d, j)' => CreateSent(d, j) /\ ~(d = c /\ s = "user")
    BY <1>4, <1>5, <1>9 DEF CreateSent
  <1>11. KnownStays /\ Known(i)'
    <2>1. Owns(c, s)
      BY DEF CopyAll, ReqInv
    <2>2. KnownStays
      BY <1>3, <1>10 DEF KnownStays, Known
    <2>3. Known(i)'
      BY <1>0, <1>1, <1>3, <1>10, <2>1 DEF Known, Owns
    <2>4. QED
      BY <2>2, <2>3
  <1>12. ASSUME NEW r \in Row, Matches(r), r.id = i => q.op # "create"
         PROVE  Matches(r)'
    <2>1. r.id \in Item
      BY DEF Row
    <2>2. CASE r.id # i
      BY <1>3, <1>12, <2>1, <2>2 DEF Matches
    <2>3. CASE r.id = i
      BY <1>2, <1>3, <1>8, <1>12, <2>1, <2>3, StaysBehind DEF Matches
    <2>4. QED
      BY <2>2, <2>3
  <1>13. ItemInv'
    BY <1>3, <1>11 DEF CopyAll, ItemInv, KnownStays
  <1>14. HeldInv'
    <2> SUFFICES ASSUME NEW d \in Client, NEW r \in Held(d)
                 PROVE  Known(r.id)' /\ Matches(r)'
      BY <1>3 DEF HeldInv
    <2>1. r \in Row /\ r.id \in Item /\ Known(r.id) /\ Matches(r)
      BY LocalCopies
    <2>2. QED
      BY <1>6, <1>11, <1>12, <2>1 DEF KnownStays
  <1>15. ReqInv'
    <2> SUFFICES ASSUME NEW d \in Client, NEW t \in Slot
                 PROVE  Holds(req[d][t])' /\ Owns(d, t)'
      BY DEF ReqInv
    <2>0. Holds(req[d][t]) /\ Owns(d, t)
      BY DEF CopyAll, ReqInv
    <2>1. CASE d = c /\ t = s
      <3>1. req'[d][t] = done
        BY <1>5, <2>1
      <3>2. q.op # "delete" => Kept(q).id = i
        BY <1>1, KeptType
      <3>3. q.op # "delete" => Matches(Kept(q))'
        BY <1>1, <1>2, <1>3, <3>2 DEF Matches
      <3>4. Holds(req[d][t])'
        BY <1>4, <1>7, <3>1, <3>3 DEF Holds
      <3>5. Owns(d, t)'
        BY <1>0, <1>3, <1>4, <1>10, <2>0, <2>1, <3>1 DEF Owns
      <3>6. QED
        BY <3>4, <3>5
    <2>2. CASE ~(d = c /\ t = s)
      <3>1. req'[d][t] = req[d][t]
        BY <1>5, <2>2
      <3>2. Owns(d, t)'
        BY <1>3, <1>10, <2>0, <3>1 DEF Owns
      <3>3. CASE req[d][t].at = "idle"
        BY <3>1, <3>2, <3>3 DEF Holds
      <3>4. CASE req[d][t].at # "idle"
        <4> PICK p \in Req : p = req[d][t]
          BY DEF TypeOK
        <4>1. /\ p \in Req /\ p.row \in Row /\ p.row.id \in Item
              /\ p.row.version \in Nat /\ p.row.rev \in Nat
              /\ p.op # "delete" => Kept(p) \in Row /\ Kept(p).id = p.row.id
          BY <3>4, RequestFacts, KeptType DEF Row
        <4>2. p.row.id = i => q.op # "create"
          BY <1>6, <2>0, <2>2, <3>4 DEF Owns
        <4>3. Matches(p.row) => Matches(p.row)'
          BY <1>12, <4>1, <4>2, <3>1 DEF Matches
        <4>4. p.op # "delete" /\ Matches(Kept(p)) => Matches(Kept(p))'
          BY <1>12, <4>1, <4>2
        <4>5. Replaces(p) => Replaces(p)'
          <5>1. CASE p.row.id # i
            BY <1>3, <3>1, <4>1, <5>1 DEF Replaces
          <5>2. CASE p.row.id = i
            <6>1. items[i] # None /\ Advances(items[i], new) /\ items'[i] = new
              BY <1>1, <1>2, <1>3, <4>2, <5>2
            <6>2. /\ new.version \in Nat /\ new.rev \in Nat
                  /\ items[i].version \in Nat /\ items[i].rev \in Nat
              BY <1>2, <1>8, <6>1 DEF Row
            <6>3. Replaces(p) => /\ p.row.version <= items[i].version
                                 /\ p.row.version = items[i].version =>
                                       items[i].text = p.base /\ items[i].rev < p.row.rev
              BY <5>2, <6>1 DEF Replaces
            <6>4. Replaces(p) => /\ p.row.version <= new.version
                                 /\ p.row.version = new.version =>
                                       new.text = p.base /\ new.rev < p.row.rev
              BY <4>1, <6>1, <6>2, <6>3 DEF Advances
            <6>5. QED
              BY <3>1, <5>2, <6>1, <6>4 DEF Replaces
          <5>3. QED
            BY <5>1, <5>2
        <4>6. Holds(req[d][t])'
          BY <2>0, <3>1, <4>3, <4>4, <4>5 DEF Holds
        <4>7. QED
          BY <3>2, <4>6
      <3>5. QED
        BY <3>3, <3>4
    <2>3. QED
      BY <2>1, <2>2
  <1>16. SeenInv'
    BY <1>3, <1>11 DEF CopyAll, SeenInv, KnownStays
  <1>17. NoFalseRollback'
    <2> SUFFICES ASSUME NEW d \in Client, NEW j \in Item, items'[j] # None
                 PROVE  items'[j].rev >= seen[d][j]
      BY <1>3 DEF NoFalseRollback
    <2>1. CASE j # i
      BY <1>3, <2>1 DEF CopyAll, NoFalseRollback
    <2>2. CASE j = i /\ q.op = "create"
      <3>1. seen[d][j] = 0
        BY <1>6, <2>2 DEF CopyAll, SeenInv
      <3>2. QED
        BY <1>2, <1>3, <2>2, <3>1 DEF Row
    <2>3. CASE j = i /\ q.op # "create"
      <3>1. items[i] # None /\ Advances(items[i], new) /\ items'[j] = new
        BY <1>2, <1>3, <2>3
      <3>2. new.rev \in Nat /\ items[i].rev \in Nat /\ seen[d][j] \in Nat
        BY <1>2, <1>8, <3>1, SMTT(30) DEF Row, TypeOK
      <3>3. items[i].rev >= seen[d][j]
        BY <1>1, <2>3, <3>1 DEF CopyAll, NoFalseRollback
      <3>4. QED
        BY <3>1, <3>2, <3>3 DEF Advances
    <2>4. QED
      BY <2>1, <2>2, <2>3
  <1>18. QED
    BY <1>9, <1>13, <1>14, <1>15, <1>16, <1>17 DEF CopyAll

LEMMA ServerCopies ==
  ASSUME TypeOK, TypeOK', ReqShape, CopyAll,
         \/ \E c \in Client, s \in Slot : Serve(c, s) \/ Refuse(c, s)
         \/ \E c \in Client, v \in Vault, heard \in BOOLEAN : CreateVault(c, v, heard)
         \/ \E v \in Vault : CheckVault(v) \/ DeleteVault(v)
  PROVE  CopyAll'
  <1>1. ASSUME NEW c \in Client, NEW s \in Slot, Refuse(c, s)
        PROVE  CopyAll'
    <2> DEFINE q == req[c][s]
               no == [q EXCEPT !.at = "refused"]
    <2>0. /\ q.at = "sent" /\ Shrinks /\ blind' = blind /\ born' = born /\ seen' = seen
          /\ \A d \in Client : Held(d)' = Held(d)
          /\ "user" \in Slot /\ Becomes(c, s, no)
      BY <1>1 DEF Refuse, server, loading, trust, ghosts, Shrinks, Held, Slot
    <2>1. q \in Req
      BY <2>0, RequestFacts
    <2>2. no \in Req /\ no.at = "refused" /\ no.row = q.row
      BY <2>1 DEF Req
    <2> HIDE DEF no
    <2>3. \A d \in Client, t \in Slot :
             req'[d][t] = IF d = c /\ t = s THEN no ELSE req[d][t]
      BY <2>0, <2>2, BecomesType
    <2>4. \A d \in Client : \A j : CreateSent(d, j)' => CreateSent(d, j)
      BY <2>0, <2>2, <2>3 DEF CreateSent
    <2>5. KnownStays
      BY <2>0, <2>4 DEF KnownStays, Known
    <2>6. ASSUME NEW d \in Client, NEW t \in Slot
          PROVE  Holds(req[d][t])' /\ Owns(d, t)'
      <3>0. Owns(d, t)
        BY DEF CopyAll, ReqInv
      <3>1. CASE d = c /\ t = s
        BY <2>0, <2>2, <2>3, <2>4, <3>0, <3>1 DEF Holds, Owns
      <3>2. CASE ~(d = c /\ t = s)
        <4>1. req'[d][t] = req[d][t]
          BY <2>3, <3>2
        <4>2. Holds(req[d][t])'
          BY <2>0, <4>1, HoldsStays DEF CopyAll, ReqInv
        <4>3. Owns(d, t)'
          BY <2>0, <2>4, <3>0, <4>1 DEF Owns
        <4>4. QED
          BY <4>2, <4>3
      <3>3. QED
        BY <3>1, <3>2
    <2>7. QED
      BY <2>0, <2>5, <2>6, CopiesStay DEF ReqInv
  <1>2. ASSUME NEW c \in Client, NEW v \in Vault, NEW heard \in BOOLEAN,
               CreateVault(c, v, heard)
        PROVE  CopyAll'
    <2>1. /\ Shrinks /\ blind' = blind /\ born \subseteq born' /\ seen' = seen
          /\ req' = req
          /\ \A d \in Client : Held(d)' = Held(d)
      BY <1>2 DEF CreateVault, trust, Shrinks, Held
    <2>2. QED
      BY <2>1, SameRequests, CopiesStay
  <1>3. ASSUME NEW v \in Vault, CheckVault(v) \/ DeleteVault(v)
        PROVE  CopyAll'
    <2>1. /\ Shrinks /\ blind' = blind /\ born \subseteq born' /\ seen' = seen
          /\ req' = req
          /\ \A d \in Client : Held(d)' = Held(d)
      BY <1>3 DEF CheckVault, DeleteVault, Cascade, trust, ghosts, loading, Shrinks, Held
    <2>2. QED
      BY <2>1, SameRequests, CopiesStay
  <1>4. QED
    BY <1>1, <1>2, <1>3, ServeCopies

LEMMA InitCopies == Init => CopyAll
  <1> SUFFICES ASSUME Init PROVE CopyAll
    OBVIOUS
  <1>0. TypeOK /\ "user" \in Slot /\ Idle.at = "idle"
    BY InitType DEF Slot, Idle
  <1>1. \A d \in Client : /\ Held(d) = {}
                         /\ \A t \in Slot : req[d][t] = Idle
                         /\ \A j \in Item : seen[d][j] = 0
    BY DEF Init, Held, Rested
  <1>2. \A i \in Item : items[i] # None => Known(i)
    BY <1>0, <1>1 DEF Init, Known, CreateSent
  <1>3. \A d \in Client, t \in Slot : Holds(req[d][t]) /\ Owns(d, t)
    BY <1>0, <1>1, IdleHolds DEF Owns
  <1>4. NoFalseRollback
    BY <1>0, <1>1 DEF NoFalseRollback, TypeOK, Row
  <1>5. QED
    BY <1>1, <1>2, <1>3, <1>4 DEF CopyAll, ItemInv, HeldInv, ReqInv, SeenInv, Init,
       NoLostUpdate

LEMMA CopyStep ==
  ASSUME TypeOK, ReqShape, CopyAll, [Next]_vars
  PROVE  CopyAll'
  <1>0. TypeOK'
    BY TypeStep
  <1>1. CASE Next
    BY <1>0, <1>1, LoadCopies, UserCopies, ServerCopies, AnswerCopies, UpgradeCopies
       DEF Next, Step
  <1>2. CASE UNCHANGED vars
    <2>1. /\ Shrinks /\ blind' = blind /\ born \subseteq born' /\ seen' = seen
          /\ req' = req
          /\ \A d \in Client : Held(d)' = Held(d)
      BY <1>2 DEF vars, Shrinks, Held
    <2>2. QED
      BY <1>0, <2>1, SameRequests, CopiesStay
  <1>3. QED
    BY <1>1, <1>2

LEMMA CopiesAlways == Spec => []CopyAll
  <1>1. QED
    BY InitType, TypeStep, InitCopies, CopyStep, PTL DEF Spec

\* No accepted save or re-encryption replaces a text its author had not read,
\* for any number of clients, vaults and items.
THEOREM NoUpdateIsLost == Spec => []NoLostUpdate
  <1>1. CopyAll => NoLostUpdate
    BY DEF CopyAll
  <1>2. QED
    BY <1>1, CopiesAlways, PTL

\* What the server holds is never behind what a client has recorded, so no
\* client that follows the code refuses the current row of an item.
THEOREM CurrentIsNoRollback == Spec => []NoFalseRollback
  <1>1. CopyAll => NoFalseRollback
    BY DEF CopyAll
  <1>2. QED
    BY <1>1, CopiesAlways, PTL

\* A revision number of an item stands for one text.
THEOREM RevisionIsText == Spec => []RevisionNamesText
  <1>1. TypeOK /\ CopyAll => RevisionNamesText
    <2> SUFFICES ASSUME TypeOK, CopyAll, NEW c \in Client, NEW r \in local[c],
                        items[r.id] # None, items[r.id].rev = r.rev
                 PROVE  items[r.id].text = r.text
      BY DEF RevisionNamesText
    <2>1. Matches(r)
      BY LocalCopies DEF Held
    <2>2. QED
      BY <2>1 DEF Matches, Behind
  <1>2. QED
    BY <1>1, TypeCorrect, CopiesAlways, PTL

-----------------------------------------------------------------------------
(* The v2-only marker                                                      *)

Gentle == ~LoadMayFail /\ "move" \notin Ops /\ "delete_vault" \notin Ops

\* What StillV1 reads of a client.
Rests(c) ==
  /\ phase'[c] = phase[c] /\ toList'[c] = toList[c] /\ got'[c] = got[c]
  /\ local'[c] = local[c] /\ up'[c] = up[c]
  /\ req'[c]["upgrade"] = req[c]["upgrade"]

\* A v1 row of the next state was one before, in the same vault.
LegacyStays ==
  \A i \in Item : items'[i] # None /\ items'[i].rev = 0 =>
     /\ items[i] # None /\ items[i].rev = 0
     /\ items'[i].vault = items[i].vault

LEMMA RestsStays ==
  ASSUME NEW c, NEW i, Rests(c), StillV1(c, i), items'[i].vault = items[i].vault
  PROVE  StillV1(c, i)'
  BY DEF Rests, StillV1

\* It is enough to look at the client that takes the step.
LEMMA OneClient ==
  ASSUME LegacyInv, LegacyStays, NEW c \in Client,
         \A d \in Client : d # c => Rests(d),
         marker' => marker,
         \A i \in Item : items[i] # None /\ items[i].rev = 0 /\ StillV1(c, i)
                         /\ items'[i].vault = items[i].vault => StillV1(c, i)'
  PROVE  LegacyInv'
  <1> SUFFICES ASSUME NEW i \in Item, items'[i] # None, items'[i].rev = 0
               PROVE  ~marker' /\ \A d \in Client : StillV1(d, i)'
    BY DEF LegacyInv
  <1>1. /\ items[i] # None /\ items[i].rev = 0 /\ items'[i].vault = items[i].vault
    BY DEF LegacyStays
  <1>2. ~marker /\ \A d \in Client : StillV1(d, i)
    BY <1>1 DEF LegacyInv
  <1>3. \A d \in Client : d # c => StillV1(d, i)'
    BY <1>1, <1>2, RestsStays
  <1>4. QED
    BY <1>1, <1>2, <1>3

LEMMA ListStep ==
  ASSUME Gentle, TypeOK, ListInv, Next
  PROVE  ListInv'
  <1>1. ASSUME NEW c \in Client, Step(c)
        PROVE  ListInv'
    <2>1. CASE \/ ListVaults(c) \/ FinishLoad(c) \/ LoadFails(c) \/ Lock(c)
               \/ \E v \in Vault : ListItems(c, v)
      <3>1. vaults' = vaults /\ deleting' = deleting
        BY <2>1 DEF ListVaults, FinishLoad, LoadFails, Lock, ListItems, server
      <3>2. \A d \in Client : toList'[d] = toList[d] \/ toList'[d] \subseteq vaults
        <4>1. CASE ListVaults(c)
          BY <4>1 DEF ListVaults, TypeOK
        <4>2. CASE FinishLoad(c)
          BY <4>2 DEF FinishLoad
        <4>3. CASE LoadFails(c) \/ Lock(c)
          BY <4>3 DEF LoadFails, Lock, TypeOK
        <4>4. CASE \E v \in Vault : ListItems(c, v)
          BY <4>4 DEF ListItems, TypeOK, ListInv
        <4>5. QED
          BY <2>1, <4>1, <4>2, <4>3, <4>4
      <3>3. QED
        BY <3>1, <3>2 DEF ListInv
    <2>2. CASE \E v \in Vault, heard \in BOOLEAN : CreateVault(c, v, heard)
      BY <2>2 DEF ListInv, CreateVault
    <2>3. CASE vaults' = vaults /\ deleting' = deleting /\ toList' = toList
      BY <2>3 DEF ListInv
    <2>4. CASE \/ \E fetched \in BOOLEAN : OpenStore(c, fetched)
               \/ \E row \in local[c] : \/ Decrypt(c, row) \/ StartSave(c, row)
                                        \/ StartDelete(c, row)
                                        \/ \E v \in Vault : StartMove(c, row, v)
               \/ \E i \in Item, v \in Vault : StartCreate(c, i, v)
      BY <2>3, <2>4 DEF OpenStore, Decrypt, StartSave, StartDelete, StartMove, StartCreate,
         server, loading
    <2>5. CASE \/ \E s \in Slot : Serve(c, s) \/ Refuse(c, s)
               \/ Finish(c) \/ Fail(c)
      BY <2>3, <2>5 DEF Serve, Refuse, Finish, Fail, server, loading
    <2>6. CASE \/ StartUpgrade(c) \/ ItemUpgraded(c) \/ ItemFailed(c)
               \/ \E row \in up[c].todo : UpgradeItem(c, row) \/ RejectItem(c, row)
               \/ PublishV2Only(c) \/ MarkV2Only(c)
      BY <2>3, <2>6 DEF StartUpgrade, ItemUpgraded, ItemFailed, UpgradeItem, RejectItem,
         PublishV2Only, MarkV2Only, server, loading
    <2>7. QED
      BY <1>1, <2>1, <2>2, <2>4, <2>5, <2>6 DEF Step
  <1>2. ASSUME NEW v \in Vault, CheckVault(v) \/ DeleteVault(v)
        PROVE  ListInv'
    BY <1>2 DEF Gentle, ListInv, CheckVault, DeleteVault
  <1>3. QED
    BY <1>1, <1>2 DEF Next

LEMMA LoadLegacy ==
  ASSUME Gentle, TypeOK, ListInv, LegacyInv, NEW c \in Client,
         \/ ListVaults(c) \/ FinishLoad(c) \/ LoadFails(c) \/ Lock(c)
         \/ \E v \in Vault : ListItems(c, v)
         \/ \E v \in Vault, heard \in BOOLEAN : CreateVault(c, v, heard)
         \/ \E fetched \in BOOLEAN : OpenStore(c, fetched)
         \/ \E row \in local[c] : Decrypt(c, row)
  PROVE  LegacyInv'
  <1>0. "upgrade" \in Slot /\ Idle.at = "idle" /\ Rested.on = "no"
    BY DEF Slot, Idle, Rested
  <1>1. CASE ListVaults(c)
    <2>1. LegacyStays /\ marker' = marker /\ \A d \in Client : d # c => Rests(d)
      BY <1>1 DEF ListVaults, TypeOK, LegacyStays, Rests, server
    <2>2. ASSUME NEW i \in Item, items[i] # None, StillV1(c, i)
          PROVE  StillV1(c, i)'
      BY <1>1, <2>2 DEF ListVaults, TypeOK, StillV1, server
    <2>3. QED
      BY <2>1, <2>2, OneClient
  <1>2. CASE FinishLoad(c)
    <2>1. LegacyStays /\ marker' = marker /\ \A d \in Client : d # c => Rests(d)
      BY <1>2 DEF FinishLoad, TypeOK, LegacyStays, Rests, server
    <2>2. ASSUME NEW i \in Item, StillV1(c, i)
          PROVE  StillV1(c, i)'
      BY <1>2, <2>2 DEF FinishLoad, TypeOK, StillV1, server
    <2>3. QED
      BY <2>1, <2>2, OneClient
  <1>3. CASE LoadFails(c)
    BY <1>3 DEF LoadFails, Gentle, ListInv
  <1>4. CASE Lock(c)
    <2>1. LegacyStays /\ marker' = marker /\ \A d \in Client : d # c => Rests(d)
      BY <1>4 DEF Lock, TypeOK, LegacyStays, Rests, server
    <2>2. phase'[c] = "locked" /\ up'[c].on = "no"
      BY <1>0, <1>4 DEF Lock, TypeOK
    <2>3. \A i \in Item : StillV1(c, i)'
      BY <2>2 DEF StillV1
    <2>4. QED
      BY <2>1, <2>3, OneClient
  <1>5. ASSUME NEW v \in Vault, ListItems(c, v)
        PROVE  LegacyInv'
    <2>1. LegacyStays /\ marker' = marker /\ \A d \in Client : d # c => Rests(d)
      BY <1>5 DEF ListItems, TypeOK, LegacyStays, Rests, server
    <2>2. ASSUME NEW i \in Item, items[i] # None, items[i].rev = 0, StillV1(c, i)
          PROVE  StillV1(c, i)'
      <3>1. /\ phase'[c] = "loading" /\ phase[c] = "loading" /\ toList'[c] = toList[c] \ {v}
            /\ got[c] \subseteq got'[c] /\ up' = up /\ req' = req /\ items' = items
            /\ items[i].vault = v => items[i] \in got'[c]
        BY <1>5, <2>2 DEF ListItems, TypeOK, server
      <3>2. items[i].id = i
        BY <2>2 DEF TypeOK
      <3>3. QED
        BY <2>2, <3>1, <3>2 DEF StillV1
    <2>3. QED
      BY <2>1, <2>2, OneClient
  <1>6. CASE \A d \in Client : Rests(d) /\ items' = items /\ marker' = marker
    <2>1. LegacyStays /\ marker' = marker /\ \A d \in Client : Rests(d)
      BY <1>6 DEF LegacyStays
    <2>2. QED
      BY <2>1, RestsStays, OneClient
  <1>7. ASSUME NEW v \in Vault, NEW heard \in BOOLEAN, CreateVault(c, v, heard)
        PROVE  LegacyInv'
    BY <1>6, <1>7 DEF CreateVault, Rests
  <1>8. ASSUME NEW fetched \in BOOLEAN, OpenStore(c, fetched)
        PROVE  LegacyInv'
    BY <1>6, <1>8 DEF OpenStore, Rests, server
  <1>9. ASSUME NEW row \in local[c], Decrypt(c, row)
        PROVE  LegacyInv'
    BY <1>6, <1>9 DEF Decrypt, Rests, server, loading
  <1>10. QED
    BY <1>1, <1>2, <1>3, <1>4, <1>5, <1>7, <1>8, <1>9

\* A row that is still v1 survives an answer: what was accepted is not v1.
LEMMA NotLegacy ==
  ASSUME Gentle, TypeOK, ReqShape, CopyAll, NEW c \in Client, NEW s \in Slot,
         req[c][s].at = "done", NEW i \in Item, items[i] # None, items[i].rev = 0,
         req[c][s].op # "delete"
  PROVE  Kept(req[c][s]).id # i /\ req[c][s].row.id # i
  <1> DEFINE k == Kept(req[c][s])
  <1>1. /\ req[c][s].op \in Writes \cup {"create"}
        /\ req[c][s].row.rev # 0
    BY RequestFacts DEF Gentle, Writes
  <1>2. k \in Row /\ k.id = req[c][s].row.id /\ k.rev # 0 /\ Matches(k)
    BY <1>1, DoneKnown
  <1>3. k.rev \in Nat
    BY <1>2 DEF Row
  <1>4. QED
    BY <1>2, <1>3 DEF Matches, Behind

LEMMA AnswerKeeps ==
  ASSUME Gentle, TypeOK, ReqShape, CopyAll, NEW c \in Client, NEW s \in Slot,
         req[c][s].at = "done", NEW i \in Item, items[i] # None, items[i].rev = 0,
         NEW o \in local[c], o.id = i, o.rev = 0
  PROVE  \E r \in Answered(c, req[c][s]) : r.id = i /\ r.rev = 0
  <1>1. CASE req[c][s].op = "delete"
    <2>1. o \in Row
      BY DEF TypeOK
    <2>2. Trashed(o, req[c][s].row.id) \in Answered(c, req[c][s])
      BY <1>1 DEF Answered
    <2>3. Trashed(o, req[c][s].row.id).id = i /\ Trashed(o, req[c][s].row.id).rev = 0
      BY <2>1, Deleted DEF Trashed, Row
    <2>4. QED
      BY <2>2, <2>3
  <1>2. CASE req[c][s].op # "delete"
    <2>1. Kept(req[c][s]).id # i
      BY <1>2, NotLegacy
    <2>2. o \in Answered(c, req[c][s])
      BY <1>2, <2>1 DEF Answered, Upserted
    <2>3. QED
      BY <2>2
  <1>3. QED
    BY <1>1, <1>2

\* What a user asks for does not touch what a pass works on.
LEMMA UserLegacy ==
  ASSUME TypeOK, LegacyInv, NEW c \in Client,
         \/ \E row \in local[c] : \/ StartSave(c, row) \/ StartDelete(c, row)
                                  \/ \E v \in Vault : StartMove(c, row, v)
         \/ \E i \in Item, v \in Vault : StartCreate(c, i, v)
         \/ Fail(c)
  PROVE  LegacyInv'
  <1>1. PICK q : Becomes(c, "user", q)
    BY DEF StartSave, StartDelete, StartMove, StartCreate, Fail
  <1>2. \A d \in Client : req'[d]["upgrade"] = req[d]["upgrade"]
    BY <1>1 DEF Becomes, TypeOK, Slot
  <1>3. /\ phase' = phase /\ toList' = toList /\ got' = got /\ local' = local /\ up' = up
        /\ items' = items /\ marker' = marker
    BY DEF StartSave, StartDelete, StartMove, StartCreate, Fail, server, loading
  <1>4. LegacyStays /\ \A d \in Client : Rests(d)
    BY <1>2, <1>3 DEF LegacyStays, Rests
  <1>5. QED
    BY <1>3, <1>4, RestsStays, OneClient

LEMMA FinishLegacy ==
  ASSUME Gentle, TypeOK, ReqShape, CopyAll, LegacyInv, NEW c \in Client, Finish(c)
  PROVE  LegacyInv'
  <1>0. "user" \in Slot /\ "upgrade" \in Slot
    BY DEF Slot
  <1>1. /\ phase' = phase /\ toList' = toList /\ got' = got /\ up' = up
        /\ items' = items /\ marker' = marker
        /\ local' = [local EXCEPT ![c] = Answered(c, req[c]["user"])]
        /\ req[c]["user"].at = "done" /\ Becomes(c, "user", Idle)
    BY DEF Finish, server, loading
  <1>2. \A d \in Client : req'[d]["upgrade"] = req[d]["upgrade"]
    BY <1>0, <1>1, BecomesType, IdleType
  <1>3. LegacyStays /\ \A d \in Client : d # c => Rests(d)
    BY <1>1, <1>2 DEF LegacyStays, Rests, TypeOK
  <1>4. local'[c] = Answered(c, req[c]["user"])
    BY <1>1 DEF TypeOK
  <1>5. ASSUME NEW i \in Item, items[i] # None, items[i].rev = 0, StillV1(c, i)
        PROVE  StillV1(c, i)'
    <2>1. (\E r \in local[c] : r.id = i /\ r.rev = 0) =>
             \E r \in local'[c] : r.id = i /\ r.rev = 0
      BY <1>0, <1>1, <1>4, <1>5, AnswerKeeps
    <2>2. QED
      BY <1>1, <1>2, <1>5, <2>1 DEF StillV1
  <1>6. QED
    BY <1>1, <1>3, <1>5, OneClient

LEMMA ServerLegacy ==
  ASSUME Gentle, TypeOK, ReqShape, LegacyInv, ListInv, NEW c \in Client, NEW s \in Slot,
         Serve(c, s) \/ Refuse(c, s)
  PROVE  LegacyInv'
  <1> PICK q \in Req : q = req[c][s]
    BY DEF TypeOK
  <1>0. q.at = "sent" /\ "upgrade" \in Slot
    BY DEF Serve, Refuse, Slot
  <1>1. /\ q.row \in Row /\ q.op \in Writes \cup {"create", "delete"}
        /\ q.op # "delete" => q.row.rev # 0
    BY <1>0, RequestFacts DEF Gentle, Writes
  <1> PICK i \in Item : i = q.row.id
    BY <1>1 DEF Row
  <1>2. PICK a \in Req : Becomes(c, s, a) /\ a.at # "idle" /\ a.row = q.row
    <2>1. \A at \in {"done", "refused"} :
             /\ [q EXCEPT !.at = at] \in Req /\ [q EXCEPT !.at = at].at = at
             /\ [q EXCEPT !.at = at].row = q.row
      BY DEF Req
    <2>2. \E at \in {"done", "refused"} : Becomes(c, s, [q EXCEPT !.at = at])
      BY DEF Serve, Refuse
    <2>3. QED
      BY <2>1, <2>2
  <1>3. \A d \in Client, t \in Slot : req'[d][t] = IF d = c /\ t = s THEN a ELSE req[d][t]
    BY <1>2, BecomesType
  <1>4. \A d \in Client : /\ req'[d]["upgrade"].row = req[d]["upgrade"].row
                          /\ req'[d]["upgrade"].at # "idle" <=> req[d]["upgrade"].at # "idle"
                          /\ d # c => req'[d]["upgrade"] = req[d]["upgrade"]
    BY <1>0, <1>2, <1>3
  <1>5. /\ phase' = phase /\ toList' = toList /\ got' = got /\ local' = local /\ up' = up
        /\ marker' = marker
        /\ \A j \in Item : j # i => items'[j] = items[j]
        /\ items'[i] = items[i] \/ (Applies(q) /\ items'[i] = Stored(q))
    BY DEF Serve, Refuse, server, loading, TypeOK
  <1>6. Applies(q) /\ Stored(q) # None /\ Stored(q).rev = 0 =>
           /\ items[i] # None /\ items[i].rev = 0 /\ Stored(q).vault = items[i].vault
    <2> SUFFICES ASSUME Applies(q), Stored(q).rev = 0
                 PROVE  /\ items[i] # None /\ items[i].rev = 0
                        /\ Stored(q).vault = items[i].vault
      OBVIOUS
    <2>1. CASE q.op = "create"
      BY <1>1, <2>1 DEF Stored
    <2>2. CASE q.op \in Writes
      <3>1. items[i] # None /\ items[i] \in Row
        BY <2>2 DEF Applies, SameVersion, Writes, TypeOK
      <3>2. Stored(q) = [items[i] EXCEPT !.version = @ + 1, !.rev = q.row.rev,
                                         !.text = q.row.text]
        BY <2>2 DEF Stored, Writes
      <3>3. Stored(q).rev = q.row.rev
        BY <3>1, <3>2 DEF Row
      <3>4. QED
        BY <1>1, <2>2, <3>3 DEF Writes
    <2>3. CASE q.op = "delete"
      <3>1. items[i] # None /\ items[i] \in Row
        BY <2>3 DEF Applies, Live, TypeOK
      <3>2. Stored(q) = [items[i] EXCEPT !.gone = TRUE]
        BY <2>3 DEF Stored
      <3>3. Stored(q).rev = items[i].rev /\ Stored(q).vault = items[i].vault
        BY <3>1, <3>2 DEF Row
      <3>4. QED
        BY <3>1, <3>3
    <2>4. QED
      BY <1>1, <2>1, <2>2, <2>3
  <1>7. LegacyStays
    BY <1>5, <1>6 DEF LegacyStays
  <1>8. \A d \in Client : d # c => Rests(d)
    BY <1>4, <1>5 DEF Rests
  <1>9. ASSUME NEW j \in Item, StillV1(c, j), items'[j].vault = items[j].vault
        PROVE  StillV1(c, j)'
    BY <1>4, <1>5, <1>9 DEF StillV1
  <1>10. QED
    BY <1>5, <1>7, <1>8, <1>9, OneClient

LEMMA PassLegacy ==
  ASSUME TypeOK, LegacyInv, NEW c \in Client,
         \/ StartUpgrade(c) \/ ItemFailed(c)
         \/ \E row \in up[c].todo : UpgradeItem(c, row) \/ RejectItem(c, row)
  PROVE  LegacyInv'
  <1>0. "upgrade" \in Slot /\ up[c] \in Upgrade
    BY DEF Slot, TypeOK
  <1>1. /\ phase' = phase /\ toList' = toList /\ got' = got /\ local' = local
        /\ items' = items /\ marker' = marker
        /\ \A d \in Client : d # c => up'[d] = up[d]
    BY DEF StartUpgrade, ItemFailed, UpgradeItem, RejectItem, server, loading, TypeOK
  <1>2. \A d \in Client : d # c => req'[d]["upgrade"] = req[d]["upgrade"]
    BY DEF StartUpgrade, ItemFailed, UpgradeItem, RejectItem, Becomes, TypeOK
  <1>3. LegacyStays /\ \A d \in Client : d # c => Rests(d)
    BY <1>1, <1>2 DEF LegacyStays, Rests
  <1>4. ASSUME NEW i \in Item, items[i] # None, items[i].rev = 0, StillV1(c, i)
        PROVE  StillV1(c, i)'
    <2>1. CASE StartUpgrade(c)
      <3>1. /\ up'[c].on = "run" /\ up'[c].todo = {r \in local[c] : r.rev = 0}
            /\ phase[c] = "loaded" /\ up[c].on = "no"
        BY <2>1 DEF StartUpgrade, TypeOK
      <3>2. QED
        BY <1>1, <1>4, <3>1 DEF StillV1
    <2>2. CASE ItemFailed(c)
      <3>1. up'[c].failed = TRUE /\ up'[c].on = up[c].on
        BY <1>0, <2>2 DEF ItemFailed, TypeOK, Upgrade
      <3>2. QED
        BY <1>1, <1>4, <3>1 DEF StillV1
    <2>3. ASSUME NEW row \in up[c].todo, RejectItem(c, row)
          PROVE  StillV1(c, i)'
      <3>1. up'[c].failed = TRUE /\ up'[c].on = up[c].on
        BY <1>0, <2>3 DEF RejectItem, TypeOK, Upgrade
      <3>2. QED
        BY <1>1, <1>4, <3>1 DEF StillV1
    <2>4. ASSUME NEW row \in up[c].todo, UpgradeItem(c, row)
          PROVE  StillV1(c, i)'
      <3>1. /\ up'[c].failed = up[c].failed /\ up'[c].on = up[c].on
            /\ up'[c].todo = up[c].todo \ {row}
        BY <1>0, <2>4 DEF UpgradeItem, TypeOK, Upgrade
      <3>2. row \in Row
        BY <1>0 DEF Upgrade
      <3>3. /\ req[c]["upgrade"].at = "idle"
            /\ req'[c]["upgrade"].at = "sent"
            /\ req'[c]["upgrade"].row = [row EXCEPT !.rev = NextRevision(c, row)]
        BY <1>0, <2>4 DEF UpgradeItem, Becomes, TypeOK, Idle
      <3>4. req'[c]["upgrade"].row.id = row.id
        BY <3>2, <3>3 DEF Row
      <3>5. QED
        BY <1>1, <1>4, <3>1, <3>3, <3>4 DEF StillV1
    <2>5. QED
      BY <2>1, <2>2, <2>3, <2>4
  <1>5. QED
    BY <1>1, <1>3, <1>4, OneClient

LEMMA UpgradedLegacy ==
  ASSUME Gentle, TypeOK, ReqShape, CopyAll, LegacyInv, NEW c \in Client, ItemUpgraded(c)
  PROVE  LegacyInv'
  <1> DEFINE q == req[c]["upgrade"]
  <1>0. "upgrade" \in Slot /\ Idle.at = "idle"
    BY DEF Slot, Idle
  <1>1. /\ phase' = phase /\ toList' = toList /\ got' = got /\ up' = up
        /\ items' = items /\ marker' = marker
        /\ local' = [local EXCEPT ![c] = Upserted(c, Kept(q))]
        /\ q.at = "done" /\ Becomes(c, "upgrade", Idle)
    BY DEF ItemUpgraded, server, loading
  <1>2. q.op # "delete"
    BY <1>0, <1>1, RequestFacts
  <1>3. /\ \A d \in Client : d # c => req'[d]["upgrade"] = req[d]["upgrade"]
    BY <1>0, <1>1, BecomesType, IdleType
  <1>4. LegacyStays /\ \A d \in Client : d # c => Rests(d)
    BY <1>1, <1>3 DEF LegacyStays, Rests, TypeOK
  <1>5. local'[c] = Answered(c, q)
    BY <1>1, <1>2 DEF TypeOK, Answered
  <1>6. ASSUME NEW i \in Item, items[i] # None, items[i].rev = 0, StillV1(c, i)
        PROVE  StillV1(c, i)'
    <2>1. (\E r \in local[c] : r.id = i /\ r.rev = 0) =>
             \E r \in local'[c] : r.id = i /\ r.rev = 0
      BY <1>0, <1>1, <1>5, <1>6, AnswerKeeps
    <2>2. q.row.id # i
      BY <1>0, <1>1, <1>2, <1>6, NotLegacy
    <2>3. QED
      BY <1>1, <1>6, <2>1, <2>2 DEF StillV1
  <1>7. QED
    BY <1>1, <1>4, <1>6, OneClient

\* The marker is published by a pass that has dealt with every row it loaded
\* and failed at none, which leaves no v1 row to be listed.
LEMMA MarkLegacy ==
  ASSUME TypeOK, LegacyInv, NEW c \in Client, PublishV2Only(c) \/ MarkV2Only(c)
  PROVE  LegacyInv'
  <1>0. up[c] \in Upgrade /\ Idle.at = "idle"
    BY DEF TypeOK, Idle
  <1>1. /\ phase' = phase /\ toList' = toList /\ got' = got /\ local' = local
        /\ items' = items /\ req' = req
        /\ \A d \in Client : d # c => up'[d] = up[d]
    BY DEF PublishV2Only, MarkV2Only, server, loading, TypeOK
  <1>2. CASE PublishV2Only(c)
    <2>1. \A i \in Item : ~StillV1(c, i)
      BY <1>0, <1>2 DEF PublishV2Only, LegacyLeft, StillV1
    <2>2. QED
      BY <1>1, <2>1 DEF LegacyInv
  <1>3. CASE MarkV2Only(c)
    <2>1. marker' = marker /\ up[c].on = "sent" /\ up'[c].on = "over"
      BY <1>0, <1>3 DEF MarkV2Only, server, TypeOK, Upgrade
    <2>2. LegacyStays /\ \A d \in Client : d # c => Rests(d)
      BY <1>1 DEF LegacyStays, Rests
    <2>3. \A i \in Item : StillV1(c, i) => StillV1(c, i)'
      BY <1>1, <2>1 DEF StillV1
    <2>4. QED
      BY <2>1, <2>2, <2>3, OneClient
  <1>4. QED
    BY <1>2, <1>3

LEMMA MarkerStep ==
  ASSUME Gentle, TypeOK, ReqShape, CopyAll, ListInv, LegacyInv, [Next]_vars
  PROVE  ListInv' /\ LegacyInv'
  <1>1. CASE Next
    <2>1. ASSUME NEW c \in Client, Step(c)
          PROVE  LegacyInv'
      BY <2>1, LoadLegacy, UserLegacy, FinishLegacy, ServerLegacy, PassLegacy,
         UpgradedLegacy, MarkLegacy DEF Step
    <2>2. ASSUME NEW v \in Vault, CheckVault(v) \/ DeleteVault(v)
          PROVE  LegacyInv'
      BY <2>2 DEF Gentle, ListInv, CheckVault, DeleteVault
    <2>3. QED
      BY <1>1, <2>1, <2>2, ListStep DEF Next
  <1>2. CASE UNCHANGED vars
    BY <1>2 DEF vars, ListInv, LegacyInv, StillV1
  <1>3. QED
    BY <1>1, <1>2

LEMMA InitMarker == Init => ListInv /\ LegacyInv
  BY DEF Init, ListInv, LegacyInv, StillV1, Rested

\* Where loads succeed and items stay in their vault, the account is marked
\* v2-only only when no v1 row is left, tombstones included, whatever edits,
\* creations, locks and passes of other clients run beside the upgrade.
THEOREM MarkerIsTrue ==
  ASSUME ~LoadMayFail, "move" \notin Ops, "delete_vault" \notin Ops
  PROVE  Spec => []MarkerMeansV2
  <1>1. Gentle
    BY DEF Gentle
  <1>2. Spec => [](ListInv /\ LegacyInv)
    <2>1. TypeOK /\ ReqShape /\ CopyAll /\ ListInv /\ LegacyInv /\ [Next]_vars
             => (ListInv /\ LegacyInv)'
      BY <1>1, MarkerStep
    <2>2. QED
      BY <2>1, InitMarker, TypeCorrect, CopiesAlways, PTL DEF Spec
  <1>3. LegacyInv => MarkerMeansV2
    BY DEF LegacyInv, MarkerMeansV2
  <1>4. QED
    BY <1>2, <1>3, PTL

=============================================================================
