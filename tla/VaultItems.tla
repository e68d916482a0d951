------------------------------- MODULE VaultItems -------------------------------
(***************************************************************************)
(* The personal vaults of one account: the server's vault and item rows    *)
(* (routes/vault.rs, db/vaults.rs), and the web clients that load, edit,   *)
(* move, delete and re-encrypt items (vault-context, item-envelope,        *)
(* local-trust-state).                                                     *)
(*                                                                         *)
(* A client has one request of its user and one of its background upgrade  *)
(* in flight.  Sending a request, its statement on the server and the      *)
(* handling of its answer are separate actions; the request or the answer  *)
(* may be lost, and the page may be closed at any time.                    *)
(*                                                                         *)
(* Data abstraction.  What an item says is a number drawn from made, and a *)
(* blob is that number with the revision its envelope binds; revision 0 is *)
(* the v1 format, which binds none.                                        *)
(***************************************************************************)
EXTENDS Naturals, FiniteSets

CONSTANTS
    Client,      \* clients, each with its own local storage
    Vault,       \* ids of vaults
    Item,        \* ids of items
    Ops,         \* what users ask for, a subset of OpKind
    LoadMayFail, \* a request of the loading sequence may fail
    MaxText,     \* bound on the number of texts written
    MaxVersion,  \* bound on the version of a row that is moved
    None         \* no row, or no value

OpKind == {"save", "create", "move", "delete", "upgrade", "lock", "new_vault",
           "delete_vault"}

ASSUME VaultAssumption ==
    /\ None \notin Item /\ None \notin Vault
    /\ Ops \subseteq OpKind
    /\ LoadMayFail \in BOOLEAN
    /\ MaxText \in Nat /\ MaxVersion \in Nat

VARIABLES
    vaults,    \* the account's vaults
    items,     \* vault_items, None where there is no row
    marker,    \* users.vault_format_marker is set
    deleting,  \* vaults whose DELETE has evaluated its guards
    phase,     \* per client: locked, loading or loaded
    toList,    \* per client: vaults whose items are still to be fetched
    got,       \* per client: rows fetched so far while loading
    local,     \* per client: the rows of the vault store
    tabs,      \* per client: vaults it knows of
    store,     \* per client: the revision store is open
    seen,      \* per client: highest revision recorded, in local storage
    v2Only,    \* per client: v1 blobs are refused, in local storage
    up,        \* per client: the background upgrade
    req,       \* per client: requests in flight
    made,      \* number of texts written so far
    born,      \* ids of items and vaults ever used
    blind      \* items with an accepted write whose author had not read what
               \* the write replaced

server == <<vaults, items, marker, deleting>>
loading == <<phase, toList, got, tabs, store>>
trust  == <<seen, v2Only>>
vars   == <<vaults, items, marker, deleting, phase, toList, got, local, tabs,
            store, seen, v2Only, up, req, made, born, blind>>
ghosts == <<made, born, blind>>

Maximum(a, b) == IF a >= b THEN a ELSE b

-----------------------------------------------------------------------------
(* Rows, requests and envelopes                                            *)

\* A row as the server answers it and the vault store keeps it.
Row == [id : Item, vault : Vault, version : Nat, rev : Nat, text : Nat,
        gone : BOOLEAN]

Slot == {"user", "upgrade"}

Req == [op : OpKind \cup {"none"}, at : {"idle", "sent", "done", "refused"},
        row : Row \cup {None}, base : Nat, to : Vault \cup {None}]

Idle == [op |-> "none", at |-> "idle", row |-> None, base |-> 0, to |-> None]

Upgrade == [on : {"no", "run", "sent", "over"}, todo : SUBSET Row,
            failed : BOOLEAN]

Rested == [on |-> "no", todo |-> {}, failed |-> FALSE]

Live(i) == items[i] # None /\ ~items[i].gone

\* decryptVaultItem accepts the blob of a row.
Accepts(c, row) == (v2Only[c] => row.rev # 0) /\ row.rev >= seen[c][row.id]

\* Mutant: the revision of the blob being replaced is used again.
SameRevision(c, row) == Maximum(seen[c][row.id], row.rev)

\* The revision encryptVaultItem writes over a row it has decrypted.
NextRevision(c, row) == Maximum(seen[c][row.id], row.rev) + 1

\* RevisionStore.record.
Record(c, i, rev) == seen' = [seen EXCEPT ![c][i] = Maximum(@, rev)]

\* upsertItem of the vault store.
Upserted(c, row) == {r \in local[c] : r.id # row.id} \cup {row}

Becomes(c, s, q) == req' = [req EXCEPT ![c][s] = q]

Ready(c, s) == store[c] /\ phase[c] # "locked" /\ req[c][s] = Idle

-----------------------------------------------------------------------------
(* Unlocking and loading                                                   *)

\* The loading effect after an unlock: api.vault.list.
ListVaults(c) ==
    /\ phase[c] = "locked"
    /\ phase' = [phase EXCEPT ![c] = "loading"]
    /\ toList' = [toList EXCEPT ![c] = vaults]
    /\ tabs' = [tabs EXCEPT ![c] = vaults]
    /\ UNCHANGED <<server, got, local, store, trust, up, req, ghosts>>

\* api.vault.items of one vault, tombstones included.
ListItems(c, v) ==
    /\ phase[c] = "loading" /\ v \in toList[c]
    /\ v \in vaults
    /\ got' = [got EXCEPT ![c] = @ \cup
                 {items[i] : i \in {j \in Item : items[j] # None /\ items[j].vault = v}}]
    /\ toList' = [toList EXCEPT ![c] = @ \ {v}]
    /\ UNCHANGED <<server, phase, local, tabs, store, trust, up, req, ghosts>>

\* setItems once every vault has answered.
FinishLoad(c) ==
    /\ phase[c] = "loading" /\ toList[c] = {}
    /\ local' = [local EXCEPT ![c] = got[c]]
    /\ got' = [got EXCEPT ![c] = {}]
    /\ phase' = [phase EXCEPT ![c] = "loaded"]
    /\ UNCHANGED <<server, toList, tabs, store, trust, up, req, ghosts>>

\* A request fails, or a vault listed before is gone: the error is shown, and
\* isLoading is reset without any items.
LoadFails(c) ==
    /\ phase[c] = "loading"
    /\ LoadMayFail \/ ~(toList[c] \subseteq vaults)
    /\ got' = [got EXCEPT ![c] = {}]
    /\ toList' = [toList EXCEPT ![c] = {}]
    /\ phase' = [phase EXCEPT ![c] = "loaded"]
    /\ UNCHANGED <<server, local, tabs, store, trust, up, req, ghosts>>

\* openRevisionStore, beside the load: the marker is applied unless fetching
\* it fails.
OpenStore(c, fetched) ==
    /\ phase[c] # "locked" /\ ~store[c]
    /\ store' = [store EXCEPT ![c] = TRUE]
    /\ v2Only' = [v2Only EXCEPT ![c] = @ \/ (fetched /\ marker)]
    /\ UNCHANGED <<server, phase, toList, got, local, tabs, seen, up, req, ghosts>>

\* The decrypting effect reaches one row of the vault store.
Decrypt(c, row) ==
    /\ store[c] /\ row \in local[c] /\ ~row.gone
    /\ Accepts(c, row)
    /\ Record(c, row.id, row.rev)
    /\ UNCHANGED <<server, loading, local, v2Only, up, req, ghosts>>

\* lockVault, or the page is closed; what is in flight is not heard of again.
Lock(c) ==
    /\ "lock" \in Ops
    /\ phase[c] # "locked"
    /\ phase' = [phase EXCEPT ![c] = "locked"]
    /\ store' = [store EXCEPT ![c] = FALSE]
    /\ toList' = [toList EXCEPT ![c] = {}]
    /\ got' = [got EXCEPT ![c] = {}]
    /\ local' = [local EXCEPT ![c] = {}]
    /\ tabs' = [tabs EXCEPT ![c] = {}]
    /\ up' = [up EXCEPT ![c] = Rested]
    /\ req' = [req EXCEPT ![c] = [s \in Slot |-> Idle]]
    /\ UNCHANGED <<server, trust, ghosts>>

-----------------------------------------------------------------------------
(* What a user asks for                                                    *)

\* Mutant: the revision is recorded before the server has accepted it.
RecordOnSend(c, row) == Record(c, row.id, NextRevision(c, row))

\* Decrypting the row to be replaced records its revision.
RecordCurrent(c, row) == Record(c, row.id, row.rev)

\* saveItem on an open item: decrypt what is replaced, encrypt past it.
StartSave(c, row) ==
    /\ "save" \in Ops
    /\ Ready(c, "user") /\ row \in local[c] /\ ~row.gone
    /\ Accepts(c, row)
    /\ made < MaxText
    /\ made' = made + 1
    /\ RecordCurrent(c, row)
    /\ Becomes(c, "user", [op |-> "save", at |-> "sent", base |-> row.text,
                           row |-> [row EXCEPT !.rev = NextRevision(c, row),
                                               !.text = made + 1],
                           to |-> None])
    /\ UNCHANGED <<server, loading, local, v2Only, up, born, blind>>

\* saveItem on a new item, with an id of its own.
StartCreate(c, i, v) ==
    /\ "create" \in Ops
    /\ Ready(c, "user") /\ v \in tabs[c]
    /\ i \notin born
    /\ made < MaxText
    /\ made' = made + 1
    /\ born' = born \cup {i}
    /\ Becomes(c, "user", [op |-> "create", at |-> "sent", base |-> 0,
                           row |-> [id |-> i, vault |-> v, version |-> 1,
                                    rev |-> 1, text |-> made + 1,
                                    gone |-> FALSE],
                           to |-> None])
    /\ UNCHANGED <<server, loading, local, trust, up, blind>>

\* moveItem and deleteItem send the id alone.
StartMove(c, row, v) ==
    /\ "move" \in Ops
    /\ Ready(c, "user") /\ row \in local[c] /\ ~row.gone
    /\ v \in tabs[c] \ {row.vault}
    /\ items[row.id] # None => items[row.id].version < MaxVersion
    /\ Becomes(c, "user", [op |-> "move", at |-> "sent", base |-> row.text,
                           row |-> row, to |-> v])
    /\ UNCHANGED <<server, loading, local, trust, up, ghosts>>

StartDelete(c, row) ==
    /\ "delete" \in Ops
    /\ Ready(c, "user") /\ row \in local[c] /\ ~row.gone
    /\ Becomes(c, "user", [op |-> "delete", at |-> "sent", base |-> row.text,
                           row |-> row, to |-> None])
    /\ UNCHANGED <<server, loading, local, trust, up, ghosts>>

-----------------------------------------------------------------------------
(* The statements on the server                                            *)

\* Mutant: the last writer wins.
AnyVersion(row) == items[row.id] # None

\* WHERE id = $1 AND user_id = $2 AND version = $6.
SameVersion(row) == items[row.id] # None /\ items[row.id].version = row.version

\* The row an accepted request leaves behind; delete keeps the version.
Stored(q) ==
    LET old == items[q.row.id]
    IN  CASE q.op \in {"save", "upgrade"} ->
               [old EXCEPT !.version = @ + 1, !.rev = q.row.rev,
                           !.text = q.row.text]
          [] q.op = "create" -> q.row
          [] q.op = "move"   -> [old EXCEPT !.vault = q.to, !.version = @ + 1]
          [] q.op = "delete" -> [old EXCEPT !.gone = TRUE]

\* Whether the statement of a request affects a row.
Applies(q) ==
    CASE q.op \in {"save", "upgrade"} -> SameVersion(q.row)
      [] q.op = "create" -> items[q.row.id] = None /\ q.row.vault \in vaults
      [] q.op = "move"   -> items[q.row.id] # None /\ q.to \in vaults
      [] q.op = "delete" -> Live(q.row.id)

\* One statement, which affects its row ...
Serve(c, s) ==
    LET q == req[c][s]
        i == q.row.id
    IN  /\ q.at = "sent"
        /\ Applies(q)
        /\ items' = [items EXCEPT ![i] = Stored(q)]
        /\ blind' = IF q.op \in {"save", "upgrade"} /\ items[i].text # q.base
                    THEN blind \cup {i} ELSE blind
        /\ Becomes(c, s, [q EXCEPT !.at = "done"])
        /\ UNCHANGED <<vaults, marker, deleting, loading, local, trust, up, made,
                       born>>

\* ... or none: 409, 404, or the foreign key fails.
Refuse(c, s) ==
    LET q == req[c][s]
    IN  /\ q.at = "sent"
        /\ ~Applies(q)
        /\ Becomes(c, s, [q EXCEPT !.at = "refused"])
        /\ UNCHANGED <<server, loading, local, trust, up, ghosts>>

\* create_named_vault; the client that asked knows of it if the answer arrives.
CreateVault(c, v, heard) ==
    /\ "new_vault" \in Ops
    /\ phase[c] = "loaded" /\ v \notin born
    /\ vaults' = vaults \cup {v}
    /\ born' = born \cup {v}
    /\ tabs' = [tabs EXCEPT ![c] = IF heard THEN @ \cup {v} ELSE @]
    /\ UNCHANGED <<items, marker, deleting, phase, toList, got, local, store,
                   trust, up, req, made, blind>>

\* delete_vault_if_safe, first half: the guards read the statement's snapshot.
CheckVault(v) ==
    /\ "delete_vault" \in Ops
    /\ v \in vaults \ deleting
    /\ Cardinality(vaults) > 1
    /\ ~\E i \in Item : Live(i) /\ items[i].vault = v
    /\ deleting' = deleting \cup {v}
    /\ UNCHANGED <<vaults, items, marker, loading, local, trust, up, req, ghosts>>

\* ON DELETE CASCADE of vault_items.vault_id.
Cascade(v) ==
    [i \in Item |-> IF items[i] # None /\ items[i].vault = v THEN None ELSE items[i]]

\* Second half: the row is locked and deleted, its items with it.
DeleteVault(v) ==
    /\ v \in deleting
    /\ deleting' = deleting \ {v}
    /\ vaults' = vaults \ {v}
    /\ items' = Cascade(v)
    /\ UNCHANGED <<marker, loading, local, trust, up, req, ghosts>>

-----------------------------------------------------------------------------
(* Answers                                                                 *)

\* The copy the client keeps of its accepted write: saveItem and moveItem count
\* the version up themselves, upgrade takes the server's, which is the same.
Kept(q) ==
    CASE q.op \in {"save", "upgrade"} -> [q.row EXCEPT !.version = @ + 1]
      [] q.op = "create" -> q.row
      [] q.op = "move"   -> [q.row EXCEPT !.vault = q.to, !.version = @ + 1]

\* markDeleted.
Trashed(row, i) == IF row.id = i THEN [row EXCEPT !.gone = TRUE] ELSE row

Answered(c, q) ==
    IF q.op = "delete" THEN {Trashed(row, q.row.id) : row \in local[c]}
                       ELSE Upserted(c, Kept(q))

\* Only an accepted write is recorded.
Finish(c) ==
    LET q == req[c]["user"]
    IN  /\ q.at = "done"
        /\ local' = [local EXCEPT ![c] = Answered(c, q)]
        /\ IF q.op \in {"save", "create"} THEN Record(c, q.row.id, q.row.rev)
                                          ELSE UNCHANGED seen
        /\ Becomes(c, "user", Idle)
        /\ UNCHANGED <<server, loading, v2Only, up, ghosts>>

\* The answer is an error, or the request or its answer is lost.
Fail(c) ==
    /\ req[c]["user"] # Idle
    /\ Becomes(c, "user", Idle)
    /\ UNCHANGED <<server, loading, local, trust, up, ghosts>>

-----------------------------------------------------------------------------
(* The background upgrade of v1 items                                      *)

\* Once per unlock, with the rows the vault store holds when loading is over.
StartUpgrade(c) ==
    /\ "upgrade" \in Ops
    /\ phase[c] = "loaded" /\ store[c]
    /\ up[c].on = "no" /\ ~v2Only[c]
    /\ up' = [up EXCEPT ![c] = [on |-> "run", failed |-> FALSE,
                                todo |-> {r \in local[c] : r.rev = 0}]]
    /\ UNCHANGED <<server, loading, local, trust, req, ghosts>>

\* upgradeLegacyItems: the next v1 row, as it was when the pass began, is
\* decrypted and written again ...
UpgradeItem(c, row) ==
    /\ up[c].on = "run" /\ row \in up[c].todo
    /\ req[c]["upgrade"] = Idle
    /\ Accepts(c, row)
    /\ up' = [up EXCEPT ![c].todo = @ \ {row}]
    /\ Record(c, row.id, row.rev)
    /\ Becomes(c, "upgrade", [op |-> "upgrade", at |-> "sent", base |-> row.text,
                              row |-> [row EXCEPT !.rev = NextRevision(c, row)],
                              to |-> None])
    /\ UNCHANGED <<server, loading, local, v2Only, ghosts>>

\* ... unless it is behind what this device has recorded since.
RejectItem(c, row) ==
    /\ up[c].on = "run" /\ row \in up[c].todo
    /\ req[c]["upgrade"] = Idle
    /\ ~Accepts(c, row)
    /\ up' = [up EXCEPT ![c].todo = @ \ {row}, ![c].failed = TRUE]
    /\ UNCHANGED <<server, loading, local, trust, req, ghosts>>

\* write() returns: record and upsert ...
ItemUpgraded(c) ==
    LET q == req[c]["upgrade"]
    IN  /\ q.at = "done"
        /\ local' = [local EXCEPT ![c] = Upserted(c, Kept(q))]
        /\ Record(c, q.row.id, q.row.rev)
        /\ Becomes(c, "upgrade", Idle)
        /\ UNCHANGED <<server, loading, v2Only, up, ghosts>>

\* ... or throws, on a conflict or because nothing came back.
ItemFailed(c) ==
    /\ req[c]["upgrade"] # Idle
    /\ up' = [up EXCEPT ![c].failed = TRUE]
    /\ Becomes(c, "upgrade", Idle)
    /\ UNCHANGED <<server, loading, local, trust, ghosts>>

\* Mutant: rows that could not be upgraded are not counted.
NothingLeft(c) == FALSE

\* legacyLeft of upgradeLegacyItems is not 0.
LegacyLeft(c) == up[c].failed

\* publishV2Only: set_vault_format.
PublishV2Only(c) ==
    /\ up[c].on = "run" /\ up[c].todo = {} /\ ~LegacyLeft(c)
    /\ req[c]["upgrade"] = Idle
    /\ marker' = TRUE
    /\ up' = [up EXCEPT ![c].on = "sent"]
    /\ UNCHANGED <<vaults, items, deleting, loading, local, trust, req, ghosts>>

\* markV2Only once the server has answered.
MarkV2Only(c) ==
    /\ up[c].on = "sent"
    /\ v2Only' = [v2Only EXCEPT ![c] = TRUE]
    /\ up' = [up EXCEPT ![c].on = "over"]
    /\ UNCHANGED <<server, loading, local, seen, req, ghosts>>

-----------------------------------------------------------------------------

\* Items that date from before envelopes, or were written since.
Init ==
    /\ vaults \in (SUBSET Vault) \ {{}}
    /\ items \in [Item -> {None} \cup
          [id : Item, vault : vaults, version : {1}, rev : {0, 1}, text : {0},
           gone : BOOLEAN]]
    /\ \A i \in Item : items[i] # None => items[i].id = i
    /\ marker = FALSE /\ deleting = {}
    /\ phase = [c \in Client |-> "locked"]
    /\ toList = [c \in Client |-> {}] /\ got = toList /\ local = toList
    /\ tabs = toList
    /\ store = [c \in Client |-> FALSE] /\ v2Only = store
    /\ seen = [c \in Client |-> [i \in Item |-> 0]]
    /\ up = [c \in Client |-> Rested]
    /\ req = [c \in Client |-> [s \in Slot |-> Idle]]
    /\ made = 0 /\ blind = {}
    /\ born = vaults \cup {i \in Item : items[i] # None}

Step(c) ==
    \/ ListVaults(c) \/ FinishLoad(c) \/ LoadFails(c) \/ Lock(c)
    \/ \E v \in Vault : ListItems(c, v)
    \/ \E v \in Vault, heard \in BOOLEAN : CreateVault(c, v, heard)
    \/ \E fetched \in BOOLEAN : OpenStore(c, fetched)
    \/ \E row \in local[c] : \/ Decrypt(c, row) \/ StartSave(c, row)
                             \/ StartDelete(c, row)
                             \/ \E v \in Vault : StartMove(c, row, v)
    \/ \E i \in Item, v \in Vault : StartCreate(c, i, v)
    \/ \E s \in Slot : Serve(c, s) \/ Refuse(c, s)
    \/ Finish(c) \/ Fail(c)
    \/ StartUpgrade(c) \/ ItemUpgraded(c) \/ ItemFailed(c)
    \/ \E row \in up[c].todo : UpgradeItem(c, row) \/ RejectItem(c, row)
    \/ PublishV2Only(c) \/ MarkV2Only(c)

Next ==
    \/ \E c \in Client : Step(c)
    \/ \E v \in Vault : CheckVault(v) \/ DeleteVault(v)

Spec == Init /\ [][Next]_vars

-----------------------------------------------------------------------------
(* Properties                                                              *)

TypeOK ==
    /\ vaults \subseteq Vault /\ deleting \subseteq Vault
    /\ items \in [Item -> Row \cup {None}]
    /\ \A i \in Item : items[i] # None => items[i].id = i /\ items[i].vault \in vaults
    /\ marker \in BOOLEAN
    /\ phase \in [Client -> {"locked", "loading", "loaded"}]
    /\ toList \in [Client -> SUBSET Vault] /\ tabs \in [Client -> SUBSET Vault]
    /\ got \in [Client -> SUBSET Row] /\ local \in [Client -> SUBSET Row]
    /\ store \in [Client -> BOOLEAN] /\ v2Only \in [Client -> BOOLEAN]
    /\ seen \in [Client -> [Item -> Nat]]
    /\ up \in [Client -> Upgrade]
    /\ req \in [Client -> [Slot -> Req]]
    /\ made \in Nat
    /\ born \subseteq Item \cup Vault /\ blind \subseteq Item

\* Every accepted save or re-encryption replaced exactly the text its author
\* had decrypted: moves that count the version up on both sides, duplicated
\* listings and lost answers never make an old copy pass for the current one.
NoLostUpdate == blind = {}

\* No client takes what the server holds for a rollback: whatever a client has
\* recorded, after lost answers and conflicts too, the current revision of the
\* item is at least that.
NoFalseRollback ==
    \A c \in Client, i \in Item :
        items[i] # None => items[i].rev >= seen[c][i]

\* A revision number stands for one text: a copy with the revision of the
\* current row has its text, so a text can never be replayed under a number
\* that the rollback check lets pass.
RevisionNamesText ==
    \A c \in Client : \A r \in local[c] :
        items[r.id] # None /\ items[r.id].rev = r.rev => items[r.id].text = r.text

\* vault-context.tsx: "Only when no v1 blob of any kind is left is the account
\* marked v2-only".
MarkerMeansV2 ==
    marker => \A i \in Item : items[i] # None => items[i].rev # 0

-----------------------------------------------------------------------------
(* The inductive invariants behind these properties.                       *)

Held(c) == got[c] \cup local[c] \cup up[c].todo

Writes == {"save", "upgrade"}

\* What a request carries, and which slot it may be in.
Shaped(s, q) ==
    \/ q = Idle
    \/ /\ q.at # "idle"
       /\ q.row \in Row
       /\ q.op \in IF s = "upgrade" THEN {"upgrade"}
                  ELSE {"save", "create", "move", "delete"}
       /\ q.op = "move" => "move" \in Ops /\ q.to \in Vault
       /\ q.op \in Writes \cup {"create"} => q.row.rev # 0

ReqShape == \A c \in Client, s \in Slot : Shaped(s, req[c][s])

\* A copy against the row it was made of: never ahead of it, and when version
\* or revision are the row's, so is the text.
Behind(copy, row) ==
    /\ copy.version <= row.version
    /\ copy.rev <= row.rev
    /\ copy.version = row.version => copy.rev = row.rev
    /\ copy.rev = row.rev => copy.text = row.text

Matches(copy) == items[copy.id] # None => Behind(copy, items[copy.id])

\* A write that is under way: if its version is still the row's, it replaces
\* what its author read, at a higher revision.
Replaces(q) ==
    items[q.row.id] # None =>
        /\ q.row.version <= items[q.row.id].version
        /\ q.row.version = items[q.row.id].version =>
              /\ items[q.row.id].text = q.base
              /\ items[q.row.id].rev < q.row.rev

\* The request that creates an item is on its way.
CreateSent(c, i) ==
    LET q == req[c]["user"]
    IN  q.at = "sent" /\ q.op = "create" /\ q.row.id = i

\* Clients can have heard of an item: its id is taken, and it is not still
\* being created.
Known(i) == i \in born /\ \A c \in Client : ~CreateSent(c, i)

ItemInv == \A i \in Item : items[i] # None => Known(i)

\* Every copy a client works with is of a known item and not ahead of it.
HeldInv == \A c \in Client : \A r \in Held(c) : Known(r.id) /\ Matches(r)

\* What a request relies on until its answer has been dealt with.
Holds(q) ==
    /\ q.at = "sent" /\ q.op \in Writes => Replaces(q)
    /\ q.at = "sent" /\ q.op = "move" => Matches(q.row)
    /\ q.at = "done" /\ q.op # "delete" => Matches(Kept(q))

\* The item of a request is taken, and only by it while it is being created.
Owns(c, s) ==
    req[c][s].at # "idle" =>
        /\ req[c][s].row.id \in born
        /\ \A d \in Client : CreateSent(d, req[c][s].row.id) => d = c /\ s = "user"

ReqInv == \A c \in Client, s \in Slot : Holds(req[c][s]) /\ Owns(c, s)

\* Only revisions of known items are recorded.
SeenInv == \A c \in Client, i \in Item : Known(i) \/ seen[c][i] = 0

\* While no vault is deleted, the vaults a client has yet to list exist.
ListInv == deleting = {} /\ \A c \in Client : toList[c] \subseteq vaults

\* A client that has begun to load a v1 row still knows it as v1, until its
\* pass has dealt with it.
StillV1(c, i) ==
    /\ phase[c] = "loading" =>
          \/ items[i].vault \in toList[c]
          \/ \E r \in got[c] : r.id = i /\ r.rev = 0
    /\ phase[c] = "loaded" /\ up[c].on = "no" =>
          \E r \in local[c] : r.id = i /\ r.rev = 0
    /\ up[c].on = "run" =>
          \/ up[c].failed
          \/ \E r \in up[c].todo : r.id = i
          \/ /\ req[c]["upgrade"].at # "idle"
             /\ req[c]["upgrade"].row.id = i

\* Where v1 rows are not moved and every load succeeds, no v1 row is left
\* when the marker is set, and every client accounts for those there are.
LegacyInv ==
    \A i \in Item : items[i] # None /\ items[i].rev = 0 =>
        ~marker /\ \A c \in Client : StillV1(c, i)

=============================================================================
