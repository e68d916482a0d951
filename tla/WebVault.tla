-------------------------------- MODULE WebVault --------------------------------
(***************************************************************************)
(* The vault view of the web client: one browser tab with its store        *)
(* (ui/store/vault-store.ts), the provider that loads, decrypts and edits  *)
(* (vault/vault-context.tsx) and the panes, shortcuts and palette that     *)
(* drive it, from one unlock to the next, possibly by another account.     *)
(*                                                                         *)
(* An action is what runs between two awaits: an event handler up to its   *)
(* request, the server's part, and the answer.  Requests are answered in   *)
(* any order, also after the tab was locked and unlocked again: the store  *)
(* outlives the provider.                                                  *)
(*                                                                         *)
(* Data abstraction.  A row is its version, its text and whether it is in  *)
(* the trash; a text is told by the version it was written at, and the     *)
(* revision inside it grows with it.  VaultItems models the envelopes, the *)
(* several vaults of an account and the v1 upgrade; filters, sorting and   *)
(* layout choose what the user sees of the list and are left out.          *)
(***************************************************************************)
EXTENDS Naturals, FiniteSets

CONSTANTS
    Account,     \* accounts that use this browser
    Item,        \* item ids
    Owner,       \* per item: its account
    Stored,      \* items on the server at first
    MaxVersion,  \* bound on the versions of an item
    MaxEvents,   \* bound on the logins and the changes asked for together
    None

ASSUME WebAssumption ==
    /\ Owner \in [Item -> Account] /\ Stored \subseteq Item
    /\ MaxVersion \in Nat \ {0} /\ MaxEvents \in Nat
    /\ None \notin Account \cup Item

VARIABLES
    server,   \* per item: its row, if any
    keys,     \* the account whose keys are in the store
    items,    \* per item: the row in the store, if any
    loading,  \* the store's isLoading
    mount,    \* number of logins; the last one mounted the provider
    ready,    \* the provider's revision store is open
    seen,     \* per item: the newest text this browser has accepted
    loads,    \* loads in flight
    jobs,     \* decryptions in flight
    shown,    \* per item: the text in the provider's decrypted map, 0 if none
    ui,       \* selection, editor and dialog
    calls,    \* changes in flight
    sent,     \* number of changes asked for
    lost      \* a save replaced a text its author had not read

vars   == <<server, keys, items, loading, mount, ready, seen, loads, jobs,
            shown, ui, calls, sent, lost>>

-----------------------------------------------------------------------------
(* State                                                                   *)

Row == [version : 1..MaxVersion, text : 1..MaxVersion, deleted : BOOLEAN]

ASSUME NoneIsNoRow == None \notin Row

Fresh == [version |-> 1, text |-> 1, deleted |-> FALSE]

Saved(row) == [row EXCEPT !.version = @ + 1, !.text = row.version + 1]

Draft == [item : Item \cup {None}, base : 0..MaxVersion, behind : BOOLEAN]

NoUi == [selected |-> None, creating |-> FALSE, editing |-> FALSE,
         draft |-> None, saving |-> FALSE]

Call == [id : 1..MaxEvents, mount : 1..MaxEvents, item : Item,
         kind : {"create", "update", "delete", "move"}, row : Row,
         base : 0..MaxVersion, behind : BOOLEAN,
         at : {"sent", "done", "failed"}]

TypeOK ==
    /\ server \in [Item -> Row \cup {None}]
    /\ items \in [Item -> Row \cup {None}]
    /\ keys \in Account \cup {None}
    /\ loading \in BOOLEAN /\ ready \in BOOLEAN /\ mount \in 0..MaxEvents
    /\ seen \in [Item -> 0..MaxVersion] /\ shown \in [Item -> 0..MaxVersion]
    /\ \A l \in loads : l.mount \in 1..MaxEvents /\ l.acct \in Account
    /\ \A j \in jobs : j.acct \in Account /\ j.live \in BOOLEAN
    /\ \A j, k \in jobs : j.live /\ k.live => j = k
    /\ ui.selected \in Item \cup {None} /\ ui.draft \in Draft \cup {None}
    /\ ui.creating \in BOOLEAN /\ ui.editing \in BOOLEAN
    /\ ~(ui.creating /\ ui.editing)
    /\ keys = None => ui = NoUi /\ ~ready /\ \A j \in jobs : ~j.live
    /\ calls \subseteq Call /\ sent \in 0..MaxEvents

Init ==
    /\ server = [i \in Item |-> IF i \in Stored THEN Fresh ELSE None]
    /\ keys = None /\ items = [i \in Item |-> None]
    /\ loading = FALSE /\ mount = 0 /\ ready = FALSE
    /\ seen = [i \in Item |-> 0] /\ shown = [i \in Item |-> 0]
    /\ loads = {} /\ jobs = {} /\ calls = {} /\ sent = 0
    /\ ui = NoUi
    /\ lost = FALSE

Active(rows, i) == i # None /\ rows[i] # None /\ ~rows[i].deleted

\* selectedEntry: the row from the store, the plaintext from the map.
Entry(u, rows, texts) == Active(rows, u.selected) /\ texts[u.selected] # 0

\* What stays on the screen: an editor keeps its draft while it is mounted for
\* the same item.
Rendered(u, rows, texts) ==
    LET entry == ~u.creating /\ Entry(u, rows, texts)
        kept  == u.draft # None
                 /\ u.draft.item = IF u.creating THEN None ELSE u.selected
        older == [u.draft EXCEPT
                    !.behind = @ \/ u.draft.base # rows[u.selected].text]
    IN [u EXCEPT
          !.draft = IF kept /\ u.creating THEN u.draft
                    ELSE IF kept /\ u.editing /\ entry THEN older
                    ELSE IF u.creating
                    THEN [item |-> None, base |-> 0, behind |-> FALSE]
                    ELSE IF u.editing /\ entry
                    THEN [item |-> u.selected, base |-> texts[u.selected],
                          behind |-> texts[u.selected] # rows[u.selected].text]
                    ELSE None]

\* Mutant: a decryption that was superseded still sets the map.
NeverCancelled(js) == js

\* The effect's cleanup runs before the effect does again.
Cancelled(js) == {[j EXCEPT !.live = FALSE] : j \in js}

\* The list has changed: the effect decrypts it anew.
Restarted(acct, rows, opened) ==
    Cancelled(jobs) \cup
       IF acct # None /\ opened
       THEN {[acct |-> acct, items |-> rows, live |-> TRUE]} ELSE {}

-----------------------------------------------------------------------------
(* Unlocking, loading and locking                                          *)

\* setSession, and the vault page mounts; the store may hold rows that a late
\* answer has left there.
Login(a) ==
    /\ keys = None /\ mount + sent < MaxEvents
    /\ keys' = a /\ mount' = mount + 1
    /\ loading' = TRUE
    /\ loads' = loads \cup {[mount |-> mount + 1, acct |-> a, got |-> None]}
    /\ UNCHANGED <<server, items, ready, seen, jobs, shown, ui, calls, sent,
                   lost>>

OpenRevisionStore ==
    /\ keys # None /\ ~ready
    /\ ready' = TRUE
    /\ jobs' = Restarted(keys, items, TRUE)
    /\ UNCHANGED <<server, keys, items, loading, mount, seen, loads, shown, ui,
                   calls, sent, lost>>

\* The server reads the rows of the session's account.
LoadRead(l) ==
    /\ l.got = None
    /\ loads' = (loads \ {l}) \cup
          {[l EXCEPT !.got = [i \in Item |->
              IF Owner[i] = l.acct THEN server[i] ELSE None]]}
    /\ UNCHANGED <<server, keys, items, loading, mount, ready, seen, jobs,
                   shown, ui, calls, sent, lost>>

\* setItems, whoever is unlocked by now.
LoadAnswered(l) ==
    /\ l.got # None
    /\ loads' = loads \ {l}
    /\ items' = l.got /\ loading' = FALSE
    /\ jobs' = Restarted(keys, l.got, ready)
    /\ ui' = Rendered(ui, l.got, shown)
    /\ UNCHANGED <<server, keys, mount, ready, seen, shown, calls, sent, lost>>

\* Mutant: only a successful load ends the loading state.
StaysLoading == TRUE

\* finally { setLoading(false) }
DoneLoading == FALSE

LoadFailed(l) ==
    /\ loads' = loads \ {l}
    /\ loading' = DoneLoading
    /\ UNCHANGED <<server, keys, items, mount, ready, seen, jobs, shown, ui,
                   calls, sent, lost>>

\* An item opens with the keys of its account, and not if it is older than what
\* this browser has accepted.
Opens(j, i) ==
    /\ Active(j.items, i) /\ Owner[i] = j.acct
    /\ j.items[i].text >= seen[i]

\* The revisions are recorded even by a decryption that was cancelled.
Decrypted(j) ==
    LET texts == [i \in Item |-> IF Opens(j, i) THEN j.items[i].text ELSE 0]
    IN /\ jobs' = jobs \ {j}
       /\ seen' = [i \in Item |-> IF Opens(j, i) THEN texts[i] ELSE seen[i]]
       /\ shown' = IF j.live THEN texts ELSE shown
       /\ ui' = IF j.live THEN Rendered(ui, items, texts) ELSE ui
       /\ UNCHANGED <<server, keys, items, loading, mount, ready, loads, calls,
                      sent, lost>>

\* Lock button, shortcut, palette or 15 idle minutes: the store drops the keys
\* and the rows, and the provider goes with its page.
Lock ==
    /\ keys # None
    /\ keys' = None /\ items' = [i \in Item |-> None]
    /\ ready' = FALSE /\ shown' = [i \in Item |-> 0] /\ ui' = NoUi
    /\ jobs' = {[j EXCEPT !.live = FALSE] : j \in jobs}
    /\ UNCHANGED <<server, loading, mount, seen, loads, calls, sent, lost>>

-----------------------------------------------------------------------------
(* Selecting and editing                                                   *)

Shows(u) ==
    /\ keys # None
    /\ ui' = Rendered(u, items, shown)
    /\ UNCHANGED <<server, keys, items, loading, mount, ready, seen, loads,
                   jobs, shown, calls, sent, lost>>

\* openItem and moveCursor: a click, the arrow keys, or the palette.
OpenItem(i) ==
    /\ Active(items, i)
    /\ Shows([ui EXCEPT !.selected = i, !.creating = FALSE, !.editing = FALSE])

StartCreate ==
    /\ ~ui.creating
    /\ Shows([ui EXCEPT !.selected = None, !.creating = TRUE, !.editing = FALSE])

StartEdit ==
    /\ Entry(ui, items, shown) /\ ~ui.creating /\ ~ui.editing
    /\ Shows([ui EXCEPT !.editing = TRUE])

\* cancelEdit, closeDetail
CancelEdit ==
    /\ ui.creating \/ ui.editing
    /\ Shows([ui EXCEPT !.creating = FALSE, !.editing = FALSE])

Deselect ==
    /\ ui.selected # None
    /\ Shows([ui EXCEPT !.selected = None, !.creating = FALSE,
                        !.editing = FALSE])

-----------------------------------------------------------------------------
(* Changes                                                                 *)

Asks(kind, i, row, base, behind, u) ==
    /\ keys # None /\ mount + sent < MaxEvents
    /\ sent' = sent + 1
    /\ calls' = calls \cup {[id |-> sent + 1, mount |-> mount, item |-> i,
                            kind |-> kind, row |-> row, base |-> base,
                            behind |-> behind, at |-> "sent"]}
    /\ ui' = u
    /\ UNCHANGED <<server, keys, items, loading, mount, ready, seen, loads,
                   jobs, shown, lost>>

SaveNew(i) ==
    /\ ui.creating /\ ui.draft # None /\ ~ui.saving /\ ready
    /\ Owner[i] = keys /\ server[i] = None
    /\ \A c \in calls : c.kind # "create"
    /\ Asks("create", i, Fresh, 0, FALSE, [ui EXCEPT !.saving = TRUE])

\* A save, a move and a delete carry the row of the list as it is now.
SaveEdited ==
    LET i == ui.selected IN
    /\ ui.editing /\ ui.draft # None /\ ~ui.saving /\ ready
    /\ items[i].text >= seen[i]
    /\ Asks("update", i, items[i], ui.draft.base, ui.draft.behind,
            [ui EXCEPT !.saving = TRUE])

\* The dialog of the read view follows the selection: it names and deletes the
\* item that is selected when it is confirmed.
ConfirmDelete ==
    /\ Entry(ui, items, shown) /\ ~ui.creating /\ ~ui.editing
    /\ Asks("delete", ui.selected, items[ui.selected], 0, FALSE, ui)

MoveItem ==
    /\ Entry(ui, items, shown) /\ ~ui.creating /\ ~ui.editing
    /\ Asks("move", ui.selected, items[ui.selected], 0, FALSE, ui)

\* update_item: the row's version is the one the save carries; a row in the
\* trash is saved like any other.
SameVersion(c) == server[c.item] # None /\ server[c.item].version = c.row.version

\* The row after the server has carried out a change, None if it refuses.
Applied(c) ==
    LET row == server[c.item] IN
    CASE c.kind = "create" -> IF row = None THEN Fresh ELSE None
      [] c.kind = "update" -> IF SameVersion(c) THEN Saved(row) ELSE None
      [] c.kind = "delete" -> IF Active(server, c.item)
                              THEN [row EXCEPT !.deleted = TRUE] ELSE None
      [] c.kind = "move"   -> IF row # None THEN [row EXCEPT !.version = @ + 1]
                              ELSE None

Becomes(c, at) == calls' = (calls \ {c}) \cup {[c EXCEPT !.at = at]}

\* The answer may be lost although the change was carried out.
Serve(c) ==
    /\ c.at = "sent" /\ Applied(c) # None
    /\ c.kind \in {"update", "move"} => server[c.item].version < MaxVersion
    /\ server' = [server EXCEPT ![c.item] = Applied(c)]
    /\ Becomes(c, "done") \/ Becomes(c, "failed")
    /\ lost' = (lost \/ /\ c.kind = "update" /\ ~c.behind
                        /\ server[c.item].text # c.base)
    /\ UNCHANGED <<keys, items, loading, mount, ready, seen, loads, jobs,
                   shown, ui, sent>>

\* The request is lost, or refused.
Refuse(c) ==
    /\ c.at = "sent" /\ Becomes(c, "failed")
    /\ UNCHANGED <<server, keys, items, loading, mount, ready, seen, loads,
                   jobs, shown, ui, sent, lost>>

\* Mutant: moveItem takes the new version from the server's answer.
VersionFromAnswer(c) ==
    CASE c.kind = "create" -> Fresh
      [] c.kind = "update" -> Saved(c.row)
      [] c.kind = "move"   -> [c.row EXCEPT !.version = server[c.item].version]
      [] c.kind = "delete" -> IF items[c.item] = None THEN None
                              ELSE [items[c.item] EXCEPT !.deleted = TRUE]

\* upsertItem puts the row back as it was when the change was asked for, with
\* the change; markDeleted marks the row that is there.
Upserted(c) ==
    CASE c.kind = "create" -> Fresh
      [] c.kind = "update" -> Saved(c.row)
      [] c.kind = "move"   -> [c.row EXCEPT !.version = @ + 1]
      [] c.kind = "delete" -> IF items[c.item] = None THEN None
                              ELSE [items[c.item] EXCEPT !.deleted = TRUE]

\* A created item is selected; an editor that is open by then is left, whatever
\* it edits; a delete or a move deselects.
AfterSuccess(c, u) ==
    [u EXCEPT !.creating = FALSE, !.editing = FALSE,
              !.saving = IF c.kind \in {"create", "update"} THEN FALSE ELSE @,
              !.selected = IF c.kind = "create" THEN c.item
                           ELSE IF c.kind = "update" THEN @ ELSE None]

AfterFailure(c, u) ==
    [u EXCEPT !.saving = IF c.kind \in {"create", "update"} THEN FALSE ELSE @]

Mounted(c) == keys # None /\ c.mount = mount

CallAnswered(c) ==
    LET rows == [items EXCEPT ![c.item] = Upserted(c)]
    IN /\ c.at = "done"
       /\ calls' = calls \ {c}
       /\ items' = rows
       /\ seen' = IF c.kind \in {"create", "update"}
                     /\ seen[c.item] < rows[c.item].text
                  THEN [seen EXCEPT ![c.item] = rows[c.item].text] ELSE seen
       /\ jobs' = Restarted(keys, rows, ready)
       /\ ui' = IF keys = None THEN ui
                ELSE Rendered(IF Mounted(c) THEN AfterSuccess(c, ui) ELSE ui,
                              rows, shown)
       /\ UNCHANGED <<server, keys, loading, mount, ready, loads, shown, sent,
                      lost>>

CallFailed(c) ==
    /\ c.at = "failed"
    /\ calls' = calls \ {c}
    /\ ui' = IF Mounted(c) THEN Rendered(AfterFailure(c, ui), items, shown)
                           ELSE ui
    /\ UNCHANGED <<server, keys, items, loading, mount, ready, seen, loads,
                   jobs, shown, sent, lost>>

\* Another device saves the item, also one that has been put in the trash since
\* it was loaded there; the bound leaves room for two changes after it.
OtherSaves(i) ==
    /\ server[i] # None /\ server[i].version + 2 < MaxVersion
    /\ server' = [server EXCEPT ![i] = Saved(@)]
    /\ UNCHANGED <<keys, items, loading, mount, ready, seen, loads, jobs, shown,
                   ui, calls, sent, lost>>

Next ==
    \/ \E a \in Account : Login(a)
    \/ OpenRevisionStore \/ Lock
    \/ \E l \in loads : LoadRead(l) \/ LoadAnswered(l) \/ LoadFailed(l)
    \/ \E j \in jobs : Decrypted(j)
    \/ \E i \in Item : OpenItem(i) \/ SaveNew(i) \/ OtherSaves(i)
    \/ StartCreate \/ StartEdit \/ CancelEdit \/ Deselect
    \/ SaveEdited \/ ConfirmDelete \/ MoveItem
    \/ \E c \in calls : Serve(c) \/ Refuse(c) \/ CallAnswered(c) \/ CallFailed(c)

Spec == Init /\ [][Next]_vars

\* Every request is answered or fails, and the browser runs what is due.
Fairness ==
    /\ WF_vars(OpenRevisionStore)
    /\ WF_vars(\E l \in loads : LoadAnswered(l) \/ LoadFailed(l))
    /\ WF_vars(\E j \in jobs : Decrypted(j))
    /\ WF_vars(\E c \in calls : Refuse(c) \/ CallAnswered(c) \/ CallFailed(c))

FairSpec == Spec /\ Fairness

-----------------------------------------------------------------------------
(* Properties                                                              *)

\* saveItem sends the version of the row in the list at that moment with a text
\* that was edited since the editor opened, and the rows of the list are in part
\* made up: saveItem and moveItem count the version of their own copy up, while
\* other devices save and answers are lost or come late.  None of these rows
\* ever names a version under which the server has a text newer than the row's:
\* a save is accepted only over the text its editor started from, unless the row
\* in the list had changed under the editor, or before it opened on a plaintext
\* that had not caught up.
NoStaleSave == ~lost

\* Once nothing is being decrypted, the plaintext on the screen is that of the
\* row that a save would replace; a row stays hidden only if it is another
\* account's, in the trash, or older than one this browser has accepted.
ViewMatchesRows ==
    ready /\ (\A j \in jobs : ~j.live) =>
       \A i \in Item :
          \/ shown[i] # 0 /\ Active(items, i) /\ Owner[i] = keys
             /\ shown[i] = items[i].text
          \/ shown[i] = 0 /\ (\/ ~Active(items, i)
                              \/ Owner[i] # keys
                              \/ items[i].text < seen[i])

\* A vault that is opened settles, unless it is locked first: the list is
\* loaded or the load has failed, the plaintexts have caught up and no save is
\* left pending.
VaultSettles ==
    (keys # None) ~> \/ keys = None
                     \/ /\ ready /\ ~loading /\ ~ui.saving
                        /\ \A j \in jobs : ~j.live

=============================================================================
