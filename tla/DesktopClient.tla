------------------------------ MODULE DesktopClient ------------------------------
(***************************************************************************)
(* The desktop application (apps/desktop/src/App.tsx) over the store it    *)
(* shares with the web client, its local database and the server of        *)
(* AccountServer: sign-in, the sync that follows it, decryption, the item  *)
(* dialog, delete and lock.                                                *)
(*                                                                         *)
(* An action is what runs between two awaits.  Nothing is cancelled when   *)
(* the vault is locked: an answer that comes later still writes the store. *)
(*                                                                         *)
(* Unlocking with Touch ID and the agent that serves SSH keys are left     *)
(* out: exporting the vault keys always fails (they are not extractable),  *)
(* so the Keychain never holds a device key, and the agent refuses every   *)
(* non-empty list, whose fields it names differently.                      *)
(***************************************************************************)
EXTENDS AccountServer

VARIABLES
    screen,      \* the App's screen
    unlocked,    \* the store holds the vault keys
    token,       \* the store's session token, which a lock keeps
    store,       \* per item: the row in the store, if any
    loading,     \* the store's isLoading
    local,       \* per item: the row in the local database, if any
    logins,      \* number of sign-ins; the last one names the vault screen
    publishing,  \* sign-ins whose onSuccess is still to come
    writes,      \* synced rows on their way to the local database
    opened,      \* the vault screen's revision store is open
    recorded,    \* per item: the newest text this machine has accepted
    jobs,        \* decryptions in flight
    shown,       \* per item: the decrypted text, if any
    modal,       \* the item dialog
    saving       \* a save of the dialog is in flight

desktopVars == <<screen, unlocked, token, store, loading, local, logins,
                 publishing, writes, opened, recorded, jobs, shown, modal,
                 saving>>
vaultScreen == <<opened, recorded, jobs, shown, modal, saving>>

-----------------------------------------------------------------------------
(* State                                                                   *)

\* create: no row; edit: the row and the text that were on the card clicked.
Modal == [item : Item \cup {None}, row : Row \cup {None},
          text : Nat \cup {None}]

DesktopTypeOK ==
    /\ screen \in {"select", "password", "vault"}
    /\ unlocked \in BOOLEAN /\ loading \in BOOLEAN /\ opened \in BOOLEAN
    /\ token \in Session \cup {None}
    /\ store \in [Item -> Row \cup {None}] /\ local \in [Item -> Row \cup {None}]
    /\ logins \in Nat /\ publishing \subseteq Nat
    /\ recorded \in [Item -> Nat]
    /\ modal \in Modal \cup {None}
    /\ ~unlocked => ~opened /\ jobs = {} /\ modal = None /\ ~saving

\* Just started, or signed in and synced before.
DesktopInit ==
    /\ \/ /\ screen = "select" /\ unlocked = FALSE /\ token = None
          /\ store = NoRow(Item) /\ opened = FALSE /\ shown = NoRow(Item)
          /\ recorded = [i \in Item |-> 0]
       \/ /\ account = "real" /\ budget["desktop"] > 0
          /\ screen = "vault" /\ unlocked = TRUE /\ token = DesktopSession
          /\ store = rows /\ opened = TRUE
          /\ shown = [i \in Item |-> IF rows[i] = None THEN None ELSE rows[i].text]
          /\ recorded = [i \in Item |-> IF rows[i] = None THEN 0 ELSE rows[i].version]
    /\ local = store /\ loading = FALSE /\ logins = 0 /\ publishing = {}
    /\ writes = {} /\ jobs = {} /\ modal = None /\ saving = FALSE

\* VaultScreen is rendered only with the keys; otherwise the vault's screen
\* falls through to the mode selection.
VaultRendered == screen = "vault" /\ unlocked

\* The effect over [items, keys, revisions]: it decrypts the list anew, and the
\* one it started before goes on.
Redecrypt(table, open) ==
    IF VaultRendered /\ open THEN jobs \cup {table} ELSE jobs

\* setItems and upsertItem, whoever they come from.
ToStore(table) ==
    /\ store' = table
    /\ jobs' = IF table = store THEN jobs ELSE Redecrypt(table, opened)

DesktopCalls(kind) == {c \in calls : c.from = "desktop" /\ c.kind = kind}

-----------------------------------------------------------------------------
(* Signing in, syncing and locking                                         *)

\* "Sign in with master password", and the form.
SignIn ==
    /\ Act("desktop") /\ ~VaultRendered
    /\ ~(screen = "password" /\ DesktopCalls("login") # {})
    /\ screen' = "password" /\ logins' = logins + 1
    /\ Send(Call("desktop", logins + 1, "login", None, [code |-> events + 1]))
    /\ UNCHANGED <<unlocked, token, store, loading, local, publishing, writes,
                   vaultScreen>>

\* setSession; the effect after every render moves to the vault and syncs,
\* unless the screen is already the vault's.
SignedIn(c) ==
    LET syncs == screen # "vault"
        sync  == Call("desktop", c.n, "items", c.answer.session, None)
    IN /\ Answered(c) /\ c.kind = "login" /\ c.from = "desktop"
       /\ unlocked' = TRUE /\ token' = c.answer.session
       /\ screen' = "vault"
       /\ loading' = (loading \/ syncs)
       /\ publishing' = publishing \cup {c.n}
       /\ calls' = (calls \ {c}) \cup IF syncs THEN {sync} ELSE {}
       /\ UNCHANGED <<store, local, logins, writes, vaultScreen, events, budget>>

\* performLogin returns once the identity key is published; onSuccess then
\* fails to export the keys and sets the screen, whatever it is by now.
OnSuccess(n) ==
    /\ publishing' = publishing \ {n}
    /\ screen' = "vault"
    /\ UNCHANGED <<unlocked, token, store, loading, local, logins, writes,
                   vaultScreen, calls, events, budget>>

SyncAnswered(c) ==
    /\ Answered(c) /\ c.kind = "items"
    /\ ToStore(c.answer.rows)
    /\ writes' = writes \cup {c.answer.rows}
    /\ Taken(c)
    /\ UNCHANGED <<screen, unlocked, token, loading, local, logins, publishing,
                   opened, recorded, shown, modal, saving, events, budget>>

\* upsertLocalItem for every row, then setLoading(false).
SyncWritten(table) ==
    /\ local' = [i \in Item |-> IF table[i] = None THEN local[i] ELSE table[i]]
    /\ loading' = FALSE /\ writes' = writes \ {table}
    /\ UNCHANGED <<screen, unlocked, token, store, logins, publishing,
                   vaultScreen, calls, events, budget>>

\* A row of the local database has the column deleted_at and no deletedAt, and
\* what is undefined is not null: the lists pass it over.
Undeclared(row) == IF row = None THEN None ELSE [row EXCEPT !.deleted = TRUE]

\* Mutant: the spinner stays when the server cannot be reached.
LoadingAfterFailure == loading

DoneLoading == FALSE

\* loadLocalItems: the local rows, if there are any and they can be read.
FromLocal(table) ==
    \/ ToStore(IF table = NoRow(Item) THEN store
               ELSE [i \in Item |-> Undeclared(table[i])])
    \/ ToStore(store)

\* The local database refuses a row: the ones before it are written, and the
\* list is taken from there as if the server had not answered.
SyncUnwritten(table, done) ==
    /\ \A i \in done : table[i] # None
    /\ \E i \in Item \ done : table[i] # None
    /\ local' = [i \in Item |-> IF i \in done THEN table[i] ELSE local[i]]
    /\ FromLocal(local')
    /\ loading' = DoneLoading /\ writes' = writes \ {table}
    /\ UNCHANGED <<screen, unlocked, token, logins, publishing, opened,
                   recorded, shown, modal, saving, calls, events, budget>>

\* Offline.
SyncFailed(c) ==
    /\ Failed(c) /\ c.kind = "items"
    /\ FromLocal(local)
    /\ loading' = DoneLoading
    /\ Taken(c)
    /\ UNCHANGED <<screen, unlocked, token, local, logins, publishing, writes,
                   opened, recorded, shown, modal, saving, events, budget>>

LockDesktop ==
    /\ Act("desktop") /\ VaultRendered
    /\ unlocked' = FALSE /\ screen' = "select" /\ store' = NoRow(Item)
    /\ opened' = FALSE /\ jobs' = {} /\ shown' = NoRow(Item)
    /\ modal' = None /\ saving' = FALSE
    /\ UNCHANGED <<token, loading, local, logins, publishing, writes, recorded,
                   calls>>

-----------------------------------------------------------------------------
(* The list and the dialog                                                 *)

OpenRevisions ==
    /\ VaultRendered /\ ~opened
    /\ opened' = TRUE /\ jobs' = Redecrypt(store, TRUE)
    /\ UNCHANGED <<screen, unlocked, token, store, loading, local, logins,
                   publishing, writes, recorded, shown, modal, saving, calls,
                   events, budget>>

\* An envelope opens unless its revision is older than the one recorded.
OpensHere(table, i) == Active(table, i) /\ table[i].version >= recorded[i]

Decrypted(table) ==
    /\ shown' = [i \in Item |-> IF OpensHere(table, i) THEN table[i].text ELSE None]
    /\ recorded' = [i \in Item |-> IF OpensHere(table, i) THEN table[i].version
                                   ELSE recorded[i]]
    /\ jobs' = jobs \ {table}
    /\ UNCHANGED <<screen, unlocked, token, store, loading, local, logins,
                   publishing, writes, opened, modal, saving, calls, events, budget>>

SetModal(m) ==
    /\ VaultRendered
    /\ modal' = m
    /\ UNCHANGED <<screen, unlocked, token, store, loading, local, logins,
                   publishing, writes, opened, recorded, jobs, shown, saving,
                   calls, events, budget>>

\* The dialog is opened only while the bound leaves room to save it.
Opens == modal = None /\ budget["desktop"] > 0

OpenCreate == Opens /\ SetModal([item |-> None, row |-> None, text |-> None])

\* A click on a card captures its row and the text in the map.
OpenEditor(i) ==
    /\ Opens /\ ~loading /\ Active(store, i) /\ shown[i] # None
    /\ SetModal([item |-> i, row |-> store[i], text |-> shown[i]])

CloseModal == modal # None /\ SetModal(None)

\* handleSave refuses while the revision store is not open and, for an edit,
\* when the row it replaces no longer opens.
SaveNew(i) ==
    /\ Act("desktop") /\ VaultRendered /\ opened /\ ~saving
    /\ modal # None /\ modal.item = None
    /\ rows[i] = None /\ \A c \in calls : c.kind = "create" => c.arg.item # i
    /\ saving' = TRUE
    /\ Send(Call("desktop", logins, "create", token,
                 [item |-> i, row |-> None, text |-> events + 1]))
    /\ UNCHANGED <<screen, unlocked, token, store, loading, local, logins,
                   publishing, writes, opened, recorded, jobs, shown, modal>>

SaveEdited ==
    /\ Act("desktop") /\ VaultRendered /\ opened /\ ~saving
    /\ modal # None /\ modal.item # None
    /\ modal.row.version >= recorded[modal.item]
    /\ saving' = TRUE
    /\ Send(Call("desktop", logins, "update", token,
                 [item |-> modal.item, row |-> modal.row, text |-> events + 1]))
    /\ UNCHANGED <<screen, unlocked, token, store, loading, local, logins,
                   publishing, writes, opened, recorded, jobs, shown, modal>>

DeleteItem(i) ==
    /\ Act("desktop") /\ VaultRendered /\ ~loading /\ Active(store, i)
    /\ Send(Call("desktop", logins, "delete", token,
                 [item |-> i, row |-> store[i], text |-> 0]))
    /\ UNCHANGED desktopVars

\* The update's answer has no row: the client makes it from the dialog's row
\* and the version it expects the server to have given it.
RowAfter(c) ==
    IF c.kind = "create" THEN c.answer.row
    ELSE [c.arg.row EXCEPT !.version = @ + 1, !.text = c.arg.text]

\* The vault screen that sent the request is still mounted.
OnScreen(c) == unlocked /\ c.n = logins

\* The dialog closes, whichever is open by now, unless the local database
\* refuses the row.
SaveAnswered(c) ==
    LET i == c.arg.item
    IN /\ Answered(c) /\ c.from = "desktop" /\ c.kind \in {"create", "update"}
       /\ recorded' = [recorded EXCEPT ![i] = IF @ < RowAfter(c).version
                                              THEN RowAfter(c).version ELSE @]
       /\ ToStore([store EXCEPT ![i] = RowAfter(c)])
       /\ \/ /\ local' = [local EXCEPT ![i] = RowAfter(c)]
             /\ modal' = IF OnScreen(c) THEN None ELSE modal
          \/ UNCHANGED <<local, modal>>
       /\ saving' = (saving /\ ~OnScreen(c))
       /\ Taken(c)
       /\ UNCHANGED <<screen, unlocked, token, loading, logins, publishing,
                      writes, opened, shown, events, budget>>

\* markDeleted marks the row the store has now; the local database keeps it.
DeleteAnswered(c) ==
    LET i == c.arg.item
    IN /\ Answered(c) /\ c.kind = "delete"
       /\ ToStore(IF store[i] = None THEN store
                  ELSE [store EXCEPT ![i].deleted = TRUE])
       /\ Taken(c)
       /\ UNCHANGED <<screen, unlocked, token, loading, local, logins, publishing,
                      writes, opened, recorded, shown, modal, saving, events, budget>>

DesktopFailed(c) ==
    /\ Failed(c) /\ c.from = "desktop" /\ c.kind # "items"
    /\ saving' = (saving /\ ~(OnScreen(c) /\ c.kind \in {"create", "update"}))
    /\ Taken(c)
    /\ UNCHANGED <<screen, unlocked, token, store, loading, local, logins,
                   publishing, writes, opened, recorded, jobs, shown, modal,
                   events, budget>>

-----------------------------------------------------------------------------
\* What the application does by itself.
DesktopStep ==
    \/ \E c \in calls : \/ SignedIn(c) \/ SyncAnswered(c) \/ SyncFailed(c)
                        \/ SaveAnswered(c) \/ DeleteAnswered(c)
                        \/ DesktopFailed(c)
    \/ \E n \in publishing : OnSuccess(n)
    \/ \E table \in writes :
          SyncWritten(table) \/ \E done \in SUBSET Item : SyncUnwritten(table, done)
    \/ OpenRevisions
    \/ \E table \in jobs : Decrypted(table)

\* What its user does.
DesktopUser ==
    \/ SignIn \/ LockDesktop
    \/ OpenCreate \/ CloseModal \/ SaveEdited
    \/ \E i \in Item : OpenEditor(i) \/ SaveNew(i) \/ DeleteItem(i)

DesktopNext == (DesktopStep \/ DesktopUser) /\ UNCHANGED serverVars

=============================================================================
