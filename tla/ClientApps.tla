-------------------------------- MODULE ClientApps --------------------------------
(***************************************************************************)
(* The desktop application and the web client's pages at work on one       *)
(* account: they meet at the server, where a page may end the session that *)
(* the desktop works under, an import adds what the desktop syncs, and a   *)
(* recovery ends everything.                                               *)
(***************************************************************************)
EXTENDS DesktopClient, WebPages

vars == <<serverVars, calls, events, budget, desktopVars, pagesVars>>

Init == ServerInit /\ DesktopInit /\ PagesInit

Next ==
    \/ ServerNext /\ UNCHANGED <<desktopVars, pagesVars>>
    \/ DesktopNext /\ UNCHANGED pagesVars
    \/ PagesNext /\ UNCHANGED desktopVars

Spec == Init /\ [][Next]_vars

\* Every request is answered or fails, and the clients run what is due; the
\* users need not do anything.
Due ==
    \/ (\E c \in calls : Serve(c)) /\ UNCHANGED <<desktopVars, pagesVars>>
    \/ DesktopStep /\ UNCHANGED <<serverVars, pagesVars>>
    \/ PagesStep /\ UNCHANGED <<serverVars, desktopVars>>

FairSpec == Spec /\ WF_vars(Due)

-----------------------------------------------------------------------------
(* Properties                                                              *)

TypeOK == ServerTypeOK /\ DesktopTypeOK /\ PagesTypeOK

\* handleSave makes the row it puts in the store and in the local database by
\* itself, with the version it expects; syncs, saves of other devices and late
\* answers come in between.  Whatever the desktop holds of an item is a version
\* and a text that the server once had together, so the next save is compared
\* with the right row.
RowsAsServed ==
    \A i \in Item : \A row \in {store[i], local[i]} \ {None} :
        <<row.version, row.text>> \in past[i]

\* handleGenerate, createKit and handleSetPassword upload wraps of keys that
\* other steps overwrite with zeros, and each may be tried again after a
\* failure.  The password always opens the account's keys, and so does a
\* recovery code that the user has been shown, for as long as it is the kit's.
ShownKitOpens ==
    /\ account # "zero"
    /\ kit # None => (kit.code \in known => kit.keys = "real")

\* Once a page has told the user that a device is revoked, that other devices
\* are signed out or that a link is disabled, no session of those is live again
\* and no visit of the link that began later gets its secret, whatever requests
\* were under way.  A session that was opened before its device was registered
\* is not linked to it, and stays.
RevocationHolds ==
    /\ out \cap sessions = {}
    /\ \A c \in calls : c.kind = "view" /\ c.at = "done" => ~c.arg.late

\* reveal consumes a view before it knows whether the answer will arrive or the
\* key will fit.  However many recipients click at once, a secret is shown at
\* most as often as the link allows.
ViewsWithinLimit ==
    \A s \in Share : reveals[s] > 0 =>
        \E limit \in ViewLimits :
           /\ reveals[s] <= limit
           /\ shares[s] # None => shares[s].limit = limit /\ reveals[s] <= shares[s].used

\* handleImport sends one item after another and goes on after a failure, also
\* when the page has been left.  Every entry of the export that was not in the
\* trash is counted exactly once, and what was counted as done is stored.
ImportTallies ==
    \A l \in loops :
        /\ l.done + l.failed + Cardinality(l.left) + (IF l.waits THEN 1 ELSE 0)
             = Cardinality(l.file) - Cardinality(Skipped(l.file))
        /\ Cardinality(l.made) = l.done
        /\ \A i \in l.made : past[i] # {}

\* The ids that the mapper of a category looks for before anything else.
LookedUp(category) ==
    CASE category = "card"     -> {"ccnum", "cardholder", "cvv"}
      [] category = "identity" -> {"firstname", "lastname", "email", "defphone"}
      [] category = "ssh_key"  -> {"passphrase"}
      [] category = "database" -> Connection
      [] OTHER                 -> {}

\* A text of a section is lost if a login has it under a reserved id, if an
\* earlier field has the id it is looked up by, or if it is in a typed category
\* under an id that is not looked up.
TextMayGo(e, i) ==
    LET f == e.fields[i]
    IN \/ e.category = "login" /\ f.id \in {"username", "password"}
       \/ /\ f.id \in LookedUp(e.category)
          /\ \E j \in InSections(e) : j < i /\ e.fields[j].id = f.id
       \/ e.category \in {"card", "identity", "ssh_key"} /\ f.id \notin LookedUp(e.category)

\* A key or an address is lost to a later one, or where no mapper looks for it.
ValueMayGo(e, i) ==
    LET f == e.fields[i]
        later == \E j \in InSections(e) : i < j /\ e.fields[j].shape = f.shape
    IN /\ e.category = "ssh_key" /\ f.shape = "sshKey" => later
       /\ e.category = "identity" /\ f.kind = "address" /\ f.shape = "address" => later

MayGo(e, i) ==
    LET f == e.fields[i]
    IN IF f.place = "section"
       THEN IF StringValue(f) THEN TextMayGo(e, i) ELSE ValueMayGo(e, i)
       ELSE /\ f.place = "details" => e.category \notin {"password", "other"}
            /\ f.place = "login" /\ e.category = "login"
                  /\ f.id \in {"username", "password"} =>
                  \E j \in DOMAIN e.fields : /\ j < i /\ e.fields[j].place = "login"
                                             /\ e.fields[j].id = f.id

\* Seven categories have mappers of their own in onepassword.ts, which look fields
\* up by id and title, skip the ids they have looked up, return at the first match
\* or overwrite at every one.  Whatever the order and the repetitions of an
\* export's fields, each field reaches the imported item, save those that MayGo
\* names: in particular each text of a note, a password or an entry without a
\* mapper, the first field of each id that is looked up, and the last key and the
\* last address.
ImportKeepsTexts ==
    \A l \in loops : \A p \in l.left :
        \A i \in DOMAIN p.entry.fields \ p.item.kept : MayGo(p.entry, i)

\* Every button that was pressed comes back, every spinner stops and every
\* import ends, whichever requests fail and whatever is locked or left.
ClientsSettle ==
    []<>(/\ ~loading /\ ~saving /\ ~page.busy
         /\ \A l \in loops : l.left = {} /\ ~l.waits
         /\ calls = {} /\ deriving = {} /\ jobs = {})

=============================================================================
