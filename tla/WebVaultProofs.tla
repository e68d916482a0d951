----------------------------- MODULE WebVaultProofs -----------------------------
(***************************************************************************)
(* Proofs about WebVault, for any accounts, items, versions and number of  *)
(* logins and changes.                                                     *)
(***************************************************************************)
EXTENDS WebVault, TLAPS

-----------------------------------------------------------------------------
(* Rows.                                                                   *)

Rows == [Item -> Row \cup {None}]

\* A row of version v and text t is not ahead of the server's row s: the same
\* version is the same text.
NotAhead(s, v, t) ==
    /\ s # None /\ v <= s.version
    /\ v = s.version => t = s.text

\* What a step may do to a row of the server.
Grows(s, s1) ==
    s # None => /\ s1 # None
                /\ \/ s.version < s1.version
                   \/ s.version = s1.version /\ s.text = s1.text

LEMMA NotAheadStays ==
  ASSUME NEW s \in Row \cup {None}, NEW s1 \in Row \cup {None}, Grows(s, s1),
         NEW v \in Nat, NEW t, NotAhead(s, v, t)
  PROVE  NotAhead(s1, v, t)
  BY WebAssumption DEF NotAhead, Grows, Row

LEMMA FreshRow == Fresh \in Row /\ Fresh.version = 1 /\ Fresh.text = 1
  <1>1. 1 \in 1..MaxVersion
    BY WebAssumption
  <1>2. QED
    BY <1>1, Zenon DEF Fresh, Row

LEMMA SavedRow ==
  ASSUME NEW r \in Row, r.version < MaxVersion
  PROVE  /\ Saved(r) \in Row
         /\ Saved(r).version = r.version + 1 /\ Saved(r).text = r.version + 1
  <1>1. r.version + 1 \in 1..MaxVersion
    BY WebAssumption DEF Row
  <1>2. QED
    BY <1>1 DEF Saved, Row

LEMMA MovedRow ==
  ASSUME NEW r \in Row, r.version < MaxVersion
  PROVE  LET m == [r EXCEPT !.version = @ + 1]
         IN  m \in Row /\ m.version = r.version + 1 /\ m.text = r.text
  <1>1. r.version + 1 \in 1..MaxVersion
    BY WebAssumption DEF Row
  <1>2. QED
    BY <1>1 DEF Row

LEMMA TrashedRow ==
  ASSUME NEW r \in Row
  PROVE  LET d == [r EXCEPT !.deleted = TRUE]
         IN  d \in Row /\ d.version = r.version /\ d.text = r.text
  BY DEF Row

-----------------------------------------------------------------------------
(* The screen.                                                             *)

Ui == [selected : Item \cup {None}, creating : BOOLEAN, editing : BOOLEAN,
       draft : Draft \cup {None}, saving : BOOLEAN]

\* An editor of an item is open on a row of the list, and on its text unless
\* the draft is behind.
Fits(u, rows) ==
    u.draft # None =>
       \/ u.creating /\ u.draft.item = None
       \/ /\ ~u.creating /\ u.editing /\ u.draft.item = u.selected
          /\ Active(rows, u.selected)
          /\ ~u.draft.behind => u.draft.base = rows[u.selected].text

LEMMA NoUiType == NoUi \in Ui /\ NoUi.draft = None /\ ~NoUi.creating
  BY Zenon DEF NoUi, Ui

LEMMA BehindDraft ==
  ASSUME NEW d \in Draft, NEW b \in BOOLEAN
  PROVE  LET e == [d EXCEPT !.behind = b]
         IN  e \in Draft /\ e.item = d.item /\ e.base = d.base /\ e.behind = b
  BY DEF Draft

LEMMA NewDraft ==
  ASSUME NEW i \in Item \cup {None}, NEW n \in 0..MaxVersion, NEW b \in BOOLEAN
  PROVE  LET e == [item |-> i, base |-> n, behind |-> b]
         IN  e \in Draft /\ e.item = i /\ e.base = n /\ e.behind = b
  BY Zenon DEF Draft

\* What is rendered fits the list, whatever the user had open.
LEMMA RenderedFits ==
  ASSUME NEW u \in Ui, NEW rows \in Rows, NEW texts \in [Item -> 0..MaxVersion]
  PROVE  LET r == Rendered(u, rows, texts)
         IN  /\ r \in Ui /\ Fits(r, rows) /\ r.selected = u.selected
             /\ r.creating = u.creating /\ r.editing = u.editing
  <1> DEFINE entry == ~u.creating /\ Entry(u, rows, texts)
             kept  == u.draft # None
                      /\ u.draft.item = IF u.creating THEN None ELSE u.selected
             older == [u.draft EXCEPT
                         !.behind = @ \/ u.draft.base # rows[u.selected].text]
             empty == [item |-> None, base |-> 0, behind |-> FALSE]
             opened == [item |-> u.selected, base |-> texts[u.selected],
                        behind |-> texts[u.selected] # rows[u.selected].text]
             d == IF kept /\ u.creating THEN u.draft
                  ELSE IF kept /\ u.editing /\ entry THEN older
                  ELSE IF u.creating THEN empty
                  ELSE IF u.editing /\ entry THEN opened
                  ELSE None
  <1>1. Rendered(u, rows, texts) = [u EXCEPT !.draft = d]
    BY DEF Rendered
  <1>2. empty \in Draft /\ empty.item = None
    <2>1. 0 \in 0..MaxVersion
      BY WebAssumption
    <2>2. QED
      BY <2>1, NewDraft
  <1>3. ASSUME entry
        PROVE  /\ u.selected \in Item /\ rows[u.selected] \in Row /\ Active(rows, u.selected)
               /\ ~u.creating /\ opened \in Draft /\ opened.item = u.selected
               /\ opened.base = texts[u.selected]
               /\ opened.behind = (texts[u.selected] # rows[u.selected].text)
    <2>1. /\ u.selected \in Item /\ rows[u.selected] \in Row /\ Active(rows, u.selected)
          /\ ~u.creating
      BY <1>3 DEF Entry, Active, Ui, Rows
    <2>2. texts[u.selected] \in 0..MaxVersion
      BY <2>1
    <2>3. QED
      BY <2>1, <2>2, NewDraft
  <1>4. ASSUME kept
        PROVE  /\ u.draft \in Draft /\ older \in Draft /\ older.item = u.draft.item
               /\ older.base = u.draft.base
               /\ older.behind = (u.draft.behind \/ u.draft.base # rows[u.selected].text)
    <2>1. u.draft \in Draft
      BY <1>4 DEF Ui
    <2>2. QED
      BY <2>1, BehindDraft
  <1> HIDE DEF entry, older, empty, opened
  <1>5. /\ d \in Draft \cup {None}
        /\ d # None => \/ u.creating /\ d.item = None
                       \/ /\ ~u.creating /\ u.editing /\ d.item = u.selected
                          /\ Active(rows, u.selected)
                          /\ ~d.behind => d.base = rows[u.selected].text
    <2>1. CASE kept /\ u.creating
      BY <1>4, <2>1
    <2>2. CASE kept /\ u.editing /\ entry
      <3>1. d = older /\ ~u.creating
        BY <1>3, <2>2
      <3>2. QED
        BY <1>3, <1>4, <2>2, <3>1
    <2>3. CASE ~kept /\ u.creating
      BY <1>2, <2>3
    <2>4. CASE ~kept /\ u.editing /\ entry
      <3>1. d = opened
        BY <1>3, <2>4
      <3>2. QED
        BY <1>3, <2>4, <3>1
    <2>5. CASE ~u.creating /\ ~(u.editing /\ entry)
      BY <2>5
    <2>6. QED
      BY <2>1, <2>2, <2>3, <2>4, <2>5
  <1> HIDE DEF kept, d
  <1>6. LET r == [u EXCEPT !.draft = d]
        IN  /\ r \in Ui /\ r.draft = d /\ r.selected = u.selected
            /\ r.creating = u.creating /\ r.editing = u.editing
    BY <1>5 DEF Ui
  <1>7. QED
    BY <1>1, <1>5, <1>6 DEF Fits

-----------------------------------------------------------------------------
(* The invariant.                                                          *)

Job  == [acct : Account, items : Rows, live : BOOLEAN]
Load == [mount : 1..MaxEvents, acct : Account, got : Rows \cup {None}]
Text == [Item -> 0..MaxVersion]

DataInv ==
    /\ server \in Rows /\ items \in Rows /\ seen \in Text /\ shown \in Text
    /\ loads \subseteq Load /\ jobs \subseteq Job /\ calls \subseteq Call
    /\ ui \in Ui /\ ~(ui.creating /\ ui.editing)

StateInv ==
    /\ keys \in Account \cup {None} /\ loading \in BOOLEAN /\ ready \in BOOLEAN
    /\ mount \in Nat /\ sent \in Nat /\ mount + sent <= MaxEvents
    /\ keys # None => mount # 0
    /\ keys = None => ui = NoUi /\ ~ready

\* A decryption that may still set the map is one of the list as it is.
JobInv == \A j \in jobs : j.live => ready /\ j.acct = keys /\ j.items = items

\* Nobody holds a row ahead of the server's.
Held(rows) ==
    \A i \in Item : rows[i] # None => NotAhead(server[i], rows[i].version, rows[i].text)

HeldInv ==
    /\ Held(items)
    /\ \A l \in loads : l.got # None => Held(l.got)

\* What a change relies on between being asked for and being answered.
CallHolds(c, s) ==
    /\ c.kind # "create" => NotAhead(s, c.row.version, c.row.text)
    /\ c.kind = "update" /\ ~c.behind => c.base = c.row.text
    /\ c.at = "done" =>
          /\ c.kind = "create" => NotAhead(s, 1, 1)
          /\ c.kind = "update" => NotAhead(s, c.row.version + 1, c.row.version + 1)
          /\ c.kind = "move" => NotAhead(s, c.row.version + 1, c.row.text)

CallInv == \A c \in calls : CallHolds(c, server[c.item])

Inv == /\ DataInv /\ StateInv /\ JobInv /\ HeldInv /\ CallInv
       /\ Fits(ui, items)

\* Steps that leave the server alone, and do no more than drop calls.
LEMMA ServerQuiet ==
  ASSUME Inv, UNCHANGED <<server, items>>, loads' \subseteq loads, calls' \subseteq calls
  PROVE  HeldInv' /\ CallInv'
  BY DEF Inv, HeldInv, Held, CallInv

\* Every row the server can have next.
LEMMA ServerMoves ==
  ASSUME Inv, server' \in Rows, \A i \in Item : Grows(server[i], server'[i]),
         UNCHANGED <<items, loads>>
  PROVE  /\ HeldInv'
         /\ \A c \in calls : CallHolds(c, server'[c.item])
  <1> USE DEF Inv, DataInv
  <1>1. ASSUME NEW rows \in Rows, Held(rows), NEW i \in Item, rows[i] # None
        PROVE  NotAhead(server'[i], rows[i].version, rows[i].text)
    <2>1. rows[i].version \in Nat /\ server[i] \in Row \cup {None}
          /\ server'[i] \in Row \cup {None}
      BY <1>1, WebAssumption DEF Rows, Row
    <2>2. NotAhead(server[i], rows[i].version, rows[i].text)
      BY <1>1 DEF Held
    <2>3. QED
      BY <2>1, <2>2, NotAheadStays
  <1>2. HeldInv'
    <2>1. \A i \in Item : items[i] # None
             => NotAhead(server'[i], items[i].version, items[i].text)
      BY <1>1 DEF HeldInv
    <2>2. ASSUME NEW l \in loads, l.got # None
          PROVE  \A i \in Item : l.got[i] # None
                   => NotAhead(server'[i], l.got[i].version, l.got[i].text)
      <3>1. l.got \in Rows
        BY <2>2 DEF Load
      <3>2. Held(l.got)
        BY <2>2 DEF HeldInv
      <3>3. QED
        BY <1>1, <3>1, <3>2
    <2>3. QED
      BY <2>1, <2>2 DEF HeldInv, Held
  <1>3. ASSUME NEW c \in calls
        PROVE  CallHolds(c, server'[c.item])
    <2>1. c \in Call /\ c.item \in Item /\ c.row \in Row
      BY DEF Call
    <2>2. /\ server[c.item] \in Row \cup {None} /\ server'[c.item] \in Row \cup {None}
          /\ Grows(server[c.item], server'[c.item])
      BY <2>1 DEF Rows
    <2>3. c.row.version \in Nat /\ c.row.version + 1 \in Nat /\ 1 \in Nat
      BY <2>1, WebAssumption DEF Row
    <2>4. \A v \in Nat, t \in Nat : NotAhead(server[c.item], v, t)
             => NotAhead(server'[c.item], v, t)
      BY <2>2, NotAheadStays
    <2>5. c.row.text \in Nat
      BY <2>1, WebAssumption DEF Row
    <2>6. CallHolds(c, server[c.item])
      BY DEF CallInv
    <2>7. QED
      BY <2>3, <2>4, <2>5, <2>6 DEF CallHolds
  <1>4. QED
    BY <1>2, <1>3

LEMMA InitInv == Init => Inv
  <1> SUFFICES ASSUME Init PROVE Inv
    OBVIOUS
  <1>1. server \in Rows /\ items \in Rows
    BY FreshRow DEF Init, Rows
  <1>2. 0 \in 0..MaxVersion /\ MaxEvents \in Nat
    BY WebAssumption
  <1>3. seen \in Text /\ shown \in Text
    BY <1>2 DEF Init, Text
  <1>4. ui \in Ui /\ ui = NoUi /\ ui.draft = None /\ ~ui.creating
    BY NoUiType DEF Init
  <1>5. DataInv
    BY <1>1, <1>3, <1>4 DEF Init, DataInv
  <1>6. StateInv
    <2>1. mount \in Nat /\ sent \in Nat /\ mount + sent <= MaxEvents
      BY <1>2 DEF Init
    <2>2. QED
      BY <1>4, <2>1, Zenon DEF Init, StateInv
  <1>7. JobInv /\ HeldInv /\ CallInv
    BY DEF Init, JobInv, HeldInv, Held, CallInv
  <1>8. QED
    BY <1>4, <1>5, <1>6, <1>7 DEF Inv, Fits

\* Restarting the effect: one decryption of the list, if there are keys and the
\* revision store is open; the others may no longer set the map.
LEMMA RestartedJobs ==
  ASSUME Inv, NEW acct \in Account \cup {None}, NEW rows \in Rows, NEW opened \in BOOLEAN
  PROVE  /\ Restarted(acct, rows, opened) \subseteq Job
         /\ \A j \in Restarted(acct, rows, opened) : j.live =>
               opened /\ j.acct = acct /\ j.items = rows
         /\ acct # None /\ opened => \E j \in Restarted(acct, rows, opened) : j.live
  <1> DEFINE new == [acct |-> acct, items |-> rows, live |-> TRUE]
  <1>1. \A j \in Cancelled(jobs) : j \in Job /\ ~j.live
    BY DEF Cancelled, Inv, DataInv, Job
  <1>2. acct # None => new \in Job
    BY Zenon DEF Job
  <1>3. new.acct = acct /\ new.items = rows /\ new.live
    OBVIOUS
  <1>4. Restarted(acct, rows, opened)
          = Cancelled(jobs) \cup IF acct # None /\ opened THEN {new} ELSE {}
    BY DEF Restarted
  <1> HIDE DEF new
  <1>5. QED
    BY <1>1, <1>2, <1>3, <1>4

-----------------------------------------------------------------------------
(* Unlocking, loading and locking.                                         *)

\* The screen is rendered anew.
LEMMA UiStep ==
  ASSUME Inv, NEW u \in Ui, ~(u.creating /\ u.editing), keys # None,
         ui' = Rendered(u, items, shown),
         calls' \subseteq calls, loads' \subseteq loads,
         UNCHANGED <<server, keys, items, loading, mount, ready, seen, jobs, shown, sent>>
  PROVE  Inv'
  <1>1. items \in Rows /\ shown \in [Item -> 0..MaxVersion]
    BY DEF Inv, DataInv, Text
  <1>2. ui' \in Ui /\ Fits(ui', items) /\ ~(ui'.creating /\ ui'.editing)
    BY <1>1, RenderedFits
  <1>3. HeldInv' /\ CallInv'
    BY ServerQuiet
  <1>4. DataInv' /\ StateInv' /\ JobInv'
    BY <1>2 DEF Inv, DataInv, StateInv, JobInv
  <1>5. QED
    BY <1>2, <1>3, <1>4 DEF Inv, Fits, Active

LEMMA LoginStep ==
  ASSUME Inv, NEW a \in Account, Login(a)
  PROVE  Inv'
  <1> DEFINE l == [mount |-> mount + 1, acct |-> a, got |-> None]
  <1>1. /\ mount + 1 \in 1..MaxEvents /\ mount' = mount + 1 /\ mount' \in Nat
        /\ sent' = sent /\ mount' # 0 /\ mount' + sent' <= MaxEvents
    BY WebAssumption DEF Login, Inv, StateInv
  <1>2. l \in Load /\ l.got = None
    BY <1>1 DEF Load
  <1>3. loads' = loads \cup {l} /\ UNCHANGED <<server, items, seen, shown, jobs, calls, ui>>
    BY DEF Login
  <1>4. keys' = a /\ ~ready /\ ready' = ready /\ loading' = TRUE
    BY DEF Login, Inv, StateInv
  <1> HIDE DEF l
  <1>5. DataInv'
    BY <1>2, <1>3 DEF Inv, DataInv
  <1>6. StateInv'
    <2>1. keys' # None
      BY <1>4, WebAssumption
    <2>2. QED
      BY <1>1, <1>4, <2>1, Zenon DEF StateInv, Inv
  <1>7. JobInv'
    BY <1>3, <1>4 DEF Inv, JobInv
  <1>8. HeldInv' /\ CallInv'
    BY <1>2, <1>3 DEF Inv, HeldInv, Held, CallInv
  <1>9. Fits(ui, items)'
    BY <1>3 DEF Inv, Fits, Active
  <1>10. QED
    BY <1>5, <1>6, <1>7, <1>8, <1>9 DEF Inv

LEMMA OpenRevisionStoreStep ==
  ASSUME Inv, OpenRevisionStore
  PROVE  Inv'
  <1>1. /\ ready' = TRUE /\ keys # None /\ jobs' = Restarted(keys, items, TRUE)
        /\ UNCHANGED <<server, keys, items, loading, mount, seen, loads, shown, ui, calls,
                       sent>>
    BY DEF OpenRevisionStore
  <1>2. keys \in Account \cup {None} /\ items \in Rows /\ TRUE \in BOOLEAN
    BY DEF Inv, StateInv, DataInv
  <1>3. jobs' \subseteq Job /\ \A j \in jobs' : j.live => j.acct = keys /\ j.items = items
    <2>1. PICK opened \in BOOLEAN : jobs' = Restarted(keys, items, opened)
      BY <1>1, Zenon
    <2>2. QED
      BY <1>2, <2>1, RestartedJobs
  <1>4. DataInv'
    BY <1>1, <1>3 DEF Inv, DataInv
  <1>5. StateInv'
    BY <1>1, Zenon DEF Inv, StateInv
  <1>6. JobInv'
    BY <1>1, <1>3, Zenon DEF JobInv
  <1>7. HeldInv' /\ CallInv'
    BY <1>1, ServerQuiet
  <1>8. Fits(ui, items)'
    BY <1>1 DEF Inv, Fits, Active
  <1>9. QED
    BY <1>4, <1>5, <1>6, <1>7, <1>8 DEF Inv

LEMMA LoadReadStep ==
  ASSUME Inv, NEW l \in loads, LoadRead(l)
  PROVE  Inv'
  <1> DEFINE got == [i \in Item |-> IF Owner[i] = l.acct THEN server[i] ELSE None]
             m == [l EXCEPT !.got = got]
  <1>1. got \in Rows
    BY DEF Inv, DataInv, Rows
  <1>2. \A i \in Item : got[i] # None => got[i] = server[i] /\ got[i] \in Row
    BY DEF Inv, DataInv, Rows
  <1>3. loads' = (loads \ {l}) \cup {m}
        /\ UNCHANGED <<server, keys, items, loading, mount, ready, seen, jobs, shown, ui,
                       calls, sent>>
    BY DEF LoadRead
  <1> HIDE DEF got
  <1>4. m \in Load /\ m.got = got
    BY <1>1 DEF Inv, DataInv, Load
  <1> HIDE DEF m
  <1>5. Held(got)
    BY <1>2, WebAssumption DEF Held, NotAhead, Row
  <1>6. HeldInv' /\ CallInv'
    <2>1. Held(items) /\ \A k \in loads' : k.got # None => Held(k.got)
      BY <1>3, <1>4, <1>5 DEF Inv, HeldInv
    <2>2. QED
      BY <1>3, <2>1 DEF Inv, HeldInv, Held, CallInv
  <1>7. DataInv' /\ StateInv' /\ JobInv'
    BY <1>3, <1>4 DEF Inv, DataInv, StateInv, JobInv
  <1>8. QED
    BY <1>3, <1>6, <1>7 DEF Inv, Fits, Active

\* The list is replaced and the effect restarted.
LEMMA ListStep ==
  ASSUME Inv, NEW rows \in Rows, items' = rows, Held(rows),
         ui' \in Ui, ~(ui'.creating /\ ui'.editing), Fits(ui', rows),
         keys = None => ui' = ui,
         jobs' = Restarted(keys, rows, ready), seen' \in Text, loading' \in BOOLEAN,
         calls' \subseteq calls, loads' \subseteq loads,
         UNCHANGED <<server, keys, mount, ready, shown, sent>>
  PROVE  Inv' /\ (ready' => \E j \in jobs' : j.live)
  <1>1. keys \in Account \cup {None} /\ ready \in BOOLEAN /\ (ready => keys # None)
    BY Zenon DEF Inv, StateInv
  <1>2. /\ jobs' \subseteq Job
        /\ \A j \in jobs' : j.live => ready /\ j.acct = keys /\ j.items = rows
        /\ ready => \E j \in jobs' : j.live
    BY <1>1, RestartedJobs
  <1>3. DataInv'
    BY <1>2 DEF Inv, DataInv
  <1>4. StateInv'
    BY DEF Inv, StateInv
  <1>5. JobInv'
    BY <1>2 DEF JobInv
  <1>6. HeldInv' /\ CallInv'
    BY DEF Inv, HeldInv, Held, CallInv
  <1>7. Fits(ui, items)'
    BY DEF Fits, Active
  <1>8. QED
    BY <1>2, <1>3, <1>4, <1>5, <1>6, <1>7 DEF Inv

LEMMA LoadAnsweredStep ==
  ASSUME Inv, NEW l \in loads, LoadAnswered(l)
  PROVE  Inv' /\ (ready' => \E j \in jobs' : j.live)
  <1>1. l.got \in Rows /\ Held(l.got)
    BY DEF LoadAnswered, Inv, DataInv, Load, HeldInv
  <1>2. shown \in [Item -> 0..MaxVersion] /\ ui \in Ui /\ ~(ui.creating /\ ui.editing)
    BY DEF Inv, DataInv, Text
  <1>3. /\ ui' = Rendered(ui, l.got, shown) /\ ui' \in Ui /\ Fits(ui', l.got)
        /\ ~(ui'.creating /\ ui'.editing)
    BY <1>1, <1>2, RenderedFits DEF LoadAnswered
  <1>4. keys = None => ui' = ui
    <2> SUFFICES ASSUME ui = NoUi PROVE Rendered(ui, l.got, shown) = ui
      BY <1>3 DEF Inv, StateInv
    <2>1. ~ui.creating /\ ~ui.editing /\ ui.draft = None
      BY Zenon DEF NoUi
    <2>2. Rendered(ui, l.got, shown) = [ui EXCEPT !.draft = None]
      BY <2>1, Zenon DEF Rendered
    <2>3. QED
      BY <1>2, <2>1, <2>2 DEF Ui
  <1>5. /\ items' = l.got /\ loading' \in BOOLEAN /\ jobs' = Restarted(keys, l.got, ready)
        /\ loads' \subseteq loads /\ calls' = calls /\ seen' = seen
        /\ UNCHANGED <<server, keys, mount, ready, shown, sent>>
    BY Zenon DEF LoadAnswered
  <1>6. seen' \in Text
    BY <1>5 DEF Inv, DataInv
  <1>7. QED
    BY <1>1, <1>3, <1>4, <1>5, <1>6, ListStep

LEMMA LoadFailedStep ==
  ASSUME Inv, NEW l \in loads, LoadFailed(l)
  PROVE  Inv'
  <1>1. /\ loads' \subseteq loads /\ loading' = FALSE
        /\ UNCHANGED <<server, keys, items, mount, ready, seen, jobs, shown, ui, calls, sent>>
    BY DEF LoadFailed, DoneLoading
  <1>2. HeldInv' /\ CallInv'
    BY <1>1, ServerQuiet
  <1>3. DataInv' /\ JobInv'
    BY <1>1 DEF Inv, DataInv, JobInv
  <1>4. StateInv'
    BY <1>1, Zenon DEF Inv, StateInv
  <1>5. QED
    BY <1>1, <1>2, <1>3, <1>4 DEF Inv, Fits, Active

LEMMA LockStep ==
  ASSUME Inv, Lock
  PROVE  Inv'
  <1>1. /\ keys' = None /\ ready' = FALSE /\ ui' = NoUi
        /\ items' = [i \in Item |-> None] /\ shown' = [i \in Item |-> 0]
        /\ jobs' = {[j EXCEPT !.live = FALSE] : j \in jobs}
        /\ UNCHANGED <<server, loading, mount, seen, loads, calls, sent>>
    BY DEF Lock
  <1>2. jobs' \subseteq Job /\ \A j \in jobs' : ~j.live
    BY <1>1 DEF Inv, DataInv, Job
  <1>3. items' \in Rows /\ (\A i \in Item : items'[i] = None)
    BY <1>1 DEF Rows
  <1>4. 0 \in 0..MaxVersion
    BY WebAssumption
  <1>5. shown' \in Text
    BY <1>1, <1>4 DEF Text
  <1>6. DataInv'
    BY <1>1, <1>2, <1>3, <1>5, NoUiType DEF Inv, DataInv
  <1>7. StateInv'
    BY <1>1, Zenon DEF Inv, StateInv
  <1>8. JobInv' /\ HeldInv' /\ CallInv'
    BY <1>1, <1>2, <1>3 DEF Inv, JobInv, HeldInv, Held, CallInv
  <1>9. Fits(ui, items)'
    BY <1>1, NoUiType DEF Fits
  <1>10. QED
    BY <1>6, <1>7, <1>8, <1>9 DEF Inv

\* What a decryption leaves: every text it opened is at least as new as what
\* had been accepted.
LEMMA DecryptedDoes ==
  ASSUME Inv, NEW j \in jobs, Decrypted(j)
  PROVE  \E texts \in Text :
           /\ jobs' = jobs \ {j}
           /\ \A i \in Item :
                 IF Opens(j, i)
                 THEN texts[i] = j.items[i].text /\ seen'[i] = texts[i] /\ seen[i] <= seen'[i]
                      /\ texts[i] # 0
                 ELSE texts[i] = 0 /\ seen'[i] = seen[i]
           /\ seen' \in Text
           /\ shown' = IF j.live THEN texts ELSE shown
           /\ ui' = IF j.live THEN Rendered(ui, items, texts) ELSE ui
           /\ UNCHANGED <<server, keys, items, loading, mount, ready, loads, calls, sent, lost>>
  <1> DEFINE texts == [i \in Item |-> IF Opens(j, i) THEN j.items[i].text ELSE 0]
  <1>1. \A i \in Item : seen[i] \in 0..MaxVersion
    BY DEF Inv, DataInv, Text
  <1>2. \A i \in Item : Opens(j, i) =>
           j.items[i].text \in 1..MaxVersion /\ seen[i] <= j.items[i].text
    <2>1. j.items \in Rows
      BY DEF Inv, DataInv, Job
    <2>2. ASSUME NEW i \in Item, Opens(j, i)
          PROVE  j.items[i].text \in 1..MaxVersion /\ seen[i] <= j.items[i].text
      <3>1. j.items[i] \in Row /\ j.items[i].text >= seen[i]
        BY <2>1, <2>2 DEF Opens, Active, Rows
      <3>2. QED
        BY <1>1, <3>1, WebAssumption DEF Row
    <2>3. QED
      BY <2>2
  <1>3. texts \in Text
    <2>1. \A i \in Item : (IF Opens(j, i) THEN j.items[i].text ELSE 0) \in 0..MaxVersion
      BY <1>2, WebAssumption
    <2>2. QED
      BY <2>1 DEF Text
  <1>4. /\ jobs' = jobs \ {j}
        /\ seen' = [i \in Item |-> IF Opens(j, i) THEN texts[i] ELSE seen[i]]
        /\ shown' = IF j.live THEN texts ELSE shown
        /\ ui' = IF j.live THEN Rendered(ui, items, texts) ELSE ui
        /\ UNCHANGED <<server, keys, items, loading, mount, ready, loads, calls, sent, lost>>
    BY DEF Decrypted
  <1>5. \A i \in Item : texts[i] = IF Opens(j, i) THEN j.items[i].text ELSE 0
    OBVIOUS
  <1> HIDE DEF texts
  <1>6. seen' \in Text
    BY <1>1, <1>3, <1>4 DEF Text
  <1>7. \A i \in Item :
           IF Opens(j, i)
           THEN texts[i] = j.items[i].text /\ seen'[i] = texts[i] /\ seen[i] <= seen'[i]
                /\ texts[i] # 0
           ELSE texts[i] = 0 /\ seen'[i] = seen[i]
    BY <1>2, <1>4, <1>5
  <1>8. QED
    BY <1>3, <1>4, <1>6, <1>7

LEMMA DecryptedStep ==
  ASSUME Inv, NEW j \in jobs, Decrypted(j)
  PROVE  Inv'
  <1>1. PICK texts \in Text :
           /\ jobs' = jobs \ {j} /\ seen' \in Text
           /\ shown' = IF j.live THEN texts ELSE shown
           /\ ui' = IF j.live THEN Rendered(ui, items, texts) ELSE ui
           /\ UNCHANGED <<server, keys, items, loading, mount, ready, loads, calls, sent, lost>>
    BY DecryptedDoes
  <1>2. /\ texts \in [Item -> 0..MaxVersion] /\ ui \in Ui /\ items \in Rows
        /\ ~(ui.creating /\ ui.editing) /\ Fits(ui, items)
    BY DEF Inv, DataInv, Text
  <1>3. ui' \in Ui /\ ~(ui'.creating /\ ui'.editing) /\ Fits(ui', items)
    BY <1>1, <1>2, RenderedFits
  <1>4. keys = None => ~j.live
    BY Zenon DEF Inv, JobInv, StateInv
  <1>5. shown' \in Text
    BY <1>1 DEF Inv, DataInv
  <1>6. DataInv'
    BY <1>1, <1>3, <1>5 DEF Inv, DataInv
  <1>7. StateInv'
    BY <1>1, <1>4 DEF Inv, StateInv
  <1>8. JobInv'
    BY <1>1 DEF Inv, JobInv
  <1>9. HeldInv' /\ CallInv'
    BY <1>1, ServerQuiet
  <1>10. Fits(ui, items)'
    BY <1>1, <1>3 DEF Fits, Active
  <1>11. QED
    BY <1>6, <1>7, <1>8, <1>9, <1>10 DEF Inv

-----------------------------------------------------------------------------
(* Selecting, editing and asking for changes.                              *)

LEMMA ShowsStep ==
  ASSUME Inv, NEW u \in Ui, ~(u.creating /\ u.editing), Shows(u)
  PROVE  Inv'
  BY UiStep DEF Shows

LEMMA EditStep ==
  ASSUME Inv, \/ \E i \in Item : OpenItem(i)
              \/ StartCreate \/ StartEdit \/ CancelEdit \/ Deselect
  PROVE  Inv'
  <1>1. ui \in Ui
    BY DEF Inv, DataInv
  <1>2. ASSUME NEW i \in Item, OpenItem(i)
        PROVE  Inv'
    <2> DEFINE u == [ui EXCEPT !.selected = i, !.creating = FALSE, !.editing = FALSE]
    <2>1. u \in Ui /\ ~u.creating
      BY <1>1 DEF Ui
    <2>2. Shows(u)
      BY <1>2 DEF OpenItem
    <2> HIDE DEF u
    <2>3. QED
      BY <2>1, <2>2, ShowsStep
  <1>3. CASE StartCreate
    <2> DEFINE u == [ui EXCEPT !.selected = None, !.creating = TRUE, !.editing = FALSE]
    <2>1. u \in Ui /\ ~u.editing
      BY <1>1 DEF Ui
    <2>2. Shows(u)
      BY <1>3 DEF StartCreate
    <2> HIDE DEF u
    <2>3. QED
      BY <2>1, <2>2, ShowsStep
  <1>4. CASE StartEdit
    <2> DEFINE u == [ui EXCEPT !.editing = TRUE]
    <2>1. u \in Ui /\ u.creating = ui.creating
      BY <1>1 DEF Ui
    <2>2. Shows(u) /\ ~ui.creating
      BY <1>4 DEF StartEdit
    <2> HIDE DEF u
    <2>3. QED
      BY <2>1, <2>2, ShowsStep
  <1>5. CASE CancelEdit
    <2> DEFINE u == [ui EXCEPT !.creating = FALSE, !.editing = FALSE]
    <2>1. u \in Ui /\ ~u.creating
      BY <1>1 DEF Ui
    <2>2. Shows(u)
      BY <1>5 DEF CancelEdit
    <2> HIDE DEF u
    <2>3. QED
      BY <2>1, <2>2, ShowsStep
  <1>6. CASE Deselect
    <2> DEFINE u == [ui EXCEPT !.selected = None, !.creating = FALSE, !.editing = FALSE]
    <2>1. u \in Ui /\ ~u.creating
      BY <1>1 DEF Ui
    <2>2. Shows(u)
      BY <1>6 DEF Deselect
    <2> HIDE DEF u
    <2>3. QED
      BY <2>1, <2>2, ShowsStep
  <1>7. QED
    BY <1>2, <1>3, <1>4, <1>5, <1>6

\* A change is on its way.
LEMMA AsksStep ==
  ASSUME Inv, NEW kind \in {"create", "update", "delete", "move"}, NEW i \in Item,
         NEW row \in Row, NEW base \in 0..MaxVersion, NEW behind \in BOOLEAN, NEW u \in Ui,
         Asks(kind, i, row, base, behind, u),
         u.creating = ui.creating, u.editing = ui.editing, u.selected = ui.selected,
         u.draft = ui.draft,
         kind # "create" => NotAhead(server[i], row.version, row.text),
         kind = "update" /\ ~behind => base = row.text
  PROVE  Inv'
  <1> DEFINE c == [id |-> sent + 1, mount |-> mount, item |-> i, kind |-> kind,
                   row |-> row, base |-> base, behind |-> behind, at |-> "sent"]
  <1>1. /\ sent + 1 \in 1..MaxEvents /\ mount \in 1..MaxEvents /\ sent' \in Nat
        /\ mount' = mount /\ mount \in Nat /\ mount' + sent' <= MaxEvents
    BY WebAssumption DEF Asks, Inv, StateInv
  <1>2. c \in Call
    BY <1>1, Zenon DEF Call
  <1>3. /\ c.item = i /\ c.kind = kind /\ c.row = row /\ c.base = base
        /\ c.behind = behind /\ c.at = "sent"
    OBVIOUS
  <1>4. /\ calls' = calls \cup {c} /\ ui' = u /\ keys # None
        /\ UNCHANGED <<server, keys, items, loading, mount, ready, seen, loads, jobs, shown,
                       lost>>
    BY DEF Asks
  <1> HIDE DEF c
  <1>5. CallHolds(c, server[c.item])
    BY <1>3 DEF CallHolds
  <1>6. DataInv'
    BY <1>2, <1>4 DEF Inv, DataInv
  <1>7. StateInv'
    BY <1>1, <1>4, Zenon DEF Inv, StateInv
  <1>8. JobInv' /\ HeldInv' /\ CallInv'
    BY <1>4, <1>5 DEF Inv, JobInv, HeldInv, Held, CallInv
  <1>9. Fits(ui, items)'
    BY <1>4 DEF Inv, Fits, Active
  <1>10. QED
    BY <1>6, <1>7, <1>8, <1>9 DEF Inv

\* The row of the list that the screen shows.
LEMMA ActiveRow ==
  ASSUME Inv, NEW i, i \in Item \cup {None}, Active(items, i)
  PROVE  /\ i \in Item /\ items[i] \in Row
         /\ NotAhead(server[i], items[i].version, items[i].text)
  <1>1. i \in Item /\ items[i] \in Row /\ items[i] # None
    BY DEF Active, Inv, DataInv, Rows
  <1>2. QED
    BY <1>1 DEF Inv, HeldInv, Held

LEMMA SavingUi ==
  ASSUME NEW u \in Ui
  PROVE  LET v == [u EXCEPT !.saving = TRUE]
         IN  /\ v \in Ui /\ v.creating = u.creating /\ v.editing = u.editing
             /\ v.selected = u.selected /\ v.draft = u.draft
  BY DEF Ui

LEMMA SaveNewStep ==
  ASSUME Inv, NEW i \in Item, SaveNew(i)
  PROVE  Inv'
  <1> DEFINE v == [ui EXCEPT !.saving = TRUE]
  <1>1. ui \in Ui
    BY DEF Inv, DataInv
  <1>2. /\ v \in Ui /\ v.creating = ui.creating /\ v.editing = ui.editing
        /\ v.selected = ui.selected /\ v.draft = ui.draft
    BY <1>1, SavingUi
  <1> HIDE DEF v
  <1>3. PICK b \in BOOLEAN : Asks("create", i, Fresh, 0, b, v)
    BY Zenon DEF SaveNew, v
  <1>4. 0 \in 0..MaxVersion
    BY WebAssumption
  <1>5. QED
    BY <1>2, <1>3, <1>4, FreshRow, AsksStep

\* The save carries the row its editor was opened on, or says it is behind.
LEMMA SaveEditedStep ==
  ASSUME Inv, SaveEdited
  PROVE  Inv'
  <1> DEFINE v == [ui EXCEPT !.saving = TRUE]
             i == ui.selected
  <1>1. ui \in Ui
    BY DEF Inv, DataInv
  <1>2. /\ v \in Ui /\ v.creating = ui.creating /\ v.editing = ui.editing
        /\ v.selected = ui.selected /\ v.draft = ui.draft
    BY <1>1, SavingUi
  <1>3. Asks("update", i, items[i], ui.draft.base, ui.draft.behind, v)
    BY DEF SaveEdited
  <1> HIDE DEF v
  <1>4. ui.editing /\ ui.draft # None /\ ~ui.creating
    BY DEF SaveEdited, Inv, DataInv
  <1>5. /\ Active(items, i)
        /\ ~ui.draft.behind => ui.draft.base = items[i].text
    BY <1>4 DEF Inv, Fits
  <1>6. ui.draft.base \in 0..MaxVersion /\ ui.draft.behind \in BOOLEAN
    BY <1>1, <1>4 DEF Ui, Draft
  <1>7. i \in Item \cup {None}
    BY <1>1 DEF Ui
  <1> HIDE DEF i
  <1>8. i \in Item /\ items[i] \in Row /\ NotAhead(server[i], items[i].version, items[i].text)
    BY <1>5, <1>7, ActiveRow
  <1>9. QED
    BY <1>2, <1>3, <1>5, <1>6, <1>8, AsksStep

LEMMA DialogStep ==
  ASSUME Inv, ConfirmDelete \/ MoveItem
  PROVE  Inv'
  <1> DEFINE i == ui.selected
  <1>1. ui \in Ui /\ i \in Item \cup {None} /\ 0 \in 0..MaxVersion
    BY WebAssumption DEF Inv, DataInv, Ui
  <1>2. Active(items, i)
    BY DEF ConfirmDelete, MoveItem, Entry
  <1>3. PICK kind \in {"delete", "move"} : \E b \in BOOLEAN : Asks(kind, i, items[i], 0, b, ui)
    BY Zenon DEF ConfirmDelete, MoveItem
  <1>4. PICK b \in BOOLEAN : Asks(kind, i, items[i], 0, b, ui)
    BY <1>3
  <1> HIDE DEF i
  <1>5. i \in Item /\ items[i] \in Row /\ NotAhead(server[i], items[i].version, items[i].text)
    BY <1>1, <1>2, ActiveRow
  <1>6. kind \in {"create", "update", "delete", "move"} /\ kind # "update"
    OBVIOUS
  <1>7. QED
    BY <1>1, <1>4, <1>5, <1>6, AsksStep

-----------------------------------------------------------------------------
(* The server's part.                                                      *)

\* A change the server carries out: a save finds the version its author had.
LEMMA AppliedDoes ==
  ASSUME Inv, NEW c \in calls, Applied(c) # None,
         c.kind \in {"update", "move"} => server[c.item].version < MaxVersion
  PROVE  LET s == server[c.item]
             t == Applied(c)
         IN  /\ t \in Row /\ Grows(s, t)
             /\ c.kind = "create" => NotAhead(t, 1, 1)
             /\ c.kind = "update" => NotAhead(t, c.row.version + 1, c.row.version + 1)
             /\ c.kind = "move" => NotAhead(t, c.row.version + 1, c.row.text)
             /\ c.kind = "update" /\ ~c.behind => s.text = c.base
  <1> DEFINE s == server[c.item]
             t == Applied(c)
  <1>1. /\ c \in Call /\ c.item \in Item /\ c.row \in Row /\ s \in Row \cup {None}
        /\ CallHolds(c, s)
    BY DEF Inv, DataInv, Call, Rows, CallInv
  <1>2. /\ s # None => s.version \in Nat
        /\ c.row.version \in Nat
    BY <1>1, WebAssumption DEF Row
  <1>3. CASE c.kind = "create"
    <2>1. s = None /\ t = Fresh
      BY <1>3 DEF Applied
    <2>2. t # None
      OBVIOUS
    <2> HIDE DEF s, t
    <2>3. QED
      BY <1>3, <2>1, <2>2, FreshRow DEF Grows, NotAhead, s, t
  <1>4. CASE c.kind = "update"
    <2>1. SameVersion(c) /\ t = Saved(s)
      BY <1>4 DEF Applied
    <2>2. s \in Row /\ s # None /\ s.version = c.row.version /\ s.version < MaxVersion
      BY <1>1, <1>4, <2>1 DEF SameVersion
    <2>3. t # None
      OBVIOUS
    <2> HIDE DEF s, t
    <2>4. t \in Row /\ t.version = s.version + 1 /\ t.text = s.version + 1
      BY <2>1, <2>2, SavedRow
    <2>5. ~c.behind => s.text = c.base
      BY <1>1, <1>4, <2>2 DEF CallHolds, NotAhead
    <2>6. QED
      BY <1>2, <1>4, <2>2, <2>3, <2>4, <2>5 DEF Grows, NotAhead, s, t
  <1>5. CASE c.kind = "delete"
    <2>1. Active(server, c.item) /\ t = [s EXCEPT !.deleted = TRUE]
      BY <1>5 DEF Applied
    <2>2. s \in Row
      BY <1>1, <2>1 DEF Active
    <2>3. t # None
      OBVIOUS
    <2> HIDE DEF s, t
    <2>4. t \in Row /\ t.version = s.version /\ t.text = s.text
      BY <2>1, <2>2, TrashedRow
    <2>5. QED
      BY <1>5, <2>3, <2>4 DEF Grows, s, t
  <1>6. CASE c.kind = "move"
    <2>1. s # None /\ t = [s EXCEPT !.version = @ + 1]
      BY <1>6 DEF Applied
    <2>2. s \in Row /\ s.version < MaxVersion
      BY <1>1, <1>6, <2>1
    <2>3. t # None
      OBVIOUS
    <2> HIDE DEF s, t
    <2>4. t \in Row /\ t.version = s.version + 1 /\ t.text = s.text
      BY <2>1, <2>2, MovedRow
    <2>5. NotAhead(s, c.row.version, c.row.text)
      BY <1>1, <1>6 DEF CallHolds
    <2>6. QED
      BY <1>2, <1>6, <2>1, <2>3, <2>4, <2>5 DEF Grows, NotAhead, s, t
  <1>7. c.kind \in {"create", "update", "delete", "move"}
    BY <1>1 DEF Call
  <1> HIDE DEF s, t
  <1>8. QED
    BY <1>3, <1>4, <1>5, <1>6, <1>7 DEF s, t

LEMMA CallAt ==
  ASSUME NEW c \in Call, NEW at \in {"done", "failed"}
  PROVE  LET d == [c EXCEPT !.at = at]
         IN  /\ d \in Call /\ d.at = at /\ d.kind = c.kind /\ d.item = c.item
             /\ d.row = c.row /\ d.base = c.base /\ d.behind = c.behind
  BY DEF Call

\* One call is answered by the server, or fails.
LEMMA CallMoves ==
  ASSUME Inv, NEW c \in calls, NEW at \in {"done", "failed"}, Becomes(c, at),
         server' \in Rows, \A i \in Item : Grows(server[i], server'[i]),
         at = "done" =>
            /\ c.kind = "create" => NotAhead(server'[c.item], 1, 1)
            /\ c.kind = "update" =>
                  NotAhead(server'[c.item], c.row.version + 1, c.row.version + 1)
            /\ c.kind = "move" => NotAhead(server'[c.item], c.row.version + 1, c.row.text),
         UNCHANGED <<keys, items, loading, mount, ready, seen, loads, jobs, shown, ui, sent>>
  PROVE  Inv'
  <1> DEFINE d == [c EXCEPT !.at = at]
  <1>1. c \in Call
    BY DEF Inv, DataInv
  <1>2. /\ d \in Call /\ d.at = at /\ d.kind = c.kind /\ d.item = c.item
        /\ d.row = c.row /\ d.base = c.base /\ d.behind = c.behind
    BY <1>1, CallAt
  <1>3. calls' = (calls \ {c}) \cup {d}
    BY DEF Becomes
  <1> HIDE DEF d
  <1>4. HeldInv' /\ \A e \in calls : CallHolds(e, server'[e.item])
    BY ServerMoves
  <1>5. CallHolds(d, server'[d.item])
    <2>1. CallHolds(c, server'[c.item])
      BY <1>4
    <2>2. QED
      BY <1>2, <2>1 DEF CallHolds
  <1>6. CallInv'
    BY <1>3, <1>4, <1>5 DEF CallInv, CallHolds, NotAhead
  <1>7. DataInv' /\ StateInv' /\ JobInv'
    BY <1>2, <1>3 DEF Inv, DataInv, StateInv, JobInv
  <1>8. QED
    BY <1>4, <1>6, <1>7 DEF Inv, Fits, Active

LEMMA SameGrows ==
  ASSUME Inv
  PROVE  server \in Rows /\ \A i \in Item : Grows(server[i], server[i])
  BY DEF Inv, DataInv, Grows

LEMMA ServeDoes ==
  ASSUME Inv, NEW c \in calls, Serve(c)
  PROVE  /\ Inv'
         /\ c.kind = "update" /\ ~c.behind => server[c.item].text = c.base
  <1> DEFINE s == server[c.item]
             t == Applied(c)
  <1>1. /\ t # None /\ server' = [server EXCEPT ![c.item] = t]
        /\ c.kind \in {"update", "move"} => s.version < MaxVersion
        /\ UNCHANGED <<keys, items, loading, mount, ready, seen, loads, jobs, shown, ui, sent>>
    BY DEF Serve
  <1>2. /\ t \in Row /\ Grows(s, t)
        /\ c.kind = "create" => NotAhead(t, 1, 1)
        /\ c.kind = "update" => NotAhead(t, c.row.version + 1, c.row.version + 1)
        /\ c.kind = "move" => NotAhead(t, c.row.version + 1, c.row.text)
        /\ c.kind = "update" /\ ~c.behind => s.text = c.base
    BY <1>1, AppliedDoes
  <1>3. c.item \in Item
    BY DEF Inv, DataInv, Call
  <1>4. PICK at \in {"done", "failed"} : Becomes(c, at)
    BY DEF Serve
  <1> HIDE DEF t
  <1>5. server' \in Rows /\ server'[c.item] = t
    BY <1>1, <1>2, <1>3 DEF Inv, DataInv, Rows
  <1>6. \A i \in Item : Grows(server[i], server'[i])
    <2>1. \A i \in Item : i # c.item => server'[i] = server[i]
      BY <1>1 DEF Inv, DataInv, Rows
    <2>2. QED
      BY <1>2, <1>5, <2>1, SameGrows
  <1>7. Inv'
    BY <1>1, <1>2, <1>4, <1>5, <1>6, CallMoves
  <1>8. QED
    BY <1>2, <1>7

LEMMA RefuseStep ==
  ASSUME Inv, NEW c \in calls, Refuse(c)
  PROVE  Inv'
  <1>1. /\ Becomes(c, "failed") /\ server' = server
        /\ UNCHANGED <<keys, items, loading, mount, ready, seen, loads, jobs, shown, ui, sent>>
    BY DEF Refuse
  <1>2. server' \in Rows /\ \A i \in Item : Grows(server[i], server'[i])
    BY <1>1, SameGrows
  <1>3. QED
    BY <1>1, <1>2, CallMoves

LEMMA OtherSavesStep ==
  ASSUME Inv, NEW i \in Item, OtherSaves(i)
  PROVE  Inv'
  <1>1. /\ server' = [server EXCEPT ![i] = Saved(server[i])]
        /\ UNCHANGED <<keys, items, loading, mount, ready, seen, loads, jobs, shown, ui, calls,
                       sent, lost>>
    BY DEF OtherSaves
  <1>2. server[i] \in Row /\ server[i].version < MaxVersion
    <2>1. server[i] \in Row /\ server[i].version + 2 < MaxVersion
      BY DEF OtherSaves, Inv, DataInv, Rows
    <2>2. QED
      BY <2>1, WebAssumption DEF Row
  <1>3. PICK t \in Row : /\ t = Saved(server[i]) /\ t.version = server[i].version + 1
    BY <1>2, SavedRow
  <1>4. server[i].version < t.version
    BY <1>2, <1>3, WebAssumption DEF Row
  <1>5. t # None
    BY NoneIsNoRow
  <1>6. server' \in Rows
    BY <1>1, <1>3 DEF Inv, DataInv, Rows
  <1>7. \A k \in Item : server'[k] = IF k = i THEN t ELSE server[k]
    BY <1>1, <1>3 DEF Inv, DataInv, Rows
  <1>8. \A k \in Item : Grows(server[k], server'[k])
    BY <1>4, <1>5, <1>7 DEF Grows
  <1>9. HeldInv' /\ \A c \in calls : CallHolds(c, server'[c.item])
    BY <1>1, <1>6, <1>8, ServerMoves
  <1>10. CallInv'
    BY <1>1, <1>9 DEF CallInv, CallHolds, NotAhead
  <1>11. DataInv' /\ StateInv' /\ JobInv'
    BY <1>1, <1>6 DEF Inv, DataInv, StateInv, JobInv
  <1>12. QED
    BY <1>1, <1>9, <1>10, <1>11 DEF Inv, Fits, Active

-----------------------------------------------------------------------------
(* The answers.                                                            *)

LEMMA AfterSuccessUi ==
  ASSUME NEW u \in Ui, NEW c \in Call
  PROVE  AfterSuccess(c, u) \in Ui /\ ~AfterSuccess(c, u).creating
  <1> DEFINE saving == IF c.kind \in {"create", "update"} THEN FALSE ELSE u.saving
             selected == IF c.kind = "create" THEN c.item
                         ELSE IF c.kind = "update" THEN u.selected ELSE None
  <1>1. AfterSuccess(c, u) = [u EXCEPT !.creating = FALSE, !.editing = FALSE,
                                       !.saving = saving, !.selected = selected]
    BY DEF AfterSuccess
  <1>2. saving \in BOOLEAN
    BY Zenon DEF Ui
  <1>3. selected \in Item \cup {None}
    BY DEF Ui, Call
  <1> HIDE DEF saving, selected
  <1>4. QED
    BY <1>1, <1>2, <1>3 DEF Ui

LEMMA AfterFailureUi ==
  ASSUME NEW u \in Ui, NEW c \in Call
  PROVE  /\ AfterFailure(c, u) \in Ui /\ AfterFailure(c, u).creating = u.creating
         /\ AfterFailure(c, u).editing = u.editing
  <1> DEFINE saving == IF c.kind \in {"create", "update"} THEN FALSE ELSE u.saving
  <1>1. AfterFailure(c, u) = [u EXCEPT !.saving = saving]
    BY DEF AfterFailure
  <1>2. saving \in BOOLEAN
    BY Zenon DEF Ui
  <1> HIDE DEF saving
  <1>3. QED
    BY <1>1, <1>2 DEF Ui

\* The row an answer puts into the list is not ahead of the server's.
LEMMA UpsertedDoes ==
  ASSUME Inv, NEW c \in calls, c.at = "done"
  PROVE  LET r == Upserted(c)
         IN  /\ r \in Row \cup {None}
             /\ c.kind \in {"create", "update"} => r \in Row
             /\ r # None => NotAhead(server[c.item], r.version, r.text)
  <1> DEFINE s == server[c.item]
             r == Upserted(c)
  <1>1. /\ c \in Call /\ c.item \in Item /\ c.row \in Row /\ s \in Row \cup {None}
        /\ CallHolds(c, s)
    BY DEF Inv, DataInv, Call, Rows, CallInv
  <1>2. s # None => s.version \in Nat /\ s.version <= MaxVersion
    BY <1>1, WebAssumption DEF Row
  <1>3. c.row.version \in Nat /\ MaxVersion \in Nat
    BY <1>1, WebAssumption DEF Row
  <1> HIDE DEF s
  <1>4. CASE c.kind = "create"
    <2>1. r = Fresh
      BY <1>4 DEF Upserted
    <2> HIDE DEF r
    <2>2. QED
      BY <1>1, <1>4, <2>1, FreshRow DEF CallHolds, s, r
  <1>5. CASE c.kind = "update"
    <2>1. r = Saved(c.row)
      BY <1>5 DEF Upserted
    <2>2. NotAhead(s, c.row.version + 1, c.row.version + 1)
      BY <1>1, <1>5 DEF CallHolds
    <2>3. c.row.version < MaxVersion
      BY <1>2, <1>3, <2>2 DEF NotAhead
    <2> HIDE DEF r
    <2>4. r \in Row /\ r.version = c.row.version + 1 /\ r.text = c.row.version + 1
      BY <1>1, <2>1, <2>3, SavedRow
    <2>5. QED
      BY <2>2, <2>4 DEF s, r
  <1>6. CASE c.kind = "move"
    <2>1. r = [c.row EXCEPT !.version = @ + 1]
      BY <1>6 DEF Upserted
    <2>2. NotAhead(s, c.row.version + 1, c.row.text)
      BY <1>1, <1>6 DEF CallHolds
    <2>3. c.row.version < MaxVersion
      BY <1>2, <1>3, <2>2 DEF NotAhead
    <2> HIDE DEF r
    <2>4. r \in Row /\ r.version = c.row.version + 1 /\ r.text = c.row.text
      BY <1>1, <2>1, <2>3, MovedRow
    <2>5. QED
      BY <2>2, <2>4 DEF s, r
  <1>7. CASE c.kind = "delete"
    <2>1. items[c.item] \in Row \cup {None}
      BY <1>1 DEF Inv, DataInv, Rows
    <2>2. CASE items[c.item] = None
      BY <1>7, <2>2 DEF Upserted
    <2>3. CASE items[c.item] # None
      <3>1. r = [items[c.item] EXCEPT !.deleted = TRUE]
        BY <1>7, <2>3 DEF Upserted
      <3> HIDE DEF r
      <3>2. r \in Row /\ r.version = items[c.item].version /\ r.text = items[c.item].text
        BY <2>1, <2>3, <3>1, TrashedRow
      <3>3. NotAhead(s, items[c.item].version, items[c.item].text)
        BY <1>1, <2>3 DEF Inv, HeldInv, Held, s
      <3>4. QED
        BY <3>2, <3>3 DEF s, r
    <2>4. QED
      BY <2>2, <2>3
  <1>8. QED
    BY <1>1, <1>4, <1>5, <1>6, <1>7 DEF Call

LEMMA CallAnsweredStep ==
  ASSUME Inv, NEW c \in calls, CallAnswered(c)
  PROVE  Inv' /\ (ready' => \E j \in jobs' : j.live)
  <1> DEFINE r == Upserted(c)
             rows == [items EXCEPT ![c.item] = r]
             u == IF Mounted(c) THEN AfterSuccess(c, ui) ELSE ui
  <1>1. c \in Call /\ c.item \in Item /\ ui \in Ui /\ items \in Rows
        /\ shown \in [Item -> 0..MaxVersion] /\ ~(ui.creating /\ ui.editing)
    BY DEF Inv, DataInv, Call, Text
  <1>2. /\ c.at = "done" /\ items' = rows /\ calls' \subseteq calls
        /\ jobs' = Restarted(keys, rows, ready)
        /\ ui' = IF keys = None THEN ui ELSE Rendered(u, rows, shown)
        /\ UNCHANGED <<server, keys, loading, mount, ready, loads, shown, sent, lost>>
    BY DEF CallAnswered
  <1>3. /\ r \in Row \cup {None} /\ (c.kind \in {"create", "update"} => r \in Row)
        /\ r # None => NotAhead(server[c.item], r.version, r.text)
    BY <1>2, UpsertedDoes
  <1>4. seen' = IF c.kind \in {"create", "update"} /\ seen[c.item] < rows[c.item].text
                THEN [seen EXCEPT ![c.item] = rows[c.item].text] ELSE seen
    BY DEF CallAnswered
  <1> HIDE DEF r
  <1>5. rows \in Rows /\ \A i \in Item : rows[i] = IF i = c.item THEN r ELSE items[i]
    BY <1>1, <1>3 DEF Rows
  <1> HIDE DEF rows
  <1>6. Held(rows)
    BY <1>3, <1>5 DEF Inv, HeldInv, Held
  <1>7. seen' \in Text
    <2>1. c.kind \in {"create", "update"} => rows[c.item].text \in 0..MaxVersion
      BY <1>1, <1>3, <1>5, WebAssumption DEF Row
    <2>2. seen \in Text
      BY DEF Inv, DataInv
    <2>3. QED
      BY <1>1, <1>4, <2>1, <2>2 DEF Text
  <1>8. u \in Ui /\ ~(u.creating /\ u.editing)
    BY <1>1, AfterSuccessUi
  <1> HIDE DEF u
  <1>9. keys = None => ui' = ui /\ ui.draft = None
    BY <1>2, NoUiType DEF Inv, StateInv
  <1>10. ui' \in Ui /\ ~(ui'.creating /\ ui'.editing) /\ Fits(ui', rows)
    <2>1. CASE keys = None
      BY <1>1, <1>9, <2>1 DEF Fits
    <2>2. CASE keys # None
      BY <1>1, <1>2, <1>5, <1>8, <2>2, RenderedFits
    <2>3. QED
      BY <2>1, <2>2
  <1>11. loading' \in BOOLEAN /\ loads' \subseteq loads
    BY <1>2 DEF Inv, StateInv
  <1>12. QED
    BY <1>2, <1>5, <1>6, <1>7, <1>9, <1>10, <1>11, ListStep

LEMMA CallFailedStep ==
  ASSUME Inv, NEW c \in calls, CallFailed(c)
  PROVE  Inv'
  <1>1. /\ calls' \subseteq calls
        /\ UNCHANGED <<server, keys, items, loading, mount, ready, seen, loads, jobs, shown,
                       sent, lost>>
    BY DEF CallFailed
  <1>2. c \in Call /\ ui \in Ui /\ ~(ui.creating /\ ui.editing)
    BY DEF Inv, DataInv
  <1>3. CASE Mounted(c)
    <2>1. ui' = Rendered(AfterFailure(c, ui), items, shown) /\ keys # None
      BY <1>3 DEF CallFailed, Mounted
    <2>2. PICK u \in Ui : u = AfterFailure(c, ui) /\ ~(u.creating /\ u.editing)
      BY <1>2, AfterFailureUi
    <2>3. QED
      BY <1>1, <2>1, <2>2, UiStep
  <1>4. CASE ~Mounted(c)
    <2>1. ui' = ui
      BY <1>4 DEF CallFailed
    <2>2. HeldInv' /\ CallInv'
      BY <1>1, ServerQuiet
    <2>3. DataInv' /\ StateInv' /\ JobInv'
      BY <1>1, <2>1 DEF Inv, DataInv, StateInv, JobInv
    <2>4. QED
      BY <1>1, <2>1, <2>2, <2>3 DEF Inv, Fits, Active
  <1>5. QED
    BY <1>3, <1>4

LEMMA InvStep ==
  ASSUME Inv, [Next]_vars
  PROVE  Inv'
  <1>1. CASE UNCHANGED vars
    <2>1. HeldInv' /\ CallInv'
      BY <1>1, ServerQuiet DEF vars
    <2>2. DataInv' /\ StateInv' /\ JobInv'
      BY <1>1 DEF vars, Inv, DataInv, StateInv, JobInv
    <2>3. QED
      BY <1>1, <2>1, <2>2 DEF vars, Inv, Fits, Active
  <1>2. QED
    BY <1>1, LoginStep, OpenRevisionStoreStep, LockStep, LoadReadStep, LoadAnsweredStep,
       LoadFailedStep, DecryptedStep, EditStep, SaveNewStep, SaveEditedStep, DialogStep,
       ServeDoes, RefuseStep, CallAnsweredStep, CallFailedStep, OtherSavesStep DEF Next

-----------------------------------------------------------------------------
(* The theorems.                                                           *)

LEMMA InvAlways == Spec => []Inv
  BY InitInv, InvStep, PTL DEF Spec

LEMMA OneLiveJob ==
  ASSUME Inv, NEW j \in jobs, NEW k \in jobs, j.live, k.live
  PROVE  j = k
  <1>1. j \in Job /\ k \in Job
    BY DEF Inv, DataInv
  <1>2. j.acct = k.acct /\ j.items = k.items
    BY DEF Inv, JobInv
  <1>3. j.live = k.live
    BY <1>1 DEF Job
  <1>4. QED
    BY <1>1, <1>2, <1>3 DEF Job

LEMMA TypeHolds ==
  ASSUME Inv
  PROVE  TypeOK
  <1>1. /\ server \in [Item -> Row \cup {None}] /\ items \in [Item -> Row \cup {None}]
        /\ seen \in [Item -> 0..MaxVersion] /\ shown \in [Item -> 0..MaxVersion]
        /\ calls \subseteq Call
    BY DEF Inv, DataInv, Rows, Text
  <1>2. mount \in 0..MaxEvents /\ sent \in 0..MaxEvents
    BY WebAssumption DEF Inv, StateInv
  <1>3. /\ \A l \in loads : l.mount \in 1..MaxEvents /\ l.acct \in Account
        /\ \A j \in jobs : j.acct \in Account /\ j.live \in BOOLEAN
    BY DEF Inv, DataInv, Load, Job
  <1>4. /\ ui.selected \in Item \cup {None} /\ ui.draft \in Draft \cup {None}
        /\ ui.creating \in BOOLEAN /\ ui.editing \in BOOLEAN /\ ~(ui.creating /\ ui.editing)
    BY DEF Inv, DataInv, Ui
  <1>5. /\ keys \in Account \cup {None} /\ loading \in BOOLEAN /\ ready \in BOOLEAN
        /\ keys = None => ui = NoUi /\ ~ready
    BY Zenon DEF Inv, StateInv
  <1>6. keys = None => \A j \in jobs : ~j.live
    BY <1>5 DEF Inv, JobInv
  <1>7. QED
    BY <1>1, <1>2, <1>3, <1>4, <1>5, <1>6, OneLiveJob, Zenon DEF TypeOK

\* The store, the provider and every request and decryption in flight stay well
\* formed; at most one decryption may set the map, and none once the tab is locked.
THEOREM TypeCorrect == Spec => []TypeOK
  BY InvAlways, TypeHolds, PTL

LEMMA LostStep ==
  ASSUME Inv, NoStaleSave, [Next]_vars
  PROVE  NoStaleSave'
  <1>1. ASSUME NEW c \in calls, Serve(c)
        PROVE  NoStaleSave'
    <2>1. c.kind = "update" /\ ~c.behind => server[c.item].text = c.base
      BY <1>1, ServeDoes
    <2>2. lost' = (lost \/ /\ c.kind = "update" /\ ~c.behind
                           /\ server[c.item].text # c.base)
      BY <1>1 DEF Serve
    <2>3. QED
      BY <2>1, <2>2, Zenon DEF NoStaleSave
  <1>2. ASSUME UNCHANGED lost
        PROVE  NoStaleSave'
    BY <1>2, Zenon DEF NoStaleSave
  <1>3. QED
    BY <1>1, <1>2, Zenon DEF Next, vars, Login, OpenRevisionStore, Lock, LoadRead,
       LoadAnswered, LoadFailed, Decrypted, OpenItem, SaveNew, OtherSaves, StartCreate,
       StartEdit, CancelEdit, Deselect, SaveEdited, ConfirmDelete, MoveItem, Refuse,
       CallAnswered, CallFailed, Shows, Asks

\* Whatever other devices save and however the answers of loads, saves and
\* moves are ordered, an accepted save replaces the text its editor started
\* from, unless the list had moved on under the editor or before it opened.
THEOREM SavesAreCurrent == Spec => []NoStaleSave
  <1>1. Init => NoStaleSave
    BY Zenon DEF Init, NoStaleSave
  <1>2. Inv /\ NoStaleSave /\ [Next]_vars => NoStaleSave'
    BY LostStep
  <1>3. QED
    BY <1>1, <1>2, InvAlways, PTL DEF Spec

\* Nothing the view depends on has changed.
LEMMA ViewKept ==
  ASSUME ViewMatchesRows, UNCHANGED <<ready, jobs, items, keys, shown, seen>>
  PROVE  ViewMatchesRows'
  BY DEF ViewMatchesRows, Active

\* While a decryption of the list is under way nothing is claimed.
LEMMA ViewPending ==
  ASSUME ready' => \E j \in jobs' : j.live
  PROVE  ViewMatchesRows'
  BY DEF ViewMatchesRows

LEMMA ViewDecrypted ==
  ASSUME Inv, ViewMatchesRows, NEW j \in jobs, Decrypted(j)
  PROVE  ViewMatchesRows'
  <1>1. PICK texts \in Text :
           /\ jobs' = jobs \ {j}
           /\ \A i \in Item :
                 IF Opens(j, i)
                 THEN texts[i] = j.items[i].text /\ seen'[i] = texts[i] /\ seen[i] <= seen'[i]
                      /\ texts[i] # 0
                 ELSE texts[i] = 0 /\ seen'[i] = seen[i]
           /\ seen' \in Text
           /\ shown' = IF j.live THEN texts ELSE shown
           /\ UNCHANGED <<keys, items, ready>>
    BY DecryptedDoes
  <1>2. \A i \in Item : seen[i] \in Nat /\ seen'[i] \in Nat
    BY <1>1, WebAssumption DEF Inv, DataInv, Text
  <1>3. \A i \in Item : Active(items, i) => items[i].text \in Nat
    BY WebAssumption DEF Inv, DataInv, Rows, Row, Active
  <1>4. CASE j.live
    <2>1. j.items = items /\ j.acct = keys /\ shown' = texts
      BY <1>1, <1>4 DEF Inv, JobInv
    <2>2. ASSUME NEW i \in Item
          PROVE  \/ shown'[i] # 0 /\ Active(items, i) /\ Owner[i] = keys
                    /\ shown'[i] = items[i].text
                 \/ shown'[i] = 0 /\ (\/ ~Active(items, i) \/ Owner[i] # keys
                                      \/ items[i].text < seen'[i])
      <3>1. CASE Opens(j, i)
        BY <1>1, <2>1, <3>1 DEF Opens
      <3>2. CASE ~Opens(j, i)
        BY <1>1, <1>2, <1>3, <2>1, <3>2 DEF Opens
      <3>3. QED
        BY <3>1, <3>2
    <2>3. QED
      BY <1>1, <2>2 DEF ViewMatchesRows, Active
  <1>5. CASE ~j.live
    <2> SUFFICES ASSUME ready, \A k \in jobs' : ~k.live, NEW i \in Item
                 PROVE  \/ shown[i] # 0 /\ Active(items, i) /\ Owner[i] = keys
                           /\ shown[i] = items[i].text
                        \/ shown[i] = 0 /\ (\/ ~Active(items, i) \/ Owner[i] # keys
                                            \/ items[i].text < seen'[i])
      BY <1>1, <1>5 DEF ViewMatchesRows, Active
    <2>1. \/ shown[i] # 0 /\ Active(items, i) /\ Owner[i] = keys
             /\ shown[i] = items[i].text
          \/ shown[i] = 0 /\ (\/ ~Active(items, i) \/ Owner[i] # keys
                              \/ items[i].text < seen[i])
      BY <1>1, <1>5 DEF ViewMatchesRows
    <2>2. seen[i] <= seen'[i]
      BY <1>1, <1>2
    <2>3. QED
      BY <1>2, <1>3, <2>1, <2>2
  <1>6. QED
    BY <1>4, <1>5

LEMMA ViewStep ==
  ASSUME Inv, ViewMatchesRows, [Next]_vars
  PROVE  ViewMatchesRows'
  <1>1. CASE UNCHANGED vars
    BY <1>1, ViewKept DEF vars
  <1>2. ASSUME NEW a \in Account, Login(a)
        PROVE  ViewMatchesRows'
    BY <1>2, ViewPending DEF Login, Inv, StateInv
  <1>3. CASE OpenRevisionStore
    <2>1. PICK opened \in BOOLEAN : opened /\ jobs' = Restarted(keys, items, opened)
      BY <1>3, Zenon DEF OpenRevisionStore
    <2>2. keys # None /\ keys \in Account \cup {None} /\ items \in Rows
      BY <1>3 DEF OpenRevisionStore, Inv, StateInv, DataInv
    <2>3. QED
      BY <2>1, <2>2, RestartedJobs, ViewPending
  <1>4. CASE Lock
    BY <1>4, ViewPending DEF Lock
  <1>5. ASSUME NEW l \in loads, LoadRead(l) \/ LoadFailed(l)
        PROVE  ViewMatchesRows'
    BY <1>5, ViewKept DEF LoadRead, LoadFailed
  <1>6. ASSUME NEW l \in loads, LoadAnswered(l)
        PROVE  ViewMatchesRows'
    BY <1>6, LoadAnsweredStep, ViewPending
  <1>7. ASSUME NEW i \in Item, OpenItem(i) \/ SaveNew(i) \/ OtherSaves(i)
        PROVE  ViewMatchesRows'
    BY <1>7, ViewKept DEF OpenItem, SaveNew, OtherSaves, Shows, Asks
  <1>8. CASE \/ StartCreate \/ StartEdit \/ CancelEdit \/ Deselect
             \/ SaveEdited \/ ConfirmDelete \/ MoveItem
    BY <1>8, ViewKept DEF StartCreate, StartEdit, CancelEdit, Deselect, SaveEdited,
       ConfirmDelete, MoveItem, Shows, Asks
  <1>9. ASSUME NEW c \in calls, Serve(c) \/ Refuse(c) \/ CallFailed(c)
        PROVE  ViewMatchesRows'
    BY <1>9, ViewKept DEF Serve, Refuse, CallFailed
  <1>10. ASSUME NEW c \in calls, CallAnswered(c)
         PROVE  ViewMatchesRows'
    BY <1>10, CallAnsweredStep, ViewPending
  <1>11. QED
    BY <1>1, <1>2, <1>3, <1>4, <1>5, <1>6, <1>7, <1>8, <1>9, <1>10, ViewDecrypted DEF Next

\* Once nothing is being decrypted the screen shows the text of the row in the
\* list, for any number of logins of any accounts and answers in any order.
THEOREM ViewIsCurrent == Spec => []ViewMatchesRows
  <1>1. Init => ViewMatchesRows
    BY Zenon DEF Init, ViewMatchesRows
  <1>2. Inv /\ ViewMatchesRows /\ [Next]_vars => ViewMatchesRows'
    BY ViewStep
  <1>3. QED
    BY <1>1, <1>2, InvAlways, PTL DEF Spec

=============================================================================
