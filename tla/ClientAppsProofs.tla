----------------------------- MODULE ClientAppsProofs -----------------------------
(***************************************************************************)
(* Proofs about ClientApps, for any items, devices, links, view limits,    *)
(* exports and budgets.                                                    *)
(***************************************************************************)
EXTENDS ClientApps, FiniteSetTheorems, TLAPS

-----------------------------------------------------------------------------
(* The inductive invariant                                                 *)

\* The records that the model passes around; what a field holds depends on the
\* kind.
IsCall(c) ==
    c \in [from : {c.from}, n : {c.n}, kind : {c.kind}, session : {c.session},
           arg : {c.arg}, at : {c.at}, answer : {c.answer}]

IsPage(p) ==
    p \in [name : {p.name}, n : {p.n}, phase : {p.phase}, busy : {p.busy},
           keys : {p.keys}, data : {p.data}]

IsKit(d) ==
    d \in [n : {d.n}, session : {d.session}, code : {d.code}, keys : {d.keys},
           pending : {d.pending}]

IsLoop(l) ==
    l \in [n : {l.n}, file : {l.file}, left : {l.left}, waits : {l.waits},
           done : {l.done}, failed : {l.failed}, made : {l.made}]

\* The numbers that tell visits, requests and codes apart come from the events.
NumberInv ==
    /\ events \in Nat /\ logins \in 0..events
    /\ budget \in [desktop : Nat, web : Nat]
    /\ events + budget.desktop + budget.web <= MaxEvents
    /\ \A c \in calls : IsCall(c) /\ c.at \in {"sent", "done"} /\ c.n \in 0..events
    /\ IsPage(page) /\ page.n \in 0..events
    /\ page.name # "vault" => page.n > 0
    /\ \A d \in deriving : IsKit(d) /\ d.n \in 0..events
    /\ \A l \in loops : IsLoop(l) /\ l.n \in 0..events

\* Visit n of a page is on the screen.
OnScreenNow(n) == n = page.n /\ page.name # "vault"

\* The pages that wait for an answer which changes their data.
Asker == [status |-> "kit", clear_kit |-> "kit", devices |-> "devices",
          remove_device |-> "devices", shares |-> "shares", revoke |-> "shares",
          recovery_init |-> "recover"]

\* An answer that a page takes for its own belongs to that page.
VisitInv ==
    \A c \in calls :
       c.kind \in DOMAIN Asker /\ OnScreenNow(c.n) => page.name = Asker[c.kind]

-----------------------------------------------------------------------------
Table == [Item -> Row \cup {None}]

Had(i, version, text) == <<version, text>> \in past[i]

\* Every row of the table is one the server had.
Served(table) ==
    \A i \in Item : table[i] # None => Had(i, table[i].version, table[i].text)

\* What an answer about an item says is in the item's past.
RowCall(c) ==
    /\ c.kind \in {"create", "update", "delete"} => c.arg.item \in Item /\ c.arg.text \in Nat
    /\ c.kind = "update" => c.arg.row \in Row
    /\ c.kind = "items" /\ c.at = "done" =>
          c.answer.rows \in Table /\ Served(c.answer.rows)
    /\ c.kind = "create" /\ c.at = "done" =>
          c.answer.row = New(c.arg.text) /\ Had(c.arg.item, 1, c.arg.text)
    /\ c.kind = "update" /\ c.at = "done" =>
          Had(c.arg.item, c.arg.row.version + 1, c.arg.text)

\* What the desktop holds of the items.
HeldRows ==
    /\ store \in Table /\ local \in Table /\ writes \subseteq Table
    /\ modal # None => (modal.item # None => modal.item \in Item /\ modal.row \in Row)
    /\ Served(store) /\ Served(local)
    /\ \A table \in writes : Served(table)

RowsInv ==
    /\ rows \in Table /\ past \in [Item -> SUBSET (Nat \X Nat)]
    /\ HeldRows /\ Served(rows)
    /\ \A i \in Item : past[i] # {} => rows[i] # None
    /\ \A c \in calls : RowCall(c)

-----------------------------------------------------------------------------
\* The requests that carry a new code on its way to the kit.
Carries(c) == c.kind \in {"register", "login", "set_kit", "recovery"}

\* A code is made once, travels in one place, and is shown last.
CodeInv ==
    /\ known \subseteq 0..events
    /\ \A c \in calls : Carries(c) => c.arg.code \in 1..events /\ c.arg.code \notin known
    /\ \A b, c \in calls : Carries(b) /\ Carries(c) /\ b.arg.code = c.arg.code => b = c
    /\ \A d \in deriving :
          /\ d.code \in 1..events /\ d.code \notin known
    /\ \A d, e \in deriving : d.code = e.code => d = e
    /\ \A d \in deriving, c \in calls : Carries(c) => c.arg.code # d.code

\* The kit that is stored, and the codes that may still reach the user.
KitNow ==
    kit # None =>
       /\ kit.code \in 0..events /\ kit.keys \in Keys
       /\ kit.code \in known => kit.keys = "real"
       /\ \A d \in deriving : d.code # kit.code
       /\ \A c \in calls : Carries(c) /\ c.arg.code = kit.code =>
             c.kind \in {"set_kit", "recovery"} /\ c.arg.keys = kit.keys

KitCall(c) ==
    /\ c.kind = "set_kit" =>
          c.arg.keys \in Keys /\ (OnScreenNow(c.n) => c.arg.keys = "real")
    /\ c.kind = "recovery" => c.arg.keys = "real"
    /\ c.kind = "recovery_init" =>
          c.arg.code \in known /\ (c.at = "done" => c.answer.keys = "real")

KitPage ==
    /\ page.name = "recover" /\ page.phase = "new-password" => page.keys = "real"
    /\ page.name = "register" /\ page.phase = "kit" => page.keys \in {"real", None}

\* Zeros are wrapped only for a code that will not be shown.
KitInv ==
    /\ account \in {"none", "real"} /\ KitNow /\ KitPage
    /\ \A d \in deriving : d.keys \in Keys /\ (OnScreenNow(d.n) => d.keys = "real")
    /\ \A c \in calls : KitCall(c)

-----------------------------------------------------------------------------
\* The session a login opens.
SessionOf(c) == [of |-> c.from, n |-> c.arg.code, device |-> None]

\* The login is still to come.
Unopened(c) == c.kind = "register" \/ (c.kind = "login" /\ c.at = "sent")

Ending == {"change", "sign_out_others", "remove_device"}

Numbered(s) == s \in Session /\ (s.of # "cli" => s.n <= events)

Logins == {"web", "check", "desktop"}

\* What a request says of the sessions that it opens or ends.
SessionCall(c) ==
    /\ c.kind \in {"register", "login"} => c.from \in Logins
    /\ Unopened(c) => SessionOf(c) \notin sessions \cup out
    /\ c.kind = "login" /\ c.at = "done" => c.answer.session = SessionOf(c)
    /\ c.kind \in Ending => \A s \in c.arg.before : Numbered(s)
    /\ c.kind \in {"change", "sign_out_others"} /\ c.at = "done" =>
          c.arg.before \cap sessions \subseteq {c.session}
    /\ c.kind = "remove_device" => c.arg.device \in Device
    /\ c.kind = "remove_device" /\ c.at = "done" =>
          \A s \in c.arg.before \cap sessions : s.device # c.arg.device

\* A session that has ended, or that a request under way ends, is not opened
\* again.
SessionInv ==
    /\ \A s \in sessions \cup out : Numbered(s)
    /\ out \cap sessions = {}
    /\ \A c \in calls : SessionCall(c)
    /\ \A b, c \in calls :
          Unopened(b) /\ c.kind \in Ending => SessionOf(b) \notin c.arg.before

-----------------------------------------------------------------------------
\* No request to create the link is still to be served.
NotComing(s) ==
    \A c \in calls : c.kind = "create_share" /\ c.at = "sent" => c.arg.share # s

\* What a request about a link relies on.
LinkCall(c) ==
    /\ c.kind \in {"create_share", "revoke", "view"} => c.arg.share \in Share
    /\ c.kind = "create_share" =>
          /\ c.arg.limit \in ViewLimits /\ c.arg.share \notin links
          /\ c.at = "sent" => shares[c.arg.share] = None
    /\ c.kind = "revoke" /\ OnScreenNow(c.n) =>
          /\ NotComing(c.arg.share)
          /\ c.at = "done" => shares[c.arg.share] = None
    /\ c.kind = "shares" /\ OnScreenNow(c.n) /\ c.at = "done" =>
          \A s \in c.answer.listed : NotComing(s)
    /\ c.kind = "view" =>
          /\ c.arg.share \in links
          /\ c.arg.late => c.arg.share \in gone
          /\ c.at = "done" => ~c.arg.late

\* The page has its list, or has had it when its button was pressed.
LinksListed ==
    \/ page.data # None
    \/ \E c \in calls : c.kind = "revoke" /\ OnScreenNow(c.n)

\* A link is created once, and a link that the owner knows to be gone stays gone.
LinkInv ==
    /\ shares \in [Share -> ShareRow \cup {None}]
    /\ \A s \in Share : shares[s] # None => shares[s].used <= shares[s].limit
    /\ links \subseteq Share /\ gone \subseteq Share
    /\ \A c \in calls : LinkCall(c)
    /\ \A b, c \in calls :
          b.kind = "create_share" /\ c.kind = "create_share"
             /\ b.arg.share = c.arg.share => b = c
    /\ \A s \in gone : shares[s] = None /\ NotComing(s)
    /\ page.name = "shares" /\ LinksListed => \A s \in page.data.listed : NotComing(s)

\* The views whose answers are on their way.
Viewing(s) == {c \in calls : c.kind = "view" /\ c.at = "done" /\ c.arg.share = s}

Views(s) == reveals[s] + Cardinality(Viewing(s))

\* Each view that was answered, or is about to be, was counted.
ViewInv ==
    /\ reveals \in [Share -> Nat]
    /\ \A s \in Share :
          /\ IsFiniteSet(Viewing(s)) /\ (reveals[s] > 0 => s \in links)
          /\ Views(s) > 0 =>
                \E limit \in ViewLimits :
                   /\ Views(s) <= limit
                   /\ shares[s] # None => shares[s].limit = limit /\ Views(s) <= shares[s].used

-----------------------------------------------------------------------------
Creates(c) == c.from = "web" /\ c.kind = "create"

\* Every entry of the file is somewhere, and what was made is stored.
LoopTally(l) ==
    /\ l.file \in Files /\ l.left \subseteq ParseOnePux(l.file)
    /\ l.waits \in BOOLEAN /\ l.done \in Nat /\ l.failed \in Nat
    /\ l.done + l.failed + Cardinality(l.left) + (IF l.waits THEN 1 ELSE 0)
         = Cardinality(l.file) - Cardinality(Skipped(l.file))
    /\ IsFiniteSet(l.made) /\ Cardinality(l.made) = l.done
    /\ \A i \in l.made : i \in Item /\ past[i] # {}

CreateCall(c) ==
    /\ \E l \in loops : l.n = c.n
    /\ \A l \in loops : l.n = c.n => l.waits /\ c.arg.item \notin l.made

\* The form and the preview come before the loop.
ImportPage ==
    /\ page.name = "import" /\ page.phase \in {"form", "preview"} =>
          \A l \in loops : l.n # page.n
    /\ page.name = "import" /\ page.phase = "preview" =>
          page.data.file \in Files /\ page.data.items = ParseOnePux(page.data.file)

\* A loop has one request under way while it waits and none otherwise, and
\* never makes an item twice.
ImportInv ==
    /\ \A l \in loops : LoopTally(l)
    /\ \A l, m \in loops : l.n = m.n => l = m
    /\ \A b, c \in calls : Creates(b) /\ Creates(c) /\ b.n = c.n => b = c
    /\ \A c \in calls : Creates(c) => CreateCall(c)
    /\ ImportPage

-----------------------------------------------------------------------------
(* Requests                                                                *)

\* d is the request c, answered.
Follows(d, c) ==
    /\ d.from = c.from /\ d.n = c.n /\ d.kind = c.kind /\ d.session = c.session
    /\ d.arg = c.arg /\ IsCall(d)

LEMMA NewCall ==
  ASSUME NEW from, NEW n, NEW kind, NEW session, NEW arg,
         NEW c, c = Call(from, n, kind, session, arg)
  PROVE  /\ c.from = from /\ c.n = n /\ c.kind = kind /\ c.session = session
         /\ c.arg = arg /\ c.at = "sent" /\ c.answer = None /\ IsCall(c)
  BY DEF Call, IsCall

LEMMA DoneCall ==
  ASSUME NEW c \in calls, IsCall(c), NEW a, Done(c, a)
  PROVE  /\ c.at = "sent" /\ UNCHANGED <<events, budget>>
         /\ \E d : /\ Follows(d, c) /\ d.at = "done" /\ d.answer = a
                   /\ calls' = (calls \ {c}) \cup {d}
  <1> DEFINE d == [c EXCEPT !.at = "done", !.answer = a]
  <1>1. Follows(d, c) /\ d.at = "done" /\ d.answer = a
    BY DEF IsCall, Follows
  <1>2. calls' = (calls \ {c}) \cup {d} /\ c.at = "sent" /\ UNCHANGED <<events, budget>>
    BY DEF Done
  <1> HIDE DEF d
  <1>3. QED
    BY <1>1, <1>2

LEMMA ServeDone == ASSUME NEW c, Serve(c) PROVE \E a : Done(c, a)
  BY Zenon DEF Serve, ServeRegister, ServeLogin, ServeLogout, ServeChangePassword,
     ServeDevices, ServeRemoveDevice, ServeSignOutOthers, ServeItems, ServeCreate,
     ServeUpdate, ServeDelete, ServeKitStatus, ServeSetKit, ServeClearKit,
     ServeRecoveryInit, ServeRecovery, ServeCreateShare, ServeShares, ServeRevoke,
     ServeView

LEMMA ServedCall ==
  ASSUME NumberInv, NEW c \in calls, Serve(c)
  PROVE  /\ c.at = "sent" /\ UNCHANGED <<events, budget>>
         /\ \E d : Follows(d, c) /\ d.at = "done" /\ calls' = (calls \ {c}) \cup {d}
  <1>1. PICK a : Done(c, a)
    BY ServeDone
  <1>2. IsCall(c)
    BY DEF NumberInv
  <1>3. QED
    BY <1>1, <1>2, DoneCall, Zenon

\* Each kind of request has its handler.
LEMMA ServeKind ==
  ASSUME NEW c, Serve(c)
  PROVE  /\ c.kind = "register" => ServeRegister(c)
         /\ c.kind = "login" => ServeLogin(c)
         /\ c.kind = "logout" => ServeLogout(c)
         /\ c.kind = "change" => ServeChangePassword(c)
         /\ c.kind = "remove_device" => ServeRemoveDevice(c)
         /\ c.kind = "sign_out_others" => ServeSignOutOthers(c)
         /\ c.kind = "items" => ServeItems(c)
         /\ c.kind = "create" => ServeCreate(c)
         /\ c.kind = "update" => ServeUpdate(c)
         /\ c.kind = "delete" => ServeDelete(c)
         /\ c.kind = "set_kit" => ServeSetKit(c)
         /\ c.kind = "clear_kit" => ServeClearKit(c)
         /\ c.kind = "recovery_init" => ServeRecoveryInit(c)
         /\ c.kind = "recovery" => ServeRecovery(c)
         /\ c.kind = "create_share" => ServeCreateShare(c)
         /\ c.kind = "shares" => ServeShares(c)
         /\ c.kind = "revoke" => ServeRevoke(c)
         /\ c.kind = "view" => ServeView(c)
  BY DEF Serve, ServeRegister, ServeLogin, ServeLogout, ServeChangePassword,
     ServeDevices, ServeRemoveDevice, ServeSignOutOthers, ServeItems, ServeCreate,
     ServeUpdate, ServeDelete, ServeKitStatus, ServeSetKit, ServeClearKit,
     ServeRecoveryInit, ServeRecovery, ServeCreateShare, ServeShares, ServeRevoke,
     ServeView

\* What the handlers of the other kinds leave alone.
LEMMA ServeFrame ==
  ASSUME NEW c, Serve(c)
  PROVE  /\ c.kind \notin {"create", "update", "delete"} => UNCHANGED <<rows, past>>
         /\ c.kind \notin {"register", "recovery"} => UNCHANGED account
         /\ c.kind \notin {"set_kit", "clear_kit", "recovery"} => UNCHANGED kit
         /\ c.kind \notin {"login", "logout", "recovery"} \cup Ending =>
               UNCHANGED sessions
         /\ c.kind \notin {"create_share", "revoke", "view"} => UNCHANGED shares
  BY DEF Serve, ServeRegister, ServeLogin, ServeLogout, ServeChangePassword,
     ServeDevices, ServeRemoveDevice, ServeSignOutOthers, ServeItems, ServeCreate,
     ServeUpdate, ServeDelete, ServeKitStatus, ServeSetKit, ServeClearKit,
     ServeRecoveryInit, ServeRecovery, ServeCreateShare, ServeShares, ServeRevoke,
     ServeView, serverVars, accountVars, Ending

LEMMA ActCounts ==
  ASSUME NumberInv, NEW client \in {"desktop", "web"}, Act(client)
  PROVE  /\ events' = events + 1 /\ events' \in Nat
         /\ budget' \in [desktop : Nat, web : Nat]
         /\ events' + budget'.desktop + budget'.web <= MaxEvents
  BY DEF NumberInv, Act

-----------------------------------------------------------------------------
(* Numbers and visits                                                      *)

LEMMA NumberServer ==
  ASSUME NumberInv, ServerNext, UNCHANGED <<desktopVars, pagesVars>>
  PROVE  NumberInv'
  <1>1. UNCHANGED <<logins, page, deriving, loops>>
    BY DEF desktopVars, pagesVars
  <1>2. ASSUME NEW c \in calls, Serve(c)
        PROVE  NumberInv'
    <2>1. PICK d : Follows(d, c) /\ d.at = "done" /\ calls' = (calls \ {c}) \cup {d}
      BY <1>2, ServedCall
    <2>2. UNCHANGED <<events, budget>>
      BY <1>2, ServedCall
    <2>3. QED
      BY <1>1, <2>1, <2>2 DEF NumberInv, Follows
  <1>3. CASE UNCHANGED calls /\ (Act("desktop") \/ Act("web") \/ UNCHANGED <<events, budget>>)
    <2>1. /\ events' \in {events, events + 1} /\ budget' \in [desktop : Nat, web : Nat]
          /\ events' + budget'.desktop + budget'.web <= MaxEvents
      BY <1>3, ActCounts DEF NumberInv
    <2>2. QED
      BY <1>1, <1>3, <2>1 DEF NumberInv
  <1>4. ASSUME NEW i \in Item, OtherSaves(i)
        PROVE  UNCHANGED calls /\ Act("desktop")
    BY <1>4 DEF OtherSaves
  <1>5. ASSUME NEW s \in Share, Expire(s)
        PROVE  UNCHANGED calls /\ Act("web")
    BY <1>5 DEF Expire
  <1>6. CASE DeleteExpired
    BY <1>3, <1>6 DEF DeleteExpired
  <1>7. QED
    BY <1>2, <1>3, <1>4, <1>5, <1>6, Zenon DEF ServerNext

\* A step that adds at most requests of this moment.
Sends(new) == calls' \subseteq calls \cup new

LEMMA NumberFrame ==
  ASSUME NumberInv, NEW new, Sends(new),
         \A c \in new : IsCall(c) /\ c.at = "sent" /\ c.n \in 0..events',
         Act("desktop") \/ Act("web") \/ UNCHANGED <<events, budget>>,
         UNCHANGED logins \/ (logins' = logins + 1 /\ events' = events + 1),
         IsPage(page'), page'.n \in 0..events', page'.name # "vault" => page'.n > 0,
         \A d \in deriving' : IsKit(d) /\ d.n \in 0..events',
         \A l \in loops' : IsLoop(l) /\ l.n \in 0..events'
  PROVE  NumberInv'
  <1>1. /\ events' \in {events, events + 1} /\ budget' \in [desktop : Nat, web : Nat]
        /\ events' + budget'.desktop + budget'.web <= MaxEvents
    BY ActCounts DEF NumberInv
  <1>2. logins' \in 0..events'
    BY <1>1 DEF NumberInv
  <1>3. \A c \in calls' : IsCall(c) /\ c.at \in {"sent", "done"} /\ c.n \in 0..events'
    BY <1>1 DEF NumberInv, Sends
  <1>4. QED
    BY <1>1, <1>2, <1>3 DEF NumberInv

LEMMA NumberDesktop ==
  ASSUME NumberInv, DesktopNext, UNCHANGED pagesVars
  PROVE  NumberInv'
  <1>1. UNCHANGED <<page, deriving, loops>>
    BY DEF pagesVars
  <1>2. ASSUME NEW new, Sends(new), UNCHANGED logins \/ (logins' = logins + 1 /\ Act("desktop")),
               \A c \in new : IsCall(c) /\ c.at = "sent" /\ c.n \in 0..events',
               Act("desktop") \/ UNCHANGED <<events, budget>>
        PROVE  NumberInv'
    <2>1. events' \in {events, events + 1} /\ (Act("desktop") => events' = events + 1)
      BY <1>2, ActCounts
    <2>2. /\ IsPage(page') /\ page'.n \in 0..events' /\ (page'.name # "vault" => page'.n > 0)
          /\ \A d \in deriving' : IsKit(d) /\ d.n \in 0..events'
          /\ \A l \in loops' : IsLoop(l) /\ l.n \in 0..events'
      BY <1>1, <2>1 DEF NumberInv
    <2>3. QED
      BY <1>2, <2>1, <2>2, NumberFrame
  <1>3. ASSUME calls' \subseteq calls, UNCHANGED logins,
               Act("desktop") \/ UNCHANGED <<events, budget>>
        PROVE  NumberInv'
    <2>1. Sends({}) /\ \A c \in {} : IsCall(c) /\ c.at = "sent" /\ c.n \in 0..events'
      BY <1>3 DEF Sends
    <2>2. QED
      BY <1>2, <1>3, <2>1, Zenon
  <1>4. ASSUME NEW c \in calls,
               SyncAnswered(c) \/ SyncFailed(c) \/ SaveAnswered(c) \/ DeleteAnswered(c)
               \/ DesktopFailed(c)
        PROVE  NumberInv'
    BY <1>3, <1>4 DEF SyncAnswered, SyncFailed, SaveAnswered, DeleteAnswered,
       DesktopFailed, Taken
  <1>5. ASSUME NEW c \in calls, SignedIn(c)
        PROVE  NumberInv'
    <2> DEFINE new == {Call("desktop", c.n, "items", c.answer.session, None)}
    <2>1. Sends(new) /\ UNCHANGED <<logins, events, budget>>
      BY <1>5 DEF SignedIn, Sends
    <2>2. \A b \in new : IsCall(b) /\ b.at = "sent" /\ b.n \in 0..events'
      BY <2>1, NewCall DEF NumberInv
    <2> HIDE DEF new
    <2>3. QED
      BY <1>2, <2>1, <2>2
  <1>6. ASSUME \/ \E n \in publishing : OnSuccess(n)
               \/ \E table \in writes : SyncWritten(table)
               \/ \E table \in writes : \E done \in SUBSET Item : SyncUnwritten(table, done)
               \/ OpenRevisions
               \/ \E table \in jobs : Decrypted(table)
        PROVE  NumberInv'
    BY <1>3, <1>6 DEF OnSuccess, SyncWritten, SyncUnwritten, OpenRevisions, Decrypted, vaultScreen
  <1>7. CASE SignIn
    <2> DEFINE new == {Call("desktop", logins + 1, "login", None, [code |-> events + 1])}
    <2>1. Sends(new) /\ logins' = logins + 1 /\ Act("desktop")
      BY <1>7 DEF SignIn, Sends, Send
    <2>2. \A b \in new : IsCall(b) /\ b.at = "sent" /\ b.n \in 0..events'
      BY <2>1, NewCall, ActCounts DEF NumberInv
    <2> HIDE DEF new
    <2>3. QED
      BY <1>2, <2>1, <2>2
  <1>8. CASE LockDesktop \/ OpenCreate \/ CloseModal
    BY <1>3, <1>8 DEF LockDesktop, OpenCreate, CloseModal, SetModal
  <1>9. ASSUME NEW i \in Item, OpenEditor(i)
        PROVE  NumberInv'
    BY <1>3, <1>9 DEF OpenEditor, SetModal
  <1>10. ASSUME NEW kind, NEW arg, Act("desktop"), UNCHANGED logins,
                Send(Call("desktop", logins, kind, token, arg))
         PROVE  NumberInv'
    <2> DEFINE new == {Call("desktop", logins, kind, token, arg)}
    <2>1. Sends(new)
      BY <1>10 DEF Sends, Send
    <2>2. \A b \in new : IsCall(b) /\ b.at = "sent" /\ b.n \in 0..events'
      BY <1>10, NewCall, ActCounts DEF NumberInv
    <2> HIDE DEF new
    <2>3. QED
      BY <1>2, <1>10, <2>1, <2>2
  <1>11. ASSUME NEW i \in Item, SaveNew(i) \/ DeleteItem(i)
         PROVE  NumberInv'
    BY <1>10, <1>11 DEF SaveNew, DeleteItem, desktopVars
  <1>12. CASE SaveEdited
    BY <1>10, <1>12 DEF SaveEdited
  <1>13. QED
    BY <1>4, <1>5, <1>6, <1>7, <1>8, <1>9, <1>11, <1>12, Zenon
       DEF DesktopNext, DesktopStep, DesktopUser

\* The page stays where it is.
Still == IsPage(page') /\ page'.n = page.n /\ page'.name = page.name

LEMMA ShowsStill ==
  ASSUME NumberInv, NEW c, NEW p, IsPage(p), p.n = page.n, p.name = page.name, Shows(c, p)
  PROVE  Still
  BY DEF NumberInv, IsPage, Shows, Still

LEMMA SubmitStill ==
  ASSUME NumberInv, NEW call, Submit(call)
  PROVE  /\ Still /\ page'.phase = page.phase /\ page'.keys = page.keys
         /\ page'.data = page.data /\ Act("web") /\ calls' = calls \cup {call}
  BY DEF NumberInv, IsPage, Submit, Still, Send

\* The steps of the pages that start, use or end nothing but a request.
LEMMA PageAnswers ==
  ASSUME NumberInv, NEW c \in calls,
         \/ LoggedOut(c) \/ KitStatus(c) \/ CodeVerified(c) \/ Listed(c) \/ PageFailed(c)
  PROVE  /\ Still /\ calls' = calls \ {c}
         /\ UNCHANGED <<tab, deriving, loops, known, out, gone, links, reveals, events,
                        budget>>
  <1>1. CASE LoggedOut(c)
    BY <1>1 DEF LoggedOut, Taken, pagesVars, NumberInv, Still
  <1>2. CASE KitStatus(c) \/ Listed(c)
    BY <1>2 DEF KitStatus, Listed, Taken, NumberInv, IsPage, Still
  <1>3. CASE CodeVerified(c)
    BY <1>3 DEF CodeVerified, Shows, Taken, NumberInv, IsPage, Still
  <1>4. CASE PageFailed(c)
    BY <1>4 DEF PageFailed, AfterFailure, Taken, NumberInv, IsPage, Still
  <1>5. QED
    BY <1>1, <1>2, <1>3, <1>4

LEMMA PageTells ==
  ASSUME NumberInv, NEW c \in calls,
         \/ Recovered(c) \/ PasswordChanged(c) \/ DeviceRevoked(c) \/ OthersSignedOut(c)
         \/ ShareRevoked(c) \/ ShareCreated(c) \/ Revealed(c)
  PROVE  /\ Still /\ calls' = calls \ {c}
         /\ UNCHANGED <<tab, deriving, loops, events, budget>>
  <1>1. CASE Recovered(c) \/ PasswordChanged(c) \/ OthersSignedOut(c)
    BY <1>1 DEF Recovered, PasswordChanged, OthersSignedOut, Shows, Taken, NumberInv,
       IsPage, Still
  <1>2. CASE DeviceRevoked(c) \/ ShareRevoked(c)
    BY <1>2 DEF DeviceRevoked, ShareRevoked, Shows, Drop, Taken, NumberInv, IsPage, Still
  <1>3. CASE ShareCreated(c) \/ Revealed(c)
    BY <1>3 DEF ShareCreated, Revealed, Taken, NumberInv, Still
  <1>4. QED
    BY <1>1, <1>2, <1>3

Buttons == {"register", "login", "clear_kit", "recovery_init", "recovery", "change",
            "remove_device", "sign_out_others", "revoke"}

\* A button of the page sends its request.
Pressed ==
    /\ Still /\ page'.phase = page.phase /\ page'.keys = page.keys
    /\ page'.data = page.data /\ Act("web") /\ page.name # "vault"
    /\ UNCHANGED <<tab, deriving, loops, known, out, gone, links, reveals>>
    /\ \E c : /\ calls' = calls \cup {c} /\ IsCall(c) /\ c.at = "sent"
              /\ c.n = page.n /\ c.kind \in Buttons
              /\ c.kind \in DOMAIN Asker => page.name = Asker[c.kind]

LEMMA PageAsks ==
  ASSUME NumberInv,
         \/ Register \/ Generate \/ Disable \/ SetPassword \/ ChangePassword
         \/ SignOutOthers \/ \E code \in known : VerifyCode(code)
         \/ \E d \in Device : RevokeDevice(d)
         \/ \E s \in Share : RevokeShare(s)
  PROVE  Pressed
  <1>1. ASSUME NEW from, NEW kind, NEW session, NEW arg,
               Submit(Call(from, page.n, kind, session, arg)), page.name # "vault",
               UNCHANGED <<tab, deriving, loops, known, out, gone, links, reveals>>,
               kind \in Buttons,
               kind \in DOMAIN Asker => page.name = Asker[kind]
        PROVE  Pressed
    <2> DEFINE c == Call(from, page.n, kind, session, arg)
    <2>1. /\ c.n = page.n /\ c.kind = kind /\ c.at = "sent" /\ IsCall(c)
      BY NewCall
    <2>2. /\ Still /\ page'.phase = page.phase /\ page'.keys = page.keys
          /\ page'.data = page.data /\ Act("web") /\ calls' = calls \cup {c}
      BY <1>1, SubmitStill
    <2> HIDE DEF c
    <2>3. QED
      BY <1>1, <2>1, <2>2 DEF Pressed
  <1>2. CASE Register \/ Generate \/ Disable
    BY <1>1, <1>2 DEF Register, Generate, Disable, Idle, Ask, Asker,
       Buttons
  <1>3. CASE SetPassword \/ ChangePassword \/ SignOutOthers
    BY <1>1, <1>3 DEF SetPassword, ChangePassword, SignOutOthers, Idle, Ask, Asker,
       Buttons
  <1>4. CASE \/ \E code \in known : VerifyCode(code)
             \/ \E d \in Device : RevokeDevice(d)
             \/ \E s \in Share : RevokeShare(s)
    BY <1>1, <1>4 DEF VerifyCode, RevokeDevice, RevokeShare, Idle, Ask, Asker,
       Buttons
  <1>5. QED
    BY <1>2, <1>3, <1>4

\* The steps that change what a page keeps, and the requests they send.
LEMMA OpenedPage ==
  ASSUME NumberInv, NEW name \in Names \ {"vault"}, OpenPage(name)
  PROVE  /\ IsPage(page') /\ page'.n = events + 1 /\ page'.name = name
         /\ page'.data = None /\ page'.phase \in {"form", "code", "idle"}
         /\ page.name = "vault" /\ Act("web")
         /\ \/ UNCHANGED calls
            \/ \E kind \in {"status", "devices", "shares"} :
                  /\ calls' = calls \cup {Call("web", events + 1, kind, tab, None)}
                  /\ Asker[kind] = name
  <1>1. ASSUME NEW phase
        PROVE  /\ IsPage(Page(name, phase)) /\ Page(name, phase).n = events + 1
               /\ Page(name, phase).name = name /\ Page(name, phase).data = None
               /\ Page(name, phase).phase = phase
    BY DEF Page, IsPage
  <1>2. /\ IsPage(page') /\ page'.n = events + 1 /\ page'.name = name
        /\ page'.data = None /\ page'.phase \in {"form", "code", "idle"}
    BY <1>1 DEF OpenPage
  <1>3. \/ UNCHANGED calls
        \/ /\ name \in {"kit", "devices", "shares"}
           /\ calls' = calls \cup {Call("web", events + 1,
                          CASE name = "kit" -> "status" [] OTHER -> name, tab, None)}
    BY DEF OpenPage, Send
  <1>4. \/ UNCHANGED calls
        \/ \E kind \in {"status", "devices", "shares"} :
              /\ calls' = calls \cup {Call("web", events + 1, kind, tab, None)}
              /\ Asker[kind] = name
    BY <1>3 DEF Asker
  <1>5. QED
    BY <1>2, <1>4 DEF OpenPage

LEMMA LeftPage ==
  ASSUME LeavePage
  PROVE  IsPage(page') /\ page'.n = 0 /\ page'.name = "vault"
  BY DEF LeavePage, Vault, IsPage

LEMMA ChosenFile ==
  ASSUME NumberInv, NEW file, ChooseFile(file)
  PROVE  /\ Still /\ page'.phase = "preview" /\ page.phase = "form"
         /\ page'.data.file = file /\ page'.data.items = ParseOnePux(file)
  BY DEF ChooseFile, Idle, NumberInv, IsPage, Still

LEMMA ButtonStill ==
  ASSUME NumberInv
  PROVE  /\ CodeSaved => Still /\ page'.phase = "idle" /\ page.name = "kit"
         /\ RetryKit => Still /\ page'.phase = page.phase /\ page'.keys = page.keys
                        /\ page'.data = page.data
         /\ StartImport => Still /\ page'.phase = "importing"
  BY DEF CodeSaved, RetryKit, StartImport, NumberInv, IsPage, Still

LEMMA AnswerStill ==
  ASSUME NumberInv, NEW c
  PROVE  /\ SignedUp(c) =>
              Still /\ (page' = page \/ (page'.phase = "kit" /\ page'.keys = "real"))
         /\ KitStored(c) => Still /\ (page' = page \/ page'.phase = "show-code")
         /\ Disabled(c) => Still /\ page'.phase = page.phase /\ page'.keys = page.keys
                           /\ page'.data = page.data
         /\ Imported(c) => Still /\ (page' = page \/ page'.phase = "done")
  <1>1. SignedUp(c) => Still /\ (page' = page \/ (page'.phase = "kit" /\ page'.keys = "real"))
    BY DEF SignedUp, NumberInv, IsPage, Still
  <1>2. KitStored(c) => Still /\ (page' = page \/ page'.phase = "show-code")
    BY DEF KitStored, Shows, NumberInv, IsPage, Still
  <1>3. Disabled(c) => Still /\ page'.phase = page.phase /\ page'.keys = page.keys
                       /\ page'.data = page.data
    BY DEF Disabled, Shows, NumberInv, IsPage, Still
  <1>4. Imported(c) => Still /\ (page' = page \/ page'.phase = "done")
    BY DEF Imported, NumberInv, IsPage, Still
  <1>5. QED
    BY <1>1, <1>2, <1>3, <1>4

LEMMA ZeroPendingKits ==
  ASSUME NumberInv, NEW n
  PROVE  \A d \in ZeroPending(n) :
            \E e \in deriving :
               /\ IsKit(d) /\ d.n = e.n /\ d.code = e.code /\ d.session = e.session
               /\ d = e \/ (d.keys = "zero" /\ e.n = n)
  BY DEF ZeroPending, NumberInv, IsKit

LEMMA NumberPages ==
  ASSUME NumberInv, PagesNext, UNCHANGED desktopVars
  PROVE  NumberInv'
  <1> UNCHANGED logins
    BY DEF desktopVars
  <1>1. ASSUME NEW new, Sends(new), Act("web") \/ UNCHANGED <<events, budget>>,
               \A c \in new : IsCall(c) /\ c.at = "sent" /\ c.n \in 0..events',
               Still,
               \A d \in deriving' : IsKit(d) /\ d.n \in 0..events,
               \A l \in loops' : IsLoop(l) /\ l.n \in 0..events
        PROVE  NumberInv'
    <2>1. events' \in {events, events + 1}
      BY <1>1, ActCounts
    <2>2. /\ IsPage(page') /\ page'.n \in 0..events' /\ (page'.name # "vault" => page'.n > 0)
          /\ \A d \in deriving' : IsKit(d) /\ d.n \in 0..events'
          /\ \A l \in loops' : IsLoop(l) /\ l.n \in 0..events'
      BY <1>1, <2>1 DEF NumberInv, Still
    <2>3. QED
      BY <1>1, <2>2, NumberFrame
  <1>2. /\ \A d \in deriving : IsKit(d) /\ d.n \in 0..events
        /\ \A l \in loops : IsLoop(l) /\ l.n \in 0..events
        /\ \A c \in calls : c.n \in 0..events
        /\ events \in Nat /\ page.n \in 0..events
    BY DEF NumberInv
  <1>3. ASSUME calls' \subseteq calls, Act("web") \/ UNCHANGED <<events, budget>>, Still,
               \A d \in deriving' : IsKit(d) /\ d.n \in 0..events,
               \A l \in loops' : IsLoop(l) /\ l.n \in 0..events
        PROVE  NumberInv'
    <2>1. Sends({}) /\ \A c \in {} : IsCall(c) /\ c.at = "sent" /\ c.n \in 0..events'
      BY <1>3 DEF Sends
    <2>2. QED
      BY <1>1, <1>3, <2>1, Zenon
  <1>4. ASSUME NEW from, NEW n \in 0..events', NEW kind, NEW session, NEW arg,
               Sends({Call(from, n, kind, session, arg)}),
               Act("web") \/ UNCHANGED <<events, budget>>, Still,
               \A d \in deriving' : IsKit(d) /\ d.n \in 0..events,
               \A l \in loops' : IsLoop(l) /\ l.n \in 0..events
        PROVE  NumberInv'
    <2> DEFINE new == {Call(from, n, kind, session, arg)}
    <2>1. \A c \in new : IsCall(c) /\ c.at = "sent" /\ c.n \in 0..events'
      BY NewCall
    <2> HIDE DEF new
    <2>2. QED
      BY <1>1, <1>4, <2>1 DEF new
  <1>5. ASSUME NEW c \in calls,
               \/ LoggedOut(c) \/ KitStatus(c) \/ CodeVerified(c) \/ Listed(c) \/ PageFailed(c)
               \/ Recovered(c) \/ PasswordChanged(c) \/ DeviceRevoked(c) \/ OthersSignedOut(c)
               \/ ShareRevoked(c) \/ ShareCreated(c) \/ Revealed(c)
        PROVE  NumberInv'
    <2>1. Still /\ calls' \subseteq calls /\ UNCHANGED <<deriving, loops, events, budget>>
      BY <1>5, PageAnswers, PageTells
    <2>2. QED
      BY <1>2, <1>3, <2>1
  <1>6. CASE Pressed
    <2>1. PICK c : calls' = calls \cup {c} /\ IsCall(c) /\ c.at = "sent" /\ c.n = page.n
      BY <1>6 DEF Pressed
    <2>2. Act("web") /\ Still /\ UNCHANGED <<deriving, loops>>
      BY <1>6 DEF Pressed
    <2>3. c.n \in 0..events'
      BY <1>2, <2>1, <2>2, ActCounts
    <2>4. Sends({c})
      BY <2>1 DEF Sends
    <2>5. QED
      BY <1>1, <1>2, <2>1, <2>2, <2>3, <2>4
  <1>7. ASSUME NEW name \in Names \ {"vault"}, OpenPage(name)
        PROVE  NumberInv'
    <2>1. Act("web") /\ UNCHANGED <<deriving, loops>> /\ events' = events + 1
      BY <1>7, ActCounts DEF OpenPage
    <2>2. PICK new : /\ Sends(new)
                     /\ \A c \in new : IsCall(c) /\ c.at = "sent" /\ c.n = events + 1
      <3>1. CASE UNCHANGED calls
        <4> DEFINE none == {}
        <4>1. Sends(none) /\ \A c \in none : IsCall(c) /\ c.at = "sent" /\ c.n = events + 1
          BY <3>1 DEF Sends
        <4> HIDE DEF none
        <4>2. QED
          BY <4>1
      <3>2. ASSUME NEW kind, calls' = calls \cup {Call("web", events + 1, kind, tab, None)}
            PROVE  \E new : /\ Sends(new)
                            /\ \A c \in new : IsCall(c) /\ c.at = "sent" /\ c.n = events + 1
        <4> DEFINE new == {Call("web", events + 1, kind, tab, None)}
        <4>1. Sends(new) /\ \A c \in new : IsCall(c) /\ c.at = "sent" /\ c.n = events + 1
          BY <3>2, NewCall DEF Sends
        <4> HIDE DEF new
        <4>2. QED
          BY <4>1
      <3>3. QED
        BY <1>7, <3>1, <3>2, OpenedPage
    <2>3. IsPage(page') /\ page'.n = events + 1
      BY <1>7, OpenedPage
    <2>4. \A d \in deriving' : IsKit(d) /\ d.n \in 0..events'
      BY <1>2, <2>1
    <2>5. \A l \in loops' : IsLoop(l) /\ l.n \in 0..events'
      BY <1>2, <2>1
    <2>6. \A c \in new : IsCall(c) /\ c.at = "sent" /\ c.n \in 0..events'
      BY <1>2, <2>1, <2>2
    <2>7. page'.n \in 0..events' /\ page'.n > 0
      BY <1>2, <2>1, <2>3
    <2>8. QED
      BY <2>1, <2>2, <2>3, <2>4, <2>5, <2>6, <2>7, NumberFrame
  <1>8. CASE LeavePage
    <2>1. /\ UNCHANGED <<calls, loops, events, budget>>
          /\ \A d \in deriving' : IsKit(d) /\ d.n \in 0..events
      BY <1>2, <1>8, ZeroPendingKits DEF LeavePage
    <2>2. QED
      BY <1>2, <1>8, <2>1, LeftPage DEF NumberInv
  <1>9. CASE CodeSaved \/ \E file \in Files : ChooseFile(file)
    <2>1. Still /\ UNCHANGED <<calls, deriving, loops>>
      BY <1>9, ButtonStill, ChosenFile DEF CodeSaved, ChooseFile
    <2>2. Act("web") \/ UNCHANGED <<events, budget>>
      BY <1>9 DEF CodeSaved, ChooseFile
    <2>3. QED
      BY <1>2, <1>3, <2>1, <2>2
  <1>10. ASSUME NEW c \in calls, Registered(c) \/ Disabled(c)
         PROVE  NumberInv'
    <2>1. UNCHANGED <<deriving, loops, events, budget>> /\ Still
      BY <1>10, AnswerStill DEF Registered, Disabled, pagesVars, Still, NumberInv
    <2>2. \/ Sends({Call("web", c.n, "login", None, c.arg)})
          \/ Sends({Call("web", c.n, "status", c.session, None)})
      BY <1>10 DEF Registered, Disabled, Sends
    <2>3. QED
      BY <1>2, <1>4, <2>1, <2>2
  <1>11. ASSUME NEW c \in calls, KitStored(c)
         PROVE  NumberInv'
    <2>1. UNCHANGED <<deriving, loops, events, budget>> /\ Still
      BY <1>11, AnswerStill DEF KitStored
    <2>2. Sends({Call("web", c.n, "status", c.session, None)})
      BY <1>11 DEF KitStored, Sends
    <2>3. QED
      BY <1>2, <1>4, <2>1, <2>2
  <1>12. ASSUME NEW n \in 0..events, NEW session, NEW code, NEW keys, NEW pending,
                deriving' = deriving \cup {[n |-> n, session |-> session, code |-> code,
                                            keys |-> keys, pending |-> pending]}
         PROVE  \A d \in deriving' : IsKit(d) /\ d.n \in 0..events
    BY <1>2, <1>12 DEF IsKit
  <1>13. ASSUME NEW c \in calls, SignedUp(c)
         PROVE  NumberInv'
    <2>1. \A d \in deriving' : IsKit(d) /\ d.n \in 0..events
      BY <1>2, <1>12, <1>13 DEF SignedUp
    <2>2. Still /\ calls' \subseteq calls /\ UNCHANGED <<loops, events, budget>>
      BY <1>13, AnswerStill DEF SignedUp, Taken
    <2>3. QED
      BY <1>2, <1>3, <2>1, <2>2
  <1>14. CASE RetryKit
    <2>1. \A d \in deriving' : IsKit(d) /\ d.n \in 0..events
      BY <1>2, <1>12, <1>14 DEF RetryKit
    <2>2. Still /\ UNCHANGED <<calls, loops>> /\ Act("web")
      BY <1>14, ButtonStill DEF RetryKit
    <2>3. QED
      BY <1>2, <1>3, <2>1, <2>2
  <1>15. ASSUME NEW c \in calls, Checked(c)
         PROVE  NumberInv'
    <2>1. \A d \in deriving' : IsKit(d) /\ d.n \in 0..events
      BY <1>2, <1>12, <1>15 DEF Checked
    <2>2. /\ UNCHANGED <<loops, events, budget>> /\ Still
          /\ Sends({Call("check", c.n, "logout", c.answer.session, None)})
      BY <1>15 DEF Checked, Sends, Still, NumberInv
    <2>3. QED
      BY <1>2, <1>4, <2>1, <2>2
  <1>16. ASSUME NEW d \in deriving, Derived(d)
         PROVE  NumberInv'
    <2>1. /\ UNCHANGED <<loops, events, budget>> /\ Still /\ deriving' \subseteq deriving
          /\ Sends({Call("web", d.n, "set_kit", d.session, [code |-> d.code, keys |-> d.keys])})
      BY <1>16 DEF Derived, Sends, Send, Still, NumberInv
    <2>2. QED
      BY <1>2, <1>4, <2>1
  <1>17. ASSUME NEW s \in Share, NEW limit \in ViewLimits, CreateShare(s, limit)
         PROVE  NumberInv'
    <2>1. /\ Act("web") /\ UNCHANGED <<deriving, loops>> /\ Still
          /\ Sends({Call("web", 0, "create_share", tab, [share |-> s, limit |-> limit])})
      BY <1>17 DEF CreateShare, Sends, Send, Still, NumberInv, pagesVars
    <2>2. 0 \in 0..events'
      BY <1>2, <2>1, ActCounts
    <2>3. QED
      BY <1>2, <1>4, <2>1, <2>2
  <1>18. ASSUME NEW s \in Share, NEW good \in BOOLEAN, Reveal(s, good)
         PROVE  NumberInv'
    <2>1. /\ Act("web") /\ UNCHANGED <<deriving, loops>> /\ Still
          /\ Sends({Call("viewer", events + 1, "view", None,
                         [share |-> s, good |-> good, late |-> s \in gone])})
      BY <1>18 DEF Reveal, Sends, Send, Still, NumberInv, pagesVars
    <2>2. events + 1 \in 0..events'
      BY <1>2, <2>1, ActCounts
    <2>3. QED
      BY <1>2, <1>4, <2>1, <2>2
  <1>19. CASE StartImport
    <2>1. /\ Still /\ UNCHANGED <<calls, deriving>> /\ Act("web")
          /\ loops' = loops \cup {[n |-> page.n, file |-> page.data.file,
                                   left |-> page.data.items, waits |-> FALSE,
                                   done |-> 0, failed |-> 0, made |-> {}]}
      BY <1>19, ButtonStill DEF StartImport
    <2>2. \A l \in loops' : IsLoop(l) /\ l.n \in 0..events
      BY <1>2, <2>1 DEF IsLoop
    <2>3. QED
      BY <1>2, <1>3, <2>1, <2>2
  <1>20. ASSUME NEW l \in loops, NEW i \in Item, ImportNext(l, i)
         PROVE  NumberInv'
    <2>1. /\ Still /\ UNCHANGED <<deriving, events, budget>>
          /\ Sends({Call("web", l.n, "create", tab, [item |-> i, row |-> None, text |-> 0])})
      BY <1>20 DEF ImportNext, Sends, Send, Still, NumberInv
    <2>2. PICK item : loops' = (loops \ {l}) \cup
                                  {[l EXCEPT !.left = @ \ {item}, !.waits = TRUE]}
      BY <1>20 DEF ImportNext
    <2>3. \A m \in loops' : IsLoop(m) /\ m.n \in 0..events
      BY <1>2, <2>2 DEF IsLoop
    <2>4. QED
      BY <1>2, <1>4, <2>1, <2>3
  <1>21. ASSUME NEW c \in calls, Imported(c)
         PROVE  NumberInv'
    <2>1. Still /\ calls' \subseteq calls /\ UNCHANGED <<deriving, events, budget>>
      BY <1>21, AnswerStill DEF Imported, Taken
    <2>2. PICK l \in loops, ok \in {Answered(c), FALSE} :
             loops' = (loops \ {l}) \cup {Counted(l, ok, c.arg.item)}
      BY <1>21 DEF Imported
    <2>3. IsLoop(Counted(l, ok, c.arg.item)) /\ Counted(l, ok, c.arg.item).n = l.n
      BY <1>2 DEF Counted, IsLoop
    <2>4. \A m \in loops' : IsLoop(m) /\ m.n \in 0..events
      BY <1>2, <2>2, <2>3
    <2>5. QED
      BY <1>2, <1>3, <2>1, <2>4
  <1>22. QED
    <2>1. CASE PagesStep
      BY <1>5, <1>10, <1>11, <1>13, <1>15, <1>16, <1>20, <1>21, <2>1, Zenon DEF PagesStep
    <2>2. CASE PagesUser
      BY <1>6, <1>7, <1>8, <1>9, <1>14, <1>17, <1>18, <1>19, <2>2, PageAsks, Zenon
         DEF PagesUser
    <2>3. QED
      BY <2>1, <2>2 DEF PagesNext

\* A visit that is on the screen after a step was on it before, on the same page.
LEMMA ScreenStep ==
  ASSUME NumberInv, Next
  PROVE  \A n \in 0..events : OnScreenNow(n)' => OnScreenNow(n) /\ page'.name = page.name
  <1>1. CASE Still
    BY <1>1 DEF Still, OnScreenNow
  <1>2. CASE UNCHANGED page
    BY <1>2 DEF OnScreenNow
  <1>3. CASE page'.name = "vault"
    BY <1>3 DEF OnScreenNow
  <1>4. CASE page'.n = events + 1
    BY <1>4 DEF OnScreenNow, NumberInv
  <1>5. CASE PagesStep
    <2>1. ASSUME NEW c \in calls, Registered(c) \/ Checked(c)
          PROVE  UNCHANGED page
      BY <2>1 DEF Registered, Checked, pagesVars
    <2>2. ASSUME NEW d \in deriving, Derived(d)
          PROVE  UNCHANGED page
      BY <2>2 DEF Derived
    <2>3. ASSUME NEW l \in loops, NEW i \in Item, ImportNext(l, i)
          PROVE  UNCHANGED page
      BY <2>3 DEF ImportNext
    <2>4. QED
      BY <1>1, <1>2, <1>5, <2>1, <2>2, <2>3, PageAnswers, PageTells, AnswerStill, Zenon
         DEF PagesStep
  <1>6. CASE PagesUser
    <2>1. ASSUME NEW s \in Share,
                 \/ \E limit \in ViewLimits : CreateShare(s, limit)
                 \/ \E good \in BOOLEAN : Reveal(s, good)
          PROVE  UNCHANGED page
      BY <2>1 DEF CreateShare, Reveal, pagesVars
    <2>2. ASSUME Pressed PROVE Still
      BY <2>2 DEF Pressed
    <2>3. QED
      BY <1>1, <1>2, <1>3, <1>4, <1>6, <2>1, <2>2, PageAsks, OpenedPage, LeftPage,
         ButtonStill, ChosenFile, ZenonT(40) DEF PagesUser
  <1>7. ASSUME UNCHANGED pagesVars
        PROVE  UNCHANGED page
    BY <1>7 DEF pagesVars
  <1>8. QED
    BY <1>2, <1>5, <1>6, <1>7 DEF Next, PagesNext

LEMMA NumberStep ==
  ASSUME NumberInv, [Next]_vars
  PROVE  NumberInv'
  <1>1. CASE UNCHANGED vars
    BY <1>1 DEF vars, desktopVars, pagesVars, NumberInv
  <1>2. QED
    BY <1>1, NumberServer, NumberDesktop, NumberPages DEF Next

-----------------------------------------------------------------------------
(* What each step changes, and which requests it adds                      *)

LEMMA PagesFrame ==
  ASSUME PagesNext
  PROVE  /\ \/ UNCHANGED known
            \/ \E c \in calls : KitStored(c) \/ Recovered(c)
         /\ \/ UNCHANGED deriving
            \/ RetryKit \/ LeavePage
            \/ \E c \in calls : SignedUp(c) \/ Checked(c)
            \/ \E d \in deriving : Derived(d)
         /\ \/ UNCHANGED out
            \/ \E c \in calls : PasswordChanged(c) \/ DeviceRevoked(c) \/ OthersSignedOut(c)
         /\ UNCHANGED gone \/ \E c \in calls : ShareRevoked(c)
         /\ UNCHANGED links \/ \E c \in calls : ShareCreated(c)
         /\ UNCHANGED reveals \/ \E c \in calls : Revealed(c)
         /\ \/ UNCHANGED loops \/ StartImport
            \/ \E l \in loops, i \in Item : ImportNext(l, i)
            \/ \E c \in calls : Imported(c)
         /\ UNCHANGED serverVars
  <1> USE DEF PagesNext, PagesStep, PagesUser
  <1>1. \/ UNCHANGED known
        \/ \E c \in calls : KitStored(c) \/ Recovered(c)
    BY DEF Registered, SignedUp, Checked, LoggedOut, KitStatus, Disabled, CodeVerified,
       PasswordChanged, Listed, DeviceRevoked, OthersSignedOut, ShareCreated, ShareRevoked,
       Revealed, Imported, PageFailed, Derived, ImportNext, OpenPage, LeavePage, Register,
       RetryKit, Generate, CodeSaved, Disable, VerifyCode, SetPassword, ChangePassword,
       SignOutOthers, RevokeDevice, CreateShare, RevokeShare, Reveal, ChooseFile,
       StartImport, pagesVars
  <1>2. \/ UNCHANGED deriving
        \/ RetryKit \/ LeavePage
        \/ \E c \in calls : SignedUp(c) \/ Checked(c)
        \/ \E d \in deriving : Derived(d)
    BY DEF Registered, LoggedOut, KitStored, KitStatus, Disabled, CodeVerified, Recovered,
       PasswordChanged, Listed, DeviceRevoked, OthersSignedOut, ShareCreated, ShareRevoked,
       Revealed, Imported, PageFailed, ImportNext, OpenPage, Register,
       Generate, CodeSaved, Disable, VerifyCode, SetPassword, ChangePassword,
       SignOutOthers, RevokeDevice, CreateShare, RevokeShare, Reveal, ChooseFile,
       StartImport, pagesVars
  <1>3. \/ UNCHANGED out
        \/ \E c \in calls : PasswordChanged(c) \/ DeviceRevoked(c) \/ OthersSignedOut(c)
    BY DEF Registered, SignedUp, Checked, LoggedOut, KitStored, KitStatus, Disabled,
       CodeVerified, Recovered, Listed, ShareCreated, ShareRevoked,
       Revealed, Imported, PageFailed, Derived, ImportNext, OpenPage, LeavePage, Register,
       RetryKit, Generate, CodeSaved, Disable, VerifyCode, SetPassword, ChangePassword,
       SignOutOthers, RevokeDevice, CreateShare, RevokeShare, Reveal, ChooseFile,
       StartImport, pagesVars
  <1>4. UNCHANGED gone \/ \E c \in calls : ShareRevoked(c)
    BY DEF Registered, SignedUp, Checked, LoggedOut, KitStored, KitStatus, Disabled,
       CodeVerified, Recovered, PasswordChanged, Listed, DeviceRevoked, OthersSignedOut,
       ShareCreated, Revealed, Imported, PageFailed, Derived, ImportNext, OpenPage,
       LeavePage, Register, RetryKit, Generate, CodeSaved, Disable, VerifyCode,
       SetPassword, ChangePassword, SignOutOthers, RevokeDevice, CreateShare, RevokeShare,
       Reveal, ChooseFile, StartImport, pagesVars
  <1>5. UNCHANGED links \/ \E c \in calls : ShareCreated(c)
    BY DEF Registered, SignedUp, Checked, LoggedOut, KitStored, KitStatus, Disabled,
       CodeVerified, Recovered, PasswordChanged, Listed, DeviceRevoked, OthersSignedOut,
       ShareRevoked, Revealed, Imported, PageFailed, Derived, ImportNext, OpenPage,
       LeavePage, Register, RetryKit, Generate, CodeSaved, Disable, VerifyCode,
       SetPassword, ChangePassword, SignOutOthers, RevokeDevice, CreateShare, RevokeShare,
       Reveal, ChooseFile, StartImport, pagesVars
  <1>6. UNCHANGED reveals \/ \E c \in calls : Revealed(c)
    BY DEF Registered, SignedUp, Checked, LoggedOut, KitStored, KitStatus, Disabled,
       CodeVerified, Recovered, PasswordChanged, Listed, DeviceRevoked, OthersSignedOut,
       ShareCreated, ShareRevoked, Imported, PageFailed, Derived, ImportNext, OpenPage,
       LeavePage, Register, RetryKit, Generate, CodeSaved, Disable, VerifyCode,
       SetPassword, ChangePassword, SignOutOthers, RevokeDevice, CreateShare, RevokeShare,
       Reveal, ChooseFile, StartImport, pagesVars
  <1>7. \/ UNCHANGED loops \/ StartImport
        \/ \E l \in loops, i \in Item : ImportNext(l, i)
        \/ \E c \in calls : Imported(c)
    BY DEF Registered, SignedUp, Checked, LoggedOut, KitStored, KitStatus, Disabled,
       CodeVerified, Recovered, PasswordChanged, Listed, DeviceRevoked, OthersSignedOut,
       ShareCreated, ShareRevoked, Revealed, PageFailed, Derived, OpenPage,
       LeavePage, Register, RetryKit, Generate, CodeSaved, Disable, VerifyCode,
       SetPassword, ChangePassword, SignOutOthers, RevokeDevice, CreateShare, RevokeShare,
       Reveal, ChooseFile, pagesVars
  <1>8. QED
    BY <1>1, <1>2, <1>3, <1>4, <1>5, <1>6, <1>7

\* A request that has just been sent.
Request(c, from, n, kind, arg) ==
    /\ IsCall(c) /\ c.at = "sent" /\ c.from = from /\ c.n = n /\ c.kind = kind
    /\ c.arg = arg

LEMMA Requested ==
  ASSUME NEW from, NEW n, NEW kind, NEW session, NEW arg
  PROVE  Request(Call(from, n, kind, session, arg), from, n, kind, arg)
  BY DEF Request, Call, IsCall

\* The step of the web client that sends c.
PageRequest(c) ==
    \/ \E name \in {"kit", "devices", "shares"} :
          /\ OpenPage(name)
          /\ Request(c, "web", events + 1, IF name = "kit" THEN "status" ELSE name, None)
    \/ Register /\ Request(c, "web", page.n, "register", [code |-> events + 1])
    \/ \E b \in calls : Registered(b) /\ Request(c, "web", b.n, "login", b.arg)
    \/ Generate /\ Request(c, "check", page.n, "login", [code |-> events + 1])
    \/ \E b \in calls : Checked(b) /\ Request(c, "check", b.n, "logout", None)
    \/ \E d \in deriving :
          Derived(d) /\ Request(c, "web", d.n, "set_kit", [code |-> d.code, keys |-> d.keys])
    \/ \E b \in calls : /\ KitStored(b) /\ Here(b) /\ page.name = "kit"
                        /\ Request(c, "web", b.n, "status", None)
    \/ Disable /\ Request(c, "web", page.n, "clear_kit", None)
    \/ \E b \in calls : Disabled(b) /\ Request(c, "web", b.n, "status", None)
    \/ \E code \in known :
          VerifyCode(code) /\ Request(c, "web", page.n, "recovery_init", [code |-> code])
    \/ /\ SetPassword
       /\ Request(c, "web", page.n, "recovery",
                  [grant |-> page.data.grant, code |-> events + 1, keys |-> page.keys])
    \/ ChangePassword /\ Request(c, "web", page.n, "change", [before |-> sessions])
    \/ SignOutOthers /\ Request(c, "web", page.n, "sign_out_others", [before |-> sessions])
    \/ \E d \in Device :
          /\ RevokeDevice(d)
          /\ Request(c, "web", page.n, "remove_device", [device |-> d, before |-> sessions])
    \/ \E s \in Share, limit \in ViewLimits :
          /\ CreateShare(s, limit)
          /\ Request(c, "web", 0, "create_share", [share |-> s, limit |-> limit])
    \/ \E s \in Share : RevokeShare(s) /\ Request(c, "web", page.n, "revoke", [share |-> s])
    \/ \E s \in Share, good \in BOOLEAN :
          /\ Reveal(s, good)
          /\ Request(c, "viewer", events + 1, "view",
                     [share |-> s, good |-> good, late |-> s \in gone])
    \/ \E l \in loops, i \in Item :
          /\ ImportNext(l, i)
          /\ Request(c, "web", l.n, "create", [item |-> i, row |-> None, text |-> 0])

LEMMA PagesSend ==
  ASSUME PagesNext
  PROVE  \A c \in calls' : c \in calls \/ PageRequest(c)
  <1>1. ASSUME NEW b \in calls,
               \/ SignedUp(b) \/ LoggedOut(b) \/ KitStatus(b)
               \/ CodeVerified(b) \/ Recovered(b) \/ PasswordChanged(b)
               \/ Listed(b) \/ DeviceRevoked(b) \/ OthersSignedOut(b)
               \/ ShareCreated(b) \/ ShareRevoked(b) \/ Revealed(b)
               \/ Imported(b) \/ PageFailed(b)
        PROVE  calls' \subseteq calls
    BY <1>1 DEF SignedUp, LoggedOut, KitStatus, CodeVerified, Recovered, PasswordChanged,
       Listed, DeviceRevoked, OthersSignedOut, ShareCreated, ShareRevoked, Revealed,
       Imported, PageFailed, Taken
  <1>2. ASSUME LeavePage \/ RetryKit \/ CodeSaved \/ StartImport
               \/ \E file \in Files : ChooseFile(file)
        PROVE  calls' \subseteq calls
    BY <1>2 DEF LeavePage, RetryKit, CodeSaved, StartImport, ChooseFile
  <1>3. ASSUME NEW name \in Names \ {"vault"}, OpenPage(name)
        PROVE  \A c \in calls' : c \in calls \/ PageRequest(c)
    <2>1. UNCHANGED calls \/ (name \in {"kit", "devices", "shares"} /\
             calls' = calls \cup {Call("web", events + 1,
                                 CASE name = "kit" -> "status" [] OTHER -> name, tab, None)})
      BY <1>3 DEF OpenPage, Send
    <2>2. name \in {"kit", "devices", "shares"} =>
             (CASE name = "kit" -> "status" [] OTHER -> name)
                = (IF name = "kit" THEN "status" ELSE name)
      OBVIOUS
    <2>3. QED
      BY <1>3, <2>1, <2>2, Requested DEF PageRequest
  <1>4. ASSUME NEW b \in calls, Registered(b) \/ Checked(b) \/ KitStored(b) \/ Disabled(b)
        PROVE  \A c \in calls' : c \in calls \/ PageRequest(c)
    <2>1. CASE Registered(b)
      BY <2>1, Requested DEF PageRequest, Ask, Registered
    <2>2. CASE Checked(b)
      BY <2>2, Requested DEF PageRequest, Ask, Checked
    <2>3. CASE KitStored(b)
      <3>1. \A c \in calls' :
               \/ c \in calls
               \/ Here(b) /\ page.name = "kit" /\ c = Call("web", b.n, "status", b.session, None)
        BY <2>3 DEF KitStored
      <3>2. QED
        BY <2>3, <3>1, Requested DEF PageRequest
    <2>4. CASE Disabled(b)
      BY <2>4, Requested DEF PageRequest, Ask, Disabled
    <2>5. QED
      BY <1>4, <2>1, <2>2, <2>3, <2>4
  <1>5. ASSUME NEW d \in deriving, Derived(d)
        PROVE  \A c \in calls' : c \in calls \/ PageRequest(c)
    BY <1>5, Requested DEF PageRequest, Ask, Derived, Send
  <1>6. ASSUME NEW l \in loops, NEW i \in Item, ImportNext(l, i)
        PROVE  \A c \in calls' : c \in calls \/ PageRequest(c)
    <2>1. calls' = calls \cup {Call("web", l.n, "create", tab,
                                    [item |-> i, row |-> None, text |-> 0])}
      BY <1>6 DEF ImportNext, Send
    <2>2. QED
      BY <1>6, <2>1, Requested DEF PageRequest
  <1>7. CASE Register \/ Generate \/ Disable
    BY <1>7, Requested DEF PageRequest, Ask, Register, Generate, Disable, Submit, Send
  <1>8. CASE SetPassword \/ ChangePassword \/ SignOutOthers
    BY <1>8, Requested DEF PageRequest, Ask, SetPassword, ChangePassword, SignOutOthers, Submit, Send
  <1>9. ASSUME NEW code \in known, VerifyCode(code)
        PROVE  \A c \in calls' : c \in calls \/ PageRequest(c)
    BY <1>9, Requested DEF PageRequest, Ask, VerifyCode, Submit, Send
  <1>10. ASSUME NEW d \in Device, RevokeDevice(d)
         PROVE  \A c \in calls' : c \in calls \/ PageRequest(c)
    BY <1>10, Requested DEF PageRequest, Ask, RevokeDevice, Submit, Send
  <1>11. ASSUME NEW s \in Share, NEW limit \in ViewLimits, CreateShare(s, limit)
         PROVE  \A c \in calls' : c \in calls \/ PageRequest(c)
    BY <1>11, Requested DEF PageRequest, Ask, CreateShare, Send
  <1>12. ASSUME NEW s \in Share, RevokeShare(s)
         PROVE  \A c \in calls' : c \in calls \/ PageRequest(c)
    BY <1>12, Requested DEF PageRequest, Ask, RevokeShare, Submit, Send
  <1>13. ASSUME NEW s \in Share, NEW good \in BOOLEAN, Reveal(s, good)
         PROVE  \A c \in calls' : c \in calls \/ PageRequest(c)
    BY <1>13, Requested DEF PageRequest, Ask, Reveal, Send
  <1>14. CASE PagesStep
    BY <1>1, <1>4, <1>5, <1>6, <1>14, ZenonT(30) DEF PagesStep
  <1>15. CASE PagesUser
    BY <1>2, <1>3, <1>7, <1>8, <1>9, <1>10, <1>11, <1>12, <1>13, <1>15, ZenonT(30)
       DEF PagesUser
  <1>16. QED
    BY <1>14, <1>15 DEF PagesNext

\* The kind of a request tells which step sent it.
LEMMA PageRequestIs ==
  ASSUME NEW c, PageRequest(c)
  PROVE  /\ IsCall(c) /\ c.at = "sent"
         /\ c.kind \notin {"items", "update", "delete"}
         /\ c.kind = "register" =>
               Register /\ c.from = "web" /\ c.n = page.n /\ c.arg = [code |-> events + 1]
         /\ c.kind = "login" =>
               \/ /\ Generate /\ c.from = "check" /\ c.n = page.n
                  /\ c.arg = [code |-> events + 1]
               \/ /\ c.from = "web"
                  /\ \E b \in calls : Registered(b) /\ c.n = b.n /\ c.arg = b.arg
         /\ c.kind = "set_kit" =>
               \E d \in deriving : /\ Derived(d) /\ c.n = d.n
                                   /\ c.arg = [code |-> d.code, keys |-> d.keys]
         /\ c.kind = "status" =>
               \/ OpenPage("kit") /\ c.n = events + 1
               \/ \E b \in calls : /\ \/ KitStored(b) /\ Here(b) /\ page.name = "kit"
                                      \/ Disabled(b)
                                   /\ c.n = b.n
         /\ c.kind = "clear_kit" => Disable /\ c.n = page.n
         /\ c.kind = "recovery_init" =>
               \E code \in known : VerifyCode(code) /\ c.n = page.n /\ c.arg = [code |-> code]
         /\ c.kind = "recovery" =>
               /\ SetPassword /\ c.n = page.n /\ c.from = "web"
               /\ c.arg = [grant |-> page.data.grant, code |-> events + 1,
                           keys |-> page.keys]
         /\ c.kind = "change" => ChangePassword /\ c.arg = [before |-> sessions]
         /\ c.kind = "sign_out_others" => SignOutOthers /\ c.arg = [before |-> sessions]
         /\ c.kind = "remove_device" =>
               \E d \in Device : /\ RevokeDevice(d) /\ c.n = page.n
                                 /\ c.arg = [device |-> d, before |-> sessions]
         /\ c.kind \in {"devices", "shares"} => OpenPage(c.kind) /\ c.n = events + 1
         /\ c.kind = "create_share" =>
               \E s \in Share, limit \in ViewLimits :
                  CreateShare(s, limit) /\ c.arg = [share |-> s, limit |-> limit]
         /\ c.kind = "revoke" =>
               \E s \in Share : RevokeShare(s) /\ c.n = page.n /\ c.arg = [share |-> s]
         /\ c.kind = "view" =>
               \E s \in Share, good \in BOOLEAN :
                  /\ Reveal(s, good)
                  /\ c.arg = [share |-> s, good |-> good, late |-> s \in gone]
         /\ c.kind = "create" =>
               /\ c.from = "web"
               /\ \E l \in loops, i \in Item :
                     /\ ImportNext(l, i) /\ c.n = l.n
                     /\ c.arg = [item |-> i, row |-> None, text |-> 0]
  <1>1. IsCall(c) /\ c.at = "sent"
    BY DEF PageRequest, Request
  <1>2. /\ c.kind \notin {"items", "update", "delete"}
        /\ c.kind = "register" =>
               Register /\ c.from = "web" /\ c.n = page.n /\ c.arg = [code |-> events + 1]
        /\ c.kind = "login" =>
               \/ /\ Generate /\ c.from = "check" /\ c.n = page.n
                  /\ c.arg = [code |-> events + 1]
               \/ /\ c.from = "web"
                  /\ \E b \in calls : Registered(b) /\ c.n = b.n /\ c.arg = b.arg
    BY DEF PageRequest, Request
  <1>3. /\ c.kind = "set_kit" =>
               \E d \in deriving : /\ Derived(d) /\ c.n = d.n
                                   /\ c.arg = [code |-> d.code, keys |-> d.keys]
        /\ c.kind = "status" =>
               \/ OpenPage("kit") /\ c.n = events + 1
               \/ \E b \in calls : /\ \/ KitStored(b) /\ Here(b) /\ page.name = "kit"
                                      \/ Disabled(b)
                                   /\ c.n = b.n
        /\ c.kind = "clear_kit" => Disable /\ c.n = page.n
    BY DEF PageRequest, Request
  <1>4. /\ c.kind = "recovery_init" =>
               \E code \in known : VerifyCode(code) /\ c.n = page.n /\ c.arg = [code |-> code]
        /\ c.kind = "recovery" =>
               /\ SetPassword /\ c.n = page.n /\ c.from = "web"
               /\ c.arg = [grant |-> page.data.grant, code |-> events + 1,
                           keys |-> page.keys]
        /\ c.kind = "change" => ChangePassword /\ c.arg = [before |-> sessions]
        /\ c.kind = "sign_out_others" => SignOutOthers /\ c.arg = [before |-> sessions]
        /\ c.kind = "remove_device" =>
               \E d \in Device : /\ RevokeDevice(d) /\ c.n = page.n
                                 /\ c.arg = [device |-> d, before |-> sessions]
    BY DEF PageRequest, Request
  <1>5. /\ c.kind \in {"devices", "shares"} => OpenPage(c.kind) /\ c.n = events + 1
        /\ c.kind = "create_share" =>
               \E s \in Share, limit \in ViewLimits :
                  CreateShare(s, limit) /\ c.arg = [share |-> s, limit |-> limit]
        /\ c.kind = "revoke" =>
               \E s \in Share : RevokeShare(s) /\ c.n = page.n /\ c.arg = [share |-> s]
    BY DEF PageRequest, Request
  <1>6. /\ c.kind = "view" =>
               \E s \in Share, good \in BOOLEAN :
                  /\ Reveal(s, good)
                  /\ c.arg = [share |-> s, good |-> good, late |-> s \in gone]
        /\ c.kind = "create" =>
               /\ c.from = "web"
               /\ \E l \in loops, i \in Item :
                     /\ ImportNext(l, i) /\ c.n = l.n
                     /\ c.arg = [item |-> i, row |-> None, text |-> 0]
    BY DEF PageRequest, Request
  <1>7. QED
    BY <1>1, <1>2, <1>3, <1>4, <1>5, <1>6

\* The step of the desktop client that sends c.
DesktopRequest(c) ==
    \/ SignIn /\ Request(c, "desktop", logins + 1, "login", [code |-> events + 1])
    \/ \E b \in calls : SignedIn(b) /\ Request(c, "desktop", b.n, "items", None)
    \/ \E i \in Item :
          /\ SaveNew(i)
          /\ Request(c, "desktop", logins, "create",
                     [item |-> i, row |-> None, text |-> events + 1])
    \/ /\ SaveEdited
       /\ Request(c, "desktop", logins, "update",
                  [item |-> modal.item, row |-> modal.row, text |-> events + 1])
    \/ \E i \in Item :
          /\ DeleteItem(i)
          /\ Request(c, "desktop", logins, "delete",
                     [item |-> i, row |-> store[i], text |-> 0])

LEMMA DesktopSends ==
  ASSUME DesktopNext
  PROVE  \A c \in calls' : c \in calls \/ DesktopRequest(c)
  <1>1. ASSUME NEW c \in calls,
               SyncAnswered(c) \/ SyncFailed(c) \/ SaveAnswered(c) \/ DeleteAnswered(c)
               \/ DesktopFailed(c)
        PROVE  calls' \subseteq calls
    BY <1>1 DEF SyncAnswered, SyncFailed, SaveAnswered, DeleteAnswered, DesktopFailed, Taken
  <1>2. ASSUME \/ \E n \in publishing : OnSuccess(n)
               \/ \E table \in writes : SyncWritten(table)
               \/ \E table \in writes : \E done \in SUBSET Item : SyncUnwritten(table, done)
               \/ OpenRevisions
               \/ \E table \in jobs : Decrypted(table)
               \/ LockDesktop \/ OpenCreate \/ CloseModal
               \/ \E i \in Item : OpenEditor(i)
        PROVE  calls' \subseteq calls
    BY <1>2 DEF OnSuccess, SyncWritten, SyncUnwritten, OpenRevisions, Decrypted, LockDesktop,
       OpenCreate, CloseModal, OpenEditor, SetModal
  <1>3. ASSUME NEW b \in calls, SignedIn(b)
        PROVE  \A c \in calls' : c \in calls \/ DesktopRequest(c)
    <2>1. \A c \in calls' :
             c \in calls \/ c = Call("desktop", b.n, "items", b.answer.session, None)
      BY <1>3 DEF SignedIn
    <2>2. QED
      BY <1>3, <2>1, Requested DEF DesktopRequest
  <1>4. CASE SignIn
    BY <1>4, Requested DEF DesktopRequest, SignIn, Send
  <1>5. ASSUME NEW i \in Item, SaveNew(i)
        PROVE  \A c \in calls' : c \in calls \/ DesktopRequest(c)
    BY <1>5, Requested DEF DesktopRequest, SaveNew, Send
  <1>6. ASSUME NEW i \in Item, DeleteItem(i)
        PROVE  \A c \in calls' : c \in calls \/ DesktopRequest(c)
    BY <1>6, Requested DEF DesktopRequest, DeleteItem, Send
  <1>7. CASE SaveEdited
    BY <1>7, Requested DEF DesktopRequest, SaveEdited, Send
  <1>8. QED
    BY <1>1, <1>2, <1>3, <1>4, <1>5, <1>6, <1>7, ZenonT(30)
       DEF DesktopNext, DesktopStep, DesktopUser

LEMMA DesktopRequestIs ==
  ASSUME NEW c, DesktopRequest(c)
  PROVE  /\ IsCall(c) /\ c.at = "sent" /\ c.from = "desktop"
         /\ c.kind \in {"login", "items", "create", "update", "delete"}
         /\ c.kind = "login" => SignIn /\ c.arg = [code |-> events + 1]
         /\ c.kind = "create" =>
               \E i \in Item : /\ SaveNew(i)
                               /\ c.arg = [item |-> i, row |-> None, text |-> events + 1]
         /\ c.kind = "update" =>
               /\ SaveEdited
               /\ c.arg = [item |-> modal.item, row |-> modal.row, text |-> events + 1]
         /\ c.kind = "delete" =>
               \E i \in Item : c.arg = [item |-> i, row |-> store[i], text |-> 0]
  BY DEF DesktopRequest, Request

\* A request that the server has just answered.
Answer(d) ==
    \E c \in calls : /\ Serve(c) /\ Follows(d, c) /\ c.at = "sent" /\ d.at = "done"
                     /\ calls' = (calls \ {c}) \cup {d}

LEMMA ServerAnswers ==
  ASSUME NumberInv, ServerNext
  PROVE  \A d \in calls' : d \in calls \/ Answer(d)
  <1>1. ASSUME NEW c \in calls, Serve(c)
        PROVE  \A d \in calls' : d \in calls \/ Answer(d)
    <2>1. PICK e : Follows(e, c) /\ e.at = "done" /\ calls' = (calls \ {c}) \cup {e}
      BY <1>1, ServedCall
    <2>2. c.at = "sent"
      BY <1>1, ServedCall
    <2>3. Answer(e)
      BY <1>1, <2>1, <2>2 DEF Answer
    <2>4. QED
      BY <2>1, <2>3
  <1>2. ASSUME \/ \E i \in Item : OtherSaves(i)
               \/ \E s \in Share : Expire(s)
               \/ DeleteExpired
        PROVE  UNCHANGED calls
    BY <1>2 DEF OtherSaves, Expire, DeleteExpired
  <1>3. QED
    BY <1>1, <1>2, Zenon DEF ServerNext

LEMMA VisitStep ==
  ASSUME NumberInv, VisitInv, [Next]_vars
  PROVE  VisitInv'
  <1> USE DEF VisitInv
  <1>1. CASE UNCHANGED vars
    BY <1>1 DEF vars, pagesVars, OnScreenNow
  <1>2. ASSUME Next, NEW c \in calls', NEW b \in calls, c.n = b.n, c.kind = b.kind,
               c.kind \in DOMAIN Asker, OnScreenNow(c.n)'
        PROVE  page'.name = Asker[c.kind]
    BY <1>2, ScreenStep DEF NumberInv
  <1>3. ASSUME PagesNext, Next, NEW c \in calls', PageRequest(c), c.kind \in DOMAIN Asker,
               OnScreenNow(c.n)'
        PROVE  page'.name = Asker[c.kind]
    <2>1. \A n \in 0..events : OnScreenNow(n)' => OnScreenNow(n) /\ page'.name = page.name
      BY <1>3, ScreenStep
    <2>2. page.n \in 0..events /\ events \in Nat
      BY DEF NumberInv
    <2>3. CASE c.kind \in {"devices", "shares"}
      <3>1. OpenPage(c.kind)
        BY <1>3, <2>3, PageRequestIs
      <3>2. page'.name = c.kind
        BY <2>3, <3>1, OpenedPage DEF Names
      <3>3. QED
        BY <2>3, <3>2 DEF Asker
    <2>4. CASE c.kind = "status"
      <3>1. \/ OpenPage("kit")
            \/ \E b \in calls : /\ \/ KitStored(b) /\ Here(b) /\ page.name = "kit"
                                   \/ Disabled(b)
                                /\ c.n = b.n
        BY <1>3, <2>4, PageRequestIs
      <3>2. CASE OpenPage("kit")
        BY <2>4, <3>2, OpenedPage DEF Names, Asker
      <3>3. ASSUME NEW b \in calls, KitStored(b), page.name = "kit", c.n = b.n
            PROVE  page'.name = "kit"
        BY <1>3, <2>1, <3>3 DEF NumberInv
      <3>4. ASSUME NEW b \in calls, Disabled(b), c.n = b.n
            PROVE  page'.name = "kit"
        <4>1. b.kind = "clear_kit" /\ b.n \in 0..events
          BY <3>4 DEF Disabled, Answers, NumberInv
        <4>2. OnScreenNow(b.n) /\ page'.name = page.name
          BY <1>3, <2>1, <3>4, <4>1
        <4>3. QED
          BY <4>1, <4>2 DEF Asker
      <3>5. Asker["status"] = "kit"
        BY DEF Asker
      <3>6. QED
        BY <2>4, <3>1, <3>2, <3>3, <3>4, <3>5
    <2>5. CASE c.kind \in {"clear_kit", "remove_device", "revoke", "recovery_init"}
      <3>1. CASE c.kind = "clear_kit"
        BY <1>3, <2>1, <2>2, <3>1, PageRequestIs DEF Disable, Idle, Asker
      <3>2. CASE c.kind = "remove_device"
        <4>1. PICK d \in Device : RevokeDevice(d) /\ c.n = page.n
          BY <1>3, <3>2, PageRequestIs
        <4>2. page.name = "devices"
          BY <4>1 DEF RevokeDevice, Idle
        <4>3. QED
          BY <1>3, <2>1, <2>2, <3>2, <4>1, <4>2 DEF Asker
      <3>3. CASE c.kind = "revoke"
        <4>1. PICK s \in Share : RevokeShare(s) /\ c.n = page.n
          BY <1>3, <3>3, PageRequestIs
        <4>2. page.name = "shares"
          BY <4>1 DEF RevokeShare, Idle
        <4>3. QED
          BY <1>3, <2>1, <2>2, <3>3, <4>1, <4>2 DEF Asker
      <3>4. CASE c.kind = "recovery_init"
        <4>1. PICK code \in known : VerifyCode(code) /\ c.n = page.n
          BY <1>3, <3>4, PageRequestIs
        <4>2. page.name = "recover"
          BY <4>1 DEF VerifyCode, Idle
        <4>3. QED
          BY <1>3, <2>1, <2>2, <3>4, <4>1, <4>2 DEF Asker
      <3>5. QED
        BY <2>5, <3>1, <3>2, <3>3, <3>4
    <2>6. QED
      BY <1>3, <2>3, <2>4, <2>5 DEF Asker
  <1>4. ASSUME Next, NEW c \in calls', c.kind \in DOMAIN Asker, OnScreenNow(c.n)'
        PROVE  page'.name = Asker[c.kind]
    <2>1. CASE c \in calls
      BY <1>2, <1>4, <2>1
    <2>2. CASE Answer(c)
      BY <1>2, <1>4, <2>2 DEF Answer, Follows
    <2>3. CASE DesktopRequest(c)
      BY <1>4, <2>3, DesktopRequestIs DEF Asker
    <2>4. QED
      BY <1>3, <1>4, <2>1, <2>2, <2>3, ServerAnswers, DesktopSends, PagesSend DEF Next
  <1>5. QED
    BY <1>1, <1>4

-----------------------------------------------------------------------------
(* Items                                                                   *)

\* The past of an item only grows.
Grows == past' \in [Item -> SUBSET (Nat \X Nat)] /\ \A i \in Item : past[i] \subseteq past'[i]

LEMMA ServedStays ==
  ASSUME Grows, NEW table, Served(table)
  PROVE  Served(table)'
  BY DEF Grows, Served, Had

LEMMA RowCallStays ==
  ASSUME Grows, NEW c, RowCall(c)
  PROVE  RowCall(c)'
  <1>1. c.kind = "items" /\ c.at = "done" => Served(c.answer.rows)'
    BY ServedStays DEF RowCall
  <1>2. QED
    BY <1>1 DEF RowCall, Grows, Had

\* The rows that an update and a deletion make.
Changed(row, text) == [row EXCEPT !.version = @ + 1, !.text = text]

Removed(row) == [row EXCEPT !.deleted = TRUE]

LEMMA ChangedRow ==
  ASSUME NEW row \in Row, NEW text \in Nat
  PROVE  /\ Changed(row, text) \in Row /\ Changed(row, text).version = row.version + 1
         /\ Changed(row, text).text = text
  <1> DEFINE version == row.version + 1
  <1>1. version \in Nat /\ Changed(row, text) = [row EXCEPT !.version = version, !.text = text]
    BY DEF Row, Changed
  <1>2. Changed(row, text).version = row.version + 1 /\ Changed(row, text).text = text
    BY DEF Row, Changed
  <1> HIDE DEF version
  <1>3. Changed(row, text) \in Row
    BY <1>1 DEF Row
  <1>4. QED
    BY <1>2, <1>3

LEMMA NewRow ==
  ASSUME NEW text \in Nat
  PROVE  New(text) \in Row /\ New(text).version = 1 /\ New(text).text = text
  BY DEF New, Row

LEMMA RemovedRow ==
  ASSUME NEW row \in Row
  PROVE  Removed(row) \in Row /\ Removed(row).version = row.version /\ Removed(row).text = row.text
  BY DEF Row, Removed

\* A row that is stored joins the past.
LEMMA StoreRow ==
  ASSUME RowsInv, NEW i \in Item, NEW row \in Row, Store(i, row)
  PROVE  /\ Grows /\ rows' \in Table /\ Served(rows)' /\ <<row.version, row.text>> \in past'[i]
         /\ rows'[i] = row /\ rows'[i] # None
         /\ \A j \in Item : past'[j] # {} => rows'[j] # None
  <1>1. row.version \in Nat /\ row.text \in Nat /\ row # None
    BY NoneIsNoRow DEF Row
  <1>2. Grows /\ rows' \in Table /\ <<row.version, row.text>> \in past'[i]
    BY <1>1 DEF RowsInv, Store, Grows, Table
  <1>3. /\ rows'[i] = row /\ \A j \in Item : j # i => rows'[j] = rows[j]
    BY DEF RowsInv, Store, Table
  <1>4. \A j \in Item : j # i => past'[j] = past[j]
    BY DEF RowsInv, Store
  <1>5. \A j \in Item : past'[j] # {} => rows'[j] # None
    BY <1>1, <1>3, <1>4 DEF RowsInv
  <1>6. Served(rows)'
    BY <1>2, <1>3, <1>4 DEF RowsInv, Served, Had
  <1>7. QED
    BY <1>1, <1>2, <1>3, <1>5, <1>6

\* What the server stores for a request.
LEMMA ServeRows ==
  ASSUME NumberInv, RowsInv, NEW c \in calls, Serve(c)
  PROVE  /\ Grows /\ rows' \in Table /\ Served(rows)'
         /\ \A j \in Item : past'[j] # {} => rows'[j] # None
         /\ \A d \in calls' : RowCall(d)'
  <1>1. RowCall(c) /\ IsCall(c) /\ \A b \in calls : RowCall(b)
    BY DEF RowsInv, NumberInv
  <1>2. ASSUME NEW a, Done(c, a), Grows,
               c.kind = "items" => a.rows \in Table /\ Served(a.rows)',
               c.kind = "create" => a.row = New(c.arg.text) /\ Had(c.arg.item, 1, c.arg.text)',
               c.kind = "update" => Had(c.arg.item, c.arg.row.version + 1, c.arg.text)'
        PROVE  \A d \in calls' : RowCall(d)'
    <2>1. PICK d : Follows(d, c) /\ d.at = "done" /\ d.answer = a
                   /\ calls' = (calls \ {c}) \cup {d}
      BY <1>1, <1>2, DoneCall
    <2>2. RowCall(d)'
      BY <1>1, <1>2, <2>1 DEF RowCall, Follows
    <2>3. QED
      BY <1>1, <1>2, <2>1, <2>2, RowCallStays
  <1>3. ASSUME UNCHANGED <<rows, past>>
        PROVE  /\ Grows /\ rows' \in Table /\ Served(rows)'
               /\ \A j \in Item : past'[j] # {} => rows'[j] # None
    BY <1>3 DEF RowsInv, Grows, Served, Had
  <1>4. CASE c.kind = "create"
    <2> DEFINE i == c.arg.item
               row == New(c.arg.text)
    <2>1. Store(i, row) /\ Done(c, [row |-> row])
      BY <1>4, ServeKind DEF ServeCreate
    <2>2. i \in Item /\ row \in Row /\ row.version = 1 /\ row.text = c.arg.text
      BY <1>1, <1>4 DEF RowCall, New, Row
    <2>3. /\ Grows /\ rows' \in Table /\ Served(rows)' /\ Had(i, 1, c.arg.text)'
          /\ \A j \in Item : past'[j] # {} => rows'[j] # None
      BY <2>1, <2>2, StoreRow DEF Had
    <2>4. [row |-> row].row = row
      OBVIOUS
    <2> HIDE DEF row, i
    <2>5. \A d \in calls' : RowCall(d)'
      BY <1>2, <1>4, <2>1, <2>3, <2>4 DEF row, i
    <2>6. QED
      BY <2>3, <2>5
  <1>5. CASE c.kind = "update"
    <2> DEFINE i == c.arg.item
               row == Changed(rows[i], c.arg.text)
    <2>1. /\ Store(i, row) /\ Done(c, None) /\ rows[i] # None
          /\ rows[i].version = c.arg.row.version
      BY <1>5, ServeKind DEF ServeUpdate, SameVersion, Changed
    <2>2. i \in Item /\ rows[i] \in Row /\ c.arg.text \in Nat
      BY <1>1, <1>5, <2>1 DEF RowCall, RowsInv, Table
    <2>3. row \in Row /\ row.version = c.arg.row.version + 1 /\ row.text = c.arg.text
      <3>1. row \in Row /\ row.version = rows[i].version + 1 /\ row.text = c.arg.text
        BY <2>2, ChangedRow
      <3>2. rows[i].version = c.arg.row.version
        BY <2>1
      <3> HIDE DEF row
      <3>3. QED
        BY <3>1, <3>2
    <2>4. /\ Grows /\ rows' \in Table /\ Served(rows)'
          /\ Had(i, c.arg.row.version + 1, c.arg.text)'
          /\ \A j \in Item : past'[j] # {} => rows'[j] # None
      BY <2>1, <2>2, <2>3, StoreRow DEF Had
    <2> HIDE DEF row, i
    <2>5. \A d \in calls' : RowCall(d)'
      BY <1>2, <1>5, <2>1, <2>4 DEF i
    <2>6. QED
      BY <2>4, <2>5
  <1>6. CASE c.kind = "delete"
    <2> DEFINE i == c.arg.item
               row == Removed(rows[i])
    <2>1. Store(i, row) /\ Done(c, None) /\ Active(rows, i)
      BY <1>6, ServeKind DEF ServeDelete, Removed
    <2>2. i \in Item /\ rows[i] \in Row
      BY <1>1, <1>6, <2>1 DEF RowCall, Active, RowsInv, Table
    <2>3. row \in Row
      BY <2>2, RemovedRow
    <2>4. /\ Grows /\ rows' \in Table /\ Served(rows)'
          /\ \A j \in Item : past'[j] # {} => rows'[j] # None
      BY <2>1, <2>2, <2>3, StoreRow
    <2>5. QED
      BY <1>2, <1>6, <2>1, <2>4
  <1>7. CASE c.kind = "items"
    <2>1. Done(c, [rows |-> rows]) /\ UNCHANGED <<rows, past>>
      BY <1>7, ServeKind DEF ServeItems, serverVars
    <2>2. PICK a : Done(c, a) /\ a.rows = rows
      BY <2>1
    <2>3. a.rows \in Table /\ Grows /\ Served(a.rows)
      BY <1>3, <2>1, <2>2 DEF RowsInv
    <2>4. Served(a.rows)'
      BY <2>3, ServedStays
    <2>5. \A d \in calls' : RowCall(d)'
      BY <1>2, <1>7, <2>2, <2>3, <2>4
    <2>6. QED
      BY <1>3, <2>1, <2>5
  <1>8. CASE c.kind \notin {"create", "update", "delete", "items"}
    <2>1. UNCHANGED <<rows, past>>
      BY <1>8, ServeFrame
    <2>2. PICK a : Done(c, a)
      BY ServeDone
    <2>3. QED
      BY <1>2, <1>3, <1>8, <2>1, <2>2
  <1>9. QED
    BY <1>4, <1>5, <1>6, <1>7, <1>8

LEMMA HeldStep ==
  ASSUME NumberInv, RowsInv, DesktopNext
  PROVE  HeldRows'
  <1> UNCHANGED past
    BY DEF DesktopNext, serverVars
  <1>0. HeldRows /\ (\A c \in calls : RowCall(c)) /\ None \notin Row
    BY NoneIsNoRow DEF RowsInv
  <1>1. ASSUME NEW s, NEW l, NEW w, store' = s, local' = l, writes' = w,
               s \in Table, l \in Table, w \subseteq Table,
               Served(s), Served(l), \A table \in w : Served(table),
               modal' # None => (modal'.item # None => modal'.item \in Item /\ modal'.row \in Row)
        PROVE  HeldRows'
    BY <1>1 DEF HeldRows, Served, Had
  <1> DEFINE ModalStays == modal' # None =>
                   (modal'.item # None => modal'.item \in Item /\ modal'.row \in Row)
  <1>2. modal' \in {modal, None} => ModalStays
    BY <1>0 DEF HeldRows
  <1>3. ASSUME UNCHANGED <<store, local, writes>>, ModalStays
        PROVE  HeldRows'
    BY <1>0, <1>1, <1>3 DEF HeldRows
  <1>4. ASSUME NEW c \in calls, SignedIn(c) \/ DesktopFailed(c)
        PROVE  HeldRows'
    BY <1>2, <1>3, <1>4 DEF SignedIn, DesktopFailed, vaultScreen
  <1>5. ASSUME NEW c \in calls, SyncAnswered(c)
        PROVE  HeldRows'
    <2>1. c.answer.rows \in Table /\ Served(c.answer.rows)
      BY <1>0, <1>5 DEF SyncAnswered, Answered, RowCall
    <2>2. /\ store' = c.answer.rows /\ writes' = writes \cup {c.answer.rows}
          /\ UNCHANGED <<local, modal>>
      BY <1>5 DEF SyncAnswered, ToStore
    <2>3. QED
      BY <1>0, <1>1, <1>2, <2>1, <2>2 DEF HeldRows
  <1>a. ASSUME NEW table \in Table, Served(table), NEW done \in SUBSET Item
        PROVE  LET l == [i \in Item |-> IF i \in done THEN table[i] ELSE local[i]]
               IN  l \in Table /\ Served(l)
    BY <1>0, <1>a DEF HeldRows, Table, Served
  <1>b. ASSUME NEW l, l \in Table, Served(l), FromLocal(l)
        PROVE  \E s : s = store' /\ s \in Table /\ Served(s)
    <2>1. store \in Table /\ Served(store)
      BY <1>0 DEF HeldRows
    <2>2. store' = store \/ store' = [i \in Item |-> Undeclared(l[i])]
      BY <1>b DEF FromLocal, ToStore
    <2>3. CASE store' = store
      BY <2>1, <2>3
    <2>4. CASE store' = [i \in Item |-> Undeclared(l[i])]
      <3>1. PICK s : s = [i \in Item |-> Undeclared(l[i])]
        OBVIOUS
      <3>2. ASSUME NEW i \in Item
            PROVE  /\ s[i] \in Row \cup {None}
                   /\ s[i] # None => Had(i, s[i].version, s[i].text)
        <4>1. CASE l[i] = None
          BY <3>1, <4>1 DEF Undeclared
        <4>2. CASE l[i] # None
          BY <1>b, <3>1, <4>2, RemovedRow DEF Undeclared, Removed, Table, Served
        <4>3. QED
          BY <4>1, <4>2
      <3>3. s \in Table /\ Served(s)
        BY <3>1, <3>2 DEF Table, Served
      <3>4. QED
        BY <2>4, <3>1, <3>3
    <2>5. QED
      BY <2>2, <2>3, <2>4
  <1>6. ASSUME NEW table \in writes, SyncWritten(table)
        PROVE  HeldRows'
    <2>1. table \in Table /\ Served(table)
      BY <1>0 DEF HeldRows
    <2>2. PICK done \in SUBSET Item : done = {i \in Item : table[i] # None}
      OBVIOUS
    <2>3. /\ local' = [i \in Item |-> IF i \in done THEN table[i] ELSE local[i]]
          /\ writes' = writes \ {table} /\ UNCHANGED <<store, modal>>
      BY <1>6, <2>2 DEF SyncWritten, vaultScreen
    <2>4. PICK l : l = local' /\ l \in Table /\ Served(l)
      BY <1>a, <2>1, <2>3
    <2>5. QED
      BY <1>0, <1>1, <1>2, <2>3, <2>4 DEF HeldRows
  <1>c. ASSUME NEW table \in writes, NEW done \in SUBSET Item, SyncUnwritten(table, done)
        PROVE  HeldRows'
    <2>1. table \in Table /\ Served(table)
      BY <1>0 DEF HeldRows
    <2>2. PICK l : l = local' /\ l \in Table /\ Served(l)
      BY <1>a, <1>c, <2>1 DEF SyncUnwritten
    <2>3. PICK s : s = store' /\ s \in Table /\ Served(s)
      BY <1>b, <1>c, <2>2 DEF SyncUnwritten
    <2>4. writes' = writes \ {table} /\ UNCHANGED modal
      BY <1>c DEF SyncUnwritten
    <2>5. QED
      BY <1>0, <1>1, <1>2, <2>2, <2>3, <2>4 DEF HeldRows
  <1>7. ASSUME NEW c \in calls, SyncFailed(c)
        PROVE  HeldRows'
    <2>1. local \in Table /\ Served(local)
      BY <1>0 DEF HeldRows
    <2>2. FromLocal(local) /\ UNCHANGED <<local, writes, modal>>
      BY <1>7 DEF SyncFailed
    <2>3. PICK s : s = store' /\ s \in Table /\ Served(s)
      BY <1>b, <2>1, <2>2
    <2>4. QED
      BY <1>0, <1>1, <1>2, <2>1, <2>2, <2>3 DEF HeldRows
  <1>8. ASSUME NEW c \in calls, SaveAnswered(c)
        PROVE  HeldRows'
    <2> DEFINE i == c.arg.item
               row == RowAfter(c)
    <2>1. RowCall(c) /\ c.at = "done" /\ c.kind \in {"create", "update"}
      BY <1>0, <1>8 DEF SaveAnswered, Answered
    <2>2. i \in Item /\ row \in Row /\ Had(i, row.version, row.text)
      <3>1. CASE c.kind = "create"
        <4>1. /\ row = New(c.arg.text) /\ c.arg.text \in Nat /\ i \in Item
              /\ Had(i, 1, c.arg.text)
          BY <2>1, <3>1 DEF RowCall, RowAfter
        <4>2. QED
          BY <4>1, NewRow
      <3>2. CASE c.kind = "update"
        <4>1. c.arg.row \in Row /\ c.arg.text \in Nat /\ i \in Item
              /\ Had(i, c.arg.row.version + 1, c.arg.text)
          BY <2>1, <3>2 DEF RowCall
        <4>2. row = Changed(c.arg.row, c.arg.text)
          BY <3>2 DEF RowAfter, Changed
        <4>3. QED
          BY <4>1, <4>2, ChangedRow
      <3>3. QED
        BY <2>1, <3>1, <3>2
    <2>3. /\ store' = [store EXCEPT ![i] = row]
          /\ local' = [local EXCEPT ![i] = row] \/ local' = local
          /\ UNCHANGED writes /\ modal' \in {modal, None}
      BY <1>8 DEF SaveAnswered, ToStore
    <2> HIDE DEF i, row
    <2>4. ASSUME NEW table \in Table, Served(table)
          PROVE  [table EXCEPT ![i] = row] \in Table /\ Served([table EXCEPT ![i] = row])
      BY <2>2, <2>4 DEF Table, Served
    <2>5. QED
      BY <1>0, <1>1, <1>2, <2>3, <2>4 DEF HeldRows
  <1>9. ASSUME NEW c \in calls, DeleteAnswered(c)
        PROVE  HeldRows'
    <2> DEFINE i == c.arg.item
    <2>1. /\ \/ UNCHANGED store
             \/ store[i] # None /\ store' = [store EXCEPT ![i] = Removed(store[i])]
          /\ UNCHANGED <<local, writes, modal>>
      BY <1>9 DEF DeleteAnswered, ToStore, Removed
    <2>2. i \in Item /\ store \in Table /\ Served(store)
      BY <1>0, <1>9 DEF DeleteAnswered, RowCall, HeldRows
    <2> HIDE DEF i
    <2>3. CASE UNCHANGED store
      BY <1>2, <1>3, <2>1, <2>3
    <2>4. CASE store[i] # None /\ store' = [store EXCEPT ![i] = Removed(store[i])]
      <3>1. /\ Removed(store[i]) \in Row /\ Removed(store[i]).version = store[i].version
            /\ Removed(store[i]).text = store[i].text
        BY <2>2, <2>4, RemovedRow DEF Table
      <3>2. [store EXCEPT ![i] = Removed(store[i])] \in Table
        BY <2>2, <3>1 DEF Table
      <3>3. Served([store EXCEPT ![i] = Removed(store[i])])
        BY <2>2, <2>4, <3>1 DEF Table, Served
      <3>4. QED
        BY <1>0, <1>1, <1>2, <2>1, <2>4, <3>2, <3>3 DEF HeldRows
    <2>5. QED
      BY <2>1, <2>3, <2>4
  <1>10. CASE \/ \E n \in publishing : OnSuccess(n)
              \/ OpenRevisions
              \/ \E table \in jobs : Decrypted(table)
              \/ SignIn \/ SaveEdited
              \/ \E i \in Item : SaveNew(i) \/ DeleteItem(i)
    BY <1>2, <1>3, <1>10 DEF OnSuccess, OpenRevisions, Decrypted, SignIn, SaveEdited, SaveNew,
       DeleteItem, vaultScreen, desktopVars
  <1>11. CASE LockDesktop
    <2>1. NoRow(Item) \in Table /\ Served(NoRow(Item))
      BY DEF NoRow, Table, Served
    <2>2. store' = NoRow(Item) /\ modal' = None /\ UNCHANGED <<local, writes>>
      BY <1>11 DEF LockDesktop
    <2>3. QED
      BY <1>0, <1>1, <2>1, <2>2 DEF HeldRows
  <1>12. CASE OpenCreate \/ CloseModal
    BY <1>3, <1>12 DEF OpenCreate, CloseModal, SetModal
  <1>13. ASSUME NEW i \in Item, OpenEditor(i)
         PROVE  HeldRows'
    <2>1. store[i] \in Row
      BY <1>0, <1>13 DEF OpenEditor, Active, HeldRows, Table
    <2>2. QED
      BY <1>3, <1>13, <2>1 DEF OpenEditor, SetModal
  <1>14. QED
    BY <1>4, <1>5, <1>6, <1>c, <1>7, <1>8, <1>9, <1>10, <1>11, <1>12, <1>13, ZenonT(30)
       DEF DesktopNext, DesktopStep, DesktopUser

LEMMA RowsStep ==
  ASSUME NumberInv, RowsInv, [Next]_vars
  PROVE  RowsInv'
  <1>1. HeldRows /\ (\A c \in calls : RowCall(c)) /\ events \in Nat
    BY DEF RowsInv, NumberInv
  <1>2. ASSUME UNCHANGED <<rows, past>>, HeldRows', \A c \in calls' : RowCall(c)'
        PROVE  RowsInv'
    BY <1>2 DEF RowsInv, Served, Had
  <1>3. ASSUME Grows, UNCHANGED desktopVars
        PROVE  HeldRows'
    <2>1. UNCHANGED <<store, local, writes, modal>>
      BY <1>3 DEF desktopVars
    <2>2. QED
      BY <1>1, <1>3, <2>1 DEF HeldRows, Served, Had, Grows
  <1>4. UNCHANGED past => Grows
    BY DEF RowsInv, Grows
  <1>5. CASE UNCHANGED vars
    <2>1. UNCHANGED <<rows, past, calls, desktopVars>>
      BY <1>5 DEF vars, serverVars
    <2>2. QED
      BY <1>1, <1>2, <1>3, <1>4, <2>1, RowCallStays
  <1>6. CASE ServerNext /\ UNCHANGED desktopVars
    <2>1. ASSUME Grows, rows' \in Table, Served(rows)',
                 \A j \in Item : past'[j] # {} => rows'[j] # None,
                 \A d \in calls' : RowCall(d)'
          PROVE  RowsInv'
      BY <1>3, <1>6, <2>1 DEF RowsInv, Grows
    <2>2. ASSUME NEW c \in calls, Serve(c)
          PROVE  RowsInv'
      BY <2>1, <2>2, ServeRows
    <2>3. ASSUME NEW i \in Item, OtherSaves(i)
          PROVE  RowsInv'
      <3>1. Store(i, Changed(rows[i], events + 1)) /\ rows[i] # None /\ UNCHANGED calls
        BY <2>3 DEF OtherSaves, Changed
      <3>2. rows[i] \in Row /\ events + 1 \in Nat
        BY <1>1, <3>1 DEF RowsInv, Table
      <3>3. Changed(rows[i], events + 1) \in Row
        BY <3>2, ChangedRow
      <3>4. QED
        BY <1>1, <2>1, <3>1, <3>3, StoreRow, RowCallStays
    <2>4. ASSUME UNCHANGED <<rows, past, calls>>
          PROVE  RowsInv'
      BY <1>1, <1>2, <1>3, <1>4, <1>6, <2>4, RowCallStays
    <2>5. ASSUME NEW s \in Share, Expire(s)
          PROVE  RowsInv'
      BY <2>4, <2>5 DEF Expire
    <2>6. CASE DeleteExpired
      BY <2>4, <2>6 DEF DeleteExpired
    <2>7. QED
      BY <1>6, <2>2, <2>3, <2>5, <2>6, Zenon DEF ServerNext
  <1>7. CASE DesktopNext
    <2>1. UNCHANGED <<rows, past>>
      BY <1>7 DEF DesktopNext, serverVars
    <2>2. ASSUME NEW c \in calls', DesktopRequest(c)
          PROVE  RowCall(c)'
      <3>1. CASE c.kind = "update"
        <4>1. SaveEdited /\ c.arg = [item |-> modal.item, row |-> modal.row, text |-> events + 1]
          BY <2>2, <3>1, DesktopRequestIs
        <4>2. modal.item \in Item /\ modal.row \in Row
          BY <1>1, <4>1 DEF SaveEdited, HeldRows
        <4>3. QED
          BY <1>1, <2>2, <3>1, <4>1, <4>2, DesktopRequestIs DEF RowCall
      <3>2. CASE c.kind = "create"
        <4>a. PICK i \in Item : c.arg = [item |-> i, row |-> None, text |-> events + 1]
          BY <2>2, <3>2, DesktopRequestIs
        <4>1. c.arg.item \in Item /\ c.arg.text = events + 1
          BY <4>a
        <4>2. c.at = "sent"
          BY <2>2, DesktopRequestIs
        <4>3. QED
          BY <1>1, <3>2, <4>1, <4>2 DEF RowCall
      <3>3. CASE c.kind = "delete"
        <4>a. PICK i \in Item : c.arg = [item |-> i, row |-> store[i], text |-> 0]
          BY <2>2, <3>3, DesktopRequestIs
        <4>1. c.arg.item \in Item /\ c.arg.text = 0
          BY <4>a
        <4>2. QED
          BY <3>3, <4>1 DEF RowCall
      <3>4. CASE c.kind \in {"items", "login"}
        <4>1. c.at = "sent"
          BY <2>2, DesktopRequestIs
        <4>2. QED
          BY <3>4, <4>1 DEF RowCall
      <3>5. QED
        BY <2>2, <3>1, <3>2, <3>3, <3>4, DesktopRequestIs
    <2>3. QED
      BY <1>1, <1>2, <1>4, <1>7, <2>1, <2>2, HeldStep, DesktopSends, RowCallStays
  <1>8. CASE PagesNext /\ UNCHANGED desktopVars
    <2>1. UNCHANGED <<rows, past>>
      BY <1>8, PagesFrame DEF serverVars
    <2>2. ASSUME NEW c \in calls', PageRequest(c)
          PROVE  RowCall(c)'
      <3>1. c.at = "sent" /\ c.kind \notin {"items", "update", "delete"}
        BY <2>2, PageRequestIs
      <3>2. CASE c.kind = "create"
        <4>a. PICK i \in Item : c.arg = [item |-> i, row |-> None, text |-> 0]
          BY <2>2, <3>2, PageRequestIs
        <4>1. c.arg.item \in Item /\ c.arg.text = 0
          BY <4>a
        <4>2. QED
          BY <3>1, <3>2, <4>1 DEF RowCall
      <3>3. QED
        BY <3>1, <3>2 DEF RowCall
    <2>3. QED
      BY <1>1, <1>2, <1>3, <1>4, <1>8, <2>1, <2>2, PagesSend, RowCallStays
  <1>9. QED
    BY <1>5, <1>6, <1>7, <1>8 DEF Next

-----------------------------------------------------------------------------
(* Recovery codes and kits                                                 *)

LEMMA EventsStep ==
  ASSUME NumberInv, [Next]_vars
  PROVE  events \in Nat /\ events' \in {events, events + 1}
  <1>1. ASSUME NEW client \in {"desktop", "web"}, Act(client)
        PROVE  events' \in {events, events + 1}
    BY <1>1, ActCounts
  <1>2. PagesNext => Act("web") \/ UNCHANGED events
    BY DEF PagesNext, PagesStep, PagesUser, Registered, SignedUp, Checked, LoggedOut,
       KitStored, KitStatus, Disabled, CodeVerified, Recovered, PasswordChanged, Listed,
       DeviceRevoked, OthersSignedOut, ShareCreated, ShareRevoked, Revealed, Imported,
       PageFailed, Derived, ImportNext, OpenPage, LeavePage, Register, RetryKit, Generate,
       CodeSaved, Disable, VerifyCode, SetPassword, ChangePassword, SignOutOthers,
       RevokeDevice, CreateShare, RevokeShare, Reveal, ChooseFile, StartImport, Submit
  <1>3. DesktopNext => Act("desktop") \/ UNCHANGED events
    BY DEF DesktopNext, DesktopStep, DesktopUser, SignIn, SignedIn, OnSuccess, SyncAnswered,
       SyncWritten, SyncUnwritten, SyncFailed, LockDesktop, OpenRevisions, Decrypted, OpenCreate,
       OpenEditor, CloseModal, SetModal, SaveNew, SaveEdited, DeleteItem, SaveAnswered,
       DeleteAnswered, DesktopFailed
  <1>4. ASSUME NEW c \in calls, Serve(c)
        PROVE  UNCHANGED events
    BY <1>4, ServedCall
  <1>5. ServerNext => Act("desktop") \/ Act("web") \/ UNCHANGED events
    BY <1>4, Zenon DEF ServerNext, OtherSaves, Expire, DeleteExpired
  <1>6. UNCHANGED vars => UNCHANGED events
    BY DEF vars
  <1>7. QED
    BY <1>1, <1>2, <1>3, <1>5, <1>6 DEF Next, NumberInv

\* The steps that make a new code, hand it on, or show it.
CodeMoves ==
    \/ Register \/ Generate \/ SetPassword \/ RetryKit
    \/ \E c \in calls : \/ Registered(c) \/ SignedUp(c) \/ Checked(c) \/ KitStored(c)
                        \/ Recovered(c)
    \/ \E d \in deriving : Derived(d)

LEMMA CodeStays ==
  ASSUME NumberInv, PagesNext, ~CodeMoves
  PROVE  /\ UNCHANGED known
         /\ UNCHANGED deriving \/ LeavePage
         /\ \A c \in calls' : c \in calls \/ ~Carries(c)
  <1>1. ASSUME NEW c \in calls', PageRequest(c)
        PROVE  ~Carries(c)
    BY <1>1, PageRequestIs DEF CodeMoves, Carries
  <1>2. UNCHANGED known
    BY PagesFrame DEF CodeMoves
  <1>3. UNCHANGED deriving \/ LeavePage
    BY PagesFrame DEF CodeMoves
  <1>4. QED
    BY <1>1, <1>2, <1>3, PagesSend

\* A login is followed by the derivation of a kit.
LEMMA KitBegun ==
  ASSUME NEW c, SignedUp(c) \/ Checked(c)
  PROVE  \E d : /\ deriving' = deriving \cup {d}
               /\ d.n = c.n /\ d.code = c.arg.code /\ d.keys = "real"
  <1>1. ASSUME NEW session, NEW pending
        PROVE  \E d : /\ d = [n |-> c.n, session |-> session, code |-> c.arg.code,
                              keys |-> "real", pending |-> pending]
                     /\ d.n = c.n /\ d.code = c.arg.code /\ d.keys = "real"
    <2> DEFINE d == [n |-> c.n, session |-> session, code |-> c.arg.code,
                     keys |-> "real", pending |-> pending]
    <2>1. d.n = c.n /\ d.code = c.arg.code /\ d.keys = "real"
      OBVIOUS
    <2>2. QED
      BY <2>1, Zenon
  <1>2. \E session, pending :
           deriving' = deriving \cup {[n |-> c.n, session |-> session, code |-> c.arg.code,
                                      keys |-> "real", pending |-> pending]}
    BY Zenon DEF SignedUp, Checked
  <1>3. QED
    BY <1>1, <1>2, Zenon

\* A new code is in one place.
LEMMA CodeNew ==
  ASSUME NumberInv, CodeInv, events' = events + 1, UNCHANGED known,
         \/ /\ UNCHANGED deriving
            /\ \E c : calls' = calls \cup {c} /\ c.arg.code = events + 1
         \/ /\ UNCHANGED calls
            /\ \E d : deriving' = deriving \cup {d} /\ d.code = events + 1
  PROVE  CodeInv'
  <1> /\ events \in Nat /\ 0..events \subseteq 0..events' /\ 1..events \subseteq 1..events'
      /\ events + 1 \in 1..events' /\ events + 1 \notin 0..events
    BY DEF NumberInv
  <1>1. ASSUME UNCHANGED deriving, NEW c, calls' = calls \cup {c}, c.arg.code = events + 1
        PROVE  CodeInv'
    BY <1>1 DEF CodeInv, Carries
  <1>2. ASSUME UNCHANGED calls, NEW d, deriving' = deriving \cup {d}, d.code = events + 1
        PROVE  CodeInv'
    BY <1>2 DEF CodeInv, Carries
  <1>3. QED
    BY <1>1, <1>2

\* Nothing new: the codes stay where they are.
LEMMA CodeKept ==
  ASSUME NumberInv, CodeInv, events' \in {events, events + 1}, UNCHANGED known,
         \A c \in calls' : c \in calls \/ ~Carries(c),
         \A d \in deriving' : \E e \in deriving : d.code = e.code,
         \A d, e \in deriving' : d.code = e.code => d = e
  PROVE  CodeInv'
  <1> events \in Nat /\ 0..events \subseteq 0..events' /\ 1..events \subseteq 1..events'
    BY DEF NumberInv
  <1>1. QED
    BY DEF CodeInv, Carries

LEMMA CodeStep ==
  ASSUME NumberInv, CodeInv, [Next]_vars
  PROVE  CodeInv'
  <1>1. events \in Nat /\ events' \in {events, events + 1}
    BY EventsStep
  <1>2. \A d, e \in deriving : d.code = e.code => d = e
    BY DEF CodeInv
  <1>3. ASSUME UNCHANGED <<known, deriving>>, \A c \in calls' : c \in calls \/ ~Carries(c)
        PROVE  CodeInv'
    BY <1>1, <1>2, <1>3, CodeKept
  <1>4. CASE UNCHANGED vars
    BY <1>3, <1>4 DEF vars, pagesVars
  <1>5. CASE ServerNext /\ UNCHANGED pagesVars
    <2>1. UNCHANGED <<known, deriving>>
      BY <1>5 DEF pagesVars
    <2>2. ASSUME NEW d, Answer(d)
          PROVE  CodeInv'
      <3>1. PICK c \in calls : Follows(d, c) /\ calls' = (calls \ {c}) \cup {d}
        BY <2>2 DEF Answer
      <3>2. d.arg.code = c.arg.code /\ (Carries(d) <=> Carries(c))
        BY <3>1 DEF Follows, Carries
      <3>3. 0..events \subseteq 0..events' /\ 1..events \subseteq 1..events'
        BY <1>1
      <3> HIDE DEF Carries
      <3>4. QED
        BY <2>1, <3>1, <3>2, <3>3 DEF CodeInv
    <2>3. QED
      BY <1>3, <1>5, <2>1, <2>2, ServerAnswers
  <1>6. CASE DesktopNext /\ UNCHANGED pagesVars
    <2>1. UNCHANGED <<known, deriving>>
      BY <1>6 DEF pagesVars
    <2>2. CASE SignIn
      <3> DEFINE c == Call("desktop", logins + 1, "login", None, [code |-> events + 1])
      <3>1. c.arg.code = events + 1
        BY NewCall
      <3>2. calls' = calls \cup {c} /\ events' = events + 1
        BY <2>2, ActCounts DEF SignIn, Send
      <3> HIDE DEF c
      <3>3. QED
        BY <2>1, <3>1, <3>2, CodeNew
    <2>3. CASE ~SignIn
      <3>1. ASSUME NEW c, DesktopRequest(c)
            PROVE  ~Carries(c)
        BY <2>3, <3>1, DesktopRequestIs DEF Carries
      <3>2. QED
        BY <1>3, <1>6, <2>1, <3>1, DesktopSends
    <2>4. QED
      BY <2>2, <2>3
  <1>7. CASE PagesNext /\ ~CodeMoves
    <2>1. CASE UNCHANGED deriving
      BY <1>3, <1>7, <2>1, CodeStays
    <2>2. CASE LeavePage
      <3>1. deriving' = ZeroPending(page.n)
        BY <2>2 DEF LeavePage
      <3>2. \A d \in deriving' : \E e \in deriving : d.code = e.code
        BY <3>1, ZeroPendingKits
      <3>3. \A d, e \in deriving' : d.code = e.code => d = e
        BY <1>2, <3>1 DEF ZeroPending, NumberInv, IsKit
      <3>4. QED
        BY <1>1, <1>7, <3>2, <3>3, CodeStays, CodeKept
    <2>3. QED
      BY <1>7, <2>1, <2>2, CodeStays
  <1>8. CASE Register \/ Generate \/ SetPassword
    <2>1. UNCHANGED <<known, deriving>> /\ Act("web")
      BY <1>8 DEF Register, Generate, SetPassword, Submit
    <2>2. \E c : calls' = calls \cup {c} /\ c.arg.code = events + 1
      <3>1. CASE Register
        BY <3>1, NewCall DEF Register, Submit, Send, Ask
      <3>2. CASE Generate
        BY <3>2, NewCall DEF Generate, Submit, Send
      <3>3. CASE SetPassword
        BY <3>3, NewCall DEF SetPassword, Submit, Send, Ask
      <3>4. QED
        BY <1>8, <3>1, <3>2, <3>3
    <2>3. QED
      BY <2>1, <2>2, ActCounts, CodeNew
  <1>9. CASE RetryKit
    <2> DEFINE d == [n |-> page.n, session |-> tab, code |-> events + 1, keys |-> page.keys,
                     pending |-> TRUE]
    <2>1. deriving' = deriving \cup {d} /\ d.code = events + 1 /\ UNCHANGED <<known, calls>>
          /\ events' = events + 1
      BY <1>9, ActCounts DEF RetryKit
    <2> HIDE DEF d
    <2>2. QED
      BY <2>1, CodeNew
  <1>10. ASSUME NEW c \in calls, Registered(c)
         PROVE  CodeInv'
    <2> DEFINE b == Call("web", c.n, "login", None, c.arg)
    <2>1. b.arg = c.arg /\ b.kind = "login" /\ c.kind = "register"
      BY <1>10, NewCall DEF Registered, Answers
    <2>2. calls' = (calls \ {c}) \cup {b} /\ UNCHANGED <<known, deriving, events>>
      BY <1>10 DEF Registered, pagesVars
    <2> HIDE DEF b
    <2>3. QED
      BY <2>1, <2>2 DEF CodeInv, Carries
  <1>11. ASSUME NEW c \in calls, SignedUp(c) \/ Checked(c)
         PROVE  CodeInv'
    <2>1. PICK d : deriving' = deriving \cup {d} /\ d.code = c.arg.code
      BY <1>11, KitBegun
    <2>2. /\ c.kind = "login" /\ UNCHANGED <<known, events>>
          /\ \A b \in calls' : (b \in calls /\ b # c) \/ ~Carries(b)
      <3>1. CASE SignedUp(c)
        BY <3>1 DEF SignedUp, Answers, Taken
      <3>2. CASE Checked(c)
        <4> DEFINE b == Call("check", c.n, "logout", c.answer.session, None)
        <4>1. b.kind = "logout"
          BY NewCall
        <4>2. /\ calls' = (calls \ {c}) \cup {b} /\ c.kind = "login"
              /\ UNCHANGED <<known, events>>
          BY <3>2 DEF Checked
        <4> HIDE DEF b
        <4>3. QED
          BY <4>1, <4>2 DEF Carries
      <3>3. QED
        BY <1>11, <3>1, <3>2
    <2>3. QED
      BY <2>1, <2>2 DEF CodeInv, Carries
  <1>12. ASSUME NEW d \in deriving, Derived(d)
         PROVE  CodeInv'
    <2> DEFINE c == Call("web", d.n, "set_kit", d.session, [code |-> d.code, keys |-> d.keys])
    <2>1. c.kind = "set_kit" /\ c.arg.code = d.code
      BY NewCall
    <2>2. calls' = calls \cup {c} /\ deriving' = deriving \ {d} /\ UNCHANGED <<known, events>>
      BY <1>12 DEF Derived, Send
    <2> HIDE DEF c
    <2>3. QED
      BY <2>1, <2>2 DEF CodeInv, Carries
  <1>13. ASSUME NEW c \in calls, KitStored(c) \/ Recovered(c)
         PROVE  CodeInv'
    <2>1. /\ known' \subseteq known \cup {c.arg.code} /\ Carries(c)
          /\ UNCHANGED <<deriving, events>>
      BY <1>13 DEF KitStored, Recovered, Answers, Carries
    <2>2. \A b \in calls' : (b \in calls /\ b # c) \/ ~Carries(b)
      <3>1. CASE Recovered(c)
        BY <3>1 DEF Recovered, Taken
      <3>2. CASE KitStored(c)
        <4> DEFINE b == Call("web", c.n, "status", c.session, None)
        <4>1. b.kind = "status"
          BY NewCall
        <4>2. calls' \subseteq (calls \ {c}) \cup {b}
          BY <3>2 DEF KitStored
        <4> HIDE DEF b
        <4>3. QED
          BY <4>1, <4>2 DEF Carries
      <3>3. QED
        BY <1>13, <3>1, <3>2
    <2>3. c.arg.code \in 0..events
      BY <1>1, <2>1 DEF CodeInv
    <2> HIDE DEF Carries
    <2>4. QED
      BY <2>1, <2>2, <2>3 DEF CodeInv
  <1>14. QED
    <2>1. CASE CodeMoves
      BY <1>8, <1>9, <1>10, <1>11, <1>12, <1>13, <2>1, Zenon DEF CodeMoves
    <2>2. QED
      BY <1>4, <1>5, <1>6, <1>7, <2>1 DEF Next

\* How a step changes the keys that a page holds.
LEMMA PageKeys ==
  ASSUME NumberInv, PagesNext
  PROVE  \/ page'.name = page.name /\ page'.phase = page.phase /\ page'.keys = page.keys
         \/ page'.phase \notin {"new-password", "kit"}
         \/ page'.phase = "kit" /\ page'.keys = "real"
         \/ \E c \in calls : /\ CodeVerified(c) /\ Here(c) /\ page'.name = page.name
                             /\ page'.phase = "new-password" /\ page'.keys = c.answer.keys
  <1> DEFINE Same == page'.name = page.name /\ page'.phase = page.phase /\ page'.keys = page.keys
             Other == page'.phase \notin {"new-password", "kit"}
             Signs == page'.phase = "kit" /\ page'.keys = "real"
             Verifies == \E c \in calls : /\ CodeVerified(c) /\ Here(c) /\ page'.name = page.name
                                          /\ page'.phase = "new-password" /\ page'.keys = c.answer.keys
  <1>1. ASSUME NEW c \in calls,
               \/ Registered(c) \/ Checked(c) \/ LoggedOut(c) \/ ShareCreated(c) \/ Revealed(c)
        PROVE  Same
    BY <1>1 DEF Registered, Checked, LoggedOut, ShareCreated, Revealed, pagesVars
  <1>2. ASSUME NEW c \in calls, KitStatus(c) \/ Listed(c) \/ PageFailed(c)
        PROVE  Same
    BY <1>2 DEF KitStatus, Listed, PageFailed, AfterFailure, NumberInv, IsPage
  <1>3. ASSUME NEW c \in calls, OthersSignedOut(c) \/ DeviceRevoked(c) \/ ShareRevoked(c)
        PROVE  Same
    BY <1>3 DEF OthersSignedOut, DeviceRevoked, ShareRevoked, Shows, Drop, NumberInv, IsPage
  <1>4. ASSUME NEW c \in calls, Recovered(c) \/ PasswordChanged(c)
        PROVE  Same \/ Other
    BY <1>4 DEF Recovered, PasswordChanged, Shows, NumberInv, IsPage
  <1>5. ASSUME NEW c \in calls, SignedUp(c) \/ KitStored(c) \/ Disabled(c) \/ Imported(c)
        PROVE  Same \/ Other \/ Signs
    BY <1>5, AnswerStill DEF Still
  <1>6. ASSUME NEW c \in calls, CodeVerified(c)
        PROVE  Same \/ Verifies
    <2>1. \/ UNCHANGED page
          \/ /\ Here(c) /\ page'.name = page.name /\ page'.phase = "new-password"
             /\ page'.keys = c.answer.keys
      BY <1>6 DEF CodeVerified, Shows, NumberInv, IsPage
    <2>2. QED
      BY <1>6, <2>1
  <1>7. ASSUME NEW d \in deriving, Derived(d)
        PROVE  Same
    BY <1>7 DEF Derived
  <1>8. ASSUME NEW l \in loops, NEW i \in Item, ImportNext(l, i)
        PROVE  Same
    BY <1>8 DEF ImportNext
  <1>9. ASSUME NEW name \in Names \ {"vault"}, OpenPage(name)
        PROVE  Other
    BY <1>9, OpenedPage
  <1>10. LeavePage => Other
    BY DEF LeavePage, Vault
  <1>11. Pressed => Same
    BY DEF Pressed, Still
  <1>12. CodeSaved \/ RetryKit \/ StartImport => Same \/ Other
    BY ButtonStill DEF Still
  <1>13. ASSUME NEW s \in Share,
               \/ \E limit \in ViewLimits : CreateShare(s, limit)
               \/ \E good \in BOOLEAN : Reveal(s, good)
        PROVE  Same
    BY <1>13 DEF CreateShare, Reveal, pagesVars
  <1>14. ASSUME NEW file \in Files, ChooseFile(file)
         PROVE  Other
    BY <1>14, ChosenFile
  <1> HIDE DEF Same, Other, Signs, Verifies
  <1>15. CASE PagesStep
    <2>1. Same \/ Other \/ Signs \/ Verifies
      BY <1>1, <1>2, <1>3, <1>4, <1>5, <1>6, <1>7, <1>8, <1>15, Zenon DEF PagesStep
    <2>2. QED
      BY <2>1 DEF Same, Other, Signs, Verifies
  <1>16. CASE PagesUser
    <2>1. Same \/ Other \/ Signs \/ Verifies
      BY <1>9, <1>10, <1>11, <1>12, <1>13, <1>14, <1>16, PageAsks, ZenonT(30) DEF PagesUser
    <2>2. QED
      BY <2>1 DEF Same, Other, Signs, Verifies
  <1>17. QED
    BY <1>15, <1>16 DEF PagesNext

\* What a step of the clients does to the codes.
LEMMA KitClient ==
  ASSUME NumberInv, KitInv, CodeInv, Next, UNCHANGED <<account, kit>>,
         known' \in SUBSET (0..events) /\ known \subseteq known',
         \A code \in known' \ known :
            \E c \in calls : /\ Carries(c) /\ c.arg.code = code /\ c.arg.keys = "real"
                             /\ c.kind \in {"set_kit", "recovery"},
         \A c \in calls' :
            \/ c \in calls
            \/ Carries(c) /\ (kit # None => c.arg.code # kit.code) /\ KitCall(c)'
            \/ ~Carries(c) /\ c.kind # "recovery_init"
            \/ c.kind = "recovery_init" /\ c.at = "sent" /\ c.arg.code \in known,
         \A d \in deriving' :
            /\ kit # None => d.code # kit.code
            /\ d.keys \in Keys /\ (OnScreenNow(d.n)' => d.keys = "real"),
         KitPage'
  PROVE  KitInv'
  <1>1. events \in Nat /\ events' \in {events, events + 1}
    BY EventsStep
  <1>2. account' \in {"none", "real"}
    BY DEF KitInv
  <1>3. \A c \in calls' : KitCall(c)'
    <2>1. ASSUME NEW c \in calls, KitCall(c)
          PROVE  KitCall(c)'
      <3>1. OnScreenNow(c.n)' => OnScreenNow(c.n)
        BY ScreenStep DEF NumberInv
      <3>2. QED
        BY <2>1, <3>1 DEF KitCall
    <2>2. ASSUME NEW c \in calls', ~Carries(c), c.kind # "recovery_init"
          PROVE  KitCall(c)'
      BY <2>2 DEF KitCall, Carries
    <2>3. ASSUME NEW c \in calls', c.kind = "recovery_init", c.at = "sent", c.arg.code \in known
          PROVE  KitCall(c)'
      BY <2>3 DEF KitCall
    <2>4. QED
      BY <2>1, <2>2, <2>3 DEF KitInv
  <1>4. KitNow'
    <2>1. SUFFICES ASSUME kit # None PROVE KitNow'
      BY DEF KitNow
    <2>2. /\ kit.code \in 0..events /\ kit.keys \in Keys
          /\ kit.code \in known => kit.keys = "real"
          /\ \A c \in calls : Carries(c) /\ c.arg.code = kit.code =>
                c.kind \in {"set_kit", "recovery"} /\ c.arg.keys = kit.keys
      BY <2>1 DEF KitInv, KitNow
    <2>3. kit.code \in 0..events'
      BY <1>1, <2>2
    <2>4. kit.code \in known' => kit.keys = "real"
      BY <2>2
    <2>5. \A c \in calls' : Carries(c) /\ c.arg.code = kit.code =>
             c.kind \in {"set_kit", "recovery"} /\ c.arg.keys = kit.keys
      BY <2>1, <2>2 DEF Carries
    <2>6. QED
      BY <2>1, <2>2, <2>3, <2>4, <2>5 DEF KitNow, Carries
  <1>5. QED
    BY <1>2, <1>3, <1>4 DEF KitInv

LEMMA KitServer ==
  ASSUME NumberInv, KitInv, CodeInv, NEW c \in calls, Serve(c), UNCHANGED pagesVars
  PROVE  KitInv'
  <1>0. UNCHANGED <<page, known, deriving, events>> /\ IsCall(c)
    BY ServedCall DEF pagesVars, NumberInv
  <1>1. PICK a : Done(c, a)
    BY ServeDone
  <1>2. PICK d : Follows(d, c) /\ d.at = "done" /\ d.answer = a
                 /\ calls' = (calls \ {c}) \cup {d}
    BY <1>0, <1>1, DoneCall
  <1>3. account' \in {"none", "real"}
    BY ServeKind, ServeFrame DEF KitInv, KitCall, ServeRegister, ServeRecovery
  <1>4. KitPage' /\ \A e \in deriving' : e.keys \in Keys /\ (OnScreenNow(e.n)' => e.keys = "real")
    BY <1>0 DEF KitInv, KitPage, OnScreenNow
  <1>5. \A b \in calls : KitCall(b)'
    BY <1>0 DEF KitInv, KitCall, OnScreenNow
  <1>6. c.kind = "recovery_init" => d.answer.keys = "real"
    <2>1. SUFFICES ASSUME c.kind = "recovery_init" PROVE d.answer.keys = "real"
      OBVIOUS
    <2>2. kit # None /\ kit.code = c.arg.code /\ Done(c, [keys |-> kit.keys, grant |-> c.n])
      BY <2>1, ServeKind DEF ServeRecoveryInit
    <2>3. kit.keys = "real"
      BY <2>1, <2>2 DEF KitInv, KitNow, KitCall
    <2>4. QED
      <3> DEFINE r == [keys |-> kit.keys, grant |-> c.n]
      <3>1. r.keys = "real" /\ Done(c, r)
        BY <2>2, <2>3
      <3> HIDE DEF r
      <3>2. PICK e : e.at = "done" /\ e.answer = r /\ calls' = (calls \ {c}) \cup {e}
        BY <1>0, <3>1, DoneCall
      <3>3. c.at = "sent"
        BY <1>0, <1>1, DoneCall
      <3>4. d # c /\ e # c
        BY <1>2, <3>2, <3>3
      <3>5. e = d \/ (e \in calls /\ d \in calls)
        BY <1>2, <3>2, <3>4
      <3>6. CASE e = d
        BY <3>1, <3>2, <3>6
      <3>7. CASE e \in calls /\ d \in calls
        BY <1>2, <2>1, <3>7 DEF KitInv, KitCall, Follows
      <3>8. QED
        BY <3>5, <3>6, <3>7
  <1>7. KitCall(d)'
    BY <1>2, <1>5, <1>6 DEF KitCall, Follows
  <1>8. Carries(d) <=> Carries(c)
    BY <1>2 DEF Follows, Carries
  <1>9. KitNow'
    <2>1. CASE UNCHANGED kit
      BY <1>0, <1>2, <1>8, <2>1 DEF KitInv, KitNow, Follows, Carries
    <2>2. CASE c.kind = "clear_kit"
      BY <2>2, ServeKind DEF ServeClearKit, KitNow
    <2>3. CASE c.kind \in {"set_kit", "recovery"}
      <3>1. kit' = [code |-> c.arg.code, keys |-> c.arg.keys]
        BY <2>3, ServeKind DEF ServeSetKit, ServeRecovery
      <3>2. kit'.code = c.arg.code /\ kit'.keys = c.arg.keys
        BY <3>1
      <3>3. c.arg.keys \in Keys /\ Carries(c)
        BY <2>3 DEF KitInv, KitCall, Keys, Carries
      <3>4. /\ c.arg.code \in 1..events /\ c.arg.code \notin known
            /\ \A e \in deriving : e.code # c.arg.code
            /\ \A b \in calls : Carries(b) /\ b.arg.code = c.arg.code => b = c
        BY <3>3 DEF CodeInv
      <3>5. \A b \in calls' : Carries(b) /\ b.arg.code = c.arg.code =>
               b.kind \in {"set_kit", "recovery"} /\ b.arg.keys = c.arg.keys
        BY <1>2, <2>3, <3>4 DEF Follows
      <3>6. c.arg.code \in 0..events /\ events \in Nat
        BY <3>4 DEF NumberInv
      <3>7. QED
        BY <1>0, <3>2, <3>3, <3>4, <3>5, <3>6 DEF KitNow, Carries
    <2>4. QED
      BY <2>1, <2>2, <2>3, ServeFrame
  <1>10. QED
    BY <1>2, <1>3, <1>4, <1>5, <1>7, <1>9 DEF KitInv

LEMMA KitPages ==
  ASSUME NumberInv, KitInv, CodeInv, PagesNext, Next
  PROVE  KitInv'
  <1>1. UNCHANGED <<account, kit>>
    BY PagesFrame DEF serverVars, accountVars
  <1>2. KitPage'
    <2>1. ASSUME NEW c \in calls, CodeVerified(c)
          PROVE  c.answer.keys = "real"
      BY <2>1 DEF CodeVerified, Answers, Answered, KitInv, KitCall
    <2>2. QED
      BY <2>1, PageKeys DEF KitInv, KitPage
  <1>3. CodeInv' /\ events \in Nat
    BY CodeStep DEF NumberInv
  <1>4. /\ known' \in SUBSET (0..events) /\ known \subseteq known'
        /\ \A code \in known' \ known :
              \E c \in calls : /\ Carries(c) /\ c.arg.code = code /\ c.arg.keys = "real"
                               /\ c.kind \in {"set_kit", "recovery"}
    <2>1. CASE UNCHANGED known
      BY <2>1 DEF CodeInv
    <2>2. ASSUME NEW c \in calls, KitStored(c) \/ Recovered(c)
          PROVE  /\ known' \in SUBSET (0..events) /\ known \subseteq known'
                 /\ \A code \in known' \ known :
                       /\ Carries(c) /\ c.arg.code = code /\ c.arg.keys = "real"
                       /\ c.kind \in {"set_kit", "recovery"}
      <3>1. /\ c.kind \in {"set_kit", "recovery"} /\ Carries(c)
            /\ UNCHANGED known \/ (known' = known \cup {c.arg.code} /\ Here(c))
        BY <2>2 DEF KitStored, Recovered, Answers, Carries
      <3>2. c.arg.code \in 0..events /\ known \subseteq 0..events
        BY <1>3, <3>1 DEF CodeInv
      <3>3. Here(c) => c.arg.keys = "real"
        BY <3>1 DEF KitInv, KitCall, Here, OnScreenNow
      <3>4. QED
        BY <3>1, <3>2, <3>3
    <2>3. QED
      BY <2>1, <2>2, PagesFrame
  <1>5. ASSUME NEW c \in calls', PageRequest(c)
        PROVE  \/ Carries(c) /\ (kit # None => c.arg.code # kit.code) /\ KitCall(c)'
               \/ ~Carries(c) /\ c.kind # "recovery_init"
               \/ c.kind = "recovery_init" /\ c.at = "sent" /\ c.arg.code \in known
    <2>1. kit # None => kit.code \in 0..events
      BY DEF KitInv, KitNow
    <2>2. CASE c.kind = "register"
      <3>1. c.arg = [code |-> events + 1]
        BY <1>5, <2>2, PageRequestIs
      <3>2. QED
        BY <1>3, <2>1, <2>2, <3>1 DEF Carries, KitCall
    <2>3. CASE c.kind = "login"
      <3>1. c.arg = [code |-> events + 1] \/ \E b \in calls : Registered(b) /\ c.arg = b.arg
        BY <1>5, <2>3, PageRequestIs
      <3>2. ASSUME NEW b \in calls, Registered(b), c.arg = b.arg
            PROVE  kit # None => c.arg.code # kit.code
        <4>1. b.kind = "register"
          BY <3>2 DEF Registered, Answers
        <4>2. QED
          BY <3>2, <4>1 DEF KitInv, KitNow, Carries
      <3>3. kit # None => c.arg.code # kit.code
        BY <1>3, <2>1, <3>1, <3>2
      <3>4. QED
        BY <2>3, <3>3 DEF Carries, KitCall
    <2>4. CASE c.kind = "set_kit"
      <3>1. PICK d \in deriving : c.n = d.n /\ c.arg = [code |-> d.code, keys |-> d.keys]
        BY <1>5, <2>4, PageRequestIs
      <3>2. /\ d.n \in 0..events /\ d.keys \in Keys /\ (OnScreenNow(d.n) => d.keys = "real")
            /\ kit # None => d.code # kit.code
        BY DEF NumberInv, KitInv, KitNow
      <3>3. OnScreenNow(d.n)' => OnScreenNow(d.n)
        BY <3>2, ScreenStep
      <3>4. c.arg.code = d.code /\ c.arg.keys = d.keys
        BY <3>1
      <3>5. KitCall(c)'
        BY <2>4, <3>1, <3>2, <3>3, <3>4 DEF KitCall
      <3>6. QED
        BY <2>4, <3>2, <3>4, <3>5 DEF Carries
    <2>5. CASE c.kind = "recovery"
      <3>1. /\ SetPassword
            /\ c.arg = [grant |-> page.data.grant, code |-> events + 1, keys |-> page.keys]
        BY <1>5, <2>5, PageRequestIs
      <3>2. c.arg.code = events + 1 /\ c.arg.keys = page.keys
        BY <3>1
      <3>3. page.keys = "real"
        BY <3>1 DEF SetPassword, Idle, KitInv, KitPage
      <3>4. QED
        BY <1>3, <2>1, <2>5, <3>2, <3>3 DEF Carries, KitCall
    <2>6. CASE c.kind = "recovery_init"
      <3>1. PICK code \in known : c.arg = [code |-> code]
        BY <1>5, <2>6, PageRequestIs
      <3>2. QED
        BY <1>5, <2>6, <3>1, PageRequestIs
    <2>7. QED
      BY <2>2, <2>3, <2>4, <2>5, <2>6 DEF Carries
  <1>6. ASSUME NEW d \in deriving'
        PROVE  /\ kit # None => d.code # kit.code
               /\ d.keys \in Keys /\ (OnScreenNow(d.n)' => d.keys = "real")
    <2>1. ASSUME NEW e \in deriving
          PROVE  /\ kit # None => e.code # kit.code
                 /\ e.keys \in Keys /\ (OnScreenNow(e.n)' => e.keys = "real")
      <3>1. /\ kit # None => e.code # kit.code
            /\ e.keys \in Keys /\ (OnScreenNow(e.n) => e.keys = "real") /\ e.n \in 0..events
        BY DEF KitInv, KitNow, NumberInv
      <3>2. QED
        BY <3>1, ScreenStep
    <2>2. CASE d \in deriving
      BY <2>1, <2>2
    <2>3. CASE RetryKit
      <3> DEFINE e == [n |-> page.n, session |-> tab, code |-> events + 1, keys |-> page.keys,
                       pending |-> TRUE]
      <3>1. /\ deriving' = deriving \cup {e} /\ e.code = events + 1 /\ e.keys = page.keys
            /\ page.name = "register" /\ page.phase = "kit" /\ page.keys # None
        BY <2>3 DEF RetryKit, Idle
      <3> HIDE DEF e
      <3>2. page.keys = "real" /\ "real" \in Keys
        BY <3>1 DEF KitInv, KitPage, Keys
      <3>3. kit # None => kit.code \in 0..events
        BY DEF KitInv, KitNow
      <3>4. QED
        BY <1>3, <2>1, <3>1, <3>2, <3>3
    <2>4. CASE LeavePage
      <3>1. deriving' = ZeroPending(page.n) /\ ~OnScreenNow(d.n)'
        BY <2>4, LeftPage DEF LeavePage, OnScreenNow
      <3>2. PICK e \in deriving : d.code = e.code /\ (d = e \/ d.keys = "zero")
        BY <3>1, ZeroPendingKits
      <3>3. QED
        BY <2>1, <3>1, <3>2 DEF Keys
    <2>5. ASSUME NEW c \in calls, SignedUp(c) \/ Checked(c)
          PROVE  /\ kit # None => d.code # kit.code
                 /\ d.keys \in Keys /\ (OnScreenNow(d.n)' => d.keys = "real")
      <3>1. PICK e : deriving' = deriving \cup {e} /\ e.code = c.arg.code /\ e.keys = "real"
        BY <2>5, KitBegun
      <3>2. c.kind = "login"
        BY <2>5 DEF SignedUp, Checked, Answers
      <3>3. kit # None => e.code # kit.code
        BY <3>1, <3>2 DEF KitInv, KitNow, Carries
      <3>4. QED
        BY <2>1, <3>1, <3>3 DEF Keys
    <2>6. ASSUME NEW e \in deriving, Derived(e)
          PROVE  d \in deriving
      BY <2>6 DEF Derived
    <2>7. QED
      BY <2>2, <2>3, <2>4, <2>5, <2>6, PagesFrame
  <1>7. \A c \in calls' :
            \/ c \in calls
            \/ Carries(c) /\ (kit # None => c.arg.code # kit.code) /\ KitCall(c)'
            \/ ~Carries(c) /\ c.kind # "recovery_init"
            \/ c.kind = "recovery_init" /\ c.at = "sent" /\ c.arg.code \in known
    BY <1>5, PagesSend
  <1>8. QED
    BY <1>1, <1>2, <1>4, <1>6, <1>7, KitClient

LEMMA KitStep ==
  ASSUME NumberInv, KitInv, CodeInv, [Next]_vars
  PROVE  KitInv'
  <1>1. ASSUME UNCHANGED <<account, kit, page, known, deriving, calls>>
        PROVE  KitInv'
    <2>1. events \in Nat /\ events' \in {events, events + 1}
      BY EventsStep
    <2>2. KitNow'
      BY <1>1, <2>1 DEF KitInv, KitNow, Carries
    <2>3. QED
      BY <1>1, <2>2 DEF KitInv, KitPage, KitCall, OnScreenNow
  <1>2. CASE UNCHANGED vars
    BY <1>1, <1>2 DEF vars, serverVars, accountVars, pagesVars
  <1>3. CASE ServerNext /\ UNCHANGED pagesVars
    <2>1. ASSUME \/ \E i \in Item : OtherSaves(i)
                 \/ \E s \in Share : Expire(s)
                 \/ DeleteExpired
          PROVE  UNCHANGED <<account, kit, calls>>
      BY <2>1 DEF OtherSaves, Expire, DeleteExpired, accountVars
    <2>2. UNCHANGED <<page, known, deriving>>
      BY <1>3 DEF pagesVars
    <2>3. QED
      BY <1>1, <1>3, <2>1, <2>2, KitServer, Zenon DEF ServerNext
  <1>4. CASE DesktopNext /\ UNCHANGED pagesVars /\ Next
    <2>1. UNCHANGED <<account, kit, page, known, deriving>>
      BY <1>4 DEF DesktopNext, serverVars, accountVars, pagesVars
    <2>2. /\ KitPage' /\ events \in Nat
          /\ known' \in SUBSET (0..events) /\ known \subseteq known'
          /\ \A code \in known' \ known :
            \E c \in calls : /\ Carries(c) /\ c.arg.code = code /\ c.arg.keys = "real"
                             /\ c.kind \in {"set_kit", "recovery"}
          /\ \A d \in deriving' :
                /\ kit # None => d.code # kit.code
                /\ d.keys \in Keys /\ (OnScreenNow(d.n)' => d.keys = "real")
      BY <2>1 DEF KitInv, KitNow, KitPage, OnScreenNow, CodeInv, NumberInv
    <2>3. ASSUME NEW c \in calls', DesktopRequest(c)
          PROVE  \/ Carries(c) /\ (kit # None => c.arg.code # kit.code) /\ KitCall(c)'
                 \/ ~Carries(c) /\ c.kind # "recovery_init"
      <3>1. CASE c.kind = "login"
        <4>1. c.arg = [code |-> events + 1]
          BY <2>3, <3>1, DesktopRequestIs
        <4>2. kit # None => kit.code \in 0..events
          BY DEF KitInv, KitNow
        <4>3. QED
          BY <2>2, <3>1, <4>1, <4>2 DEF Carries, KitCall
      <3>2. CASE c.kind \in {"items", "create", "update", "delete"}
        BY <3>2 DEF Carries
      <3>3. QED
        BY <2>3, <3>1, <3>2, DesktopRequestIs
    <2>4. \A c \in calls' :
            \/ c \in calls
            \/ Carries(c) /\ (kit # None => c.arg.code # kit.code) /\ KitCall(c)'
            \/ ~Carries(c) /\ c.kind # "recovery_init"
            \/ c.kind = "recovery_init" /\ c.at = "sent" /\ c.arg.code \in known
      BY <1>4, <2>3, DesktopSends
    <2>5. QED
      BY <1>4, <2>1, <2>2, <2>4, KitClient
  <1>5. QED
    BY <1>2, <1>3, <1>4, KitPages DEF Next

-----------------------------------------------------------------------------
(* Sessions                                                                *)

LEMMA NumberedStays ==
  ASSUME NumberInv, [Next]_vars, NEW s, Numbered(s)
  PROVE  Numbered(s)'
  BY EventsStep DEF Numbered, Session

\* A login that is new now opens a session that is new now.
LEMMA FreshSession ==
  ASSUME NumberInv, NEW c, c.from \in Logins, c.arg.code = events + 1, NEW s, Numbered(s)
  PROVE  SessionOf(c) # s
  <1>1. SessionOf(c).of = c.from /\ SessionOf(c).n = events + 1
    BY DEF SessionOf
  <1>2. SessionOf(c).of # "cli" /\ ~(events + 1 <= events)
    BY <1>1 DEF Logins, NumberInv
  <1>3. QED
    BY <1>1, <1>2 DEF Numbered

\* The requests that a client may add.
Opening(c) ==
    /\ c.kind \in {"register", "login"} /\ c.at = "sent" /\ c.from \in Logins
    /\ \/ c.arg.code = events + 1
       \/ \E b \in calls : Unopened(b) /\ SessionOf(c) = SessionOf(b)

Closing(c) ==
    /\ c.kind \in Ending /\ c.at = "sent" /\ c.arg.before = sessions
    /\ c.kind = "remove_device" => c.arg.device \in Device

LEMMA SessionClient ==
  ASSUME NumberInv, SessionInv, [Next]_vars, UNCHANGED sessions,
         \A s \in out' :
            \/ s \in out
            \/ /\ Numbered(s) /\ s \notin sessions
               /\ \A b \in calls : Unopened(b) => SessionOf(b) # s,
         \A c \in calls' : \/ c \in calls \/ Opening(c) \/ Closing(c)
                           \/ c.kind \notin {"register", "login"} \cup Ending
  PROVE  SessionInv'
  <1>1. \A s \in sessions \cup out' : Numbered(s) /\ Numbered(s)'
    BY NumberedStays DEF SessionInv
  <1>2. out' \cap sessions' = {}
    BY DEF SessionInv
  <1>3. ASSUME NEW c \in calls', Unopened(c)
        PROVE  /\ SessionOf(c) \notin sessions \cup out'
               /\ \A b \in calls : b.kind \in Ending => SessionOf(c) \notin b.arg.before
    <2>1. CASE c \in calls
      BY <1>3, <2>1 DEF SessionInv, SessionCall
    <2>2. CASE Opening(c)
      <3>1. ASSUME NEW b \in calls, Unopened(b), SessionOf(c) = SessionOf(b)
            PROVE  /\ SessionOf(c) \notin sessions \cup out'
                   /\ \A e \in calls : e.kind \in Ending => SessionOf(c) \notin e.arg.before
        BY <3>1 DEF SessionInv, SessionCall
      <3>2. CASE c.arg.code = events + 1
        <4>1. c.from \in Logins
          BY <2>2 DEF Opening
        <4>2. \A b \in calls : b.kind \in Ending => \A s \in b.arg.before : Numbered(s)
          BY DEF SessionInv, SessionCall
        <4>3. QED
          BY <1>1, <3>2, <4>1, <4>2, FreshSession
      <3>3. QED
        BY <2>2, <3>1, <3>2 DEF Opening
    <2>3. QED
      BY <1>3, <2>1, <2>2 DEF Unopened, Closing, Ending
  <1>4. ASSUME NEW c \in calls'
        PROVE  SessionCall(c)'
    <2>1. Unopened(c) => SessionOf(c) \notin sessions' \cup out'
      BY <1>3
    <2>2. CASE c \in calls
      <3>1. c.kind \in Ending => \A s \in c.arg.before : Numbered(s)'
        BY <2>2, NumberedStays DEF SessionInv, SessionCall
      <3>2. QED
        BY <2>1, <2>2, <3>1 DEF SessionInv, SessionCall, Unopened, SessionOf
    <2>3. CASE Opening(c)
      BY <2>1, <2>3 DEF SessionCall, Opening, Ending, Unopened, SessionOf
    <2>4. CASE Closing(c)
      BY <1>1, <2>4 DEF SessionCall, Closing, Ending, Unopened
    <2>5. CASE c.kind \notin {"register", "login"} \cup Ending
      BY <2>5 DEF SessionCall, Ending, Unopened
    <2>6. QED
      BY <2>2, <2>3, <2>4, <2>5
  <1>5. ASSUME NEW b \in calls', NEW c \in calls', Unopened(b), c.kind \in Ending
        PROVE  SessionOf(b) \notin c.arg.before
    <2>1. CASE c \in calls
      BY <1>3, <1>5, <2>1
    <2>2. CASE Closing(c)
      BY <1>3, <1>5, <2>2 DEF Closing
    <2>3. QED
      BY <1>5, <2>1, <2>2 DEF Opening, Ending
  <1>6. QED
    BY <1>1, <1>2, <1>4, <1>5 DEF SessionInv, Unopened, SessionOf

LEMMA SessionServer ==
  ASSUME NumberInv, CodeInv, SessionInv, NEW c \in calls, Serve(c), UNCHANGED out
  PROVE  SessionInv'
  <1>0. IsCall(c) /\ c.at = "sent" /\ UNCHANGED events
    BY ServedCall DEF NumberInv
  <1>1. ASSUME NEW a, Done(c, a)
        PROVE  \E d : /\ Follows(d, c) /\ d.at = "done" /\ d.answer = a
                      /\ calls' = (calls \ {c}) \cup {d}
    BY <1>0, <1>1, DoneCall
  <1>2. CASE c.kind # "login"
    <2>1. /\ sessions' \subseteq sessions
          /\ c.kind \in {"change", "sign_out_others"} => sessions' = {c.session}
          /\ c.kind = "remove_device" => \A s \in sessions' : s.device # c.arg.device
      <3>1. CASE c.kind \in {"change", "sign_out_others"}
        BY <3>1, ServeKind DEF ServeChangePassword, ServeSignOutOthers, Authorised
      <3>2. CASE c.kind = "remove_device"
        BY <3>2, ServeKind DEF ServeRemoveDevice, SessionsWithout
      <3>3. CASE c.kind \in {"logout", "recovery"}
        BY <3>3, ServeKind DEF ServeLogout, ServeRecovery
      <3>4. QED
        BY <1>2, <3>1, <3>2, <3>3, ServeFrame DEF Ending
    <2>2. PICK d : Follows(d, c) /\ d.at = "done" /\ calls' = (calls \ {c}) \cup {d}
      BY ServedCall
    <2>3. \A b \in calls : SessionCall(b)'
      BY <1>0, <2>1 DEF SessionInv, SessionCall, Unopened, SessionOf, Numbered
    <2>4. (Unopened(d) => Unopened(c)) /\ SessionOf(d) = SessionOf(c)
      BY <1>2, <2>2 DEF Follows, Unopened, SessionOf
    <2>5. SessionCall(d)'
      <3>1. SessionCall(c)'
        BY <2>3
      <3>2. Unopened(d) => SessionOf(d) \notin sessions' \cup out'
        BY <2>1, <2>4 DEF SessionInv, SessionCall
      <3>3. QED
        BY <1>2, <2>1, <2>2, <3>1, <3>2 DEF SessionCall, Follows
    <2>6. QED
      <3>1. \A s \in sessions' \cup out' : Numbered(s)'
        BY <1>0, <2>1 DEF SessionInv, Numbered
      <3>2. out' \cap sessions' = {}
        BY <2>1 DEF SessionInv
      <3>3. ASSUME NEW b \in calls', NEW e \in calls', Unopened(b), e.kind \in Ending
            PROVE  SessionOf(b) \notin e.arg.before
        BY <2>2, <2>4, <3>3 DEF SessionInv, Follows
      <3>4. QED
        BY <2>2, <2>3, <2>5, <3>1, <3>2, <3>3 DEF SessionInv, Unopened, SessionOf
  <1>3. CASE c.kind = "login"
    <2> DEFINE s == SessionOf(c)
    <2>1. sessions' = sessions \cup {s} /\ Done(c, [session |-> s])
      BY <1>3, ServeKind DEF ServeLogin, SessionOf
    <2>2. Unopened(c) /\ s \notin out /\ c.from \in Logins
      BY <1>0, <1>3 DEF Unopened, SessionInv, SessionCall
    <2>3. Numbered(s)
      <3>1. c.arg.code \in 1..events /\ events \in Nat
        BY <1>3 DEF CodeInv, Carries, NumberInv
      <3>2. s = [of |-> c.from, n |-> c.arg.code, device |-> None]
        BY DEF SessionOf
      <3>3. s \in Session
        BY <2>2, <3>1, <3>2 DEF Session, Logins
      <3>4. s.n <= events
        BY <3>1, <3>2
      <3>5. QED
        BY <3>3, <3>4 DEF Numbered
    <2>4. \A b \in calls : b # c /\ Unopened(b) => SessionOf(b) # s
      <3>1. ASSUME NEW b \in calls, b # c, Unopened(b)
            PROVE  SessionOf(b) # s
        <4>1. b.arg.code # c.arg.code
          BY <1>3, <3>1 DEF CodeInv, Carries, Unopened
        <4>2. SessionOf(b).n = b.arg.code /\ s.n = c.arg.code
          BY DEF SessionOf
        <4>3. QED
          BY <4>1, <4>2
      <3>2. QED
        BY <3>1
    <2>5. \A b \in calls : b.kind \in Ending => s \notin b.arg.before
      BY <2>2 DEF SessionInv
    <2>6. PICK d : /\ Follows(d, c) /\ d.at = "done" /\ calls' = (calls \ {c}) \cup {d}
                   /\ d.answer.session = s
      <3> DEFINE a == [session |-> s]
      <3>1. a.session = s /\ Done(c, a)
        BY <2>1
      <3> HIDE DEF a
      <3>2. QED
        BY <1>1, <3>1
    <2>7. ASSUME NEW b \in calls, b # c
          PROVE  SessionCall(b)'
      <3>1. SessionCall(b)
        BY DEF SessionInv
      <3>2. Unopened(b) => SessionOf(b) \notin sessions' \cup out'
        BY <2>1, <2>4, <2>7, <3>1 DEF SessionCall
      <3>3. b.kind \in Ending => b.arg.before \cap sessions' = b.arg.before \cap sessions
        BY <2>1, <2>5
      <3>4. b.kind \in Ending => \A r \in b.arg.before : Numbered(r)'
        BY <1>0, <3>1 DEF SessionCall, Numbered
      <3> HIDE DEF s
      <3>5. QED
        BY <3>1, <3>2, <3>3, <3>4 DEF SessionCall, Ending, Unopened, SessionOf
    <2>8. SessionCall(d)' /\ ~Unopened(d) /\ d.kind = "login" /\ d.kind \notin Ending
      <3>1. d.kind = "login" /\ SessionOf(d) = s /\ d.from \in Logins
        BY <1>3, <2>2, <2>6 DEF Follows, SessionOf
      <3>2. ~Unopened(d)
        BY <2>6, <3>1 DEF Unopened
      <3> HIDE DEF s
      <3>3. SessionCall(d)'
        BY <2>6, <3>1, <3>2 DEF SessionCall, Ending, Unopened, SessionOf
      <3>4. QED
        BY <3>1, <3>2, <3>3 DEF Ending
    <2> HIDE DEF s
    <2>9. \A r \in sessions' \cup out' : Numbered(r)'
      BY <1>0, <2>1, <2>3 DEF SessionInv, Numbered
    <2>10. out' \cap sessions' = {}
      BY <2>1, <2>2 DEF SessionInv
    <2>11. ASSUME NEW b \in calls', NEW e \in calls', Unopened(b), e.kind \in Ending
           PROVE  SessionOf(b) \notin e.arg.before
      BY <2>6, <2>8, <2>11 DEF SessionInv
    <2>12. QED
      BY <2>6, <2>7, <2>8, <2>9, <2>10, <2>11 DEF SessionInv, Unopened, SessionOf
  <1>4. QED
    BY <1>2, <1>3

LEMMA SessionStep ==
  ASSUME NumberInv, CodeInv, SessionInv, [Next]_vars
  PROVE  SessionInv'
  <1>1. ASSUME UNCHANGED <<sessions, out>>, calls' \subseteq calls
        PROVE  SessionInv'
    BY <1>1, SessionClient
  <1>2. CASE UNCHANGED vars
    BY <1>1, <1>2 DEF vars, serverVars, accountVars, pagesVars
  <1>3. CASE ServerNext /\ UNCHANGED pagesVars
    <2>1. ASSUME \/ \E i \in Item : OtherSaves(i)
                 \/ \E s \in Share : Expire(s)
                 \/ DeleteExpired
          PROVE  UNCHANGED <<sessions, calls>>
      BY <2>1 DEF OtherSaves, Expire, DeleteExpired, accountVars
    <2>2. UNCHANGED out
      BY <1>3 DEF pagesVars
    <2>3. QED
      BY <1>1, <1>3, <2>1, <2>2, SessionServer, Zenon DEF ServerNext
  <1>4. CASE DesktopNext /\ UNCHANGED pagesVars
    <2>1. UNCHANGED <<sessions, out>>
      BY <1>4 DEF DesktopNext, serverVars, accountVars, pagesVars
    <2>2. ASSUME NEW c \in calls', DesktopRequest(c)
          PROVE  Opening(c) \/ c.kind \notin {"register", "login"} \cup Ending
      <3>1. CASE c.kind = "login"
        <4>1. c.arg = [code |-> events + 1] /\ c.from = "desktop" /\ c.at = "sent"
          BY <2>2, <3>1, DesktopRequestIs
        <4>2. QED
          BY <3>1, <4>1 DEF Opening, Logins
      <3>2. QED
        BY <2>2, <3>1, DesktopRequestIs DEF Ending
    <2>3. QED
      BY <1>4, <2>1, <2>2, DesktopSends, SessionClient
  <1>5. CASE PagesNext
    <2>1. UNCHANGED sessions
      BY <1>5, PagesFrame DEF serverVars, accountVars
    <2>2. ASSUME NEW c \in calls', PageRequest(c)
          PROVE  \/ Opening(c) \/ Closing(c) \/ c.kind \notin {"register", "login"} \cup Ending
      <3>1. c.at = "sent"
        BY <2>2, PageRequestIs
      <3>2. CASE c.kind = "register"
        <4>1. c.arg = [code |-> events + 1] /\ c.from = "web"
          BY <2>2, <3>2, PageRequestIs
        <4>2. QED
          BY <3>1, <3>2, <4>1 DEF Opening, Logins
      <3>3. CASE c.kind = "login"
        <4>1. \/ c.arg = [code |-> events + 1] /\ c.from = "check"
              \/ c.from = "web" /\ \E b \in calls : Registered(b) /\ c.arg = b.arg
          BY <2>2, <3>3, PageRequestIs
        <4>2. ASSUME NEW b \in calls, Registered(b), c.arg = b.arg, c.from = "web"
              PROVE  Unopened(b) /\ SessionOf(c) = SessionOf(b)
          BY <4>2 DEF Registered, Answers, Unopened, SessionOf
        <4>3. QED
          BY <3>1, <3>3, <4>1, <4>2 DEF Opening, Logins
      <3>4. CASE c.kind \in {"change", "sign_out_others"}
        <4>1. c.arg = [before |-> sessions]
          BY <2>2, <3>4, PageRequestIs
        <4>2. QED
          BY <3>1, <3>4, <4>1 DEF Closing, Ending
      <3>5. CASE c.kind = "remove_device"
        <4>1. PICK d \in Device : c.arg = [device |-> d, before |-> sessions]
          BY <2>2, <3>5, PageRequestIs
        <4>2. QED
          BY <3>1, <3>5, <4>1 DEF Closing, Ending
      <3>6. QED
        BY <3>2, <3>3, <3>4, <3>5 DEF Ending
    <2>3. ASSUME NEW s \in out', s \notin out
          PROVE  /\ Numbered(s) /\ s \notin sessions
                 /\ \A b \in calls : Unopened(b) => SessionOf(b) # s
      <3>1. ASSUME NEW c \in calls, c.kind \in Ending, s \in c.arg.before, s \notin sessions
            PROVE  /\ Numbered(s) /\ s \notin sessions
                   /\ \A b \in calls : Unopened(b) => SessionOf(b) # s
        BY <3>1 DEF SessionInv, SessionCall
      <3>2. ASSUME NEW c \in calls, PasswordChanged(c) \/ OthersSignedOut(c)
            PROVE  c.kind \in Ending /\ s \in c.arg.before /\ s \notin sessions
        <4>1. /\ c.kind \in {"change", "sign_out_others"} /\ c.at = "done"
              /\ out' \subseteq out \cup (c.arg.before \ {c.session})
          BY <3>2 DEF PasswordChanged, OthersSignedOut, Answers, Answered
        <4>2. QED
          BY <2>3, <4>1 DEF SessionInv, SessionCall, Ending
      <3>3. ASSUME NEW c \in calls, DeviceRevoked(c)
            PROVE  c.kind \in Ending /\ s \in c.arg.before /\ s \notin sessions
        <4>1. /\ c.kind = "remove_device" /\ c.at = "done"
              /\ out' \subseteq out \cup {r \in c.arg.before : r.device = c.arg.device}
          BY <3>3 DEF DeviceRevoked, Answers, Answered
        <4>2. QED
          BY <2>3, <4>1 DEF SessionInv, SessionCall, Ending
      <3>4. QED
        BY <1>5, <2>3, <3>1, <3>2, <3>3, PagesFrame
    <2>4. QED
      BY <1>5, <2>1, <2>2, <2>3, PagesSend, SessionClient
  <1>6. QED
    BY <1>2, <1>3, <1>4, <1>5 DEF Next

-----------------------------------------------------------------------------
(* Shared links                                                            *)

\* How a step changes the list that a page shows.
LEMMA PageData ==
  ASSUME NumberInv, PagesNext
  PROVE  \/ page'.name = page.name /\ page'.n = page.n /\ page'.data = page.data
         \/ page'.name \in {"vault", "import"}
         \/ page'.n = events + 1 /\ page'.data = None
         \/ \E c \in calls :
               /\ Here(c) /\ page'.name = page.name /\ page'.n = page.n
               /\ c.kind \in {"status", "recovery_init", "devices", "shares"} /\ c.at = "done"
               /\ page'.data = c.answer
         \/ \E c \in calls :
               /\ Here(c) /\ page'.name = page.name /\ page'.n = page.n
               /\ c.kind \in {"remove_device", "revoke"}
               /\ page'.data.listed \subseteq page.data.listed
  <1> DEFINE Same == page'.name = page.name /\ page'.n = page.n /\ page'.data = page.data
             Other == page'.name \in {"vault", "import"}
             Opened == page'.n = events + 1 /\ page'.data = None
             Got == \E c \in calls :
                       /\ Here(c) /\ page'.name = page.name /\ page'.n = page.n
                       /\ c.kind \in {"status", "recovery_init", "devices", "shares"}
                       /\ c.at = "done" /\ page'.data = c.answer
             Less == \E c \in calls :
                       /\ Here(c) /\ page'.name = page.name /\ page'.n = page.n
                       /\ c.kind \in {"remove_device", "revoke"}
                       /\ page'.data.listed \subseteq page.data.listed
  <1>1. ASSUME NEW c \in calls,
               \/ Registered(c) \/ Checked(c) \/ LoggedOut(c) \/ ShareCreated(c) \/ Revealed(c)
        PROVE  Same
    BY <1>1 DEF Registered, Checked, LoggedOut, ShareCreated, Revealed, pagesVars
  <1>2. ASSUME NEW c \in calls, KitStatus(c) \/ Listed(c)
        PROVE  Same \/ Got
    <2>1. \/ UNCHANGED page
          \/ /\ Here(c) /\ page'.name = page.name /\ page'.n = page.n /\ page'.data = c.answer
             /\ c.kind \in {"status", "devices", "shares"} /\ c.at = "done"
      BY <1>2 DEF KitStatus, Listed, Answers, Answered, NumberInv, IsPage
    <2>2. QED
      BY <2>1
  <1>3. ASSUME NEW c \in calls, CodeVerified(c)
        PROVE  Same \/ Got
    <2>1. \/ UNCHANGED page
          \/ /\ Here(c) /\ page'.name = page.name /\ page'.n = page.n /\ page'.data = c.answer
             /\ c.kind = "recovery_init" /\ c.at = "done"
      BY <1>3 DEF CodeVerified, Shows, Answers, Answered, NumberInv, IsPage
    <2>2. QED
      BY <2>1
  <1>4. ASSUME NEW c \in calls, DeviceRevoked(c) \/ ShareRevoked(c)
        PROVE  Same \/ Less
    <2>1. ASSUME NEW x, Shows(c, IF Here(c) THEN Drop(x) ELSE page)
          PROVE  \/ UNCHANGED page
                 \/ /\ Here(c) /\ page'.name = page.name /\ page'.n = page.n
                    /\ page'.data = [listed |-> page.data.listed \ {x}]
      BY <2>1 DEF Shows, Drop, NumberInv, IsPage
    <2>2. c.kind \in {"remove_device", "revoke"}
      BY <1>4 DEF DeviceRevoked, ShareRevoked, Answers
    <2>3. \E x : Shows(c, IF Here(c) THEN Drop(x) ELSE page)
      BY <1>4, Zenon DEF DeviceRevoked, ShareRevoked
    <2>4. PICK x : Shows(c, IF Here(c) THEN Drop(x) ELSE page)
      BY <2>3
    <2>5. \/ UNCHANGED page
          \/ /\ Here(c) /\ page'.name = page.name /\ page'.n = page.n
             /\ page'.data = [listed |-> page.data.listed \ {x}]
      BY <2>1, <2>4, Zenon
    <2>6. page'.data = [listed |-> page.data.listed \ {x}] =>
             page'.data.listed \subseteq page.data.listed
      OBVIOUS
    <2>7. QED
      BY <2>2, <2>5, <2>6
  <1>5. ASSUME NEW c \in calls, OthersSignedOut(c) \/ Recovered(c) \/ PasswordChanged(c)
        PROVE  Same
    BY <1>5 DEF OthersSignedOut, Recovered, PasswordChanged, Shows, NumberInv, IsPage
  <1>6. ASSUME NEW c \in calls, SignedUp(c) \/ KitStored(c) \/ Disabled(c)
        PROVE  Same
    BY <1>6 DEF SignedUp, KitStored, Disabled, Shows, NumberInv, IsPage
  <1>7. ASSUME NEW c \in calls, Imported(c) \/ PageFailed(c)
        PROVE  Same
    BY <1>7 DEF Imported, PageFailed, AfterFailure, NumberInv, IsPage
  <1>8. ASSUME NEW d \in deriving, Derived(d)
        PROVE  Same
    BY <1>8 DEF Derived
  <1>9. ASSUME NEW l \in loops, NEW i \in Item, ImportNext(l, i)
        PROVE  Same
    BY <1>9 DEF ImportNext
  <1>10. ASSUME NEW name \in Names \ {"vault"}, OpenPage(name)
         PROVE  Opened
    BY <1>10, OpenedPage
  <1>11. LeavePage => Other
    BY DEF LeavePage, Vault
  <1>12. Pressed => Same
    BY DEF Pressed, Still
  <1>13. CodeSaved \/ RetryKit => Same
    BY DEF CodeSaved, RetryKit, NumberInv, IsPage
  <1>14. StartImport => Other
    BY DEF StartImport, Idle, NumberInv, IsPage
  <1>15. ASSUME NEW file \in Files, ChooseFile(file)
         PROVE  Other
    BY <1>15 DEF ChooseFile, Idle, NumberInv, IsPage
  <1>16. ASSUME NEW s \in Share,
               \/ \E limit \in ViewLimits : CreateShare(s, limit)
               \/ \E good \in BOOLEAN : Reveal(s, good)
        PROVE  Same
    BY <1>16 DEF CreateShare, Reveal, pagesVars
  <1> HIDE DEF Same, Other, Opened, Got, Less
  <1>17. Same \/ Other \/ Opened \/ Got \/ Less
    <2>1. CASE PagesStep
      BY <1>1, <1>2, <1>3, <1>4, <1>5, <1>6, <1>7, <1>8, <1>9, <2>1, Zenon DEF PagesStep
    <2>2. CASE PagesUser
      BY <1>10, <1>11, <1>12, <1>13, <1>14, <1>15, <1>16, <2>2, PageAsks, ZenonT(30)
         DEF PagesUser
    <2>3. QED
      BY <2>1, <2>2 DEF PagesNext
  <1>18. QED
    BY <1>17 DEF Same, Other, Opened, Got, Less

\* What a request does to the links.
LEMMA ServeShared ==
  ASSUME LinkInv, NEW c \in calls, Serve(c)
  PROVE  /\ shares' \in [Share -> ShareRow \cup {None}]
         /\ \A s \in Share : shares'[s] # None => shares'[s].used <= shares'[s].limit
         /\ \A s \in Share : shares[s] = None =>
               shares'[s] = None \/ (c.kind = "create_share" /\ s = c.arg.share)
         /\ c.kind = "revoke" => shares'[c.arg.share] = None
         /\ c.kind = "view" => shares[c.arg.share] # None
  <1>1. /\ shares \in [Share -> ShareRow \cup {None}]
        /\ \A s \in Share : shares[s] # None => shares[s].used <= shares[s].limit
        /\ c.kind \in {"create_share", "revoke", "view"} => c.arg.share \in Share
        /\ c.kind = "create_share" => c.arg.limit \in ViewLimits
    BY DEF LinkInv, LinkCall
  <1>2. CASE c.kind = "create_share"
    <2> DEFINE row == [used |-> 0, limit |-> c.arg.limit, expired |-> FALSE]
    <2>1. shares' = [shares EXCEPT ![c.arg.share] = row]
      BY <1>2, ServeKind DEF ServeCreateShare
    <2>2. row \in ShareRow /\ row.used <= row.limit
      <3>1. c.arg.limit \in Nat /\ c.arg.limit \in ViewLimits
        BY <1>1, <1>2, ServerAssumption
      <3>2. row.used = 0 /\ row.limit = c.arg.limit /\ row \in ShareRow
        BY <3>1 DEF ShareRow
      <3> HIDE DEF row
      <3>3. QED
        BY <3>1, <3>2
    <2> HIDE DEF row
    <2>3. QED
      BY <1>1, <1>2, <2>1, <2>2
  <1>3. CASE c.kind = "revoke"
    <2>1. shares' = [shares EXCEPT ![c.arg.share] = None]
      BY <1>3, ServeKind DEF ServeRevoke
    <2>2. QED
      BY <1>1, <1>3, <2>1
  <1>4. CASE c.kind = "view"
    <2> DEFINE s == c.arg.share
               row == [shares[s] EXCEPT !.used = @ + 1]
    <2>1. shares' = [shares EXCEPT ![s] = row] /\ shares[s] # None /\ ViewLeft(s)
      BY <1>4, ServeKind DEF ServeView
    <2>2. s \in Share /\ shares[s] \in ShareRow
      BY <1>1, <1>4, <2>1
    <2>3. row \in ShareRow /\ row.used <= row.limit
      <3> DEFINE old == shares[s]
      <3>1. old \in ShareRow /\ old.used < old.limit /\ row = [old EXCEPT !.used = @ + 1]
        BY <2>1, <2>2 DEF ViewLeft
      <3> HIDE DEF old, row
      <3>2. old.limit \in Nat /\ old.used \in Nat
        BY <3>1, ServerAssumption DEF ShareRow
      <3>3. row \in ShareRow /\ row.used = old.used + 1 /\ row.limit = old.limit
        BY <3>1 DEF ShareRow
      <3>4. QED
        BY <3>1, <3>2, <3>3
    <2> HIDE DEF s, row
    <2>4. QED
      BY <1>1, <1>4, <2>1, <2>2, <2>3 DEF s
  <1>5. CASE c.kind \notin {"create_share", "revoke", "view"}
    BY <1>1, <1>5, ServeFrame
  <1>6. QED
    BY <1>2, <1>3, <1>4, <1>5

LEMMA LinkServer ==
  ASSUME NumberInv, LinkInv, NEW c \in calls, Serve(c), UNCHANGED pagesVars
  PROVE  LinkInv'
  <1>0. IsCall(c) /\ c.at = "sent" /\ UNCHANGED <<page, links, gone>>
    BY ServedCall DEF NumberInv, pagesVars
  <1>1. LinkCall(c) /\ \A b \in calls : LinkCall(b)
    BY DEF LinkInv
  <1>2. \A s \in Share : shares[s] # None => NotComing(s)
    BY <1>1 DEF NotComing, LinkCall
  <1>3. PICK d : /\ Follows(d, c) /\ d.at = "done" /\ calls' = (calls \ {c}) \cup {d}
                 /\ c.kind = "shares" => \A s \in d.answer.listed : NotComing(s)
    <2>1. PICK a : Done(c, a) /\ (c.kind = "shares" => \A s \in a.listed : NotComing(s))
      <3>1. CASE c.kind = "shares"
        <4> DEFINE a == [listed |-> {s \in Share : shares[s] # None /\ ~shares[s].expired}]
        <4>1. Done(c, a)
          BY <3>1, ServeKind DEF ServeShares
        <4>2. \A s \in a.listed : NotComing(s)
          BY <1>2
        <4> HIDE DEF a
        <4>3. QED
          BY <4>1, <4>2
      <3>2. CASE c.kind # "shares"
        BY <3>2, ServeDone
      <3>3. QED
        BY <3>1, <3>2
    <2>2. QED
      BY <1>0, <2>1, DoneCall
  <1>4. \A s : NotComing(s) => NotComing(s)'
    BY <1>3 DEF NotComing
  <1>5. \A n : OnScreenNow(n)' <=> OnScreenNow(n)
    BY <1>0 DEF OnScreenNow
  <1>6. ASSUME NEW b \in calls, b # c
        PROVE  LinkCall(b)'
    <2>1. b.kind = "create_share" /\ b.at = "sent" => shares'[b.arg.share] = None
      BY <1>1, <1>6, ServeShared DEF LinkInv, LinkCall
    <2>2. b.kind = "revoke" /\ OnScreenNow(b.n) =>
             NotComing(b.arg.share)' /\ (b.at = "done" => shares'[b.arg.share] = None)
      BY <1>0, <1>1, <1>4, ServeShared DEF LinkCall, NotComing
    <2>3. b.kind = "shares" /\ OnScreenNow(b.n) /\ b.at = "done" =>
             \A s \in b.answer.listed : NotComing(s)'
      BY <1>1, <1>4 DEF LinkCall
    <2>4. QED
      BY <1>0, <1>1, <1>5, <2>1, <2>2, <2>3 DEF LinkCall
  <1>7. LinkCall(d)'
    <2>1. c.kind = "revoke" /\ OnScreenNow(c.n) =>
             NotComing(c.arg.share)' /\ shares'[c.arg.share] = None
      BY <1>1, <1>4, ServeShared DEF LinkCall
    <2>2. c.kind = "shares" => \A s \in d.answer.listed : NotComing(s)'
      BY <1>3, <1>4
    <2>3. c.kind = "view" => ~c.arg.late
      BY <1>1, ServeShared DEF LinkInv, LinkCall
    <2>4. QED
      BY <1>0, <1>1, <1>3, <1>5, <2>1, <2>2, <2>3 DEF LinkCall, Follows
  <1>8. /\ shares' \in [Share -> ShareRow \cup {None}]
        /\ \A s \in Share : shares'[s] # None => shares'[s].used <= shares'[s].limit
    BY ServeShared
  <1>9. \A s \in gone' : shares'[s] = None /\ NotComing(s)'
    BY <1>0, <1>4, ServeShared DEF LinkInv, NotComing
  <1>10. ASSUME NEW b \in calls', NEW e \in calls', b.kind = "create_share",
               e.kind = "create_share", b.arg.share = e.arg.share
         PROVE  b = e
    BY <1>3, <1>10 DEF LinkInv, Follows
  <1>11. page'.name = "shares" /\ LinksListed' => \A s \in page'.data.listed : NotComing(s)'
    <2>1. LinksListed' => LinksListed
      BY <1>0, <1>3, <1>5 DEF LinksListed, Follows
    <2>2. QED
      BY <1>0, <1>4, <2>1 DEF LinkInv
  <1>12. links' \subseteq Share /\ gone' \subseteq Share
    BY <1>0 DEF LinkInv
  <1>13. QED
    BY <1>3, <1>6, <1>7, <1>8, <1>9, <1>10, <1>11, <1>12 DEF LinkInv

LEMMA LinkPages ==
  ASSUME NumberInv, VisitInv, LinkInv, PagesNext, Next
  PROVE  LinkInv'
  <1>0. UNCHANGED shares /\ events \in Nat /\ page.n \in 0..events
    BY PagesFrame DEF serverVars, NumberInv
  <1>1. \A c \in calls : LinkCall(c) /\ c.n \in 0..events
    BY DEF LinkInv, NumberInv
  <1>2. ASSUME NEW s \in Share, NEW limit \in ViewLimits, CreateShare(s, limit)
        PROVE  /\ UNCHANGED <<page, links, gone>> /\ page.name = "vault"
               /\ s \notin links /\ s \notin gone /\ shares[s] = None
               /\ \A c \in calls : c.kind = "create_share" => c.arg.share # s
               /\ \E x : calls' = calls \cup {x}
    BY <1>2 DEF CreateShare, Send, pagesVars
  <1>3. ASSUME NEW c \in calls', c \notin calls, c.kind = "create_share"
        PROVE  \E s \in Share, limit \in ViewLimits :
                  CreateShare(s, limit) /\ c.arg.share = s /\ c.arg.limit = limit
    <2>1. PICK s \in Share, limit \in ViewLimits :
             CreateShare(s, limit) /\ c.arg = [share |-> s, limit |-> limit]
      BY <1>3, PagesSend, PageRequestIs
    <2>2. QED
      BY <2>1
  <1>4. ASSUME NEW s, NotComing(s), page.name # "vault" \/ s \in gone
        PROVE  NotComing(s)'
    BY <1>2, <1>3, <1>4 DEF NotComing
  <1>5. /\ links \subseteq links' /\ links' \subseteq Share
        /\ gone \subseteq gone' /\ gone' \subseteq Share
    <2>1. ASSUME NEW c \in calls, ShareCreated(c)
          PROVE  links' = links \cup {c.arg.share} /\ c.arg.share \in Share
      BY <1>1, <2>1 DEF ShareCreated, Answers, LinkCall
    <2>2. ASSUME NEW c \in calls, ShareRevoked(c)
          PROVE  gone' \in {gone, gone \cup {c.arg.share}} /\ c.arg.share \in Share
      BY <1>1, <2>2 DEF ShareRevoked, Answers, LinkCall
    <2>3. QED
      BY <2>1, <2>2, PagesFrame DEF LinkInv
  <1>6. ASSUME NEW c \in calls, c \in calls', c.kind = "create_share"
        PROVE  c.arg.share \notin links'
    <2>1. ASSUME NEW b \in calls, ShareCreated(b)
          PROVE  /\ links' = links \cup {b.arg.share} /\ b.kind = "create_share"
                 /\ b \notin calls'
      BY <2>1 DEF ShareCreated, Answers, Taken
    <2>2. QED
      BY <1>1, <1>6, <2>1, PagesFrame DEF LinkInv, LinkCall
  <1>7. ASSUME NEW c \in calls, c \in calls'
        PROVE  LinkCall(c)'
    <2>1. OnScreenNow(c.n)' => OnScreenNow(c.n) /\ page.name # "vault"
      BY <1>1, ScreenStep DEF OnScreenNow
    <2>2. c.kind = "revoke" /\ OnScreenNow(c.n)' => NotComing(c.arg.share)'
      BY <1>1, <1>4, <2>1 DEF LinkCall
    <2>3. c.kind = "shares" /\ OnScreenNow(c.n)' /\ c.at = "done" =>
             \A s \in c.answer.listed : NotComing(s)'
      BY <1>1, <1>4, <2>1 DEF LinkCall
    <2>4. LinkCall(c)
      BY <1>1
    <2>5. QED
      BY <1>0, <1>5, <1>6, <1>7, <2>1, <2>2, <2>3, <2>4 DEF LinkCall
  <1>8. ASSUME NEW c \in calls', c \notin calls
        PROVE  LinkCall(c)'
    <2>1. PageRequest(c) /\ c.at = "sent"
      BY <1>8, PagesSend, PageRequestIs
    <2>2. CASE c.kind = "create_share"
      <3>1. PICK s \in Share, limit \in ViewLimits :
               CreateShare(s, limit) /\ c.arg.share = s /\ c.arg.limit = limit
        BY <1>3, <1>8, <2>2
      <3>2. UNCHANGED links /\ s \notin links /\ shares[s] = None
        BY <1>2, <3>1
      <3>3. QED
        BY <1>0, <2>2, <3>1, <3>2 DEF LinkCall
    <2>3. CASE c.kind = "revoke"
      <3>1. PICK s \in Share : RevokeShare(s) /\ c.n = page.n /\ c.arg = [share |-> s]
        BY <2>1, <2>3, PageRequestIs
      <3>2. page.name = "shares" /\ page.data # None /\ s \in page.data.listed
        BY <3>1 DEF RevokeShare, Idle
      <3>3. NotComing(s)'
        BY <1>4, <3>2 DEF LinkInv, LinksListed
      <3>4. c.arg.share = s
        BY <3>1
      <3>5. QED
        BY <2>1, <2>3, <3>3, <3>4 DEF LinkCall
    <2>4. CASE c.kind = "view"
      <3>1. PICK s \in Share, good \in BOOLEAN :
               Reveal(s, good) /\ c.arg = [share |-> s, good |-> good, late |-> s \in gone]
        BY <2>1, <2>4, PageRequestIs
      <3> DEFINE late == s \in gone
      <3>2. c.arg = [share |-> s, good |-> good, late |-> late] /\ s \in links
        BY <3>1 DEF Reveal
      <3> HIDE DEF late
      <3>3. c.arg.share = s /\ c.arg.late = late
        BY <3>2
      <3>4. c.arg.late => s \in gone
        BY <3>3, Zenon DEF late
      <3>5. QED
        BY <1>5, <2>1, <2>4, <3>2, <3>3, <3>4 DEF LinkCall
    <2>5. CASE c.kind \notin {"create_share", "revoke", "view"}
      BY <2>1, <2>5 DEF LinkCall
    <2>6. QED
      BY <2>2, <2>3, <2>4, <2>5
  <1>9. ASSUME NEW b \in calls', NEW c \in calls', b.kind = "create_share",
               c.kind = "create_share", b.arg.share = c.arg.share
        PROVE  b = c
    <2>1. CASE b \in calls /\ c \in calls
      BY <1>9, <2>1 DEF LinkInv
    <2>2. ASSUME NEW e \in calls', e \notin calls, e.kind = "create_share"
          PROVE  /\ \A a \in calls : a.kind = "create_share" => a.arg.share # e.arg.share
                 /\ \A a \in calls' : a \in calls \/ a = e
      BY <1>2, <1>3, <2>2
    <2>3. QED
      BY <1>9, <2>1, <2>2
  <1>10. ASSUME NEW s \in gone'
         PROVE  shares'[s] = None /\ NotComing(s)'
    <2>1. CASE s \in gone
      BY <1>0, <1>4, <2>1 DEF LinkInv
    <2>2. ASSUME NEW c \in calls, ShareRevoked(c), s \notin gone
          PROVE  shares'[s] = None /\ NotComing(s)'
      <3>1. s = c.arg.share /\ Here(c) /\ c.kind = "revoke" /\ c.at = "done"
        BY <1>10, <2>2 DEF ShareRevoked, Answers, Answered
      <3>2. shares[s] = None /\ NotComing(s) /\ page.name # "vault"
        BY <1>1, <3>1 DEF LinkCall, Here, OnScreenNow
      <3>3. QED
        BY <1>0, <1>4, <3>2
    <2>3. QED
      BY <1>10, <2>1, <2>2, PagesFrame
  <1>11. ASSUME page'.name = "shares", LinksListed', NEW s \in page'.data.listed
         PROVE  NotComing(s)'
    <2>1. ASSUME NEW c \in calls', c \notin calls, c.kind = "revoke"
          PROVE  page.data # None /\ c.n = page.n
      <3>1. PICK r \in Share : RevokeShare(r) /\ c.n = page.n
        BY <2>1, PagesSend, PageRequestIs
      <3>2. QED
        BY <3>1 DEF RevokeShare
    <2>2. CASE page'.name = page.name /\ page'.n = page.n /\ page'.data = page.data
      <3>1. LinksListed
        BY <1>11, <2>1, <2>2 DEF LinksListed, OnScreenNow
      <3>2. QED
        BY <1>4, <1>11, <2>2, <3>1 DEF LinkInv
    <2>3. CASE page'.n = events + 1 /\ page'.data = None
      BY <1>0, <1>1, <1>11, <2>1, <2>3 DEF LinksListed, OnScreenNow
    <2>4. ASSUME NEW c \in calls, Here(c), page'.name = page.name,
                 c.kind \in {"status", "recovery_init", "devices", "shares"},
                 c.at = "done", page'.data = c.answer
          PROVE  NotComing(s)'
      <3>1. c.kind = "shares" /\ OnScreenNow(c.n)
        BY <1>11, <2>4 DEF VisitInv, Asker, Here, OnScreenNow
      <3>2. NotComing(s)
        BY <1>1, <1>11, <2>4, <3>1 DEF LinkCall
      <3>3. QED
        BY <1>4, <2>4, <3>2 DEF Here
    <2>5. ASSUME NEW c \in calls, Here(c), page'.name = page.name,
                 c.kind \in {"remove_device", "revoke"},
                 page'.data.listed \subseteq page.data.listed
          PROVE  NotComing(s)'
      <3>1. c.kind = "revoke" /\ OnScreenNow(c.n)
        BY <1>11, <2>5 DEF VisitInv, Asker, Here, OnScreenNow
      <3>2. NotComing(s)
        BY <1>11, <2>5, <3>1 DEF LinkInv, LinksListed
      <3>3. QED
        BY <1>4, <2>5, <3>2 DEF Here
    <2>6. QED
      BY <1>11, <2>2, <2>3, <2>4, <2>5, PageData
  <1>12. QED
    <2>1. \A c \in calls' : LinkCall(c)'
      BY <1>7, <1>8
    <2>2. /\ shares' \in [Share -> ShareRow \cup {None}]
          /\ \A s \in Share : shares'[s] # None => shares'[s].used <= shares'[s].limit
      BY <1>0 DEF LinkInv
    <2>3. QED
      BY <1>5, <1>9, <1>10, <1>11, <2>1, <2>2 DEF LinkInv

\* The clock and the hourly task only take links away.
LEMMA SharesExpire ==
  ASSUME LinkInv, (\E s \in Share : Expire(s)) \/ DeleteExpired
  PROVE  /\ shares' \in [Share -> ShareRow \cup {None}]
         /\ \A s \in Share : shares[s] = None => shares'[s] = None
         /\ \A s \in Share : shares'[s] # None =>
               shares'[s].used = shares[s].used /\ shares'[s].limit = shares[s].limit
         /\ UNCHANGED calls
  <1>1. shares \in [Share -> ShareRow \cup {None}]
    BY DEF LinkInv
  <1>2. CASE DeleteExpired
    BY <1>1, <1>2 DEF DeleteExpired
  <1>3. ASSUME NEW s \in Share, Expire(s)
        PROVE  /\ shares' \in [Share -> ShareRow \cup {None}]
               /\ \A r \in Share : shares[r] = None => shares'[r] = None
               /\ \A r \in Share : shares'[r] # None =>
                     shares'[r].used = shares[r].used /\ shares'[r].limit = shares[r].limit
               /\ UNCHANGED calls
    <2> DEFINE row == [shares[s] EXCEPT !.expired = TRUE]
    <2>1. shares[s] \in ShareRow /\ shares[s] # None
      BY <1>1, <1>3 DEF Expire
    <2>2. row \in ShareRow /\ row.used = shares[s].used /\ row.limit = shares[s].limit
      BY <2>1 DEF ShareRow
    <2>3. shares' = [shares EXCEPT ![s] = row] /\ UNCHANGED calls
      BY <1>3 DEF Expire
    <2> HIDE DEF row
    <2>4. QED
      BY <1>1, <2>1, <2>2, <2>3
  <1>4. QED
    BY <1>2, <1>3

LEMMA LinkStep ==
  ASSUME NumberInv, VisitInv, LinkInv, [Next]_vars
  PROVE  LinkInv'
  <1>1. ASSUME UNCHANGED <<page, links, gone>>,
               \A c \in calls' : \/ c \in calls
                                 \/ c.kind \notin {"create_share", "revoke", "shares", "view"},
               shares' \in [Share -> ShareRow \cup {None}],
               \A s \in Share : shares[s] = None => shares'[s] = None,
               \A s \in Share : shares'[s] # None =>
                  shares'[s].used = shares[s].used /\ shares'[s].limit = shares[s].limit
        PROVE  LinkInv'
    <2>1. \A s : NotComing(s) => NotComing(s)'
      BY <1>1 DEF NotComing
    <2>2. \A c \in calls' : LinkCall(c)'
      <3>1. \A n : OnScreenNow(n)' <=> OnScreenNow(n)
        BY <1>1 DEF OnScreenNow
      <3>2. ASSUME NEW c \in calls
            PROVE  LinkCall(c)'
        BY <1>1, <2>1, <3>1 DEF LinkInv, LinkCall
      <3>3. ASSUME NEW c, c.kind \notin {"create_share", "revoke", "shares", "view"}
            PROVE  LinkCall(c)'
        BY <3>3 DEF LinkCall
      <3>4. QED
        BY <1>1, <3>2, <3>3
    <2>3. \A s \in Share : shares'[s] # None => shares'[s].used <= shares'[s].limit
      BY <1>1 DEF LinkInv
    <2>4. LinksListed' => LinksListed
      BY <1>1 DEF LinksListed, OnScreenNow
    <2>5. \A s \in gone' : shares'[s] = None /\ NotComing(s)'
      BY <1>1, <2>1 DEF LinkInv
    <2>6. page'.name = "shares" /\ LinksListed' => \A s \in page'.data.listed : NotComing(s)'
      BY <1>1, <2>1, <2>4 DEF LinkInv
    <2>7. \A b, c \in calls' : b.kind = "create_share" /\ c.kind = "create_share"
             /\ b.arg.share = c.arg.share => b = c
      BY <1>1 DEF LinkInv
    <2>8. QED
      BY <1>1, <2>2, <2>3, <2>5, <2>6, <2>7 DEF LinkInv
  <1>2. shares \in [Share -> ShareRow \cup {None}]
    BY DEF LinkInv
  <1>3. CASE UNCHANGED vars
    BY <1>1, <1>2, <1>3 DEF vars, serverVars, pagesVars
  <1>4. CASE ServerNext /\ UNCHANGED pagesVars
    <2>1. UNCHANGED <<page, links, gone>>
      BY <1>4 DEF pagesVars
    <2>2. ASSUME NEW i \in Item, OtherSaves(i)
          PROVE  LinkInv'
      BY <1>1, <1>2, <2>1, <2>2 DEF OtherSaves
    <2>3. CASE (\E s \in Share : Expire(s)) \/ DeleteExpired
      BY <1>1, <2>1, <2>3, SharesExpire
    <2>4. QED
      BY <1>4, <2>2, <2>3, LinkServer, Zenon DEF ServerNext
  <1>5. CASE DesktopNext /\ UNCHANGED pagesVars
    <2>1. UNCHANGED <<page, links, gone, shares>>
      BY <1>5 DEF DesktopNext, serverVars, pagesVars
    <2>2. \A c \in calls' : \/ c \in calls
                            \/ c.kind \notin {"create_share", "revoke", "shares", "view"}
      BY <1>5, DesktopSends, DesktopRequestIs
    <2>3. QED
      BY <1>1, <1>2, <2>1, <2>2
  <1>6. QED
    BY <1>3, <1>4, <1>5, LinkPages DEF Next

-----------------------------------------------------------------------------
(* Views                                                                   *)

\* What ViewInv says of one link.
WithinLimit(s) ==
    Views(s) > 0 =>
       \E limit \in ViewLimits :
          /\ Views(s) <= limit
          /\ shares[s] # None => shares[s].limit = limit /\ Views(s) <= shares[s].used

\* How the row of a link may change without a view.
RowKept(s) ==
    shares'[s] # None =>
       shares[s] # None /\ shares'[s].limit = shares[s].limit /\ shares'[s].used = shares[s].used

LEMMA ViewsCounted ==
  ASSUME ViewInv, NEW s \in Share
  PROVE  Views(s) \in Nat /\ Cardinality(Viewing(s)) \in Nat
  BY FS_CardinalityType DEF ViewInv, Views

LEMMA ViewsKept ==
  ASSUME ViewInv, LinkInv, NEW s \in Share, RowKept(s),
         Views(s)' \in Nat, Views(s)' <= Views(s)
  PROVE  WithinLimit(s)'
  <1>1. Views(s) \in Nat /\ ViewLimits \subseteq Nat
    BY ViewsCounted, ServerAssumption
  <1>2. CASE Views(s)' > 0
    <2>1. PICK limit \in ViewLimits :
             /\ Views(s) <= limit
             /\ shares[s] # None => shares[s].limit = limit /\ Views(s) <= shares[s].used
      BY <1>1, <1>2 DEF ViewInv
    <2>2. shares[s] # None => shares[s].used \in Nat
      BY DEF LinkInv, ShareRow
    <2>3. Views(s)' <= limit
      BY <1>1, <2>1
    <2>4. shares'[s] # None => shares'[s].limit = limit /\ Views(s)' <= shares'[s].used
      BY <1>1, <2>1, <2>2 DEF RowKept
    <2>5. QED
      BY <2>3, <2>4 DEF WithinLimit
  <1>3. QED
    BY <1>2 DEF WithinLimit

\* A step that answers no view and shows no secret.
LEMMA ViewQuiet ==
  ASSUME ViewInv, LinkInv, NEW s \in Share, RowKept(s), UNCHANGED reveals,
         \A c \in calls' : c \in calls \/ c.kind # "view" \/ c.at = "sent"
  PROVE  IsFiniteSet(Viewing(s)') /\ WithinLimit(s)'
  <1>1. Viewing(s)' \subseteq Viewing(s)
    BY DEF Viewing
  <1>2. IsFiniteSet(Viewing(s))
    BY DEF ViewInv
  <1>3. IsFiniteSet(Viewing(s)') /\ Cardinality(Viewing(s)') <= Cardinality(Viewing(s))
    BY <1>1, <1>2, FS_Subset
  <1>4. Cardinality(Viewing(s)') \in Nat /\ Cardinality(Viewing(s)) \in Nat
    BY <1>2, <1>3, FS_CardinalityType
  <1>5. Views(s)' \in Nat /\ Views(s)' <= Views(s)
    BY <1>3, <1>4 DEF Views, ViewInv
  <1>6. QED
    BY <1>3, <1>5, ViewsKept

\* A secret that is shown was on its way.
LEMMA ViewShown ==
  ASSUME ViewInv, LinkInv, NEW c \in calls, Revealed(c), NEW s \in Share,
         UNCHANGED shares
  PROVE  IsFiniteSet(Viewing(s)') /\ WithinLimit(s)'
  <1>1. /\ c.kind = "view" /\ c.at = "done" /\ calls' = calls \ {c}
        /\ c.arg.share \in Share
    BY DEF Revealed, Answered, Taken, LinkInv, LinkCall
  <1>2. reveals \in [Share -> Nat] /\ IsFiniteSet(Viewing(s))
    BY DEF ViewInv
  <1>3. RowKept(s)
    BY DEF RowKept
  <1>4. CASE c.arg.share = s
    <2>1. Viewing(s)' = Viewing(s) \ {c} /\ c \in Viewing(s)
      BY <1>1, <1>4 DEF Viewing
    <2>2. IsFiniteSet(Viewing(s)') /\ Cardinality(Viewing(s)') = Cardinality(Viewing(s)) - 1
      BY <1>2, <2>1, FS_RemoveElement
    <2>3. Cardinality(Viewing(s)') \in Nat /\ Cardinality(Viewing(s)) \in Nat
      BY <1>2, <2>2, FS_CardinalityType
    <2>4. reveals'[s] \in Nat /\ reveals'[s] <= reveals[s] + 1
      BY <1>2, <1>4 DEF Revealed
    <2>5. Views(s)' \in Nat /\ Views(s)' <= Views(s)
      BY <1>2, <2>2, <2>3, <2>4 DEF Views
    <2>6. QED
      BY <1>3, <2>2, <2>5, ViewsKept
  <1>5. CASE c.arg.share # s
    <2>1. Viewing(s)' = Viewing(s)
      BY <1>1, <1>5 DEF Viewing
    <2>2. reveals'[s] = reveals[s]
      BY <1>1, <1>2, <1>5 DEF Revealed
    <2>3. Views(s)' = Views(s)
      BY <2>1, <2>2 DEF Views
    <2>4. QED
      BY <1>2, <1>3, <2>1, <2>3, ViewsCounted, ViewsKept
  <1>6. QED
    BY <1>4, <1>5

\* A view that is answered has been counted.
LEMMA ViewServed ==
  ASSUME NumberInv, ViewInv, LinkInv, NEW c \in calls, ServeView(c), Serve(c),
         UNCHANGED reveals, NEW s \in Share
  PROVE  IsFiniteSet(Viewing(s)') /\ WithinLimit(s)'
  <1>1. PICK d : Follows(d, c) /\ d.at = "done" /\ calls' = (calls \ {c}) \cup {d}
    BY ServedCall
  <1>2. c.at = "sent" /\ c.kind = "view" /\ c.arg.share \in Share
    BY ServedCall DEF ServeView, LinkInv, LinkCall
  <1>3. IsFiniteSet(Viewing(s)) /\ reveals[s] \in Nat
    BY DEF ViewInv
  <1>4. CASE c.arg.share # s
    <2>1. Viewing(s)' = Viewing(s)
      BY <1>1, <1>2, <1>4 DEF Viewing, Follows
    <2>2. RowKept(s)
      BY <1>4 DEF RowKept, ServeView, LinkInv
    <2>3. Views(s)' = Views(s)
      BY <2>1 DEF Views
    <2>4. QED
      BY <1>3, <2>1, <2>2, <2>3, ViewsCounted, ViewsKept
  <1>5. CASE c.arg.share = s
    <2> DEFINE row == shares[s]
    <2>1. row \in ShareRow /\ row # None /\ row.used < row.limit
      BY <1>5 DEF ServeView, ViewLeft, LinkInv
    <2>2. row.used \in Nat /\ row.limit \in ViewLimits /\ row.limit \in Nat
      BY <2>1, ServerAssumption DEF ShareRow
    <2>3. shares'[s].used = row.used + 1 /\ shares'[s].limit = row.limit
      BY <1>5, <2>1 DEF ServeView, LinkInv, ShareRow
    <2>4. Viewing(s)' = Viewing(s) \cup {d}
      BY <1>1, <1>2, <1>5 DEF Viewing, Follows
    <2>5. /\ IsFiniteSet(Viewing(s)')
          /\ Cardinality(Viewing(s)') \in {Cardinality(Viewing(s)), Cardinality(Viewing(s)) + 1}
      BY <1>3, <2>4, FS_AddElement
    <2>6. Cardinality(Viewing(s)) \in Nat /\ Views(s) \in Nat
      BY ViewsCounted
    <2>7. Views(s)' \in Nat /\ Views(s)' <= Views(s) + 1
      BY <1>3, <2>5, <2>6 DEF Views
    <2>8. Views(s) <= row.used
      BY <2>1, <2>2, <2>6 DEF ViewInv
    <2> HIDE DEF row
    <2>9. Views(s)' <= row.limit /\ Views(s)' <= shares'[s].used
      BY <2>1, <2>2, <2>3, <2>6, <2>7, <2>8
    <2>10. QED
      BY <2>2, <2>3, <2>5, <2>9 DEF WithinLimit
  <1>6. QED
    BY <1>4, <1>5

\* A link is new when it is created: nobody has seen it yet.
LEMMA ViewServer ==
  ASSUME NumberInv, ViewInv, LinkInv, NEW c \in calls, Serve(c), UNCHANGED pagesVars,
         NEW s \in Share
  PROVE  IsFiniteSet(Viewing(s)') /\ WithinLimit(s)'
  <1>0. UNCHANGED <<reveals, links>>
    BY DEF pagesVars
  <1>1. PICK d : Follows(d, c) /\ d.at = "done" /\ calls' = (calls \ {c}) \cup {d}
    BY ServedCall
  <1>2. shares \in [Share -> ShareRow \cup {None}] /\ LinkCall(c)
    BY DEF LinkInv
  <1>3. CASE c.kind = "view"
    BY <1>0, <1>3, ServeKind, ViewServed
  <1>4. ASSUME c.kind # "view"
        PROVE  \A b \in calls' : b \in calls \/ b.kind # "view" \/ b.at = "sent"
    BY <1>1, <1>4 DEF Follows
  <1>5. CASE c.kind = "create_share" /\ c.arg.share = s
    <2>1. s \notin links
      BY <1>2, <1>5 DEF LinkCall
    <2>2. Viewing(s)' = {}
      BY <1>1, <1>5, <2>1 DEF Viewing, Follows, LinkInv, LinkCall
    <2>3. reveals[s] = 0
      BY <2>1 DEF ViewInv
    <2>4. Views(s)' = 0
      BY <1>0, <2>2, <2>3, FS_EmptySet DEF Views
    <2>5. QED
      BY <2>2, <2>4, FS_EmptySet DEF WithinLimit
  <1>6. CASE c.kind = "create_share" /\ c.arg.share # s
    <2>1. RowKept(s)
      BY <1>2, <1>6, ServeKind DEF ServeCreateShare, RowKept
    <2>2. QED
      BY <1>0, <1>4, <1>6, <2>1, ViewQuiet
  <1>7. CASE c.kind = "revoke"
    <2>1. RowKept(s)
      BY <1>2, <1>7, ServeKind DEF ServeRevoke, RowKept
    <2>2. QED
      BY <1>0, <1>4, <1>7, <2>1, ViewQuiet
  <1>8. CASE c.kind \notin {"view", "create_share", "revoke"}
    <2>1. RowKept(s)
      BY <1>8, ServeFrame DEF RowKept
    <2>2. QED
      BY <1>0, <1>4, <1>8, <2>1, ViewQuiet
  <1>9. QED
    BY <1>3, <1>5, <1>6, <1>7, <1>8

LEMMA ViewStep ==
  ASSUME NumberInv, LinkInv, ViewInv, [Next]_vars
  PROVE  ViewInv'
  <1>1. reveals \in [Share -> Nat] /\ \A s \in Share : reveals[s] > 0 => s \in links
    BY DEF ViewInv
  <1>2. ASSUME UNCHANGED <<reveals, links>>,
               \A s \in Share : IsFiniteSet(Viewing(s)') /\ WithinLimit(s)'
        PROVE  ViewInv'
    BY <1>1, <1>2 DEF ViewInv, WithinLimit
  <1>3. ASSUME UNCHANGED reveals, links \subseteq links', \A s \in Share : RowKept(s),
               \A c \in calls' : c \in calls \/ c.kind # "view" \/ c.at = "sent"
        PROVE  ViewInv'
    <2>1. \A s \in Share : IsFiniteSet(Viewing(s)') /\ WithinLimit(s)'
      BY <1>3, ViewQuiet
    <2>2. QED
      BY <1>1, <1>3, <2>1 DEF ViewInv, WithinLimit
  <1>4. CASE UNCHANGED vars
    BY <1>3, <1>4 DEF vars, serverVars, pagesVars, RowKept
  <1>5. CASE ServerNext /\ UNCHANGED pagesVars
    <2>1. UNCHANGED <<reveals, links>>
      BY <1>5 DEF pagesVars
    <2>2. ASSUME NEW i \in Item, OtherSaves(i)
          PROVE  ViewInv'
      BY <1>3, <2>1, <2>2 DEF OtherSaves, RowKept
    <2>3. CASE (\E s \in Share : Expire(s)) \/ DeleteExpired
      <3>1. \A s \in Share : RowKept(s)
        BY <2>3, SharesExpire DEF RowKept
      <3>2. QED
        BY <1>3, <2>1, <2>3, <3>1, SharesExpire
    <2>4. ASSUME NEW c \in calls, Serve(c)
          PROVE  ViewInv'
      BY <1>2, <1>5, <2>1, <2>4, ViewServer
    <2>5. QED
      BY <1>5, <2>2, <2>3, <2>4, Zenon DEF ServerNext
  <1>6. CASE DesktopNext /\ UNCHANGED pagesVars
    <2>1. UNCHANGED <<reveals, links, shares>>
      BY <1>6 DEF DesktopNext, serverVars, pagesVars
    <2>2. \A c \in calls' : c \in calls \/ c.kind # "view" \/ c.at = "sent"
      BY <1>6, DesktopSends, DesktopRequestIs
    <2>3. QED
      BY <1>3, <2>1, <2>2 DEF RowKept
  <1>7. CASE PagesNext
    <2>1. UNCHANGED shares
      BY <1>7, PagesFrame DEF serverVars
    <2>2. \A c \in calls' : c \in calls \/ c.kind # "view" \/ c.at = "sent"
      BY <1>7, PagesSend, PageRequestIs
    <2>3. ASSUME NEW c \in calls, Revealed(c)
          PROVE  ViewInv'
      <3>1. \A s \in Share : IsFiniteSet(Viewing(s)') /\ WithinLimit(s)'
        BY <2>1, <2>3, ViewShown
      <3>2. UNCHANGED links /\ c.arg.share \in links /\ c.arg.share \in Share
        BY <2>3 DEF Revealed, LinkInv, LinkCall
      <3>3. reveals' \in [Share -> Nat] /\ \A s \in Share : reveals'[s] > 0 => s \in links
        BY <1>1, <2>3, <3>2 DEF Revealed
      <3>4. QED
        BY <3>1, <3>2, <3>3 DEF ViewInv, WithinLimit
    <2>4. CASE UNCHANGED reveals
      <3>1. links \subseteq links'
        BY <1>7, PagesFrame DEF ShareCreated
      <3>2. QED
        BY <1>3, <2>1, <2>2, <2>4, <3>1 DEF RowKept
    <2>5. QED
      BY <1>7, <2>3, <2>4, PagesFrame
  <1>8. QED
    BY <1>4, <1>5, <1>6, <1>7 DEF Next

-----------------------------------------------------------------------------
(* Imports                                                                 *)

LEMMA PastGrows ==
  ASSUME NumberInv, RowsInv, [Next]_vars
  PROVE  Grows
  <1>1. UNCHANGED past => Grows
    BY DEF RowsInv, Grows
  <1>2. ASSUME NEW i \in Item, OtherSaves(i)
        PROVE  Grows
    <2>1. Store(i, Changed(rows[i], events + 1)) /\ rows[i] # None
      BY <1>2 DEF OtherSaves, Changed
    <2>2. rows[i] \in Row /\ events + 1 \in Nat
      BY <2>1 DEF RowsInv, Table, NumberInv
    <2>3. QED
      BY <2>1, <2>2, ChangedRow, StoreRow
  <1>3. CASE ServerNext
    <2>1. (\E s \in Share : Expire(s)) \/ DeleteExpired => UNCHANGED past
      BY DEF Expire, DeleteExpired
    <2>2. QED
      BY <1>1, <1>2, <1>3, <2>1, ServeRows, Zenon DEF ServerNext
  <1>4. ~ServerNext => UNCHANGED past
    BY DEF Next, vars, DesktopNext, PagesNext, serverVars
  <1>5. QED
    BY <1>1, <1>3, <1>4

\* parseOnePux makes one item of every entry that is not in the trash.
LEMMA ParsedAll ==
  ASSUME NEW file \in Files
  PROVE  /\ IsFiniteSet(ParseOnePux(file))
         /\ Cardinality(ParseOnePux(file)) = Cardinality(file) - Cardinality(Skipped(file))
         /\ Cardinality(file) \in Nat /\ Cardinality(Skipped(file)) \in Nat
  <1> DEFINE Live == {e \in file : ~e.trashed}
             Parsed(e) == [entry |-> e, item |-> MapItemByCategory(e)]
             f == [e \in Live |-> Parsed(e)]
  <1>1. IsFiniteSet(file)
    BY FilesAssumption
  <1>2. Live = file \ Skipped(file) /\ file \cap Skipped(file) = Skipped(file)
    BY Zenon DEF Skipped
  <1>3. /\ IsFiniteSet(Live)
        /\ Cardinality(Live) = Cardinality(file) - Cardinality(Skipped(file))
    BY <1>1, <1>2, FS_Difference
  <1>4. IsFiniteSet(Skipped(file))
    BY <1>1, FS_Subset DEF Skipped
  <1>5. Cardinality(file) \in Nat /\ Cardinality(Skipped(file)) \in Nat
    BY <1>1, <1>4, FS_CardinalityType
  <1>6. ParseOnePux(file) = {Parsed(e) : e \in Live}
    BY DEF ParseOnePux
  <1>7. \A d, e : Parsed(d) = Parsed(e) => d = e
    <2>1. \A e : Parsed(e).entry = e
      OBVIOUS
    <2> HIDE DEF Parsed
    <2>2. QED
      BY <2>1
  <1> HIDE DEF Live, Parsed
  <1>8. f \in Bijection(Live, ParseOnePux(file))
    BY <1>6, <1>7 DEF Bijection, Injection, Surjection, IsInjective
  <1>9. QED
    BY <1>3, <1>5, <1>8, FS_Bijection DEF ExistsBijection

\* How a step changes the import page before its loop.
LEMMA ImportScreen ==
  ASSUME NumberInv, VisitInv, PagesNext,
         page'.name = "import", page'.phase \in {"form", "preview"}
  PROVE  \/ /\ page.name = "import" /\ page'.n = page.n /\ page'.phase = page.phase
            /\ page'.data = page.data
         \/ page'.n = events + 1 /\ page'.phase = "form"
         \/ /\ page.name = "import" /\ page.phase = "form" /\ page'.n = page.n
            /\ page'.data.file \in Files
            /\ page'.data.items = ParseOnePux(page'.data.file)
  <1> DEFINE Same == /\ page'.name = page.name /\ page'.n = page.n /\ page'.phase = page.phase
                     /\ page'.data = page.data
             Other == page'.name # "import" \/ page'.phase \notin {"form", "preview"}
             Opened == page'.n = events + 1 /\ page'.phase # "preview"
             Chosen == /\ page'.name = page.name /\ page.phase = "form" /\ page'.n = page.n
                       /\ page'.data.file \in Files
                       /\ page'.data.items = ParseOnePux(page'.data.file)
  <1>1. ASSUME NEW c \in calls,
               \/ Registered(c) \/ Checked(c) \/ LoggedOut(c) \/ ShareCreated(c) \/ Revealed(c)
        PROVE  Same
    BY <1>1 DEF Registered, Checked, LoggedOut, ShareCreated, Revealed, pagesVars
  <1>2. ASSUME NEW c \in calls,
               \/ KitStatus(c) \/ Listed(c) \/ DeviceRevoked(c) \/ ShareRevoked(c)
        PROVE  Same \/ Other
    <2>1. c.kind \in {"status", "devices", "shares", "remove_device", "revoke"}
      BY <1>2 DEF KitStatus, Listed, DeviceRevoked, ShareRevoked, Answers
    <2>2. Here(c) => page.name \in {"kit", "devices", "shares"}
      BY <2>1 DEF VisitInv, Here, OnScreenNow, Asker
    <2>3. Still
      BY <1>2, PageAnswers, PageTells
    <2>4. Here(c) \/ UNCHANGED page
      BY <1>2 DEF KitStatus, Listed, DeviceRevoked, ShareRevoked, Shows
    <2>5. QED
      BY <2>2, <2>3, <2>4 DEF Still
  <1>3. ASSUME NEW c \in calls,
               \/ OthersSignedOut(c) \/ Recovered(c) \/ PasswordChanged(c) \/ CodeVerified(c)
        PROVE  Same \/ Other
    BY <1>3 DEF OthersSignedOut, Recovered, PasswordChanged, CodeVerified, Shows, NumberInv,
       IsPage
  <1>4. ASSUME NEW c \in calls, SignedUp(c) \/ KitStored(c) \/ Disabled(c) \/ Imported(c)
        PROVE  Same \/ Other
    BY <1>4, AnswerStill DEF Still
  <1>5. ASSUME NEW c \in calls, PageFailed(c)
        PROVE  Same
    BY <1>5 DEF PageFailed, AfterFailure, NumberInv, IsPage
  <1>6. ASSUME NEW d \in deriving, Derived(d)
        PROVE  Same
    BY <1>6 DEF Derived
  <1>7. ASSUME NEW l \in loops, NEW i \in Item, ImportNext(l, i)
        PROVE  Same
    BY <1>7 DEF ImportNext
  <1>8. ASSUME NEW name \in Names \ {"vault"}, OpenPage(name)
        PROVE  Opened
    BY <1>8, OpenedPage
  <1>9. LeavePage => Other
    BY DEF LeavePage, Vault
  <1>10. Pressed => Same
    BY DEF Pressed, Still
  <1>11. CodeSaved \/ RetryKit \/ StartImport => Same \/ Other
    BY ButtonStill DEF Still
  <1>12. ASSUME NEW file \in Files, ChooseFile(file)
         PROVE  Chosen
    BY <1>12, ChosenFile DEF Still
  <1>13. ASSUME NEW s \in Share,
               \/ \E limit \in ViewLimits : CreateShare(s, limit)
               \/ \E good \in BOOLEAN : Reveal(s, good)
        PROVE  Same
    BY <1>13 DEF CreateShare, Reveal, pagesVars
  <1> HIDE DEF Same, Other, Opened, Chosen
  <1>14. Same \/ Other \/ Opened \/ Chosen
    <2>1. CASE PagesStep
      BY <1>1, <1>2, <1>3, <1>4, <1>5, <1>6, <1>7, <2>1, Zenon DEF PagesStep
    <2>2. CASE PagesUser
      BY <1>8, <1>9, <1>10, <1>11, <1>12, <1>13, <2>2, PageAsks, ZenonT(30) DEF PagesUser
    <2>3. QED
      BY <2>1, <2>2 DEF PagesNext
  <1>15. QED
    BY <1>14 DEF Same, Other, Opened, Chosen

\* What was stored stays stored.
LEMMA TallyStays ==
  ASSUME Grows, NEW l, LoopTally(l)
  PROVE  LoopTally(l)'
  BY DEF LoopTally, Grows

\* A step that does not touch the loops.
LEMMA ImportQuiet ==
  ASSUME ImportInv, Grows, UNCHANGED loops, ImportPage',
         \A c \in calls' : Creates(c) =>
            \E b \in calls : Creates(b) /\ b.n = c.n /\ b.arg = c.arg,
         \A b, c \in calls' : Creates(b) /\ Creates(c) /\ b.n = c.n => b = c
  PROVE  ImportInv'
  <1>1. \A l \in loops' : LoopTally(l)'
    BY TallyStays DEF ImportInv
  <1>2. \A c \in calls' : Creates(c) => CreateCall(c)'
    BY DEF ImportInv, CreateCall
  <1>3. QED
    BY <1>1, <1>2 DEF ImportInv

\* The loop that StartImport makes.
LEMMA ImportStarts ==
  ASSUME NumberInv, ImportInv, Grows, StartImport
  PROVE  ImportInv'
  <1>0. PICK l : l = [n |-> page.n, file |-> page.data.file, left |-> page.data.items,
                      waits |-> FALSE, done |-> 0, failed |-> 0, made |-> {}]
    OBVIOUS
  <1>1. /\ loops' = loops \cup {l} /\ UNCHANGED calls
        /\ page.name = "import" /\ page.phase = "preview" /\ page'.phase = "importing"
    BY <1>0, ButtonStill DEF StartImport, Idle
  <1>2. /\ l.n = page.n /\ l.file = page.data.file /\ l.left = page.data.items
        /\ l.waits = FALSE /\ l.done = 0 /\ l.failed = 0 /\ l.made = {}
    BY <1>0
  <1>3. /\ page.data.file \in Files /\ page.data.items = ParseOnePux(page.data.file)
        /\ \A m \in loops : m.n # page.n
    BY <1>1 DEF ImportInv, ImportPage
  <1>4. LoopTally(l)'
    <2>1. IsFiniteSet(l.made) /\ Cardinality(l.made) = 0
      BY <1>2, FS_EmptySet
    <2>2. Cardinality(l.left) = Cardinality(l.file) - Cardinality(Skipped(l.file))
          /\ Cardinality(l.file) \in Nat /\ Cardinality(Skipped(l.file)) \in Nat
      BY <1>2, <1>3, ParsedAll
    <2>3. l.waits \in BOOLEAN /\ ~l.waits
      BY <1>2, Zenon
    <2>4. l.done + l.failed + Cardinality(l.left) + (IF l.waits THEN 1 ELSE 0)
            = Cardinality(l.file) - Cardinality(Skipped(l.file))
      BY <1>2, <2>2, <2>3
    <2>5. QED
      BY <1>2, <1>3, <2>1, <2>3, <2>4 DEF LoopTally
  <1>5. \A m \in loops' : LoopTally(m)'
    BY <1>1, <1>4, TallyStays DEF ImportInv
  <1>6. \A c \in calls' : Creates(c) => CreateCall(c)'
    BY <1>1, <1>2, <1>3 DEF ImportInv, CreateCall
  <1>7. ImportPage'
    BY <1>1 DEF ImportPage
  <1>8. QED
    BY <1>1, <1>2, <1>3, <1>5, <1>6, <1>7 DEF ImportInv

\* One loop is replaced by its next state, under the same number.
LEMMA LoopReplaced ==
  ASSUME ImportInv, Grows, NEW l \in loops, NEW next, loops' = (loops \ {l}) \cup {next},
         next.n = l.n, LoopTally(next)',
         page'.name = page.name, page'.n = page.n,
         page'.phase \in {"form", "preview"} =>
            page'.phase = page.phase /\ page'.data = page.data
  PROVE  /\ \A m \in loops' : LoopTally(m)'
         /\ \A k, m \in loops' : k.n = m.n => k = m
         /\ ImportPage'
         /\ \A c \in calls : Creates(c) /\ c.n # l.n => CreateCall(c)'
  <1>1. \A m \in loops' : LoopTally(m)'
    BY TallyStays DEF ImportInv
  <1>2. \A k, m \in loops' : k.n = m.n => k = m
    BY DEF ImportInv
  <1>3. ImportPage'
    BY DEF ImportInv, ImportPage
  <1>4. \A c \in calls : Creates(c) /\ c.n # l.n => CreateCall(c)'
    BY DEF ImportInv, CreateCall
  <1>5. QED
    BY <1>1, <1>2, <1>3, <1>4

\* The loop takes the next item, which is not one that it has made.
LEMMA ImportSends ==
  ASSUME NumberInv, RowsInv, ImportInv, Grows, NEW l \in loops, NEW i \in Item,
         ImportNext(l, i)
  PROVE  ImportInv'
  <1> DEFINE p == CHOOSE q \in l.left : TRUE
             next == [l EXCEPT !.left = @ \ {p}, !.waits = TRUE]
  <1>0. PICK new :
           new = Call("web", l.n, "create", tab, [item |-> i, row |-> None, text |-> 0])
    OBVIOUS
  <1>1. /\ ~l.waits /\ l.left # {} /\ rows[i] = None /\ UNCHANGED page
        /\ loops' = (loops \ {l}) \cup {next} /\ calls' = calls \cup {new}
    BY <1>0 DEF ImportNext, Send
  <1>2. IsLoop(l) /\ LoopTally(l) /\ p \in l.left
    BY <1>1 DEF NumberInv, ImportInv
  <1>3. new.n = l.n /\ new.arg.item = i
    BY <1>0 DEF Call
  <1> HIDE DEF p
  <1>4. /\ next.n = l.n /\ next.file = l.file /\ next.left = l.left \ {p} /\ next.waits = TRUE
        /\ next.done = l.done /\ next.failed = l.failed /\ next.made = l.made
    BY <1>2 DEF IsLoop
  <1> HIDE DEF next
  <1>5. IsFiniteSet(l.left)
    BY <1>2, ParsedAll, FS_Subset DEF LoopTally
  <1>6. Cardinality(next.left) = Cardinality(l.left) - 1 /\ Cardinality(l.left) \in Nat
    BY <1>2, <1>4, <1>5, FS_RemoveElement, FS_CardinalityType
  <1>7. l.waits = FALSE
    BY <1>1, <1>2 DEF LoopTally
  <1>8. LoopTally(next)
    <2>1. next.done + next.failed + Cardinality(next.left) + 1
            = Cardinality(l.file) - Cardinality(Skipped(l.file))
      BY <1>2, <1>4, <1>6, <1>7 DEF LoopTally
    <2>2. QED
      BY <1>2, <1>4, <2>1 DEF LoopTally
  <1>9. LoopTally(next)'
    BY <1>8, TallyStays
  <1>10. /\ \A m \in loops' : LoopTally(m)'
         /\ \A k, m \in loops' : k.n = m.n => k = m
         /\ ImportPage'
         /\ \A c \in calls : Creates(c) /\ c.n # l.n => CreateCall(c)'
    BY <1>1, <1>4, <1>9, LoopReplaced
  <1>11. \A c \in calls : Creates(c) => c.n # l.n
    BY <1>1 DEF ImportInv, CreateCall
  <1>12. CreateCall(new)'
    <2>1. i \notin l.made
      BY <1>1, <1>2 DEF LoopTally, RowsInv
    <2>2. next \in loops' /\ next.n = new.n /\ next.waits /\ new.arg.item \notin next.made
      BY <1>1, <1>3, <1>4, <2>1
    <2>3. QED
      BY <1>10, <2>2 DEF CreateCall
  <1>13. \A c \in calls' : Creates(c) => CreateCall(c)'
    BY <1>1, <1>10, <1>11, <1>12
  <1>14. \A b, c \in calls' : Creates(b) /\ Creates(c) /\ b.n = c.n => b = c
    BY <1>1, <1>3, <1>11 DEF ImportInv
  <1>15. QED
    BY <1>10, <1>13, <1>14 DEF ImportInv

\* The answer of a create, or its failure, is counted once.
LEMMA ImportCounts ==
  ASSUME NumberInv, RowsInv, ImportInv, Grows, NEW c \in calls, Imported(c)
  PROVE  ImportInv'
  <1>1. /\ Creates(c) /\ c.kind = "create" /\ calls' = calls \ {c}
    BY DEF Imported, Creates, Taken
  <1>2. PICK l \in loops, ok \in {Answered(c), FALSE} :
           /\ l.n = c.n /\ l.waits
           /\ loops' = (loops \ {l}) \cup {Counted(l, ok, c.arg.item)}
    BY Zenon DEF Imported
  <1>3. Still /\ (page' = page \/ page'.phase = "done")
    BY AnswerStill
  <1>4. IsLoop(l) /\ LoopTally(l) /\ CreateCall(c)
    BY <1>1 DEF NumberInv, ImportInv
  <1>5. c.arg.item \notin l.made /\ l.waits = TRUE
    BY <1>2, <1>4 DEF CreateCall, LoopTally
  <1>6. IsFiniteSet(l.left) /\ Cardinality(l.left) \in Nat
    BY <1>4, ParsedAll, FS_Subset, FS_CardinalityType DEF LoopTally
  <1> DEFINE next == Counted(l, ok, c.arg.item)
  <1>7. /\ next.n = l.n /\ next.file = l.file /\ next.left = l.left /\ next.waits = FALSE
    BY <1>4 DEF Counted, IsLoop
  <1>a. next.waits \in BOOLEAN /\ ~next.waits
    BY <1>7, Zenon
  <1>8. ASSUME ok
        PROVE  LoopTally(next)
    <2>1. /\ next.done = l.done + 1 /\ next.failed = l.failed
          /\ next.made = l.made \cup {c.arg.item}
      BY <1>4, <1>8 DEF Counted, IsLoop
    <2>2. c.at = "done"
      BY <1>8, Zenon DEF Answered
    <2>3. c.arg.item \in Item /\ past[c.arg.item] # {}
      BY <1>1, <2>2 DEF RowsInv, RowCall, Had
    <2> HIDE DEF next
    <2>4. IsFiniteSet(next.made) /\ Cardinality(next.made) = next.done
      BY <1>4, <1>5, <2>1, FS_AddElement DEF LoopTally
    <2>5. next.done + next.failed + Cardinality(next.left)
            = Cardinality(l.file) - Cardinality(Skipped(l.file))
      BY <1>4, <1>5, <1>6, <1>7, <2>1 DEF LoopTally
    <2>6. next.done \in Nat /\ next.failed \in Nat
      BY <1>4, <2>1 DEF LoopTally
    <2>7. next.done + next.failed + Cardinality(next.left) + (IF next.waits THEN 1 ELSE 0)
            = Cardinality(next.file) - Cardinality(Skipped(next.file))
      BY <1>6, <1>7, <1>a, <2>5, <2>6
    <2>8. QED
      BY <1>4, <1>7, <1>a, <2>1, <2>3, <2>4, <2>6, <2>7 DEF LoopTally
  <1>9. ASSUME ~ok
        PROVE  LoopTally(next)
    <2>1. /\ next.done = l.done /\ next.failed = l.failed + 1 /\ next.made = l.made
      BY <1>4, <1>9 DEF Counted, IsLoop
    <2> HIDE DEF next
    <2>2. next.done + next.failed + Cardinality(next.left)
            = Cardinality(l.file) - Cardinality(Skipped(l.file))
      BY <1>4, <1>5, <1>6, <1>7, <2>1 DEF LoopTally
    <2>3. next.done \in Nat /\ next.failed \in Nat
      BY <1>4, <2>1 DEF LoopTally
    <2>4. next.done + next.failed + Cardinality(next.left) + (IF next.waits THEN 1 ELSE 0)
            = Cardinality(next.file) - Cardinality(Skipped(next.file))
      BY <1>6, <1>7, <1>a, <2>2, <2>3
    <2>5. QED
      BY <1>4, <1>7, <1>a, <2>1, <2>3, <2>4 DEF LoopTally
  <1>10. LoopTally(next)
    BY <1>8, <1>9
  <1> HIDE DEF next
  <1>11. PICK after : after = next /\ loops' = (loops \ {l}) \cup {after}
    BY <1>2 DEF next
  <1>12. LoopTally(after)' /\ after.n = l.n
    BY <1>7, <1>10, <1>11, TallyStays
  <1>13. /\ \A m \in loops' : LoopTally(m)'
         /\ \A k, m \in loops' : k.n = m.n => k = m
         /\ ImportPage'
         /\ \A b \in calls : Creates(b) /\ b.n # l.n => CreateCall(b)'
    BY <1>3, <1>11, <1>12, LoopReplaced DEF Still
  <1>14. \A b \in calls' : Creates(b) => b.n # l.n
    BY <1>1, <1>2 DEF ImportInv
  <1>15. QED
    BY <1>1, <1>13, <1>14 DEF ImportInv

LEMMA ImportStep ==
  ASSUME NumberInv, VisitInv, RowsInv, ImportInv, [Next]_vars
  PROVE  ImportInv'
  <1>1. Grows
    BY PastGrows
  <1>2. ASSUME UNCHANGED <<loops, page>>,
               \A c \in calls' : c \in calls \/ ~Creates(c)
        PROVE  ImportInv'
    <2>1. ImportPage'
      BY <1>2 DEF ImportInv, ImportPage
    <2>2. \A b, c \in calls' : Creates(b) /\ Creates(c) /\ b.n = c.n => b = c
      BY <1>2 DEF ImportInv
    <2>3. QED
      BY <1>1, <1>2, <2>1, <2>2, ImportQuiet
  <1>3. CASE UNCHANGED vars
    BY <1>2, <1>3 DEF vars, pagesVars
  <1>4. CASE ServerNext /\ UNCHANGED pagesVars
    <2>1. UNCHANGED <<loops, page>>
      BY <1>4 DEF pagesVars
    <2>2. ASSUME NEW c \in calls, Serve(c)
          PROVE  ImportInv'
      <3>1. PICK d : Follows(d, c) /\ calls' = (calls \ {c}) \cup {d}
        BY <2>2, ServedCall
      <3>2. Creates(d) <=> Creates(c)
        BY <3>1 DEF Follows, Creates
      <3>3. \A b, e \in calls' : Creates(b) /\ Creates(e) /\ b.n = e.n => b = e
        BY <2>2, <3>1, <3>2 DEF ImportInv, Follows
      <3>4. \A e \in calls' : Creates(e) =>
               \E b \in calls : Creates(b) /\ b.n = e.n /\ b.arg = e.arg
        BY <2>2, <3>1, <3>2 DEF Follows
      <3>5. ImportPage'
        BY <2>1 DEF ImportInv, ImportPage
      <3>6. QED
        BY <1>1, <2>1, <3>3, <3>4, <3>5, ImportQuiet
    <2>3. CASE UNCHANGED calls
      BY <1>2, <2>1, <2>3
    <2>4. ASSUME \/ \E i \in Item : OtherSaves(i)
                 \/ \E s \in Share : Expire(s)
                 \/ DeleteExpired
          PROVE  UNCHANGED calls
      BY <2>4 DEF OtherSaves, Expire, DeleteExpired
    <2>5. QED
      BY <1>4, <2>2, <2>3, <2>4, Zenon DEF ServerNext
  <1>5. CASE DesktopNext /\ UNCHANGED pagesVars
    <2>1. UNCHANGED <<loops, page>>
      BY <1>5 DEF pagesVars
    <2>2. \A c \in calls' : c \in calls \/ ~Creates(c)
      BY <1>5, DesktopSends, DesktopRequestIs DEF Creates
    <2>3. QED
      BY <1>2, <2>1, <2>2
  <1>6. CASE PagesNext
    <2>1. CASE UNCHANGED loops
      <3>1. ASSUME NEW c \in calls', c \notin calls, Creates(c)
            PROVE  FALSE
        <4>1. PICK l \in loops, i \in Item : ImportNext(l, i)
          BY <1>6, <3>1, PagesSend, PageRequestIs DEF Creates
        <4>2. ~l.waits /\ IsLoop(l)
          BY <4>1 DEF ImportNext, NumberInv
        <4>3. \E m \in loops' : m.waits /\ m.n = l.n
          <5> DEFINE p == CHOOSE q \in l.left : TRUE
                     m == [l EXCEPT !.left = @ \ {p}, !.waits = TRUE]
          <5>1. loops' = (loops \ {l}) \cup {m}
            BY <4>1 DEF ImportNext
          <5> HIDE DEF p
          <5>2. m.waits = TRUE /\ m.n = l.n
            BY <4>2 DEF IsLoop
          <5> HIDE DEF m
          <5>3. QED
            BY <5>1, <5>2
        <4>4. QED
          BY <2>1, <4>2, <4>3 DEF ImportInv
      <3>2. ImportPage'
        <4>1. ASSUME page'.name = "import", page'.phase \in {"form", "preview"}
              PROVE  \A l \in loops : l.n # page'.n
          <5>1. \A l \in loops : l.n # events + 1
            BY DEF NumberInv
          <5>2. QED
            BY <1>6, <4>1, <5>1, ImportScreen DEF ImportInv, ImportPage
        <4>2. ASSUME page'.name = "import", page'.phase = "preview"
              PROVE  /\ page'.data.file \in Files
                     /\ page'.data.items = ParseOnePux(page'.data.file)
          BY <1>6, <4>2, ImportScreen DEF ImportInv, ImportPage
        <4>3. QED
          BY <2>1, <4>1, <4>2 DEF ImportPage
      <3>3. \A b, c \in calls' : Creates(b) /\ Creates(c) /\ b.n = c.n => b = c
        BY <3>1 DEF ImportInv
      <3>4. QED
        BY <1>1, <2>1, <3>1, <3>2, <3>3, ImportQuiet
    <2>2. QED
      BY <1>1, <1>6, <2>1, PagesFrame, ImportStarts, ImportSends, ImportCounts, Zenon
  <1>7. QED
    BY <1>3, <1>4, <1>5, <1>6 DEF Next

-----------------------------------------------------------------------------
(* The invariant holds                                                     *)

ClientInv ==
    /\ NumberInv /\ VisitInv /\ RowsInv /\ CodeInv /\ KitInv
    /\ SessionInv /\ LinkInv /\ ViewInv /\ ImportInv

LEMMA ServerInitial ==
  ASSUME ServerInit
  PROVE  /\ rows \in Table /\ past \in [Item -> SUBSET (Nat \X Nat)] /\ Served(rows)
         /\ \A i \in Item : past[i] # {} => rows[i] # None
         /\ \A s \in sessions : s \in Session /\ (s.of # "cli" => s.n = 0)
         /\ calls = {} /\ events = 0 /\ shares = NoRow(Share)
         /\ budget \in [desktop : Nat, web : Nat] /\ budget.desktop + budget.web <= MaxEvents
  <1>1. New(0) \in Row /\ New(0).version = 1 /\ New(0).text = 0 /\ New(0) # None
    BY NewRow, NoneIsNoRow
  <1>2. CASE account = "real"
    <2>1. /\ rows = [i \in Item |-> IF i \in Stored THEN New(0) ELSE None]
          /\ past = [i \in Item |-> IF i \in Stored THEN {<<1, 0>>} ELSE {}]
          /\ sessions = {WebSession, DesktopSession} \cup CliSessions
      BY <1>2 DEF ServerInit
    <2>2. \A s \in sessions : s \in Session /\ (s.of # "cli" => s.n = 0)
      BY <2>1 DEF WebSession, DesktopSession, CliSessions, Session
    <2>3. rows \in Table /\ past \in [Item -> SUBSET (Nat \X Nat)]
      BY <1>1, <2>1 DEF Table
    <2>4. Served(rows) /\ \A i \in Item : past[i] # {} => rows[i] # None
      BY <1>1, <2>1 DEF Served, Had
    <2>5. QED
      BY <2>2, <2>3, <2>4, ServerAssumption DEF ServerInit
  <1>3. CASE account = "none"
    <2>1. rows = NoRow(Item) /\ past = [i \in Item |-> {}] /\ sessions = {}
      BY <1>3 DEF ServerInit
    <2>2. QED
      BY <2>1, ServerAssumption DEF ServerInit, NoRow, Table, Served, Had
  <1>4. QED
    BY <1>2, <1>3 DEF ServerInit

LEMMA ClientsInitial ==
  ASSUME Init
  PROVE  ClientInv
  <1>1. /\ rows \in Table /\ past \in [Item -> SUBSET (Nat \X Nat)] /\ Served(rows)
        /\ \A i \in Item : past[i] # {} => rows[i] # None
        /\ \A s \in sessions : s \in Session /\ (s.of # "cli" => s.n = 0)
        /\ calls = {} /\ events = 0 /\ shares = NoRow(Share)
        /\ budget \in [desktop : Nat, web : Nat] /\ budget.desktop + budget.web <= MaxEvents
    BY ServerInitial DEF Init
  <1>2. /\ page = Vault /\ deriving = {} /\ loops = {} /\ out = {} /\ gone = {}
        /\ links = {} /\ reveals = [s \in Share |-> 0]
        /\ known = IF account = "none" THEN {} ELSE {0}
    BY DEF Init, PagesInit
  <1>3. IsPage(page) /\ page.n = 0 /\ page.name = "vault"
    BY <1>2 DEF Vault, IsPage
  <1>4. NumberInv
    BY <1>1, <1>2, <1>3 DEF NumberInv, Init, DesktopInit
  <1>5. VisitInv
    BY <1>1 DEF VisitInv
  <1>6. RowsInv
    BY <1>1 DEF RowsInv, HeldRows, Init, DesktopInit, NoRow, Table, Served, Had
  <1>7. CodeInv
    BY <1>1, <1>2 DEF CodeInv
  <1>8. KitInv
    <2>1. account \in {"none", "real"} /\ (kit # None => kit.code = 0 /\ kit.keys = "real")
      BY DEF Init, ServerInit
    <2>2. KitNow
      BY <1>1, <1>2, <2>1 DEF KitNow, Keys
    <2>3. QED
      BY <1>1, <1>2, <1>3, <2>1, <2>2 DEF KitInv, KitPage
  <1>9. SessionInv
    BY <1>1, <1>2 DEF SessionInv, Numbered
  <1>10. LinkInv
    BY <1>1, <1>2, <1>3 DEF LinkInv, NoRow
  <1>11. ViewInv
    <2>1. \A s \in Share : Viewing(s) = {}
      BY <1>1 DEF Viewing
    <2>2. \A s \in Share : Views(s) = 0
      BY <1>2, <2>1, FS_EmptySet DEF Views
    <2>3. QED
      BY <1>2, <2>1, <2>2, FS_EmptySet DEF ViewInv
  <1>12. ImportInv
    BY <1>1, <1>2, <1>3 DEF ImportInv, ImportPage
  <1>13. QED
    BY <1>4, <1>5, <1>6, <1>7, <1>8, <1>9, <1>10, <1>11, <1>12 DEF ClientInv

LEMMA ClientsKeep ==
  ASSUME ClientInv, [Next]_vars
  PROVE  ClientInv'
  BY NumberStep, VisitStep, RowsStep, CodeStep, KitStep, SessionStep, LinkStep, ViewStep,
     ImportStep DEF ClientInv

\* The clients together keep the invariant from the first step on.
THEOREM Invariance == Spec => []ClientInv
  <1>1. Init => ClientInv
    BY ClientsInitial
  <1>2. ClientInv /\ [Next]_vars => ClientInv'
    BY ClientsKeep
  <1>3. QED
    BY <1>1, <1>2, PTL DEF Spec

\* Whatever syncs, other devices, failures and late answers come in between, a
\* row of the desktop's store or database was once the server's row (handleSave,
\* upsertItem).
THEOREM HeldRowsWereServed == Spec => []RowsAsServed
  <1>1. ClientInv => RowsAsServed
    BY DEF ClientInv, RowsInv, HeldRows, Served, Had, RowsAsServed
  <1>2. QED
    BY <1>1, Invariance, PTL

\* The password opens the keys, and so does the kit's code once it was shown:
\* what clearPendingKit zeroes is wrapped only for codes nobody will see.
THEOREM ShownCodesOpen == Spec => []ShownKitOpens
  <1>1. ClientInv => ShownKitOpens
    BY DEF ClientInv, KitInv, KitNow, ShownKitOpens
  <1>2. QED
    BY <1>1, Invariance, PTL

\* What a page has reported as revoked or signed out stays so, for any number of
\* sessions, links and requests under way (delete_device, sign_out_others,
\* revoke_share).
THEOREM RevokedStaysRevoked == Spec => []RevocationHolds
  <1>1. ClientInv => RevocationHolds
    BY DEF ClientInv, SessionInv, LinkInv, LinkCall, RevocationHolds
  <1>2. QED
    BY <1>1, Invariance, PTL

\* A secret is shown at most as often as the link's limit, for every limit and
\* every number of recipients that click at once (consume_view).
THEOREM SecretsWithinLimit == Spec => []ViewsWithinLimit
  <1>1. ASSUME ClientInv, NEW s \in Share, reveals[s] > 0
        PROVE  \E limit \in ViewLimits :
                  /\ reveals[s] <= limit
                  /\ shares[s] # None => shares[s].limit = limit /\ reveals[s] <= shares[s].used
    <2>1. ViewInv /\ LinkInv
      BY <1>1 DEF ClientInv
    <2>2. Views(s) \in Nat /\ reveals[s] \in Nat /\ reveals[s] <= Views(s)
      BY <2>1, ViewsCounted DEF Views, ViewInv
    <2>3. PICK limit \in ViewLimits :
             /\ Views(s) <= limit
             /\ shares[s] # None => shares[s].limit = limit /\ Views(s) <= shares[s].used
      BY <1>1, <2>1, <2>2 DEF ViewInv
    <2>4. limit \in Nat /\ (shares[s] # None => shares[s].used \in Nat)
      BY <2>1, ServerAssumption DEF LinkInv, ShareRow
    <2>5. QED
      BY <2>2, <2>3, <2>4
  <1>2. ClientInv => ViewsWithinLimit
    BY <1>1 DEF ViewsWithinLimit
  <1>3. QED
    BY <1>2, Invariance, PTL

\* handleImport loses no entry and counts none twice, for exports of any size and
\* whichever requests fail.
THEOREM ImportsTally == Spec => []ImportTallies
  <1>1. ClientInv => ImportTallies
    BY DEF ClientInv, ImportInv, LoopTally, ImportTallies
  <1>2. QED
    BY <1>1, Invariance, PTL

\* Each mapper of onepassword.ts, for any entry.  Of the fields with one id the
\* first is found, and of the keys and addresses the last is.
LEMMA FirstById ==
  ASSUME NEW e, DOMAIN e.fields \subseteq Nat, NEW i \in InSections(e),
         StringValue(e.fields[i]), i \notin FindFieldById(e, e.fields[i].id)
  PROVE  \E j \in InSections(e) : j < i /\ e.fields[j].id = e.fields[i].id
  <1>1. PICK S : S = {k \in InSections(e) : e.fields[k].id = e.fields[i].id}
    OBVIOUS
  <1>2. i \in S /\ S \subseteq Nat
    BY <1>1 DEF InSections
  <1>3. i \notin First(S)
    BY <1>1 DEF FindFieldById, Texts
  <1>4. PICK j \in S : ~(i <= j)
    BY <1>2, <1>3 DEF First
  <1>5. QED
    BY <1>1, <1>2, <1>4

LEMMA LastIsLater ==
  ASSUME NEW S \in SUBSET Nat, NEW i \in S, i \notin Last(S)
  PROVE  \E j \in S : i < j
  <1>1. PICK j \in S : ~(j <= i)
    BY DEF Last
  <1>2. QED
    BY <1>1

LEMMA FirstIsEarlier ==
  ASSUME NEW S \in SUBSET Nat, NEW i \in S, i \notin First(S)
  PROVE  \E j \in S : j < i
  <1>1. PICK j \in S : ~(i <= j)
    BY DEF First
  <1>2. QED
    BY <1>1

\* A field that is looked up by its id and lost has another before it.
LEMMA LookedUpText ==
  ASSUME NEW e, DOMAIN e.fields \subseteq Nat, NEW i \in InSections(e),
         StringValue(e.fields[i]), e.fields[i].id \in LookedUp(e.category),
         i \notin FindFieldById(e, e.fields[i].id)
  PROVE  MayGo(e, i)
  BY FirstById DEF MayGo, TextMayGo, InSections

LEMMA OrElseHas ==
  \A S, T : S \subseteq OrElse(S, T)
  BY DEF OrElse

\* What a mapper looks up by id is in its item, the others' positions aside.
LEMMA CardHas ==
  ASSUME NEW e, NEW id \in {"ccnum", "cardholder", "cvv"}
  PROVE  FindFieldById(e, id) \subseteq MapCreditCard(e).kept
  <1> DEFINE A == OrElse(FindFieldById(e, "ccnum"),
                        FindFieldByTitle(e, {"card number", "number"}))
             B == OrElse(FindFieldById(e, "cardholder"),
                        FindFieldByTitle(e, {"cardholder name", "name on card"}))
             C == OrElse(FindFieldById(e, "cvv"),
                        FindFieldByTitle(e, {"cvv", "cvc", "security code"}))
             D == {i \in OrElse(FindFieldById(e, "expiry"),
                                FindFieldByTitle(e, {"expiry date", "expiration"})) :
                     e.fields[i].shape = "month"}
  <1>1. MapCreditCard(e) = [type |-> "card", kept |-> A \cup B \cup D \cup C]
    BY Zenon DEF MapCreditCard
  <1>3. /\ FindFieldById(e, "ccnum") \subseteq A
        /\ FindFieldById(e, "cardholder") \subseteq B
        /\ FindFieldById(e, "cvv") \subseteq C
    BY OrElseHas, Zenon
  <1> HIDE DEF A, B, C, D
  <1>2. MapCreditCard(e).kept = A \cup B \cup D \cup C
    BY <1>1
  <1>4. QED
    BY <1>2, <1>3

LEMMA IdentityHas ==
  ASSUME NEW e
  PROVE  /\ \A id \in {"firstname", "lastname", "email", "defphone"} :
               FindFieldById(e, id) \subseteq MapIdentity(e).kept
         /\ Last({i \in InSections(e) : /\ e.fields[i].kind = "address"
                                        /\ e.fields[i].shape = "address"})
               \subseteq MapIdentity(e).kept
  <1> DEFINE A == OrElse(FindFieldById(e, "firstname"),
                        FindFieldByTitle(e, {"first name", "firstname"}))
             B == OrElse(FindFieldById(e, "lastname"),
                        FindFieldByTitle(e, {"last name", "lastname"}))
             C == OrElse(FindFieldById(e, "email"),
                        OrElse(FindFieldById(e, "defEmailNew"),
                               FindFieldByTitle(e, {"email"})))
             D == OrElse(FindFieldById(e, "defphone"),
                        OrElse(FindFieldById(e, "cellphone"),
                               FindFieldByTitle(e, {"phone", "mobile", "cell phone"})))
             L == Last({i \in InSections(e) : /\ e.fields[i].kind = "address"
                                             /\ e.fields[i].shape = "address"})
  <1>1. MapIdentity(e) = [type |-> "identity", kept |-> A \cup B \cup C \cup D \cup L]
    BY Zenon DEF MapIdentity
  <1>3. /\ FindFieldById(e, "firstname") \subseteq A
        /\ FindFieldById(e, "lastname") \subseteq B
        /\ FindFieldById(e, "email") \subseteq C
        /\ FindFieldById(e, "defphone") \subseteq D
    BY OrElseHas, Zenon
  <1> HIDE DEF A, B, C, D, L
  <1>2. MapIdentity(e).kept = A \cup B \cup C \cup D \cup L
    BY <1>1
  <1>4. L \subseteq MapIdentity(e).kept
    BY <1>2
  <1>5. \A id \in {"firstname", "lastname", "email", "defphone"} :
           FindFieldById(e, id) \subseteq MapIdentity(e).kept
    BY <1>2, <1>3
  <1>6. QED
    BY <1>4, <1>5, Zenon DEF L

LEMMA DatabaseHas ==
  ASSUME NEW e
  PROVE  /\ \A id \in Connection : FindFieldById(e, id) \subseteq MapDatabase(e).kept
         /\ SectionTexts(e, Connection) \subseteq MapDatabase(e).kept
  <1> DEFINE T == SectionTexts(e, Connection)
             U == UNION {FindFieldById(e, id) : id \in Connection}
  <1>1. MapDatabase(e).kept = U \cup T
    BY DEF MapDatabase
  <1>2. ASSUME NEW id \in Connection PROVE FindFieldById(e, id) \subseteq U
    BY Zenon
  <1> HIDE DEF T, U
  <1>3. U \subseteq MapDatabase(e).kept /\ T \subseteq MapDatabase(e).kept
    BY <1>1
  <1>4. \A id \in Connection : FindFieldById(e, id) \subseteq MapDatabase(e).kept
    BY <1>2, <1>3, Zenon
  <1>5. QED
    BY <1>3, <1>4, Zenon DEF T

LEMMA MappersKeep ==
  ASSUME NEW e, DOMAIN e.fields \subseteq Nat,
         NEW i \in DOMAIN e.fields, i \notin MapItemByCategory(e).kept
  PROVE  MayGo(e, i)
  <1> DEFINE f == e.fields[i]
  <1>a. ASSUME f.place = "section", StringValue(f), TextMayGo(e, i) PROVE MayGo(e, i)
    BY <1>a DEF MayGo
  <1>b. ASSUME f.place = "section", ~StringValue(f), ValueMayGo(e, i) PROVE MayGo(e, i)
    BY <1>b DEF MayGo
  <1>c. ASSUME f.place \notin {"section", "login"},
               f.place = "details" => e.category \notin {"password", "other"}
        PROVE  MayGo(e, i)
    BY <1>c DEF MayGo
  <1>d. ASSUME e.category \notin {"ssh_key", "identity"} PROVE ValueMayGo(e, i)
    BY <1>d DEF ValueMayGo
  <1>e. ASSUME f.place = "login", e.category # "login" PROVE MayGo(e, i)
    BY <1>e DEF MayGo
  <1>f. f.place = "section" => i \in InSections(e)
    BY DEF InSections
  <1>g. ASSUME NEW but, f.place = "section", StringValue(f), f.id \notin but
        PROVE  i \in SectionTexts(e, but)
    BY <1>f, <1>g DEF SectionTexts, Texts
  <1>h. f.place = "details" => i \in DetailsPassword(e)
    BY DEF DetailsPassword
  <1>i. ASSUME f.place = "section", StringValue(f), f.id \in LookedUp(e.category),
               i \notin FindFieldById(e, f.id)
        PROVE  MayGo(e, i)
    <2>1. i \in InSections(e) /\ StringValue(e.fields[i])
      BY <1>f, <1>i
    <2>2. e.fields[i].id \in LookedUp(e.category) /\ i \notin FindFieldById(e, e.fields[i].id)
      BY <1>i
    <2>3. QED
      BY <2>1, <2>2, LookedUpText, Zenon
  <1> HIDE DEF f
  <1>1. CASE e.category = "login"
    <2>1. MapItemByCategory(e) = MapLogin(e)
      BY <1>1 DEF MapItemByCategory
    <2>2. /\ i \notin Designated(e, "username") /\ i \notin Designated(e, "password")
          /\ i \notin SectionTexts(e, {"username", "password"})
      BY <2>1 DEF MapLogin
    <2>3. CASE f.place = "login" /\ f.id \in {"username", "password"}
      <3>1. PICK S : S = {k \in DOMAIN e.fields : /\ e.fields[k].place = "login"
                                                  /\ e.fields[k].id = f.id}
        OBVIOUS
      <3>2. i \in S /\ S \in SUBSET Nat /\ i \notin First(S)
        BY <2>2, <2>3, <3>1 DEF Designated, f
      <3>3. PICK j \in S : j < i
        BY <3>2, FirstIsEarlier
      <3>4. QED
        BY <2>3, <3>1, <3>3 DEF MayGo, f
    <2>4. CASE f.place = "login" /\ f.id \notin {"username", "password"}
      BY <2>4 DEF MayGo, f
    <2>5. CASE f.place = "section" /\ StringValue(f)
      <3>1. f.id \in {"username", "password"}
        BY <1>g, <2>2, <2>5
      <3>2. TextMayGo(e, i)
        BY <1>1, <3>1 DEF TextMayGo, f
      <3>3. QED
        BY <1>a, <2>5, <3>2
    <2>6. QED
      BY <1>1, <1>b, <1>c, <1>d, <2>3, <2>4, <2>5
  <1>2. CASE e.category = "password"
    <2>1. MapItemByCategory(e) = MapPassword(e)
      BY <1>2 DEF MapItemByCategory
    <2>2. i \notin DetailsPassword(e) /\ i \notin SectionTexts(e, {})
      BY <2>1 DEF MapPassword
    <2>3. QED
      BY <1>2, <1>b, <1>c, <1>d, <1>e, <1>g, <1>h, <2>2
  <1>3. CASE e.category = "card"
    <2>1. MapItemByCategory(e) = MapCreditCard(e)
      BY <1>3 DEF MapItemByCategory
    <2>2. CASE f.place = "section" /\ StringValue(f) /\ f.id \in LookedUp("card")
      <3>1. f.id \in {"ccnum", "cardholder", "cvv"}
        BY <2>2 DEF LookedUp
      <3>2. i \notin FindFieldById(e, f.id)
        BY <2>1, <3>1, CardHas
      <3>3. QED
        BY <1>3, <1>i, <2>2, <3>2
    <2>3. CASE f.place = "section" /\ StringValue(f) /\ f.id \notin LookedUp("card")
      <3>1. TextMayGo(e, i)
        BY <1>3, <2>3 DEF TextMayGo, f
      <3>2. QED
        BY <1>a, <2>3, <3>1
    <2>4. QED
      BY <1>3, <1>b, <1>c, <1>d, <1>e, <2>2, <2>3
  <1>4. CASE e.category = "note"
    <2>1. MapItemByCategory(e) = MapSecureNote(e)
      BY <1>4 DEF MapItemByCategory
    <2>2. i \notin SectionTexts(e, {})
      BY <2>1 DEF MapSecureNote
    <2>3. QED
      BY <1>4, <1>b, <1>c, <1>d, <1>e, <1>g, <2>2
  <1>5. CASE e.category = "identity"
    <2>1. MapItemByCategory(e) = MapIdentity(e)
      BY <1>5 DEF MapItemByCategory
    <2>2. CASE f.place = "section" /\ StringValue(f) /\ f.id \in LookedUp("identity")
      <3>1. f.id \in {"firstname", "lastname", "email", "defphone"}
        BY <2>2 DEF LookedUp
      <3>2. i \notin FindFieldById(e, f.id)
        BY <2>1, <3>1, IdentityHas
      <3>3. QED
        BY <1>5, <1>i, <2>2, <3>2
    <2>3. CASE f.place = "section" /\ StringValue(f) /\ f.id \notin LookedUp("identity")
      <3>1. TextMayGo(e, i)
        BY <1>5, <2>3 DEF TextMayGo, f
      <3>2. QED
        BY <1>a, <2>3, <3>1
    <2>4. CASE f.place = "section" /\ ~StringValue(f)
      <3>1. PICK S : S = {k \in InSections(e) : /\ e.fields[k].kind = "address"
                                                /\ e.fields[k].shape = "address"}
        OBVIOUS
      <3>2. S \in SUBSET Nat /\ i \notin Last(S)
        <4>1. i \notin Last(S)
          BY <2>1, <3>1, IdentityHas
        <4>2. QED
          BY <3>1, <4>1 DEF InSections
      <3>3. f.kind = "address" /\ f.shape = "address" => \E j \in S : i < j
        BY <1>f, <2>4, <3>1, <3>2, LastIsLater DEF f
      <3>4. ValueMayGo(e, i)
        BY <1>5, <3>1, <3>3 DEF ValueMayGo, f
      <3>5. QED
        BY <1>b, <2>4, <3>4
    <2>5. QED
      BY <1>5, <1>c, <1>e, <2>2, <2>3, <2>4
  <1>6. CASE e.category = "database"
    <2>1. MapItemByCategory(e) = MapDatabase(e)
      BY <1>6 DEF MapItemByCategory
    <2>2. CASE f.place = "section" /\ StringValue(f)
      <3>1. f.id \in Connection
        BY <1>g, <2>1, <2>2, DatabaseHas
      <3>2. i \notin FindFieldById(e, f.id) /\ f.id \in LookedUp("database")
        BY <2>1, <3>1, DatabaseHas DEF LookedUp
      <3>3. QED
        BY <1>6, <1>i, <2>2, <3>2
    <2>3. QED
      BY <1>6, <1>b, <1>c, <1>d, <1>e, <2>2
  <1>7. CASE e.category = "ssh_key"
    <2>1. MapItemByCategory(e) = MapSshKey(e)
      BY <1>7 DEF MapItemByCategory
    <2>2. CASE f.place = "section" /\ StringValue(f) /\ f.id \in LookedUp("ssh_key")
      <3>1. f.id = "passphrase"
        BY <2>2 DEF LookedUp
      <3>2. i \notin FindFieldById(e, f.id)
        BY <2>1, <3>1 DEF MapSshKey
      <3>3. QED
        BY <1>7, <1>i, <2>2, <3>2
    <2>3. CASE f.place = "section" /\ StringValue(f) /\ f.id \notin LookedUp("ssh_key")
      <3>1. TextMayGo(e, i)
        BY <1>7, <2>3 DEF TextMayGo, f
      <3>2. QED
        BY <1>a, <2>3, <3>1
    <2>4. CASE f.place = "section" /\ ~StringValue(f)
      <3>1. PICK S : S = {k \in InSections(e) : e.fields[k].shape = "sshKey"}
        OBVIOUS
      <3>2. S \in SUBSET Nat /\ i \notin Last(S)
        BY <2>1, <3>1 DEF MapSshKey, InSections
      <3>3. f.shape = "sshKey" => \E j \in S : i < j
        BY <1>f, <2>4, <3>1, <3>2, LastIsLater DEF f
      <3>4. ValueMayGo(e, i)
        BY <1>7, <3>1, <3>3 DEF ValueMayGo, f
      <3>5. QED
        BY <1>b, <2>4, <3>4
    <2>5. QED
      BY <1>7, <1>c, <1>e, <2>2, <2>3, <2>4
  <1>8. CASE e.category \notin {"login", "password", "card", "note", "identity", "database",
                                "ssh_key"}
    <2>1. MapItemByCategory(e) = MapGenericToNote(e)
      BY <1>8 DEF MapItemByCategory
    <2>2. i \notin DetailsPassword(e) /\ i \notin SectionTexts(e, {})
      BY <2>1 DEF MapGenericToNote
    <2>3. QED
      BY <1>8, <1>b, <1>c, <1>d, <1>e, <1>g, <1>h, <2>2
  <1>9. QED
    BY <1>1, <1>2, <1>3, <1>4, <1>5, <1>6, <1>7, <1>8

\* Whatever fields the entries of an export have, how often and in which order,
\* an import loses only those that the mappers of onepassword.ts are known to
\* pass over: of the fields with one id the first, and of the keys and addresses
\* the last, is in the imported item (mapItem).
THEOREM ImportsKeepTexts == Spec => []ImportKeepsTexts
  <1>1. ASSUME ImportInv, NEW l \in loops, NEW p \in l.left,
               NEW i \in DOMAIN p.entry.fields \ p.item.kept
        PROVE  MayGo(p.entry, i)
    <2>1. l.file \in Files /\ p \in ParseOnePux(l.file)
      BY <1>1 DEF ImportInv, LoopTally
    <2>2. PICK e \in l.file : p = [entry |-> e, item |-> MapItemByCategory(e)]
      BY <2>1 DEF ParseOnePux
    <2>3. p.entry = e /\ p.item = MapItemByCategory(e)
      BY <2>2
    <2>4. DOMAIN e.fields \subseteq Nat
      BY <2>1, <2>2, FilesAssumption
    <2>5. QED
      BY <1>1, <2>3, <2>4, MappersKeep
  <1>2. ClientInv => ImportKeepsTexts
    BY <1>1 DEF ClientInv, ImportKeepsTexts
  <1>3. QED
    BY <1>2, Invariance, PTL

-----------------------------------------------------------------------------
(* The types                                                               *)

\* What the other parts leave out of the server's state.
ServerInv == devices \subseteq Device /\ grants \subseteq Nat /\ kit \in Kit \cup {None}

FlagInv ==
    /\ screen \in {"select", "password", "vault"}
    /\ unlocked \in BOOLEAN /\ loading \in BOOLEAN /\ opened \in BOOLEAN

TokenInv == token \in Session \cup {None} /\ publishing \subseteq Nat

\* The dialog captures what the last decryption has shown.
TextInv ==
    /\ recorded \in [Item -> Nat] /\ shown \in [Item -> Nat \cup {None}]
    /\ jobs \subseteq Table /\ modal \in Modal \cup {None}

\* A locked desktop decrypts nothing and has no dialog, although late answers
\* still write its store.
LockedInv == ~unlocked => ~opened /\ jobs = {} /\ modal = None /\ ~saving

PageInv ==
    /\ page.name \in Names /\ page.busy \in BOOLEAN /\ page.keys \in Keys \cup {None}
    /\ tab \in Session \cup {None}

TypeInv == ServerInv /\ FlagInv /\ TokenInv /\ TextInv /\ LockedInv /\ PageInv

LEMMA LoginSession ==
  ASSUME ClientInv, NEW c \in calls, c.kind = "login", c.at = "done"
  PROVE  c.answer.session \in Session
  <1>1. /\ c.answer.session = SessionOf(c) /\ c.from \in Logins /\ c.arg.code \in 1..events
        /\ events \in Nat
    BY DEF ClientInv, SessionInv, SessionCall, CodeInv, Carries, NumberInv
  <1>2. c.arg.code \in Nat
    BY <1>1
  <1>3. QED
    BY <1>1, <1>2 DEF SessionOf, Session, Logins

LEMMA ServeHolds ==
  ASSUME NEW c, Serve(c)
  PROVE  devices' \subseteq devices /\ grants' \subseteq grants \cup {c.n}
  BY DEF Serve, ServeRegister, ServeLogin, ServeLogout, ServeChangePassword,
     ServeDevices, ServeRemoveDevice, ServeSignOutOthers, ServeItems, ServeCreate,
     ServeUpdate, ServeDelete, ServeKitStatus, ServeSetKit, ServeClearKit,
     ServeRecoveryInit, ServeRecovery, ServeCreateShare, ServeShares, ServeRevoke,
     ServeView, serverVars, accountVars

LEMMA ServerTyped ==
  ASSUME ClientInv, ServerInv, [Next]_vars
  PROVE  ServerInv'
  <1>1. ASSUME UNCHANGED <<devices, grants, kit>>
        PROVE  ServerInv'
    BY <1>1 DEF ServerInv
  <1>2. ASSUME NEW c \in calls, Serve(c)
        PROVE  ServerInv'
    <2>1. devices' \subseteq devices /\ grants' \subseteq grants \cup {c.n} /\ c.n \in Nat
      BY <1>2, ServeHolds DEF ClientInv, NumberInv
    <2>2. kit' \in Kit \cup {None}
      <3>1. CASE c.kind \notin {"set_kit", "clear_kit", "recovery"}
        BY <1>2, <3>1, ServeFrame DEF ServerInv
      <3>2. CASE c.kind = "clear_kit"
        BY <1>2, <3>2, ServeKind DEF ServeClearKit
      <3>3. CASE c.kind \in {"set_kit", "recovery"}
        <4>1. c.arg.code \in Nat /\ c.arg.keys \in Keys
          BY <3>3 DEF ClientInv, CodeInv, Carries, KitInv, KitCall, NumberInv, Keys
        <4>2. kit' = [code |-> c.arg.code, keys |-> c.arg.keys]
          BY <1>2, <3>3, ServeKind DEF ServeSetKit, ServeRecovery
        <4>3. QED
          BY <4>1, <4>2 DEF Kit
      <3>4. QED
        BY <3>1, <3>2, <3>3
    <2>3. QED
      BY <2>1, <2>2 DEF ServerInv
  <1>3. ASSUME ServerNext
        PROVE  ServerInv'
    BY <1>1, <1>2, <1>3 DEF ServerNext, OtherSaves, Expire, DeleteExpired, accountVars
  <1>4. QED
    BY <1>1, <1>3 DEF Next, DesktopNext, PagesNext, vars, serverVars, accountVars

-----------------------------------------------------------------------------
\* What a step of the desktop does to its flags.
LEMMA DesktopFlags ==
  ASSUME FlagInv, DesktopNext
  PROVE  FlagInv'
  <1>1. screen' \in {"select", "password", "vault"}
    BY DEF FlagInv, DesktopNext, DesktopStep, DesktopUser, SignedIn, SyncAnswered, SyncFailed,
       SaveAnswered, DeleteAnswered, DesktopFailed, OnSuccess, SyncWritten, SyncUnwritten,
       OpenRevisions,
       Decrypted, SignIn, LockDesktop, OpenCreate, CloseModal, SaveEdited, OpenEditor, SaveNew,
       DeleteItem, SetModal, desktopVars
  <1>2. unlocked' \in {unlocked, TRUE, FALSE} /\ opened' \in {opened, TRUE, FALSE}
    BY DEF DesktopNext, DesktopStep, DesktopUser, SignedIn, SyncAnswered, SyncFailed,
       SaveAnswered, DeleteAnswered, DesktopFailed, OnSuccess, SyncWritten, SyncUnwritten,
       OpenRevisions,
       Decrypted, SignIn, LockDesktop, OpenCreate, CloseModal, SaveEdited, OpenEditor, SaveNew,
       DeleteItem, SetModal, desktopVars, vaultScreen
  <1>3. loading' \in {loading, TRUE, FALSE}
    <2>1. ASSUME NEW c \in calls, SignedIn(c)
          PROVE  loading' \in {loading, TRUE, FALSE}
      BY <2>1 DEF SignedIn
    <2>2. QED
      BY <2>1 DEF DesktopNext, DesktopStep, DesktopUser, SyncAnswered, SyncFailed, DoneLoading,
         SaveAnswered, DeleteAnswered, DesktopFailed, OnSuccess, SyncWritten, SyncUnwritten,
       OpenRevisions,
         Decrypted, SignIn, LockDesktop, OpenCreate, CloseModal, SaveEdited, OpenEditor, SaveNew,
         DeleteItem, SetModal, desktopVars
  <1>4. QED
    BY <1>1, <1>2, <1>3, Zenon DEF FlagInv

LEMMA DesktopTokens ==
  ASSUME ClientInv, TokenInv, DesktopNext
  PROVE  TokenInv'
  <1>1. ASSUME NEW c \in calls, SignedIn(c)
        PROVE  TokenInv'
    <2>1. c.kind = "login" /\ c.at = "done" /\ token' = c.answer.session
          /\ publishing' = publishing \cup {c.n}
      BY <1>1 DEF SignedIn, Answered
    <2>2. c.answer.session \in Session
      BY <2>1, LoginSession
    <2>3. c.n \in Nat
      BY DEF ClientInv, NumberInv
    <2>4. QED
      BY <2>1, <2>2, <2>3 DEF TokenInv
  <1>2. CASE ~(\E c \in calls : SignedIn(c))
    <2>1. UNCHANGED token /\ publishing' \subseteq publishing
      BY <1>2 DEF DesktopNext, DesktopStep, DesktopUser, SyncAnswered, SyncFailed,
         SaveAnswered, DeleteAnswered, DesktopFailed, OnSuccess, SyncWritten, SyncUnwritten,
       OpenRevisions,
         Decrypted, SignIn, LockDesktop, OpenCreate, CloseModal, SaveEdited, OpenEditor, SaveNew,
         DeleteItem, SetModal, desktopVars
    <2>2. QED
      BY <2>1 DEF TokenInv
  <1>3. QED
    BY <1>1, <1>2

\* Steps that put a table of rows into the store.
LEMMA StoreTyped ==
  ASSUME NEW table, table \in Table, ToStore(table), LockedInv, TextInv
  PROVE  jobs' \subseteq Table /\ (~unlocked => jobs' = {})
  BY DEF ToStore, Redecrypt, VaultRendered, LockedInv, TextInv

LEMMA RowAfterTyped ==
  ASSUME NEW c, RowCall(c), c.at = "done", c.kind \in {"create", "update"}
  PROVE  c.arg.item \in Item /\ RowAfter(c) \in Row
  <1>1. CASE c.kind = "create"
    BY <1>1, NewRow DEF RowCall, RowAfter
  <1>2. CASE c.kind = "update"
    BY <1>2, ChangedRow DEF RowCall, RowAfter, Changed
  <1>3. QED
    BY <1>1, <1>2

\* Nothing is decrypted for a locked desktop, whichever step comes.
LEMMA DesktopTexts ==
  ASSUME ClientInv, FlagInv, TextInv, LockedInv, DesktopNext
  PROVE  TextInv' /\ LockedInv'
  <1>1. HeldRows /\ HeldRows' /\ None \notin Row /\ \A c \in calls : RowCall(c)
    BY HeldStep, NoneIsNoRow DEF ClientInv, RowsInv
  <1>2. store \in Table /\ store' \in Table
    BY <1>1 DEF HeldRows
  <1>3. ASSUME UNCHANGED <<recorded, shown, jobs, modal>>
        PROVE  TextInv'
    BY <1>3 DEF TextInv
  <1>4. ASSUME NEW c \in calls, SignedIn(c)
        PROVE  TextInv' /\ LockedInv'
    BY <1>3, <1>4 DEF SignedIn, vaultScreen, LockedInv
  <1>5. CASE \/ \E n \in publishing : OnSuccess(n)
             \/ \E table \in writes : SyncWritten(table)
             \/ SignIn
             \/ \E i \in Item : DeleteItem(i)
    <2>1. UNCHANGED <<recorded, shown, jobs, modal, opened, unlocked, saving>>
      BY <1>5 DEF OnSuccess, SyncWritten, SignIn, DeleteItem, vaultScreen, desktopVars
    <2>2. QED
      BY <1>3, <2>1 DEF LockedInv
  <1>6. ASSUME NEW c \in calls, DesktopFailed(c)
        PROVE  TextInv' /\ LockedInv'
    <2>1. UNCHANGED <<recorded, shown, jobs, modal, opened, unlocked>> /\ (saving' => saving)
      BY <1>6 DEF DesktopFailed
    <2>2. QED
      BY <1>3, <2>1 DEF LockedInv
  <1>7. CASE SaveEdited \/ \E i \in Item : SaveNew(i)
    <2>1. UNCHANGED <<recorded, shown, jobs, modal, unlocked>> /\ unlocked
      BY <1>7 DEF SaveEdited, SaveNew, VaultRendered
    <2>2. QED
      BY <1>3, <2>1 DEF LockedInv
  <1>8. ASSUME NEW c \in calls, SyncAnswered(c) \/ SyncFailed(c) \/ DeleteAnswered(c)
        PROVE  TextInv' /\ LockedInv'
    <2>1. /\ UNCHANGED <<recorded, shown, modal, opened, unlocked, saving>>
          /\ \E table : ToStore(table) /\ table = store'
      BY <1>8 DEF SyncAnswered, SyncFailed, FromLocal, DeleteAnswered, ToStore
    <2>2. jobs' \subseteq Table /\ (~unlocked => jobs' = {})
      BY <1>2, <2>1, StoreTyped
    <2>3. QED
      BY <2>1, <2>2 DEF TextInv, LockedInv
  <1>a. ASSUME NEW table \in writes, NEW done \in SUBSET Item, SyncUnwritten(table, done)
        PROVE  TextInv' /\ LockedInv'
    <2>1. /\ UNCHANGED <<recorded, shown, modal, opened, unlocked, saving>>
          /\ \E list : ToStore(list) /\ list = store'
      BY <1>a DEF SyncUnwritten, FromLocal, ToStore
    <2>2. jobs' \subseteq Table /\ (~unlocked => jobs' = {})
      BY <1>2, <2>1, StoreTyped
    <2>3. QED
      BY <2>1, <2>2 DEF TextInv, LockedInv
  <1>9. ASSUME NEW c \in calls, SaveAnswered(c)
        PROVE  TextInv' /\ LockedInv'
    <2> DEFINE i == c.arg.item
               row == RowAfter(c)
    <2>1. i \in Item /\ row \in Row
      BY <1>1, <1>9, RowAfterTyped DEF SaveAnswered, Answered
    <2>2. /\ recorded' = [recorded EXCEPT ![i] = IF @ < row.version THEN row.version ELSE @]
          /\ modal' \in {modal, None} /\ (saving' => saving)
          /\ UNCHANGED <<shown, opened, unlocked>>
          /\ \E table : ToStore(table) /\ table = store'
      BY <1>9 DEF SaveAnswered, ToStore
    <2> HIDE DEF i, row
    <2>3. jobs' \subseteq Table /\ (~unlocked => jobs' = {})
      BY <1>2, <2>2, StoreTyped
    <2>4. row.version \in Nat
      BY <2>1 DEF Row
    <2>5. recorded' \in [Item -> Nat]
      BY <2>1, <2>2, <2>4 DEF TextInv
    <2>6. QED
      BY <2>2, <2>3, <2>5 DEF TextInv, LockedInv
  <1>10. CASE LockDesktop
    BY <1>10 DEF LockDesktop, TextInv, LockedInv, NoRow
  <1>11. CASE OpenRevisions
    <2>1. /\ UNCHANGED <<recorded, shown, modal, unlocked>> /\ unlocked
          /\ jobs' \subseteq jobs \cup {store}
      BY <1>11 DEF OpenRevisions, VaultRendered, Redecrypt
    <2>2. QED
      BY <1>2, <2>1 DEF TextInv, LockedInv
  <1>12. ASSUME NEW table \in jobs, Decrypted(table)
         PROVE  TextInv' /\ LockedInv'
    <2>1. table \in Table /\ unlocked
      BY DEF TextInv, LockedInv
    <2>2. \A i \in Item : OpensHere(table, i) => table[i].text \in Nat /\ table[i].version \in Nat
      BY <2>1 DEF OpensHere, Active, Table, Row
    <2>3. /\ shown' = [i \in Item |-> IF OpensHere(table, i) THEN table[i].text ELSE None]
          /\ recorded' = [i \in Item |-> IF OpensHere(table, i) THEN table[i].version
                                         ELSE recorded[i]]
          /\ jobs' = jobs \ {table} /\ UNCHANGED <<modal, unlocked>>
      BY <1>12 DEF Decrypted
    <2>4. shown' \in [Item -> Nat \cup {None}] /\ recorded' \in [Item -> Nat]
      BY <2>2, <2>3 DEF TextInv
    <2>5. QED
      BY <2>1, <2>3, <2>4 DEF TextInv, LockedInv
  <1>13. ASSUME NEW m, SetModal(m), m \in Modal \cup {None}
         PROVE  TextInv' /\ LockedInv'
    BY <1>13 DEF SetModal, VaultRendered, TextInv, LockedInv
  <1>14. CASE OpenCreate \/ CloseModal
    BY <1>13, <1>14 DEF OpenCreate, CloseModal, Modal
  <1>15. ASSUME NEW i \in Item, OpenEditor(i)
         PROVE  TextInv' /\ LockedInv'
    <2>1. store[i] \in Row /\ shown[i] \in Nat
      BY <1>2, <1>15 DEF OpenEditor, Active, Table, TextInv
    <2>2. QED
      BY <1>13, <1>15, <2>1 DEF OpenEditor, Modal
  <1>16. QED
    BY <1>4, <1>5, <1>6, <1>7, <1>8, <1>a, <1>9, <1>10, <1>11, <1>12, <1>14, <1>15, ZenonT(30)
       DEF DesktopNext, DesktopStep, DesktopUser

-----------------------------------------------------------------------------
\* A page that is answered, or whose button is pressed, keeps its name.
LEMMA PagesTyped ==
  ASSUME ClientInv, PageInv, PagesNext
  PROVE  PageInv'
  <1>1. IsPage(page) /\ NumberInv
    BY DEF ClientInv, NumberInv
  <1>2. ASSUME NEW p, IsPage(p), page' = p, p.name \in Names, p.busy \in BOOLEAN,
               p.keys \in Keys \cup {None}, tab' \in Session \cup {None}
        PROVE  PageInv'
    BY <1>2 DEF PageInv
  <1>3. ASSUME UNCHANGED <<page, tab>>
        PROVE  PageInv'
    BY <1>3 DEF PageInv
  <1>4. ASSUME NEW c, NEW p, p.name = page.name, p.keys \in Keys \cup {None}, IsPage(p),
               Shows(c, p), UNCHANGED tab
        PROVE  PageInv'
    <2>1. CASE Here(c)
      <3>1. page' = [p EXCEPT !.busy = FALSE]
        BY <1>4, <2>1 DEF Shows
      <3>2. page'.name = p.name /\ page'.keys = p.keys /\ page'.busy = FALSE
        BY <1>4, <3>1 DEF IsPage
      <3>3. QED
        BY <1>4, <3>2 DEF PageInv
    <2>2. QED
      BY <1>3, <1>4, <2>1 DEF Shows
  <1>5. ASSUME NEW c \in calls,
               \/ Registered(c) \/ Checked(c) \/ LoggedOut(c) \/ ShareCreated(c) \/ Revealed(c)
        PROVE  PageInv'
    BY <1>3, <1>5 DEF Registered, Checked, LoggedOut, ShareCreated, Revealed, pagesVars
  <1>6. ASSUME NEW c \in calls, KitStatus(c) \/ Listed(c)
        PROVE  PageInv'
    <2>1. /\ page'.name = page.name /\ page'.keys = page.keys /\ page'.busy = page.busy
          /\ UNCHANGED tab
      BY <1>1, <1>6 DEF KitStatus, Listed, IsPage
    <2>2. QED
      BY <2>1 DEF PageInv
  <1>7. ASSUME NEW c \in calls, PageFailed(c)
        PROVE  PageInv'
    <2>1. /\ page'.name = page.name /\ page'.keys = page.keys /\ UNCHANGED tab
          /\ page'.busy \in {page.busy, FALSE}
      BY <1>1, <1>7 DEF PageFailed, AfterFailure, IsPage
    <2>2. QED
      BY <2>1 DEF PageInv
  <1>8. ASSUME NEW c \in calls, SignedUp(c)
        PROVE  PageInv'
    <2>1. tab' = c.answer.session /\ c.kind = "login" /\ c.at = "done"
      BY <1>8 DEF SignedUp, Answers, Answered
    <2>2. c.answer.session \in Session
      BY <2>1, LoginSession
    <2>3. /\ page'.name = page.name /\ page'.keys \in {page.keys, "real"}
          /\ page'.busy = page.busy
      BY <1>1, <1>8 DEF SignedUp, IsPage
    <2>4. QED
      BY <2>1, <2>2, <2>3 DEF PageInv, Keys
  <1>9. ASSUME NEW c \in calls, KitStored(c) \/ Recovered(c)
        PROVE  PageInv'
    <2> DEFINE p == [page EXCEPT !.phase = "show-code", !.keys = None]
    <2>1. p.name = page.name /\ p.keys = None /\ IsPage(p)
      BY <1>1 DEF IsPage
    <2>2. Shows(c, p) /\ UNCHANGED tab
      BY <1>9 DEF KitStored, Recovered
    <2> HIDE DEF p
    <2>3. QED
      BY <1>4, <2>1, <2>2
  <1>10. ASSUME NEW c \in calls, Disabled(c) \/ OthersSignedOut(c)
         PROVE  PageInv'
    BY <1>1, <1>4, <1>10 DEF Disabled, OthersSignedOut, PageInv
  <1>11. ASSUME NEW c \in calls, PasswordChanged(c)
         PROVE  PageInv'
    <2> DEFINE p == [page EXCEPT !.phase = "done"]
    <2>1. p.name = page.name /\ p.keys = page.keys /\ IsPage(p)
      BY <1>1 DEF IsPage
    <2>2. Shows(c, p) /\ UNCHANGED tab
      BY <1>11 DEF PasswordChanged
    <2> HIDE DEF p
    <2>3. QED
      BY <1>4, <2>1, <2>2 DEF PageInv
  <1>12. ASSUME NEW c \in calls, CodeVerified(c)
         PROVE  PageInv'
    <2> DEFINE p == [page EXCEPT !.phase = "new-password", !.keys = c.answer.keys,
                                 !.data = c.answer]
    <2>1. p.name = page.name /\ p.keys = c.answer.keys /\ IsPage(p)
      BY <1>1 DEF IsPage
    <2>2. Shows(c, p) /\ UNCHANGED tab /\ c.kind = "recovery_init" /\ c.at = "done"
      BY <1>12 DEF CodeVerified, Answers, Answered
    <2> HIDE DEF p
    <2>3. c.answer.keys = "real"
      BY <2>2 DEF ClientInv, KitInv, KitCall
    <2>4. QED
      BY <1>4, <2>1, <2>2, <2>3 DEF Keys
  <1>13. ASSUME NEW c \in calls, DeviceRevoked(c) \/ ShareRevoked(c)
         PROVE  PageInv'
    <2>1. \E x : Shows(c, IF Here(c) THEN Drop(x) ELSE page) /\ UNCHANGED tab
      BY <1>13 DEF DeviceRevoked, ShareRevoked
    <2>2. PICK x : Shows(c, IF Here(c) THEN Drop(x) ELSE page) /\ UNCHANGED tab
      BY <2>1
    <2> DEFINE p == IF Here(c) THEN Drop(x) ELSE page
    <2>3. p.name = page.name /\ p.keys = page.keys /\ IsPage(p)
      BY <1>1 DEF IsPage, Drop
    <2>4. Shows(c, p)
      BY <2>2
    <2> HIDE DEF p
    <2>5. QED
      BY <1>4, <2>2, <2>3, <2>4 DEF PageInv
  <1>14. ASSUME NEW c \in calls, Imported(c)
         PROVE  PageInv'
    <2>1. /\ page'.name = page.name /\ page'.keys = page.keys /\ UNCHANGED tab
          /\ page'.busy \in {page.busy, FALSE}
      BY <1>1, <1>14 DEF Imported, IsPage
    <2>2. QED
      BY <2>1 DEF PageInv
  <1>15. ASSUME NEW d \in deriving, Derived(d)
         PROVE  PageInv'
    BY <1>3, <1>15 DEF Derived
  <1>16. ASSUME NEW l \in loops, NEW i \in Item, ImportNext(l, i)
         PROVE  PageInv'
    BY <1>3, <1>16 DEF ImportNext
  <1>17. ASSUME NEW name \in Names \ {"vault"}, OpenPage(name)
         PROVE  PageInv'
    <2>1. (\E phase : page' = Page(name, phase)) /\ UNCHANGED tab
      BY <1>17 DEF OpenPage
    <2>2. page'.name = name /\ page'.keys = None /\ page'.busy = FALSE
      BY <2>1 DEF Page
    <2>3. QED
      BY <2>1, <2>2 DEF PageInv
  <1>18. CASE LeavePage
    BY <1>18 DEF LeavePage, Vault, PageInv, Names
  <1>19. ASSUME page' = [page EXCEPT !.busy = TRUE] \/ \E call : Submit(call), UNCHANGED tab
         PROVE  PageInv'
    <2>1. page'.name = page.name /\ page'.keys = page.keys /\ page'.busy = TRUE
      BY <1>1, <1>19 DEF Submit, IsPage
    <2>2. QED
      BY <1>19, <2>1 DEF PageInv
  <1>20. CASE \/ Register \/ Generate \/ Disable \/ SetPassword \/ ChangePassword
              \/ SignOutOthers \/ RetryKit
    BY <1>19, <1>20 DEF Register, Generate, Disable, SetPassword, ChangePassword,
       SignOutOthers, RetryKit
  <1>21. CASE \/ \E code \in known : VerifyCode(code)
              \/ \E d \in Device : RevokeDevice(d)
              \/ \E s \in Share : RevokeShare(s)
    BY <1>19, <1>21 DEF VerifyCode, RevokeDevice, RevokeShare
  <1>22. CASE CodeSaved \/ StartImport \/ \E file \in Files : ChooseFile(file)
    <2>1. /\ page'.name = page.name /\ page'.keys = page.keys /\ UNCHANGED tab
          /\ page'.busy \in {page.busy, TRUE}
      BY <1>1, <1>22 DEF CodeSaved, StartImport, ChooseFile, IsPage
    <2>2. QED
      BY <2>1 DEF PageInv
  <1>23. ASSUME NEW s \in Share,
                \/ \E limit \in ViewLimits : CreateShare(s, limit)
                \/ \E good \in BOOLEAN : Reveal(s, good)
         PROVE  PageInv'
    BY <1>3, <1>23 DEF CreateShare, Reveal, pagesVars
  <1>24. CASE PagesStep
    BY <1>5, <1>6, <1>7, <1>8, <1>9, <1>10, <1>11, <1>12, <1>13, <1>14, <1>15, <1>16, <1>24,
       ZenonT(30) DEF PagesStep
  <1>25. CASE PagesUser
    BY <1>17, <1>18, <1>20, <1>21, <1>22, <1>23, <1>25, ZenonT(30) DEF PagesUser
  <1>26. QED
    BY <1>24, <1>25 DEF PagesNext

LEMMA TypesInitial ==
  ASSUME Init
  PROVE  TypeInv
  <1>1. ServerInv
    BY DEF Init, ServerInit, ServerInv, Kit, Keys
  <1>2. FlagInv
    BY DEF Init, DesktopInit, FlagInv
  <1>3. rows \in Table
    BY ServerInitial DEF Init
  <1>4. TokenInv
    BY DEF Init, DesktopInit, TokenInv, DesktopSession, Session
  <1>5. TextInv
    <2>1. jobs = {} /\ modal = None
      BY DEF Init, DesktopInit
    <2>2. recorded \in [Item -> Nat] /\ shown \in [Item -> Nat \cup {None}]
      BY <1>3 DEF Init, DesktopInit, NoRow, Table, Row
    <2>3. QED
      BY <2>1, <2>2 DEF TextInv
  <1>6. LockedInv
    BY DEF Init, DesktopInit, LockedInv
  <1>7. PageInv
    BY DEF Init, PagesInit, PageInv, Vault, Names, WebSession, Session
  <1>8. QED
    BY <1>1, <1>2, <1>4, <1>5, <1>6, <1>7 DEF TypeInv

LEMMA TypesKept ==
  ASSUME ClientInv, TypeInv, [Next]_vars
  PROVE  TypeInv'
  <1>1. ServerInv'
    BY ServerTyped DEF TypeInv
  <1>2. ASSUME UNCHANGED desktopVars
        PROVE  FlagInv' /\ TokenInv' /\ TextInv' /\ LockedInv'
    BY <1>2 DEF desktopVars, TypeInv, FlagInv, TokenInv, TextInv, LockedInv
  <1>3. ASSUME UNCHANGED pagesVars
        PROVE  PageInv'
    BY <1>3 DEF pagesVars, TypeInv, PageInv
  <1>4. FlagInv' /\ TokenInv' /\ TextInv' /\ LockedInv'
    BY <1>2, DesktopFlags, DesktopTokens, DesktopTexts DEF Next, vars, TypeInv
  <1>5. PageInv'
    BY <1>3, PagesTyped DEF Next, vars, TypeInv
  <1>6. QED
    BY <1>1, <1>4, <1>5 DEF TypeInv

LEMMA Typed ==
  ASSUME ClientInv, TypeInv
  PROVE  TypeOK
  <1>1. events \in 0..MaxEvents /\ logins \in Nat
    <2>1. /\ events \in Nat /\ logins \in 0..events /\ budget.desktop \in Nat
          /\ budget.web \in Nat /\ events + budget.desktop + budget.web <= MaxEvents
      BY DEF ClientInv, NumberInv
    <2>2. QED
      BY <2>1, ServerAssumption
  <1>2. ServerTypeOK
    BY <1>1 DEF ServerTypeOK, ClientInv, TypeInv, ServerInv, KitInv, Keys, SessionInv, Numbered,
       RowsInv, Table, LinkInv, NumberInv
  <1>3. DesktopTypeOK
    <2>1. /\ screen \in {"select", "password", "vault"}
          /\ unlocked \in BOOLEAN /\ loading \in BOOLEAN /\ opened \in BOOLEAN
      BY Zenon DEF TypeInv, FlagInv
    <2>2. /\ token \in Session \cup {None} /\ publishing \subseteq Nat
          /\ recorded \in [Item -> Nat] /\ modal \in Modal \cup {None}
          /\ store \in [Item -> Row \cup {None}] /\ local \in [Item -> Row \cup {None}]
      BY DEF TypeInv, TokenInv, TextInv, ClientInv, RowsInv, HeldRows, Table
    <2>3. ~unlocked => ~opened /\ jobs = {} /\ modal = None /\ ~saving
      BY DEF TypeInv, LockedInv
    <2>4. QED
      BY <1>1, <2>1, <2>2, <2>3, Zenon DEF DesktopTypeOK
  <1>4. PagesTypeOK
    <2>1. /\ page.name \in Names /\ page.busy \in BOOLEAN /\ page.keys \in Keys \cup {None}
          /\ tab \in Session \cup {None}
      BY DEF TypeInv, PageInv
    <2>2. page.n \in Nat /\ known \subseteq Nat /\ \A d \in deriving : d.keys \in Keys /\ d.code \in Nat
      BY DEF ClientInv, NumberInv, CodeInv, KitInv
    <2>3. \A l \in loops : l.done \in Nat /\ l.failed \in Nat
      BY DEF ClientInv, ImportInv, LoopTally
    <2>4. /\ out \subseteq Session /\ gone \subseteq Share /\ links \subseteq Share
          /\ reveals \in [Share -> Nat]
      BY DEF ClientInv, SessionInv, Numbered, LinkInv, ViewInv
    <2>5. QED
      BY <2>1, <2>2, <2>3, <2>4 DEF PagesTypeOK
  <1>5. QED
    BY <1>2, <1>3, <1>4 DEF TypeOK

\* The state keeps its types, whichever requests overlap; among them, a locked
\* desktop has no dialog, no decryption under way and no open revision store,
\* although late answers still reach it, and no page holds keys other than the
\* account's or zeros.
THEOREM TypeCorrect == Spec => []TypeOK
  <1>1. Init => TypeInv
    BY TypesInitial
  <1>2. ClientInv /\ TypeInv /\ [Next]_vars => TypeInv'
    BY TypesKept
  <1>3. ClientInv /\ TypeInv => TypeOK
    BY Typed
  <1>4. QED
    BY Invariance, <1>1, <1>2, <1>3, PTL DEF Spec

=============================================================================
