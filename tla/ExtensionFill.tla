----------------------------- MODULE ExtensionFill ------------------------------
(***************************************************************************)
(* Filling a login into a page: the popup (popup/App.tsx), the AUTOFILL    *)
(* handler of the background worker, the content script of each frame      *)
(* (content/index.ts) and the origin rules (lib/url-match.ts), for one     *)
(* browser tab that navigates while all of this goes on.                   *)
(*                                                                         *)
(* An action is a stretch between two awaits of a handler, a message       *)
(* reaching its receiver, or something the user or the page does.          *)
(*                                                                         *)
(* Data abstraction.  A URL or an origin is its scheme, the labels of its  *)
(* host from the top-level domain down, and its port, 0 where none is      *)
(* written; the public suffix list is a set of hosts.  A document is a     *)
(* number, and of its fields only matters whether the user can see a       *)
(* password field.  What a search shows is told by its query.              *)
(***************************************************************************)
EXTENDS Naturals, Sequences, SequencesExt

CONSTANTS
    Item,         \* ids of logins
    Urls,         \* per item: the URLs saved with it
    Origin,       \* origins the tab's frames can have
    PublicSuffix, \* the public suffix list
    Query,        \* what the user may type, "" among it
    MaxDocs,      \* bound on the documents loaded
    MaxSearches,  \* bound on the searches of one popup
    MaxFills,     \* bound on the fills asked for
    None          \* no target, or nothing waiting

ASSUME QueryAssumption == "" \in Query

ASSUME FillAssumption ==
    /\ None \notin Origin /\ None \notin {"error", "confirmable"}
    /\ MaxDocs \in Nat \ {0} /\ MaxSearches \in Nat /\ MaxFills \in Nat

Frame == {0, 1}  \* the top frame and one subframe

VARIABLES
    docs,      \* documents loaded so far
    frame,     \* per frame: its document, origin and visible password field
    recorded,  \* the fill target recorded for the tab
    unlocked,  \* the worker has a vaultState
    popup,     \* the popup's state
    searches,  \* searches in flight
    flights,   \* fills in flight
    fills,     \* fills asked for so far
    agreed,    \* items and origins the user clicked Fill anyway for
    filled     \* items filled, with the frame and its origin at that moment

fillGhosts == <<fills, agreed, filled>>
fillVars   == <<docs, frame, recorded, unlocked, popup, searches, flights,
                fills, agreed, filled>>

-----------------------------------------------------------------------------
(* lib/url-match                                                           *)

\* localhost and the names below it, and the loopback addresses.
Loopback(host) ==
    host # <<>> /\ host[1] \in {"localhost", "127.0.0.1", "[::1]"}

\* One label below a public suffix; none for a bare suffix or a single label.
RegistrableDomain(host) ==
    LET below == {n \in 1..Len(host) :
                    /\ SubSeq(host, 1, n - 1) \in PublicSuffix
                    /\ SubSeq(host, 1, n) \notin PublicSuffix}
    IN IF below = {} THEN None
       ELSE SubSeq(host, 1, CHOOSE n \in below : \A k \in below : k <= n)

DefaultPort(scheme) == IF scheme = "https" THEN 443 ELSE 80

Effective(port, scheme) == IF port = 0 THEN DefaultPort(scheme) ELSE port

\* The same host, or a subdomain of a saved registrable domain.
HostMatches(itemHost, pageHost) ==
    \/ itemHost = pageHost
    \/ /\ IsPrefix(itemHost, pageHost)
       /\ RegistrableDomain(itemHost) = itemHost

\* A saved URL against the origin of a frame; an http URL is upgraded to an
\* https page on the default port.
OriginMatches(url, page) ==
    /\ url.scheme \in {"https", "http"}
    /\ \/ page.scheme = "https"
       \/ page.scheme = "http" /\ (url.scheme = "http" \/ Loopback(page.host))
    /\ Effective(IF url.scheme = page.scheme THEN url.port ELSE 0, page.scheme)
          = Effective(page.port, page.scheme)
    /\ HostMatches(url.host, page.host)

UrlMatches(i, page) == \E url \in Urls[i] : OriginMatches(url, page)

IsFillableOrigin(page) ==
    page.scheme = "https" \/ (page.scheme = "http" /\ Loopback(page.host))

-----------------------------------------------------------------------------
(* State                                                                   *)

\* doc 0: the top frame of a tab, of which no document is known.
Target == [frame : Frame, doc : 0..MaxDocs, origin : Origin]

Closed == [screen |-> "closed", asked |-> "", seq |-> 0, shown |-> None,
           pending |-> None]

Flight == [id : 1..MaxFills, item : Item, confirmed : Origin \cup {None},
           at : {"asked", "sent", "answered"}, target : Target \cup {None},
           answer : {None, "ok", "error", "confirmable"}, heard : BOOLEAN]

\* Both frames show one site when the tab is first looked at.
FillInit ==
    /\ docs = 1
    /\ \E top \in Origin :
          frame = [f \in Frame |-> [doc |-> 1, origin |-> top,
                                    visible |-> TRUE]]
    /\ recorded = None /\ unlocked = TRUE
    /\ popup = Closed /\ searches = {} /\ flights = {}
    /\ fills = 0 /\ agreed = {} /\ filled = {}

\* No popup but an open, unlocked one asks the user about another origin.
FillTypeOK ==
    /\ docs \in 1..MaxDocs
    /\ frame \in [Frame -> [doc : 1..MaxDocs, origin : Origin,
                            visible : BOOLEAN]]
    /\ recorded \in Target \cup {None}
    /\ unlocked \in BOOLEAN
    /\ popup \in [screen : {"closed", "loading", "locked", "unlocked"},
                  asked : Query, seq : 0..MaxSearches,
                  shown : Query \cup {None},
                  pending : (Item \X Origin) \cup {None}]
    /\ popup.screen \in {"closed", "loading"} =>
          popup.pending = None /\ popup.shown = None
    /\ searches \subseteq [seq : 1..MaxSearches, query : Query]
    /\ flights \subseteq Flight
    /\ fills \in 0..MaxFills
    /\ agreed \subseteq Item \X Origin
    /\ filled \subseteq [item : Item, frame : Frame, origin : Origin]

-----------------------------------------------------------------------------
(* The page                                                                *)

\* A frame loads another document; the top frame takes the subframe with it.
Navigate(f) ==
    /\ docs < MaxDocs
    /\ docs' = docs + 1
    /\ \E o \in Origin, visible \in BOOLEAN :
          frame' = [g \in Frame |->
                      IF g = f \/ f = 0
                      THEN [doc |-> docs + 1, origin |-> o, visible |-> visible]
                      ELSE frame[g]]
    /\ UNCHANGED <<recorded, unlocked, popup, searches, flights, fillGhosts>>

\* FILL_TARGET records the frame from the browser's own account of the sender.
SenderFrame(f) ==
    [frame |-> f, doc |-> frame[f].doc, origin |-> frame[f].origin]

\* The user focuses a login field, or clicks the button injected over it.
ReportFillTarget(f) ==
    /\ recorded' = SenderFrame(f)
    /\ UNCHANGED <<docs, frame, unlocked, popup, searches, flights, fillGhosts>>

-----------------------------------------------------------------------------
(* The popup                                                               *)

\* refreshSearch: a new search supersedes those in flight.
Searches(query) ==
    /\ popup.seq < MaxSearches
    /\ searches' = searches \cup {[seq |-> popup.seq + 1, query |-> query]}
    /\ popup' = [popup EXCEPT !.screen = "unlocked", !.asked = query,
                              !.seq = @ + 1]

OpenPopup ==
    /\ popup.screen = "closed"
    /\ popup' = [Closed EXCEPT !.screen = "loading"]
    /\ UNCHANGED <<docs, frame, recorded, unlocked, searches, flights, fillGhosts>>

\* IS_UNLOCKED is answered, or the user has logged in and UNLOCK succeeded.
ShowVault ==
    /\ (popup.screen = "loading" /\ unlocked) \/ popup.screen = "locked"
    /\ unlocked' = TRUE
    /\ Searches("")
    /\ UNCHANGED <<docs, frame, recorded, flights, fillGhosts>>

\* The worker is locked, or could not be asked.
ShowUnlockForm ==
    /\ popup.screen = "loading"
    /\ popup' = [popup EXCEPT !.screen = "locked"]
    /\ UNCHANGED <<docs, frame, recorded, unlocked, searches, flights, fillGhosts>>

HandleSearch(query) ==
    /\ popup.screen = "unlocked"
    /\ Searches(query)
    /\ UNCHANGED <<docs, frame, recorded, unlocked, flights, fillGhosts>>

\* Mutant: every answer is shown.
ShowsAnySearch(s) == TRUE

\* Only the answer to the latest search is shown.
IsLatest(s) == s.seq = popup.seq

\* A worker that is locked by then finds nothing.
SearchAnswered(s) ==
    /\ searches' = searches \ {s}
    /\ \E found \in {s.query, None} :
          popup' = IF IsLatest(s) THEN [popup EXCEPT !.shown = found]
                                  ELSE popup
    /\ UNCHANGED <<docs, frame, recorded, unlocked, flights, fillGhosts>>

\* The worker goes away before it answers; the list stays as it is.
SearchLost(s) ==
    /\ searches' = searches \ {s}
    /\ UNCHANGED <<docs, frame, recorded, unlocked, popup, flights, fillGhosts>>

\* The alarm, the idle listener or the popup's LOCK message.
LockWorker ==
    /\ unlocked /\ unlocked' = FALSE
    /\ UNCHANGED <<docs, frame, recorded, popup, searches, flights, fillGhosts>>

\* The popup's LOCK has been answered.
LockAnswered ==
    /\ popup.screen = "unlocked" /\ ~unlocked
    /\ popup' = [popup EXCEPT !.screen = "locked", !.shown = None,
                              !.pending = None]
    /\ UNCHANGED <<docs, frame, recorded, unlocked, searches, flights, fillGhosts>>

\* The popup is gone, and with it whoever waits for an answer.
Closes ==
    /\ popup' = Closed /\ searches' = {}

\* The browser closes a popup that loses the focus.
ClosePopup ==
    /\ popup.screen # "closed"
    /\ Closes
    /\ flights' = {[x EXCEPT !.heard = FALSE] : x \in flights}
    /\ UNCHANGED <<docs, frame, recorded, unlocked, fillGhosts>>

-----------------------------------------------------------------------------
(* AUTOFILL                                                                *)

Asks(i, confirmed) ==
    /\ popup.screen = "unlocked" /\ fills < MaxFills
    /\ flights' = flights \cup
          {[id |-> fills + 1, item |-> i, confirmed |-> confirmed,
            at |-> "asked", target |-> None, answer |-> None, heard |-> TRUE]}
    /\ fills' = fills + 1
    /\ popup' = [popup EXCEPT !.pending = None]
    /\ UNCHANGED <<docs, frame, recorded, unlocked, searches, filled>>

HandleFill(i) == Asks(i, None) /\ UNCHANGED agreed

\* The user has read the origin on the banner and clicks Fill anyway.
FillAnyway ==
    /\ popup.pending # None
    /\ Asks(popup.pending[1], popup.pending[2])
    /\ agreed' = agreed \cup {popup.pending}

\* Cancel on the banner, or opening or leaving an entry.
CancelFill ==
    /\ popup.pending # None
    /\ popup' = [popup EXCEPT !.pending = None]
    /\ UNCHANGED <<docs, frame, recorded, unlocked, searches, flights, fillGhosts>>

\* The frame whose field was focused last, else the top frame.
ResolveFillTarget ==
    IF recorded # None THEN recorded
    ELSE [frame |-> 0, doc |-> 0, origin |-> frame[0].origin]

Confirmable(target) == target.frame = 0 /\ IsFillableOrigin(target.origin)

\* The user confirmed this very origin, in a top frame.
ConfirmedFor(x, target) == Confirmable(target) /\ x.confirmed = target.origin

Becomes(x, y) == flights' = (flights \ {x}) \cup {y}

\* The worker decrypts the item, resolves the target and decides.
FillResolved(x) ==
    LET target == ResolveFillTarget
        answer == IF ~unlocked THEN "error"
                  ELSE IF UrlMatches(x.item, target.origin)
                          \/ ConfirmedFor(x, target) THEN None
                  ELSE IF Confirmable(target) THEN "confirmable"
                  ELSE "error"
    IN /\ x.at = "asked"
       /\ Becomes(x, [x EXCEPT !.target = target, !.answer = answer,
                         !.at = IF answer = None THEN "sent" ELSE "answered"])
       /\ UNCHANGED <<docs, frame, recorded, unlocked, popup, searches, fillGhosts>>

\* Mutant: the frame fills what it is sent.
TrustsSender(target) == TRUE

\* The content script compares its own origin.
SameOrigin(target) == frame[target.frame].origin = target.origin

\* The message reaches the frame if the document it was recorded for is still
\* there, and the frame fills it into a password field the user can see.
Receives(target) ==
    /\ target.doc \in {0, frame[target.frame].doc}
    /\ SameOrigin(target)
    /\ frame[target.frame].visible

FillDelivered(x) ==
    /\ x.at = "sent" /\ Receives(x.target)
    /\ filled' = filled \cup {[item |-> x.item, frame |-> x.target.frame,
                               origin |-> frame[x.target.frame].origin]}
    /\ Becomes(x, [x EXCEPT !.at = "answered", !.answer = "ok"])
    /\ UNCHANGED <<docs, frame, recorded, unlocked, popup, searches, fills,
                   agreed>>

\* No receiver or no field: the recorded frame is forgotten.
FillMissed(x) ==
    /\ x.at = "sent" /\ ~Receives(x.target)
    /\ recorded' = None
    /\ Becomes(x, [x EXCEPT !.at = "answered", !.answer = "error"])
    /\ UNCHANGED <<docs, frame, unlocked, popup, searches, fillGhosts>>

\* The popup that asked is still open.
Heard(x) == x.heard

\* The popup closes after a fill, asks about another origin, or shows why
\* nothing was filled; a popup that is gone learns nothing.
FillAnswered(x) ==
    /\ x.at = "answered"
    /\ \/ /\ Heard(x) /\ x.answer = "ok"
          /\ Closes
          /\ flights' = {[y EXCEPT !.heard = FALSE] : y \in flights \ {x}}
       \/ /\ Heard(x) /\ x.answer = "confirmable"
          /\ popup' = [popup EXCEPT !.pending = <<x.item, x.target.origin>>]
          /\ flights' = flights \ {x} /\ UNCHANGED searches
       \/ /\ ~Heard(x) \/ x.answer = "error"
          /\ flights' = flights \ {x} /\ UNCHANGED <<popup, searches>>
    /\ UNCHANGED <<docs, frame, recorded, unlocked, fillGhosts>>

FillNext ==
    \/ \E f \in Frame : Navigate(f) \/ ReportFillTarget(f)
    \/ OpenPopup \/ ShowVault \/ ShowUnlockForm \/ ClosePopup
    \/ LockWorker \/ LockAnswered
    \/ \E query \in Query : HandleSearch(query)
    \/ \E s \in searches : SearchAnswered(s) \/ SearchLost(s)
    \/ \E i \in Item : HandleFill(i)
    \/ FillAnyway \/ CancelFill
    \/ \E x \in flights : FillResolved(x) \/ FillDelivered(x) \/ FillMissed(x)
                           \/ FillAnswered(x)

FillSpec == FillInit /\ [][FillNext]_fillVars

-----------------------------------------------------------------------------
(* Properties                                                              *)

\* A page of the item's own site: the host of a saved URL or a host of its
\* registrable domain, and plain http only where the user saved http.
Belongs(i, page) ==
    \E url \in Urls[i] :
       /\ \/ url.host = page.host
          \/ /\ RegistrableDomain(url.host) = url.host
             /\ RegistrableDomain(page.host) = url.host
       /\ page.scheme = "http" => url.scheme = "http" \/ Loopback(page.host)

\* No public suffix lies below a saved registrable domain, as far as the tab's
\* origins go: the rule that a login of a registrable domain also matches its
\* subdomains then stays on that site.
SuffixesApart ==
    \A i \in Item, o \in Origin : \A url \in Urls[i] :
       IsPrefix(url.host, o.host) /\ RegistrableDomain(url.host) = url.host
          => RegistrableDomain(o.host) = url.host

\* Wherever the tab has navigated meanwhile, a login ends up only in a frame
\* that, at the moment it is filled, shows the login's own site, or in the top
\* frame on the very origin the user agreed to for that login.
FillsBelong ==
    \A x \in filled :
       \/ Belongs(x.item, x.origin)
       \/ x.frame = 0 /\ <<x.item, x.origin>> \in agreed

\* The list changes only to the answer of the latest search, or is emptied,
\* however the answers of the searches in flight are ordered.
ListFollowsLatest ==
    [][popup'.shown # popup.shown => popup'.shown \in {None, popup.asked}]_fillVars

=============================================================================
