--------------------------------- MODULE WebPages ---------------------------------
(***************************************************************************)
(* The pages of the web client around the vault (WebVault is the vault     *)
(* itself): registration with its recovery kit, the recovery page, account *)
(* recovery, the password form, devices, shared links and the page that    *)
(* opens one, and the import.  One tab shows one page at a time; leaving a *)
(* page does not stop what it has begun, only its setState calls.          *)
(*                                                                         *)
(* Data abstraction.  A recovery code is the number of the event it was    *)
(* generated at, key material is told by whether it has been zeroed, and a *)
(* text by the event it was written at.                                    *)
(***************************************************************************)
EXTENDS AccountServer, OnePuxImport

CONSTANT Files   \* the exports a user may choose

ASSUME FilesAssumption ==
    \A file \in Files : /\ IsFiniteSet(file)
                        /\ \A e \in file : DOMAIN e.fields \subseteq Nat

VARIABLES
    page,      \* the page on the screen
    tab,       \* the tab's session token, if any
    deriving,  \* kits being derived from a code
    loops,     \* imports, running or finished
    known,     \* recovery codes the user has been shown
    out,       \* sessions the user has been told are signed out
    gone,      \* links the user has been told are revoked
    links,     \* links the user has been shown
    reveals    \* per link: how often its secret was shown

pagesVars == <<page, tab, deriving, loops, known, out, gone, links, reveals>>

-----------------------------------------------------------------------------
(* State                                                                   *)

Names == {"vault", "register", "kit", "recover", "password", "devices",
          "shares", "import"}

\* n tells the visits of a page apart; keys are those the page holds for a
\* retry, data what it has been given.
Page(name, phase) ==
    [name |-> name, n |-> events + 1, phase |-> phase, busy |-> FALSE,
     keys |-> None, data |-> None]

Vault == [name |-> "vault", n |-> 0, phase |-> "list", busy |-> FALSE,
          keys |-> None, data |-> None]

PagesTypeOK ==
    /\ page.name \in Names /\ page.n \in Nat /\ page.busy \in BOOLEAN
    /\ page.keys \in Keys \cup {None}
    /\ tab \in Session \cup {None}
    /\ \A d \in deriving : d.keys \in Keys /\ d.code \in Nat
    /\ \A l \in loops : l.done \in Nat /\ l.failed \in Nat
    /\ known \subseteq Nat /\ out \subseteq Session
    /\ gone \subseteq Share /\ links \subseteq Share
    /\ reveals \in [Share -> Nat]

PagesInit ==
    /\ page = Vault /\ deriving = {} /\ loops = {}
    /\ tab = IF account = "none" THEN None ELSE WebSession
    /\ known = IF account = "none" THEN {} ELSE {0}
    /\ out = {} /\ gone = {} /\ links = {} /\ reveals = [s \in Share |-> 0]

Ask(kind, arg) == Call("web", page.n, kind, tab, arg)

\* The visit that sent the request is still on the screen.
Here(c) == c.n = page.n /\ page.name # "vault"

Idle(name, phase) == page.name = name /\ page.phase = phase /\ ~page.busy

\* The page's button: it is pending until the answer.
Submit(call) ==
    /\ Act("web") /\ page' = [page EXCEPT !.busy = TRUE]
    /\ Send(call)

\* The page after an answer, if it is still there.
Shows(c, p) == page' = IF Here(c) THEN [p EXCEPT !.busy = FALSE] ELSE page

Answers(c, kind) == Answered(c) /\ c.from = "web" /\ c.kind = kind

-----------------------------------------------------------------------------
(* Opening and leaving pages                                               *)

\* Pages of the account ask for their list first; registration and recovery
\* need no session.
OpenPage(name) ==
    LET list == CASE name = "kit" -> "status" [] OTHER -> name
    IN /\ Act("web") /\ page.name = "vault"
       /\ \/ /\ name = "register" /\ tab = None
             /\ page' = Page(name, "form") /\ UNCHANGED calls
          \/ /\ name = "recover"
             /\ page' = Page(name, "code") /\ UNCHANGED calls
          \/ /\ name \in {"password", "import"} /\ tab # None
             /\ page' = Page(name, "form") /\ UNCHANGED calls
          \/ /\ name \in {"kit", "devices", "shares"} /\ tab # None
             /\ page' = Page(name, "idle")
             /\ Send(Call("web", events + 1, list, tab, None))
       /\ UNCHANGED <<tab, deriving, loops, known, out, gone, links, reveals>>

\* clearPendingKit: the account object that a kit in the making still refers to
\* is overwritten.
ZeroPending(n) ==
    {IF d.n = n /\ d.pending THEN [d EXCEPT !.keys = "zero"] ELSE d : d \in deriving}

LeavePage ==
    /\ page.name # "vault"
    /\ page' = Vault
    /\ deriving' = ZeroPending(page.n)
    /\ UNCHANGED <<tab, loops, known, out, gone, links, reveals, calls, events, budget>>

-----------------------------------------------------------------------------
(* Registration and recovery kits                                          *)

Register ==
    /\ Idle("register", "form")
    /\ Submit(Ask("register", [code |-> events + 1]))
    /\ UNCHANGED <<tab, deriving, loops, known, out, gone, links, reveals>>

\* The account exists; performLogin signs in.
Registered(c) ==
    /\ Answers(c, "register")
    /\ calls' = (calls \ {c}) \cup {Call("web", c.n, "login", None, c.arg)}
    /\ UNCHANGED <<pagesVars, events, budget>>

\* setSession; the opened account waits in pendingKit for its kit, also when
\* the page has been left and its cleanup has run.
SignedUp(c) ==
    /\ Answers(c, "login")
    /\ tab' = c.answer.session
    /\ page' = IF Here(c) THEN [page EXCEPT !.phase = "kit", !.keys = "real"] ELSE page
    /\ deriving' = deriving \cup {[n |-> c.n, session |-> c.answer.session,
                                   code |-> c.arg.code, keys |-> "real",
                                   pending |-> TRUE]}
    /\ Taken(c)
    /\ UNCHANGED <<loops, known, out, gone, links, reveals, events, budget>>

\* "Try again" after a kit that could not be uploaded.
RetryKit ==
    /\ Idle("register", "kit") /\ page.keys # None /\ Act("web")
    /\ page' = [page EXCEPT !.busy = TRUE]
    /\ deriving' = deriving \cup {[n |-> page.n, session |-> tab,
                                   code |-> events + 1, keys |-> page.keys,
                                   pending |-> TRUE]}
    /\ UNCHANGED <<tab, loops, known, out, gone, links, reveals, calls>>

\* handleGenerate proves the password with a login of its own.
Generate ==
    /\ Idle("kit", "idle") /\ page.data # None
    /\ Submit(Call("check", page.n, "login", None, [code |-> events + 1]))
    /\ UNCHANGED <<tab, deriving, loops, known, out, gone, links, reveals>>

\* The extra session is closed without waiting for the answer.
Checked(c) ==
    /\ Answered(c) /\ c.from = "check" /\ c.kind = "login"
    /\ deriving' = deriving \cup {[n |-> c.n, session |-> tab,
                                   code |-> c.arg.code, keys |-> "real",
                                   pending |-> FALSE]}
    /\ calls' = (calls \ {c}) \cup
                   {Call("check", c.n, "logout", c.answer.session, None)}
    /\ UNCHANGED <<page, tab, loops, known, out, gone, links, reveals, events, budget>>

LoggedOut(c) ==
    /\ Failed(c) /\ c.kind = "logout"
    /\ Taken(c)
    /\ UNCHANGED <<pagesVars, events, budget>>

\* deriveRecoveryKeys is done: whatever the account object holds now is wrapped
\* and uploaded.
Derived(d) ==
    /\ deriving' = deriving \ {d}
    /\ Send(Call("web", d.n, "set_kit", d.session,
                 [code |-> d.code, keys |-> d.keys]))
    /\ UNCHANGED <<page, tab, loops, known, out, gone, links, reveals, events, budget>>

\* The code is shown; the recovery page then reads the status again.
KitStored(c) ==
    /\ Answers(c, "set_kit")
    /\ Shows(c, [page EXCEPT !.phase = "show-code", !.keys = None])
    /\ known' = IF Here(c) THEN known \cup {c.arg.code} ELSE known
    /\ calls' = (calls \ {c}) \cup
                   IF Here(c) /\ page.name = "kit"
                   THEN {Call("web", c.n, "status", c.session, None)} ELSE {}
    /\ UNCHANGED <<tab, deriving, loops, out, gone, links, reveals, events, budget>>

\* "I have stored this code somewhere safe"
CodeSaved ==
    /\ page.name = "kit" /\ page.phase = "show-code"
    /\ page' = [page EXCEPT !.phase = "idle"]
    /\ UNCHANGED <<tab, deriving, loops, known, out, gone, links, reveals, calls,
                   events, budget>>

KitStatus(c) ==
    /\ Answers(c, "status")
    /\ page' = IF Here(c) THEN [page EXCEPT !.data = c.answer] ELSE page
    /\ Taken(c)
    /\ UNCHANGED <<tab, deriving, loops, known, out, gone, links, reveals, events, budget>>

Disable ==
    /\ Idle("kit", "idle") /\ page.data # None /\ page.data.enabled
    /\ Submit(Ask("clear_kit", None))
    /\ UNCHANGED <<tab, deriving, loops, known, out, gone, links, reveals>>

\* loadStatus again
Disabled(c) ==
    /\ Answers(c, "clear_kit")
    /\ Shows(c, page)
    /\ calls' = (calls \ {c}) \cup {Call("web", c.n, "status", c.session, None)}
    /\ UNCHANGED <<tab, deriving, loops, known, out, gone, links, reveals, events, budget>>

-----------------------------------------------------------------------------
(* Account recovery and the password form                                  *)

VerifyCode(code) ==
    /\ Idle("recover", "code")
    /\ Submit(Ask("recovery_init", [code |-> code]))
    /\ UNCHANGED <<tab, deriving, loops, known, out, gone, links, reveals>>

CodeVerified(c) ==
    /\ Answers(c, "recovery_init")
    /\ Shows(c, [page EXCEPT !.phase = "new-password", !.keys = c.answer.keys,
                             !.data = c.answer])
    /\ Taken(c)
    /\ UNCHANGED <<tab, deriving, loops, known, out, gone, links, reveals, events, budget>>

SetPassword ==
    /\ Idle("recover", "new-password")
    /\ Submit(Ask("recovery", [grant |-> page.data.grant, code |-> events + 1,
                               keys |-> page.keys]))
    /\ UNCHANGED <<tab, deriving, loops, known, out, gone, links, reveals>>

\* Only now are the keys zeroed.
Recovered(c) ==
    /\ Answers(c, "recovery")
    /\ Shows(c, [page EXCEPT !.phase = "show-code", !.keys = None])
    /\ known' = IF Here(c) THEN known \cup {c.arg.code} ELSE known
    /\ Taken(c)
    /\ UNCHANGED <<tab, deriving, loops, out, gone, links, reveals, events, budget>>

ChangePassword ==
    /\ Idle("password", "form")
    /\ Submit(Ask("change", [before |-> sessions]))
    /\ UNCHANGED <<tab, deriving, loops, known, out, gone, links, reveals>>

\* "Your other devices are signed out."
PasswordChanged(c) ==
    /\ Answers(c, "change")
    /\ Shows(c, [page EXCEPT !.phase = "done"])
    /\ out' = IF Here(c) THEN out \cup (c.arg.before \ {c.session}) ELSE out
    /\ Taken(c)
    /\ UNCHANGED <<tab, deriving, loops, known, gone, links, reveals, events, budget>>

-----------------------------------------------------------------------------
(* Devices and shared links                                                *)

Listed(c) ==
    /\ Answered(c) /\ c.kind \in {"devices", "shares"}
    /\ page' = IF Here(c) THEN [page EXCEPT !.data = c.answer] ELSE page
    /\ Taken(c)
    /\ UNCHANGED <<tab, deriving, loops, known, out, gone, links, reveals, events, budget>>

Drop(x) == [page EXCEPT !.data = [listed |-> @.listed \ {x}]]

RevokeDevice(d) ==
    /\ Idle("devices", "idle") /\ page.data # None /\ d \in page.data.listed
    /\ Submit(Ask("remove_device", [device |-> d, before |-> sessions]))
    /\ UNCHANGED <<tab, deriving, loops, known, out, gone, links, reveals>>

DeviceRevoked(c) ==
    /\ Answers(c, "remove_device")
    /\ Shows(c, IF Here(c) THEN Drop(c.arg.device) ELSE page)
    /\ out' = IF Here(c)
              THEN out \cup {s \in c.arg.before : s.device = c.arg.device} ELSE out
    /\ Taken(c)
    /\ UNCHANGED <<tab, deriving, loops, known, gone, links, reveals, events, budget>>

SignOutOthers ==
    /\ Idle("devices", "idle")
    /\ Submit(Ask("sign_out_others", [before |-> sessions]))
    /\ UNCHANGED <<tab, deriving, loops, known, out, gone, links, reveals>>

OthersSignedOut(c) ==
    /\ Answers(c, "sign_out_others")
    /\ Shows(c, page)
    /\ out' = IF Here(c) THEN out \cup (c.arg.before \ {c.session}) ELSE out
    /\ Taken(c)
    /\ UNCHANGED <<tab, deriving, loops, known, gone, links, reveals, events, budget>>

\* The share dialog of the vault: the link is known once the answer is here.
CreateShare(s, limit) ==
    /\ Act("web") /\ page.name = "vault" /\ tab # None
    /\ shares[s] = None /\ s \notin links \cup gone
    /\ \A c \in calls : c.kind = "create_share" => c.arg.share # s
    /\ Send(Call("web", 0, "create_share", tab, [share |-> s, limit |-> limit]))
    /\ UNCHANGED pagesVars

ShareCreated(c) ==
    /\ Answers(c, "create_share")
    /\ links' = links \cup {c.arg.share}
    /\ Taken(c)
    /\ UNCHANGED <<page, tab, deriving, loops, known, out, gone, reveals, events, budget>>

RevokeShare(s) ==
    /\ Idle("shares", "idle") /\ page.data # None /\ s \in page.data.listed
    /\ Submit(Ask("revoke", [share |-> s]))
    /\ UNCHANGED <<tab, deriving, loops, known, out, gone, links, reveals>>

ShareRevoked(c) ==
    /\ Answers(c, "revoke")
    /\ Shows(c, IF Here(c) THEN Drop(c.arg.share) ELSE page)
    /\ gone' = IF Here(c) THEN gone \cup {c.arg.share} ELSE gone
    /\ Taken(c)
    /\ UNCHANGED <<tab, deriving, loops, known, out, links, reveals, events, budget>>

\* A recipient opens the link and clicks; the key in the fragment may have been
\* mangled on the way.  late: the owner had been told it is revoked.
Reveal(s, good) ==
    /\ Act("web") /\ s \in links
    /\ Send(Call("viewer", events + 1, "view", None,
                 [share |-> s, good |-> good, late |-> s \in gone]))
    /\ UNCHANGED pagesVars

\* The view is used up even if the key does not open the payload.
Revealed(c) ==
    /\ Answered(c) /\ c.kind = "view"
    /\ reveals' = IF c.arg.good THEN [reveals EXCEPT ![c.arg.share] = @ + 1]
                  ELSE reveals
    /\ Taken(c)
    /\ UNCHANGED <<page, tab, deriving, loops, known, out, gone, links, events, budget>>

-----------------------------------------------------------------------------
(* Import                                                                  *)

\* handleFile: the parsed export is shown for confirmation.  A file that cannot
\* be read shows an error and leads back to the form, which is where it began.
ChooseFile(file) ==
    /\ Idle("import", "form") /\ Act("web")
    /\ page' = [page EXCEPT !.phase = "preview",
                            !.data = [items |-> ParseOnePux(file), file |-> file]]
    /\ UNCHANGED <<tab, deriving, loops, known, out, gone, links, reveals, calls>>

StartImport ==
    /\ Idle("import", "preview") /\ Act("web")
    /\ page' = [page EXCEPT !.phase = "importing", !.busy = TRUE]
    /\ loops' = loops \cup {[n |-> page.n, file |-> page.data.file,
                             left |-> page.data.items, waits |-> FALSE,
                             done |-> 0, failed |-> 0, made |-> {}]}
    /\ UNCHANGED <<tab, deriving, known, out, gone, links, reveals, calls>>

\* The loop creates the next item and waits; it goes on when the page is left.
ImportNext(l, i) ==
    /\ ~l.waits /\ l.left # {}
    /\ rows[i] = None /\ \A c \in calls : c.kind = "create" => c.arg.item # i
    /\ LET item == CHOOSE p \in l.left : TRUE
       IN loops' = (loops \ {l}) \cup
                      {[l EXCEPT !.left = @ \ {item}, !.waits = TRUE]}
    /\ Send(Call("web", l.n, "create", tab, [item |-> i, row |-> None, text |-> 0]))
    /\ UNCHANGED <<page, tab, deriving, known, out, gone, links, reveals, events, budget>>

\* Mutant: the first failure ends the loop.
StopsOnFailure(l, ok, i) ==
    [l EXCEPT !.waits = FALSE, !.done = IF ok THEN @ + 1 ELSE @,
              !.failed = IF ok THEN @ ELSE @ + 1,
              !.left = IF ok THEN @ ELSE {},
              !.made = IF ok THEN @ \cup {i} ELSE @]

Counted(l, ok, i) ==
    [l EXCEPT !.waits = FALSE, !.done = IF ok THEN @ + 1 ELSE @,
              !.failed = IF ok THEN @ ELSE @ + 1,
              !.made = IF ok THEN @ \cup {i} ELSE @]

\* upsertItem and the counters; after the last item the page says so.
Imported(c) ==
    /\ c.from = "web" /\ c.kind = "create"
    /\ \E l \in loops, ok \in {Answered(c), FALSE} :
          /\ l.n = c.n /\ l.waits
          /\ LET next == Counted(l, ok, c.arg.item)
             IN /\ loops' = (loops \ {l}) \cup {next}
                /\ page' = IF Here(c) /\ next.left = {}
                           THEN [page EXCEPT !.phase = "done", !.busy = FALSE]
                           ELSE page
    /\ Taken(c)
    /\ UNCHANGED <<tab, deriving, known, out, gone, links, reveals, events, budget>>

-----------------------------------------------------------------------------
\* Mutant: key material is zeroed on every path.
ZeroedOnFailure(p) ==
    [p EXCEPT !.keys = IF p.keys = None THEN None ELSE "zero"]

\* The catch blocks: an error is shown, and what the page holds is kept for
\* another try.
AfterFailure(p) == p

\* The request failed; a link that could not be opened offers no retry.
PageFailed(c) ==
    /\ Failed(c) /\ c.from \in {"web", "check", "viewer"}
    /\ c.kind \notin {"create", "logout"}
    /\ page' = IF Here(c) /\ c.kind \notin {"status", "devices", "shares", "view"}
               THEN [AfterFailure(page) EXCEPT !.busy = FALSE] ELSE page
    /\ Taken(c)
    /\ UNCHANGED <<tab, deriving, loops, known, out, gone, links, reveals, events, budget>>

PagesStep ==
    \/ \E c \in calls :
          \/ Registered(c) \/ SignedUp(c) \/ Checked(c) \/ LoggedOut(c)
          \/ KitStored(c) \/ KitStatus(c) \/ Disabled(c)
          \/ CodeVerified(c) \/ Recovered(c) \/ PasswordChanged(c)
          \/ Listed(c) \/ DeviceRevoked(c) \/ OthersSignedOut(c)
          \/ ShareCreated(c) \/ ShareRevoked(c) \/ Revealed(c)
          \/ Imported(c) \/ PageFailed(c)
    \/ \E d \in deriving : Derived(d)
    \/ \E l \in loops, i \in Item : ImportNext(l, i)

PagesUser ==
    \/ \E name \in Names \ {"vault"} : OpenPage(name)
    \/ LeavePage \/ Register \/ RetryKit \/ Generate \/ CodeSaved \/ Disable
    \/ \E code \in known : VerifyCode(code)
    \/ SetPassword \/ ChangePassword \/ SignOutOthers
    \/ \E d \in Device : RevokeDevice(d)
    \/ \E s \in Share : \/ \E limit \in ViewLimits : CreateShare(s, limit)
                        \/ RevokeShare(s)
                        \/ \E good \in BOOLEAN : Reveal(s, good)
    \/ \E file \in Files : ChooseFile(file)
    \/ StartImport

PagesNext == (PagesStep \/ PagesUser) /\ UNCHANGED serverVars

=============================================================================
