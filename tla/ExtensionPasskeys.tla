--------------------------- MODULE ExtensionPasskeys ----------------------------
(***************************************************************************)
(* Passkey ceremonies of the browser extension.  A page's call of          *)
(* navigator.credentials runs through the interceptor in the page          *)
(* (webauthn/inject.ts), the relay of the content script                   *)
(* (webauthn/relay.ts), the background worker with its consent window      *)
(* (background/index.ts, consent/Consent.tsx) and the server's item row,   *)
(* whose version every write must name.                                    *)
(*                                                                         *)
(* Several devices share the account; a device has tabs, and the relay of  *)
(* a tab passes on one call at a time.  An action is a stretch between two *)
(* awaits of one handler.                                                  *)
(*                                                                         *)
(* Data abstraction.  There is one item with a passkey, whose sign counter *)
(* is what its plaintext comes to; a fresh passkey is named by the         *)
(* ceremony that made it.  vaultState.items is an object that a ceremony   *)
(* keeps referring to after a later unlock has fetched a new one, so the   *)
(* copies of the row are kept per unlock.                                  *)
(***************************************************************************)
EXTENDS Naturals

CONSTANTS
    Device,      \* installations of the extension
    TabsPer,     \* tabs of a device, each with a page and its relay
    MaxCalls,    \* bound on the calls of all pages
    MaxUnlocks,  \* bound on the unlocks of all devices
    MaxEdits     \* bound on the edits of other clients

ASSUME PasskeyAssumption ==
    /\ TabsPer \in Nat \ {0} /\ MaxCalls \in Nat
    /\ MaxUnlocks \in Nat /\ MaxEdits \in Nat

Tab == Device \X (1..TabsPer)

VARIABLES
    row,       \* the server's item: its version and the counter inside
    saved,     \* ceremonies whose new passkey the server has stored
    unlocks,   \* unlocks of all devices so far
    opened,    \* per device: the number of its last unlock
    unlocked,  \* per device: vaultState is set
    copy,      \* per device and unlock: the row as vaultState.items has it
    calls,     \* calls so far
    page,      \* per tab: the page waits for its call to settle
    cer,       \* per tab: the ceremony the relay is busy with
    windows,   \* consent windows on the screen
    edits,     \* edits by other clients so far
    approved,  \* ceremonies the user clicked Continue for
    delivered  \* credentials handed to pages

ghosts == <<approved, delivered>>
vars   == <<row, saved, unlocks, opened, unlocked, copy, calls, page, cer, windows,
            edits, approved, delivered>>

Row == [version : Nat, count : Nat]

\* no is the number of the call, which stands for the consent's requestId;
\* obj the unlock whose items the candidate was found in; count the counter
\* that is signed.
Ceremony == [no : 0..MaxCalls, kind : {"create", "get"},
             at : {"none", "check", "ask", "yes", "no", "sign", "sent",
                   "stored", "failed"},
             obj : 0..MaxUnlocks, count : Nat, version : Nat]

\* A ceremony that has not looked at the vault, or keeps nothing of it.
Bare(no, kind, at) ==
    [no |-> no, kind |-> kind, at |-> at, obj |-> 0, count |-> 0, version |-> 0]

Idle == Bare(0, "get", "none")

TypeOK ==
    /\ row \in Row
    /\ saved \subseteq 1..MaxCalls
    /\ unlocks \in 0..MaxUnlocks
    /\ opened \in [Device -> 0..MaxUnlocks]
    /\ unlocked \in [Device -> BOOLEAN]
    /\ copy \in [Device -> [1..MaxUnlocks -> Row]]
    /\ calls \in 0..MaxCalls
    /\ page \in [Tab -> BOOLEAN]
    /\ cer \in [Tab -> Ceremony]
    /\ windows \subseteq 1..MaxCalls
    /\ edits \in 0..MaxEdits
    /\ approved \subseteq 1..MaxCalls
    /\ delivered \subseteq [id : 1..MaxCalls,
                            kind : {"create", "get"}, count : Nat]

\* A vault that already holds one passkey.
Init ==
    /\ row = [version |-> 1, count |-> 0]
    /\ saved = {}
    /\ unlocks = 0 /\ opened = [d \in Device |-> 0]
    /\ unlocked = [d \in Device |-> FALSE]
    /\ copy = [d \in Device |-> [u \in 1..MaxUnlocks |-> row]]
    /\ calls = 0
    /\ page = [t \in Tab |-> FALSE]
    /\ cer = [t \in Tab |-> Idle]
    /\ windows = {} /\ edits = 0
    /\ approved = {} /\ delivered = {}

-----------------------------------------------------------------------------
(* The device's vault, as far as ceremonies see it                         *)

\* UNLOCK, or the restore after the worker was stopped, fetches the items
\* into a new vaultState.
UnlockVault(d) ==
    /\ ~unlocked[d]
    /\ unlocks < MaxUnlocks
    /\ unlocks' = unlocks + 1
    /\ opened' = [opened EXCEPT ![d] = unlocks']
    /\ unlocked' = [unlocked EXCEPT ![d] = TRUE]
    /\ copy' = [copy EXCEPT ![d][unlocks'] = row]
    /\ UNCHANGED <<row, saved, page, cer, windows, edits, ghosts, calls>>

LockVault(d) ==
    /\ unlocked[d]
    /\ unlocked' = [unlocked EXCEPT ![d] = FALSE]
    /\ UNCHANGED <<row, saved, unlocks, opened, copy, calls, page, cer,
                   windows, edits, ghosts>>

\* Another client saves the item: a new version around the same counter.
EditItem ==
    /\ edits < MaxEdits
    /\ edits' = edits + 1
    /\ row' = [row EXCEPT !.version = @ + 1]
    /\ UNCHANGED <<saved, unlocks, opened, unlocked, copy, calls, page, cer,
                   windows, ghosts>>

-----------------------------------------------------------------------------
(* The page's call and the relay                                           *)

Moves(t, at) == cer' = [cer EXCEPT ![t].at = at]

\* The ceremony is over: nothing of it is kept but its number.
Ends(t, at) == cer' = [cer EXCEPT ![t] = Bare(cer[t].no, "get", at)]

\* The page calls create or get, with options the interceptor handles, and
\* the relay is free.
Call(t) ==
    /\ ~page[t] /\ cer[t].at = "none" /\ calls < MaxCalls
    /\ calls' = calls + 1
    /\ page' = [page EXCEPT ![t] = TRUE]
    /\ \E kind \in {"create", "get"} :
          cer' = [cer EXCEPT ![t] = Bare(calls + 1, kind, "check")]
    /\ UNCHANGED <<row, saved, unlocks, opened, unlocked, copy, windows,
                   edits, ghosts>>

\* The 120 seconds of the interceptor are over and the native authenticator
\* takes the call, or the page aborts it.  The relay does not learn of it.
GiveUp(t) ==
    /\ page[t]
    /\ page' = [page EXCEPT ![t] = FALSE]
    /\ UNCHANGED <<row, saved, unlocks, opened, unlocked, copy, calls, cer,
                   windows, edits, ghosts>>

\* The relay hands the page an error or a refusal: the native authenticator
\* takes the call if the page still waits.
FallBack(t) ==
    /\ cer[t].at = "failed"
    /\ Ends(t, "none")
    /\ page' = [page EXCEPT ![t] = FALSE]
    /\ UNCHANGED <<row, saved, unlocks, opened, unlocked, copy, calls,
                   windows, edits, ghosts>>

-----------------------------------------------------------------------------
(* WEBAUTHN_CREATE and WEBAUTHN_GET up to the answer of the user           *)

\* What the relay asks before it bothers the user.
Available(d) == unlocked[d]

\* The passkey's item, as the items of the present vaultState have it.
Candidate(d) == copy[d][opened[d]]

\* The relay's pre-check passes, the rpId fits the page's origin, and a get
\* finds the passkey: its counter is read now, the item kept by reference.
Ask(t) ==
    LET d == t[1] IN
    /\ cer[t].at = "check" /\ Available(d)
    /\ cer' = [cer EXCEPT ![t].at = "ask", ![t].obj = opened[d],
                          ![t].count = Candidate(d).count]
    /\ windows' = windows \cup {cer[t].no}
    /\ UNCHANGED <<row, saved, unlocks, opened, unlocked, copy, calls, page,
                   edits, ghosts>>

\* Locked, no such passkey, already registered, a foreign rpId or a malformed
\* challenge.
Refuse(t) ==
    /\ cer[t].at = "check"
    /\ Ends(t, "failed")
    /\ UNCHANGED <<row, saved, unlocks, opened, unlocked, copy, calls, page,
                   windows, edits, ghosts>>

\* Mutant: an answer settles whichever prompts are open.
SettlesAny(n, answer) ==
    cer' = [t \in Tab |-> IF cer[t].at = "ask"
                          THEN [cer[t] EXCEPT !.at = answer] ELSE cer[t]]

\* settle: an answer counts only while its own request is pending.
Settles(n, answer) ==
    cer' = [t \in Tab |-> IF cer[t].at = "ask" /\ cer[t].no = n
                          THEN [cer[t] EXCEPT !.at = answer] ELSE cer[t]]

\* The user clicks Continue or Not now in a consent window, which may be one
\* that a stopped worker has left behind; the window closes itself.
Answer(n, answer) ==
    /\ n \in windows
    /\ windows' = windows \ {n}
    /\ approved' = IF answer = "yes" THEN approved \cup {n} ELSE approved
    /\ Settles(n, answer)
    /\ UNCHANGED <<row, saved, unlocks, opened, unlocked, copy, calls, page,
                   edits, delivered>>

\* The window could not be created, or is closed before its id is known: only
\* the timer is left to settle the prompt.
LoseWindow(t) ==
    /\ cer[t].no \in windows
    /\ windows' = windows \ {cer[t].no}
    /\ UNCHANGED <<row, saved, unlocks, opened, unlocked, copy, calls, page,
                   cer, edits, ghosts>>

\* Mutant: the timeout closes the window and settles nothing.
TimeoutOnlyCloses(t) ==
    /\ cer[t].at = "ask" /\ cer[t].no \in windows
    /\ windows' = windows \ {cer[t].no}
    /\ UNCHANGED <<row, saved, unlocks, opened, unlocked, copy, calls, page,
                   cer, edits, ghosts>>

\* 115 seconds without an answer; the window is removed.
ConsentTimeout(t) ==
    /\ cer[t].at = "ask"
    /\ Moves(t, "no")
    /\ windows' = windows \ {cer[t].no}
    /\ UNCHANGED <<row, saved, unlocks, opened, unlocked, copy, calls, page,
                   edits, ghosts>>

Declined(t) ==
    /\ cer[t].at = "no"
    /\ Ends(t, "failed")
    /\ UNCHANGED <<row, saved, unlocks, opened, unlocked, copy, calls, page,
                   windows, edits, ghosts>>

-----------------------------------------------------------------------------
(* After the consent                                                       *)

\* The counter of an assertion.
NewCount(n) == n + 1

\* The counter of a passkey that is created.
FreshCount == 0

\* The vault is looked at again, the countdown rearmed, and the authenticator
\* data built and signed.
Sign(t) ==
    /\ cer[t].at = "yes"
    /\ cer' = [cer EXCEPT
          ![t].at = IF unlocked[t[1]] THEN "sign" ELSE "failed",
          ![t].count = IF cer[t].kind = "get" THEN NewCount(@) ELSE FreshCount]
    /\ UNCHANGED <<row, saved, unlocks, opened, unlocked, copy, calls, page,
                   windows, edits, ghosts>>

\* The item is encrypted with the counter that was signed and sent with the
\* version the kept item has by now; a vault locked meanwhile throws.
Send(t) ==
    LET d == t[1] IN
    /\ cer[t].at = "sign"
    /\ cer' = [cer EXCEPT
          ![t].at = IF unlocked[d] THEN "sent" ELSE "failed",
          ![t].version = copy[d][cer[t].obj].version]
    /\ UNCHANGED <<row, saved, unlocks, opened, unlocked, copy, calls, page,
                   windows, edits, ghosts>>

\* Mutant: the update does not name the version it replaces.
AnyVersion(t) == TRUE

\* The row still has the version the update names.
SameVersion(t) == cer[t].version = row.version

\* The server takes the write: an update of the row, or a new item.
Store(t) ==
    /\ cer[t].at = "sent"
    /\ \/ /\ cer[t].kind = "get" /\ SameVersion(t)
          /\ row' = [version |-> row.version + 1, count |-> cer[t].count]
          /\ UNCHANGED saved
       \/ /\ cer[t].kind = "create"
          /\ saved' = saved \cup {cer[t].no}
          /\ UNCHANGED row
    /\ Moves(t, "stored")
    /\ UNCHANGED <<unlocks, opened, unlocked, copy, calls, page, windows,
                   edits, ghosts>>

\* Mutant: a failed write is logged, and the ceremony goes on.
FailureIgnored(t) ==
    /\ cer[t].at = "sent"
    /\ Moves(t, "stored")
    /\ UNCHANGED <<row, saved, unlocks, opened, unlocked, copy, calls, page,
                   windows, edits, ghosts>>

\* A version conflict, a lost request, or a lost answer to a stored one.
SendFails(t) ==
    /\ cer[t].at \in {"sent", "stored"}
    /\ Ends(t, "failed")
    /\ UNCHANGED <<row, saved, unlocks, opened, unlocked, copy, calls, page,
                   windows, edits, ghosts>>

\* What makeCredential gives the page, as far as a site can tell.
Credential(c) == [id |-> c.no, kind |-> c.kind, count |-> c.count]

\* The answer arrives: the kept item follows the row, and the signature goes
\* to the page if it still waits.  A vault locked meanwhile throws instead.
Return(t) ==
    LET d == t[1] IN
    /\ cer[t].at = "stored"
    /\ Ends(t, IF unlocked[d] THEN "none" ELSE "failed")
    /\ copy' = IF unlocked[d] /\ cer[t].kind = "get"
               THEN [copy EXCEPT ![d][cer[t].obj] =
                        [version |-> cer[t].version + 1,
                         count |-> cer[t].count]]
               ELSE copy
    /\ delivered' = IF unlocked[d] /\ page[t]
                    THEN delivered \cup {Credential(cer[t])} ELSE delivered
    /\ page' = [page EXCEPT ![t] = @ /\ ~unlocked[d]]
    /\ UNCHANGED <<row, saved, unlocks, opened, unlocked, calls, windows,
                   edits, approved>>

-----------------------------------------------------------------------------
\* The worker is stopped: ceremonies and pending consents are gone, and the
\* relays see their message channels close.  Consent windows stay.
StopWorker(d) ==
    /\ \E t \in Tab : t[1] = d /\ cer[t].at \notin {"none", "failed"}
    /\ cer' = [t \in Tab |-> IF t[1] = d /\ cer[t].at # "none"
                             THEN Bare(cer[t].no, "get", "failed")
                             ELSE cer[t]]
    /\ unlocked' = [unlocked EXCEPT ![d] = FALSE]
    /\ UNCHANGED <<row, saved, unlocks, opened, copy, calls, page, windows,
                   edits, ghosts>>

Next ==
    \/ EditItem
    \/ \E n \in 1..MaxCalls, answer \in {"yes", "no"} : Answer(n, answer)
    \/ \E d \in Device : UnlockVault(d) \/ LockVault(d) \/ StopWorker(d)
    \/ \E t \in Tab :
          \/ Call(t) \/ GiveUp(t) \/ FallBack(t) \/ Ask(t) \/ Refuse(t)
          \/ LoseWindow(t) \/ ConsentTimeout(t) \/ Declined(t)
          \/ Sign(t) \/ Send(t) \/ Store(t) \/ SendFails(t) \/ Return(t)

\* Timers run out, and what the worker and the relay have started goes on.
\* Nothing is assumed of the user or of the server.
Fairness ==
    \A t \in Tab :
       /\ WF_vars(GiveUp(t))
       /\ WF_vars(FallBack(t) \/ Refuse(t) \/ ConsentTimeout(t) \/ Declined(t)
                  \/ Sign(t) \/ Send(t) \/ SendFails(t))

Spec == Init /\ [][Next]_vars

FairSpec == Spec /\ Fairness

-----------------------------------------------------------------------------
(* Properties                                                              *)

\* No two assertions with one sign counter ever reach a site, from any
\* device: a site that sees a counter twice takes the passkey for a clone.
CountersNeverRepeat ==
    \A a, b \in delivered :
       a.kind = "get" /\ b.kind = "get" /\ a # b => a.count # b.count

\* What a page was given is in the vault: the counter of an assertion is one
\* the row has reached, so the next assertion exceeds it, and a new passkey
\* is stored.
DeliveredIsStored ==
    \A a \in delivered :
       \/ a.kind = "get" /\ a.count <= row.count
       \/ a.kind = "create" /\ a.id \in saved

\* Nothing is signed or created without a click on Continue in the window of
\* that very ceremony, whatever windows earlier ceremonies left behind.
OwnConsent == \A a \in delivered : a.id \in approved

\* Every call of a page settles, and the relay is free again, even when the
\* worker is stopped, a window is lost or the server never answers.
CallsSettle ==
    \A t \in Tab : (page[t] \/ cer[t].at # "none")
                      ~> (~page[t] /\ cer[t].at = "none")

=============================================================================
