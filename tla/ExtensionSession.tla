---------------------------- MODULE ExtensionSession ----------------------------
(***************************************************************************)
(* The unlocked session of the browser extension: the service worker's     *)
(* vaultState, the copy it keeps in chrome.storage.session, the auto-lock  *)
(* alarm, and the handlers that open, use, restore and lock the session    *)
(* (apps/extension/src/background/index.ts).                               *)
(*                                                                         *)
(* The worker is single threaded: an action is one stretch of a handler    *)
(* from one await to the next.  Calls of chrome.storage and chrome.alarms  *)
(* take effect in the order in which the worker issues them, so their      *)
(* effect belongs to the stretch that issues them.  The worker may be      *)
(* stopped at any await; its memory and its handlers are then gone, while  *)
(* storage.session and the alarm stay.                                     *)
(*                                                                         *)
(* Data abstraction.  A session is what one login yields: its token names  *)
(* it, the keys travel with it.  lockGeneration is kept as what its only   *)
(* reader learns from it: whether it was bumped since the restore in       *)
(* flight noted it.                                                        *)
(***************************************************************************)
EXTENDS Naturals, FiniteSets

CONSTANTS
    Session,     \* sessions, one per login of the popup
    Locker,      \* calls of lockVault that can be in flight together
    Page,        \* pages with a message to the worker in flight
    MaxUses,     \* bound on the uses that rearm the countdown
    MaxRestarts, \* bound on how often the worker is stopped
    NoSession    \* no session

ASSUME SessionAssumption ==
    /\ NoSession \notin Session
    /\ MaxUses \in Nat /\ MaxRestarts \in Nat

VARIABLES
    vaultState,  \* the session in the worker's memory, NoSession when locked
    stored,      \* the session in chrome.storage.session
    alarm,       \* the auto-lock alarm is set
    unlock,      \* per session: where its UNLOCK message stands
    restore,     \* the restore in flight
    lock,        \* per call of lockVault: where it stands
    msg,         \* per page: where its message stands
    live,        \* sessions the server accepts
    revoking,    \* sessions whose logout request is under way
    uses,        \* uses so far
    restarts,    \* restarts so far
    lockedOut,   \* sessions a finished lock had found open
    torn         \* handlers have overlapped in one of the windows below

memory        == <<vaultState, unlock, restore, lock, msg>>
server        == <<live, revoking>>
sessionGhosts == <<lockedOut, torn>>
sessionVars   == <<vaultState, stored, alarm, unlock, restore, lock, msg,
                   live, revoking, uses, restarts, lockedOut, torn>>

UnlockAt == {"new", "fetch", "revise", "arm", "persist", "done", "failed"}

NoRestore == [at |-> "none", session |-> NoSession, current |-> FALSE]

NoLock == [at |-> "none", token |-> NoSession, open |-> {}]

SessionTypeOK ==
    /\ vaultState \in Session \cup {NoSession}
    /\ stored \in Session \cup {NoSession}
    /\ alarm \in BOOLEAN
    /\ unlock \in [Session -> UnlockAt]
    /\ restore \in [at : {"none", "fetch", "revise"},
                    session : Session \cup {NoSession}, current : BOOLEAN]
    /\ lock \in [Locker -> [at : {"none", "wipe", "clear"},
                            token : Session \cup {NoSession},
                            open : SUBSET Session]]
    /\ msg \in [Page -> {"none", "restore", "arm"}]
    /\ live \subseteq Session /\ revoking \subseteq Session
    /\ uses \in 0..MaxUses /\ restarts \in 0..MaxRestarts
    /\ lockedOut \subseteq Session
    /\ torn \in BOOLEAN

SessionInit ==
    /\ vaultState = NoSession /\ stored = NoSession /\ alarm = FALSE
    /\ unlock = [s \in Session |-> "new"]
    /\ restore = NoRestore
    /\ lock = [l \in Locker |-> NoLock]
    /\ msg = [p \in Page |-> "none"]
    /\ live = {} /\ revoking = {}
    /\ uses = 0 /\ restarts = 0
    /\ lockedOut = {} /\ torn = FALSE

-----------------------------------------------------------------------------
(* The windows in which one handler has announced a change that another    *)
(* handler can still get in front of.  torn records that one did.          *)

\* An UNLOCK has bumped the generation and not yet set vaultState.
Uninstalled == \E s \in Session : unlock[s] = "revise"

\* An UNLOCK has set vaultState and not yet written the stored session.
Unpersisted == \E s \in Session : unlock[s] \in {"arm", "persist"}

\* A lock has bumped the generation and not yet wiped anything.
Unwiped == \E l \in Locker : lock[l].at = "wipe"

\* A lock has still to clear the alarm.
Locking == \E l \in Locker : lock[l].at # "none"

Tears(window) == torn' = (torn \/ window)

-----------------------------------------------------------------------------
(* lockGeneration                                                          *)

\* Mutant: the generation is not bumped.
KeepGeneration == restore' = restore

\* lockGeneration++: the restore in flight, if any, is no longer current.
BumpGeneration == restore' = [restore EXCEPT !.current = FALSE]

-----------------------------------------------------------------------------
(* armAutoLock                                                             *)

\* The second stretch of armAutoLock: the alarm replaces one already set.
ArmAutoLock == alarm' = TRUE

-----------------------------------------------------------------------------
(* UNLOCK                                                                  *)

\* The popup has logged in and sends UNLOCK with the new session.
Unlock(s) ==
    /\ unlock[s] = "new"
    /\ unlock' = [unlock EXCEPT ![s] = "fetch"]
    /\ live' = live \cup {s}
    /\ UNCHANGED <<vaultState, stored, alarm, restore, lock, msg, revoking,
                   uses, restarts, lockedOut, torn>>

\* The items arrive.
UnlockFetched(s) ==
    /\ unlock[s] = "fetch" /\ s \in live
    /\ unlock' = [unlock EXCEPT ![s] = "revise"]
    /\ BumpGeneration
    /\ UNCHANGED <<vaultState, stored, alarm, lock, msg, server, uses,
                   restarts, sessionGhosts>>

\* The server or the network refuses; the popup shows the error.
UnlockFailed(s) ==
    /\ unlock[s] = "fetch"
    /\ unlock' = [unlock EXCEPT ![s] = "failed"]
    /\ UNCHANGED <<vaultState, stored, alarm, restore, lock, msg, server,
                   uses, restarts, sessionGhosts>>

\* The revision store is loaded: the vault is open from here on.
UnlockInstalled(s) ==
    /\ unlock[s] = "revise"
    /\ unlock' = [unlock EXCEPT ![s] = "arm"]
    /\ vaultState' = s
    /\ Tears(Unpersisted \/ Unwiped)
    /\ UNCHANGED <<stored, alarm, restore, lock, msg, server, uses, restarts,
                   lockedOut>>

UnlockArmed(s) ==
    /\ unlock[s] = "arm"
    /\ unlock' = [unlock EXCEPT ![s] = "persist"]
    /\ ArmAutoLock
    /\ Tears(Locking)
    /\ UNCHANGED <<vaultState, stored, restore, lock, msg, server, uses,
                   restarts, lockedOut>>

UnlockPersisted(s) ==
    /\ unlock[s] = "persist"
    /\ unlock' = [unlock EXCEPT ![s] = "done"]
    /\ stored' = s
    /\ UNCHANGED <<vaultState, alarm, restore, lock, msg, server, uses,
                   restarts, sessionGhosts>>

-----------------------------------------------------------------------------
(* Messages that use the vault, and restoreVaultState                      *)

\* A restore notes the generation and reads the stored session.
RestoreBegins ==
    /\ restore.at = "none" /\ stored # NoSession
    /\ restore' = [at |-> "fetch", session |-> stored, current |-> TRUE]
    /\ Tears(Unwiped \/ Uninstalled)

\* A message finds the worker unlocked and rearms the countdown, as a change
\* of the timeout does.
MessageUnlocked(p) ==
    /\ msg[p] = "none" /\ vaultState # NoSession /\ uses < MaxUses
    /\ msg' = [msg EXCEPT ![p] = "arm"]
    /\ uses' = uses + 1
    /\ UNCHANGED <<vaultState, stored, alarm, unlock, restore, lock, server,
                   restarts, sessionGhosts>>

\* A message finds no vaultState and waits for the restore, which it starts
\* unless one is in flight.
MessageLocked(p) ==
    /\ msg[p] = "none" /\ vaultState = NoSession /\ uses < MaxUses
    /\ \/ RestoreBegins
       \/ restore.at # "none" /\ UNCHANGED <<restore, torn>>
    /\ msg' = [msg EXCEPT ![p] = "restore"]
    /\ uses' = uses + 1
    /\ UNCHANGED <<vaultState, stored, alarm, unlock, lock, server, restarts,
                   lockedOut>>

\* The restore has ended: IS_UNLOCKED and a locked vault are answered at once,
\* a use of the vault rearms the countdown first.
MessageRestored(p) ==
    /\ msg[p] = "restore" /\ restore.at = "none"
    /\ \/ msg' = [msg EXCEPT ![p] = "none"]
       \/ vaultState # NoSession /\ msg' = [msg EXCEPT ![p] = "arm"]
    /\ UNCHANGED <<vaultState, stored, alarm, unlock, restore, lock, server,
                   uses, restarts, sessionGhosts>>

MessageArmed(p) ==
    /\ msg[p] = "arm"
    /\ msg' = [msg EXCEPT ![p] = "none"]
    /\ ArmAutoLock
    /\ Tears(Locking)
    /\ UNCHANGED <<vaultState, stored, unlock, restore, lock, server, uses,
                   restarts, lockedOut>>

RestoreFetched ==
    /\ restore.at = "fetch" /\ restore.session \in live
    /\ restore' = [restore EXCEPT !.at = "revise"]
    /\ UNCHANGED <<vaultState, stored, alarm, unlock, lock, msg, server, uses,
                   restarts, sessionGhosts>>

\* Mutant: a failed restore drops the stored session whatever happened since.
RestoreAlwaysDrops ==
    /\ restore.at = "fetch"
    /\ stored' = NoSession
    /\ restore' = NoRestore
    /\ UNCHANGED <<vaultState, alarm, unlock, lock, msg, server, uses,
                   restarts, sessionGhosts>>

\* Refused or unreachable: the stored session goes, unless the generation
\* moved on.
RestoreFailed ==
    /\ restore.at = "fetch"
    /\ stored' = IF restore.current THEN NoSession ELSE stored
    /\ restore' = NoRestore
    /\ UNCHANGED <<vaultState, alarm, unlock, lock, msg, server, uses,
                   restarts, sessionGhosts>>

\* A lock or an unlock that happened while the restore waited wins.
RestoreInstalled ==
    /\ restore.at = "revise"
    /\ vaultState' = IF restore.current /\ vaultState = NoSession
                     THEN restore.session
                     ELSE vaultState
    /\ restore' = NoRestore
    /\ UNCHANGED <<stored, alarm, unlock, lock, msg, server, uses, restarts,
                   sessionGhosts>>

-----------------------------------------------------------------------------
(* lockVault                                                               *)

\* With the token in memory the wipe follows at once; otherwise the token is
\* first read from storage.
LockVault(l) ==
    /\ lock[l].at = "none"
    /\ BumpGeneration
    /\ Tears(Unpersisted)
    /\ lock' = [lock EXCEPT ![l] =
          [at |-> IF vaultState # NoSession THEN "clear" ELSE "wipe",
           token |-> IF vaultState # NoSession THEN vaultState ELSE stored,
           open |-> {vaultState, stored} \ {NoSession}]]
    /\ stored' = IF vaultState # NoSession THEN NoSession ELSE stored
    /\ vaultState' = NoSession

\* LOCK from the popup, or the system idle or its screen locked.
LockBegins(l) ==
    /\ LockVault(l)
    /\ UNCHANGED <<alarm, unlock, msg, server, uses, restarts, lockedOut>>

\* Mutant: the alarm is ignored by a worker that holds no session itself.
AlarmIgnoredAfterRestart(l) ==
    /\ alarm /\ alarm' = FALSE
    /\ vaultState # NoSession
    /\ LockVault(l)
    /\ UNCHANGED <<unlock, msg, server, uses, restarts, lockedOut>>

\* The countdown has run out; the alarm is not repeated.
AlarmFires(l) ==
    /\ alarm /\ alarm' = FALSE
    /\ LockVault(l)
    /\ UNCHANGED <<unlock, msg, server, uses, restarts, lockedOut>>

LockWipes(l) ==
    /\ lock[l].at = "wipe"
    /\ lock' = [lock EXCEPT ![l].at = "clear"]
    /\ vaultState' = NoSession
    /\ stored' = NoSession
    /\ UNCHANGED <<alarm, unlock, restore, msg, server, uses, restarts, sessionGhosts>>

\* The alarm is cleared and the logout request sent, without waiting for it.
LockClears(l) ==
    /\ lock[l].at = "clear"
    /\ lock' = [lock EXCEPT ![l] = NoLock]
    /\ alarm' = FALSE
    /\ revoking' = revoking \cup ({lock[l].token} \ {NoSession})
    /\ lockedOut' = lockedOut \cup lock[l].open
    /\ UNCHANGED <<vaultState, stored, unlock, restore, msg, live, uses,
                   restarts, torn>>

\* The logout request reaches the server, or is lost.
Revoke(s) ==
    /\ s \in revoking
    /\ revoking' = revoking \ {s}
    /\ live' \in {live, live \ {s}}
    /\ UNCHANGED <<vaultState, stored, alarm, unlock, restore, lock, msg,
                   uses, restarts, sessionGhosts>>

-----------------------------------------------------------------------------
\* The browser stops the worker; the next event starts a new one.
Restart ==
    /\ restarts < MaxRestarts
    /\ restarts' = restarts + 1
    /\ vaultState' = NoSession
    /\ unlock' = [s \in Session |->
                    IF unlock[s] \in {"fetch", "revise", "arm", "persist"}
                    THEN "failed" ELSE unlock[s]]
    /\ restore' = NoRestore
    /\ lock' = [l \in Locker |-> NoLock]
    /\ msg' = [p \in Page |-> "none"]
    /\ Tears(Unwiped)
    /\ UNCHANGED <<stored, alarm, server, uses, lockedOut>>

SessionNext ==
    \/ \E s \in Session :
          \/ Unlock(s) \/ UnlockFetched(s) \/ UnlockFailed(s)
          \/ UnlockInstalled(s) \/ UnlockArmed(s) \/ UnlockPersisted(s)
          \/ Revoke(s)
    \/ \E p \in Page :
          \/ MessageUnlocked(p) \/ MessageLocked(p)
          \/ MessageRestored(p) \/ MessageArmed(p)
    \/ RestoreFetched \/ RestoreFailed \/ RestoreInstalled
    \/ \E l \in Locker :
          \/ LockBegins(l) \/ AlarmFires(l) \/ LockWipes(l) \/ LockClears(l)
    \/ Restart

\* Pending awaits resolve, and a countdown that nobody rearms any more runs
\* out: the browser keeps the alarm and wakes the worker for it.
Fairness ==
    /\ \A s \in Session :
          WF_sessionVars(UnlockFetched(s) \/ UnlockFailed(s) \/ UnlockInstalled(s)
                  \/ UnlockArmed(s) \/ UnlockPersisted(s))
    /\ \A p \in Page : WF_sessionVars(MessageRestored(p) \/ MessageArmed(p))
    /\ WF_sessionVars(RestoreFetched \/ RestoreFailed \/ RestoreInstalled)
    /\ \A l \in Locker : WF_sessionVars(AlarmFires(l)) /\ WF_sessionVars(LockWipes(l))
                         /\ WF_sessionVars(LockClears(l))

SessionSpec == SessionInit /\ [][SessionNext]_sessionVars

FairSpec == SessionSpec /\ Fairness

-----------------------------------------------------------------------------
(* Properties                                                              *)

Quiet ==
    /\ \A s \in Session : unlock[s] \in {"new", "done", "failed"}
    /\ restore = NoRestore
    /\ \A l \in Locker : lock[l] = NoLock
    /\ \A p \in Page : msg[p] = "none"

\* Once lockVault has returned, the sessions it found open are neither in
\* memory nor in storage again: not through a restore that was in flight, not
\* through a restart that forgets the generation.  Only an overlap in one of
\* the windows above can undo a lock.
LockHolds ==
    ~torn => \A s \in lockedOut : vaultState # s /\ stored # s

\* An unlocked worker at rest has the same session in storage and its countdown
\* running, so that a restart neither locks the user out nor brings back another
\* session, nor leaves one open for good; a session that only storage still
\* holds has its countdown too.
RestartKeepsSession ==
    ~torn /\ Quiet =>
        /\ vaultState # NoSession => stored = vaultState
        /\ vaultState # NoSession \/ stored # NoSession => alarm

\* A vault nobody uses any more is locked in the end, in memory and in
\* storage, however often the worker is stopped meanwhile.
IdleVaultLocks ==
    (vaultState # NoSession \/ stored # NoSession)
        ~> (torn \/ (vaultState = NoSession /\ stored = NoSession))

=============================================================================
