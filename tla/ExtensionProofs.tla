------------------------------ MODULE ExtensionProofs ------------------------------
(***************************************************************************)
(* Proofs about two parts of the browser extension: ExtensionSession, for  *)
(* any sessions, locks, pages, uses and restarts, and ExtensionFill, for   *)
(* any logins, origins, documents, searches and fills.                     *)
(***************************************************************************)
EXTENDS ExtensionSession, ExtensionFill, TLAPS

-----------------------------------------------------------------------------
(* Types.                                                                  *)

LockAt == [at : {"none", "wipe", "clear"}, token : Session \cup {NoSession},
           open : SUBSET Session]

LEMMA RestType == NoLock \in LockAt /\ NoLock.at = "none"
  BY DEF NoLock, LockAt

RestoreAt == [at : {"none", "fetch", "revise"}, session : Session \cup {NoSession},
              current : BOOLEAN]

LEMMA NoRestoreType == NoRestore \in RestoreAt /\ NoRestore.at = "none"
  <1>1. [at |-> "none", session |-> NoSession, current |-> FALSE] \in RestoreAt
    BY Zenon DEF RestoreAt
  <1>2. QED
    BY <1>1 DEF NoRestore

LEMMA RestoreType ==
  ASSUME SessionTypeOK, BumpGeneration
  PROVE  /\ restore' \in RestoreAt
         /\ restore'.at = restore.at /\ restore'.session = restore.session
         /\ restore'.current = FALSE
  BY DEF SessionTypeOK, BumpGeneration, RestoreAt

\* What lockVault leaves, in its first stretch.
LEMMA LockVaultType ==
  ASSUME SessionTypeOK, NEW l \in Locker, LockVault(l)
  PROVE  /\ lock' \in [Locker -> LockAt]
         /\ \A m \in Locker \ {l} : lock'[m] = lock[m]
         /\ lock'[l].at = IF vaultState # NoSession THEN "clear" ELSE "wipe"
         /\ lock'[l].open = {vaultState, stored} \ {NoSession}
         /\ vaultState' = NoSession
         /\ stored' = IF vaultState # NoSession THEN NoSession ELSE stored
         /\ torn' \in BOOLEAN /\ (torn' <=> (torn \/ Unpersisted))
  <1> DEFINE c == [at |-> IF vaultState # NoSession THEN "clear" ELSE "wipe",
                   token |-> IF vaultState # NoSession THEN vaultState ELSE stored,
                   open |-> {vaultState, stored} \ {NoSession}]
  <1>1. c \in LockAt
    BY DEF SessionTypeOK, LockAt, RestoreAt
  <1>2. lock' = [lock EXCEPT ![l] = c] /\ lock \in [Locker -> LockAt]
    BY DEF SessionTypeOK, LockVault, LockAt
  <1>3. /\ c.at = IF vaultState # NoSession THEN "clear" ELSE "wipe"
        /\ c.open = {vaultState, stored} \ {NoSession}
    OBVIOUS
  <1>4. torn' \in BOOLEAN /\ (torn' <=> (torn \/ Unpersisted))
    BY DEF SessionTypeOK, LockVault, Tears
  <1> HIDE DEF c
  <1>5. lock' \in [Locker -> LockAt] /\ \A m \in Locker : lock'[m] = IF m = l THEN c ELSE lock[m]
    BY <1>1, <1>2
  <1>6. QED
    BY <1>3, <1>4, <1>5 DEF LockVault

LEMMA SessionTypeStep ==
  ASSUME SessionTypeOK, [SessionNext]_sessionVars
  PROVE  SessionTypeOK'
  <1> USE DEF UnlockAt
  <1>1. CASE UNCHANGED sessionVars
    BY <1>1 DEF sessionVars, SessionTypeOK
  <1>2. ASSUME NEW s \in Session,
               Unlock(s) \/ UnlockFailed(s) \/ UnlockPersisted(s) \/ Revoke(s)
        PROVE  SessionTypeOK'
    BY <1>2 DEF SessionTypeOK, Unlock, UnlockFailed, UnlockPersisted, Revoke, server, sessionGhosts
  <1>3. ASSUME NEW s \in Session, UnlockFetched(s)
        PROVE  SessionTypeOK'
    BY <1>3, RestoreType DEF SessionTypeOK, UnlockFetched, server, sessionGhosts, RestoreAt
  <1>4. ASSUME NEW s \in Session, UnlockInstalled(s) \/ UnlockArmed(s)
        PROVE  SessionTypeOK'
    <2>1. torn' \in BOOLEAN
      <3>1. Tears(Unpersisted \/ Unwiped) \/ Tears(Locking)
        BY <1>4 DEF UnlockInstalled, UnlockArmed
      <3>2. QED
        BY <3>1, Zenon DEF Tears
    <2>2. unlock' \in [Session -> UnlockAt] /\ vaultState' \in Session \cup {NoSession}
      BY <1>4 DEF SessionTypeOK, UnlockInstalled, UnlockArmed
    <2>3. alarm' \in BOOLEAN
      BY <1>4 DEF SessionTypeOK, UnlockInstalled, UnlockArmed, ArmAutoLock
    <2>4. UNCHANGED <<stored, restore, lock, msg, live, revoking, uses, restarts,
                      lockedOut>>
      BY <1>4 DEF UnlockInstalled, UnlockArmed, server
    <2>5. QED
      BY <2>1, <2>2, <2>3, <2>4 DEF SessionTypeOK
  <1>5. ASSUME NEW p \in Page, MessageUnlocked(p) \/ MessageRestored(p) \/ MessageArmed(p)
        PROVE  SessionTypeOK'
    <2>1. torn' \in BOOLEAN
      <3>1. torn' = torn \/ Tears(Locking)
        BY <1>5 DEF MessageUnlocked, MessageRestored, MessageArmed, sessionGhosts
      <3>2. QED
        BY <3>1, Zenon DEF SessionTypeOK, Tears
    <2>2. uses' \in 0..MaxUses
      BY <1>5, SessionAssumption DEF SessionTypeOK, MessageUnlocked, MessageRestored, MessageArmed
    <2>3. msg' \in [Page -> {"none", "restore", "arm"}]
      BY <1>5 DEF SessionTypeOK, MessageUnlocked, MessageRestored, MessageArmed
    <2>4. alarm' \in BOOLEAN
      BY <1>5 DEF SessionTypeOK, MessageUnlocked, MessageRestored, MessageArmed, ArmAutoLock
    <2>5. UNCHANGED <<vaultState, stored, unlock, restore, lock, live, revoking,
                      restarts, lockedOut>>
      BY <1>5 DEF MessageUnlocked, MessageRestored, MessageArmed, server, sessionGhosts
    <2>6. QED
      BY <2>1, <2>2, <2>3, <2>4, <2>5 DEF SessionTypeOK
  <1>6. ASSUME NEW p \in Page, MessageLocked(p)
        PROVE  SessionTypeOK'
    <2>1. torn' \in BOOLEAN
      BY <1>6 DEF SessionTypeOK, MessageLocked, RestoreBegins, Tears
    <2>2. uses' \in 0..MaxUses
      BY <1>6, SessionAssumption DEF SessionTypeOK, MessageLocked
    <2>3. restore' \in RestoreAt
      <3>1. CASE restore' = restore
        BY <3>1 DEF SessionTypeOK, RestoreAt
      <3>2. CASE restore' = [at |-> "fetch", session |-> stored, current |-> TRUE]
        <4>1. stored \in Session \cup {NoSession}
          BY DEF SessionTypeOK
        <4>2. QED
          BY <3>2, <4>1, Zenon DEF RestoreAt
      <3>3. QED
        BY <1>6, <3>1, <3>2 DEF MessageLocked, RestoreBegins
    <2>4. QED
      BY <1>6, <2>1, <2>2, <2>3 DEF SessionTypeOK, MessageLocked, server, RestoreAt
  <1>7. CASE RestoreFetched \/ RestoreFailed \/ RestoreInstalled
    <2>1. restore' \in RestoreAt
      <3>1. CASE RestoreFetched
        BY <3>1 DEF SessionTypeOK, RestoreFetched, RestoreAt
      <3>2. CASE RestoreFailed \/ RestoreInstalled
        BY <3>2, NoRestoreType DEF RestoreFailed, RestoreInstalled
      <3>3. QED
        BY <1>7, <3>1, <3>2
    <2>2. vaultState' \in Session \cup {NoSession} /\ stored' \in Session \cup {NoSession}
      BY <1>7 DEF SessionTypeOK, RestoreFetched, RestoreFailed, RestoreInstalled
    <2>3. QED
      BY <1>7, <2>1, <2>2 DEF SessionTypeOK, RestoreFetched, RestoreFailed, RestoreInstalled,
                             server, sessionGhosts, RestoreAt
  <1>8. ASSUME NEW l \in Locker, LockBegins(l) \/ AlarmFires(l)
        PROVE  SessionTypeOK'
    <2>1. LockVault(l)
      BY <1>8 DEF LockBegins, AlarmFires
    <2>2. /\ lock' \in [Locker -> LockAt] /\ torn' \in BOOLEAN
          /\ vaultState' \in Session \cup {NoSession} /\ stored' \in Session \cup {NoSession}
      BY <2>1, LockVaultType DEF SessionTypeOK
    <2>3. restore' \in RestoreAt
      BY <2>1, RestoreType DEF LockVault
    <2>4. alarm' \in BOOLEAN
      BY <1>8 DEF SessionTypeOK, LockBegins, AlarmFires
    <2>5. UNCHANGED <<unlock, msg, live, revoking, uses, restarts, lockedOut>>
      BY <1>8 DEF LockBegins, AlarmFires, server
    <2>6. QED
      BY <2>2, <2>3, <2>4, <2>5 DEF SessionTypeOK, LockAt, RestoreAt
  <1>9. ASSUME NEW l \in Locker, LockWipes(l)
        PROVE  SessionTypeOK'
    BY <1>9 DEF SessionTypeOK, LockWipes, server, sessionGhosts
  <1>10. ASSUME NEW l \in Locker, LockClears(l)
         PROVE  SessionTypeOK'
    <2>1. lock[l].open \subseteq Session /\ lock[l].token \in Session \cup {NoSession}
      BY DEF SessionTypeOK
    <2>2. lock' \in [Locker -> LockAt]
      BY <1>10, RestType DEF SessionTypeOK, LockClears, LockAt
    <2>3. revoking' \subseteq Session /\ lockedOut' \subseteq Session
      BY <1>10, <2>1 DEF SessionTypeOK, LockClears
    <2>4. alarm' \in BOOLEAN
      BY <1>10 DEF LockClears
    <2>5. UNCHANGED <<vaultState, stored, unlock, restore, msg, live, uses,
                      restarts, torn>>
      BY <1>10 DEF LockClears
    <2>6. QED
      BY <2>2, <2>3, <2>4, <2>5 DEF SessionTypeOK, LockAt, RestoreAt
  <1>11. CASE Restart
    <2>1. restarts' \in 0..MaxRestarts
      BY <1>11, SessionAssumption DEF SessionTypeOK, Restart
    <2>2. torn' \in BOOLEAN
      BY <1>11 DEF SessionTypeOK, Restart, Tears
    <2>3. restore' \in RestoreAt
      BY <1>11, NoRestoreType DEF Restart
    <2>4. lock' \in [Locker -> LockAt]
      BY <1>11, RestType DEF Restart
    <2>5. unlock' \in [Session -> UnlockAt] /\ msg' \in [Page -> {"none", "restore", "arm"}]
      BY <1>11 DEF SessionTypeOK, Restart
    <2>6. QED
      BY <1>11, <2>1, <2>2, <2>3, <2>4, <2>5 DEF SessionTypeOK, Restart, server, LockAt, RestoreAt
  <1>12. QED
    BY <1>1, <1>2, <1>3, <1>4, <1>5, <1>6, <1>7, <1>8, <1>9, <1>10, <1>11 DEF SessionNext

LEMMA SessionInitType == SessionInit => SessionTypeOK
  <1>1. ASSUME SessionInit
        PROVE  restore \in RestoreAt /\ lock \in [Locker -> LockAt]
    BY <1>1, NoRestoreType, RestType DEF SessionInit
  <1>2. ASSUME SessionInit
        PROVE  uses \in 0..MaxUses /\ restarts \in 0..MaxRestarts
    BY <1>2, SessionAssumption DEF SessionInit
  <1>3. QED
    BY <1>1, <1>2 DEF SessionInit, SessionTypeOK, UnlockAt, RestoreAt, LockAt

\* Memory, storage and every handler in flight stay well formed.
THEOREM SessionTypeCorrect == SessionSpec => []SessionTypeOK
  BY SessionInitType, SessionTypeStep, PTL DEF SessionSpec

-----------------------------------------------------------------------------
(* Locks and restarts, as long as no two handlers overlap in a window.     *)

Arming == {"arm", "persist"}

\* The stored session is one whose UNLOCK has ended.
StoredInv == stored # NoSession => unlock[stored] = "done"

\* An UNLOCK between vaultState and the storage is the one in memory.
UnlockInv ==
    \A s \in Session :
       /\ unlock[s] \in Arming => vaultState = s
       /\ unlock[s] = "persist" => alarm /\ ~Locking

\* Memory and storage agree, and the countdown runs while nothing is locking.
OpenInv ==
    /\ vaultState # NoSession => stored = vaultState \/ unlock[vaultState] \in Arming
    /\ stored # NoSession /\ ~Locking => alarm

\* A restore that may still install its session began from what storage still
\* holds, and nothing has announced a change since.
RestoreInv ==
    restore.at # "none" /\ restore.current =>
       /\ stored = restore.session /\ vaultState = NoSession
       /\ ~Locking /\ ~Uninstalled

\* What a lock found open stays out, from the wipe on.
LockInv ==
    \A l \in Locker :
       /\ lock[l].at = "wipe" => vaultState = NoSession
       /\ lock[l].at = "clear" => stored = NoSession
       /\ \A s \in lock[l].open :
             /\ lock[l].at # "none" => unlock[s] = "done"
             /\ lock[l].at = "clear" => vaultState # s

LockedInv ==
    \A s \in lockedOut : unlock[s] = "done" /\ vaultState # s /\ stored # s

Whole == UnlockInv /\ OpenInv /\ RestoreInv /\ LockInv /\ LockedInv

SessionInv == StoredInv /\ (~torn => Whole)

\* The part of the state SessionInv is about.
session == <<vaultState, stored, alarm, unlock, restore, lock, lockedOut, torn>>

LEMMA SessionFrame ==
  ASSUME SessionInv, UNCHANGED session
  PROVE  SessionInv'
  BY DEF session, SessionInv, StoredInv, Whole, UnlockInv, OpenInv, RestoreInv,
         LockInv, LockedInv, Locking, Uninstalled

LEMMA InitSession == SessionInit => SessionInv
  BY RestType, NoRestoreType
     DEF SessionInit, SessionInv, StoredInv, Whole, UnlockInv, OpenInv, RestoreInv,
         LockInv, LockedInv, Arming

\* A window that does not tear the step was closed.
LEMMA NotTorn ==
  ASSUME SessionTypeOK, SessionInv, NEW w \in BOOLEAN, Tears(w), ~torn'
  PROVE  Whole /\ ~w
  BY DEF Tears, SessionInv

\* UNLOCK, before it has the items.
LEMMA UnlockKeeps ==
  ASSUME SessionTypeOK, SessionInv, NEW s \in Session, Unlock(s) \/ UnlockFailed(s)
  PROVE  SessionInv'
  <1>1. /\ unlock[s] \in {"new", "fetch"} /\ unlock'[s] \in {"fetch", "failed"}
        /\ \A t \in Session \ {s} : unlock'[t] = unlock[t]
        /\ UNCHANGED <<vaultState, stored, alarm, restore, lock, lockedOut, torn>>
    BY DEF Unlock, UnlockFailed, SessionTypeOK, server, sessionGhosts
  <1>2. StoredInv'
    BY <1>1 DEF SessionInv, StoredInv, SessionTypeOK
  <1>3. ASSUME Whole PROVE Whole'
    <2>1. UnlockInv'
      BY <1>1, <1>3 DEF Whole, UnlockInv, Arming, Locking, SessionTypeOK
    <2>2. OpenInv'
      BY <1>1, <1>3 DEF Whole, OpenInv, Arming, Locking, SessionTypeOK
    <2>3. RestoreInv'
      BY <1>1, <1>3 DEF Whole, RestoreInv, Locking, Uninstalled
    <2>4. LockInv'
      BY <1>1, <1>3 DEF Whole, LockInv, SessionTypeOK
    <2>5. LockedInv'
      BY <1>1, <1>3 DEF Whole, LockedInv, SessionTypeOK
    <2>6. QED
      BY <2>1, <2>2, <2>3, <2>4, <2>5 DEF Whole
  <1>4. QED
    BY <1>1, <1>2, <1>3 DEF SessionInv

\* UNLOCK announces itself: the restore in flight is no longer current.
LEMMA UnlockFetchedKeeps ==
  ASSUME SessionTypeOK, SessionInv, NEW s \in Session, UnlockFetched(s)
  PROVE  SessionInv'
  <1>1. /\ unlock[s] = "fetch" /\ unlock'[s] = "revise"
        /\ \A t \in Session \ {s} : unlock'[t] = unlock[t]
        /\ UNCHANGED <<vaultState, stored, alarm, lock, lockedOut, torn>>
    BY DEF UnlockFetched, SessionTypeOK, sessionGhosts
  <1>2. restore'.current = FALSE
    BY RestoreType DEF UnlockFetched
  <1>3. StoredInv'
    BY <1>1 DEF SessionInv, StoredInv, SessionTypeOK
  <1>4. ASSUME Whole PROVE Whole'
    <2>1. UnlockInv'
      BY <1>1, <1>4 DEF Whole, UnlockInv, Arming, Locking, SessionTypeOK
    <2>2. OpenInv'
      BY <1>1, <1>4 DEF Whole, OpenInv, Arming, Locking, SessionTypeOK
    <2>3. RestoreInv'
      BY <1>2 DEF RestoreInv
    <2>4. LockInv'
      BY <1>1, <1>4 DEF Whole, LockInv, SessionTypeOK
    <2>5. LockedInv'
      BY <1>1, <1>4 DEF Whole, LockedInv, SessionTypeOK
    <2>6. QED
      BY <2>1, <2>2, <2>3, <2>4, <2>5 DEF Whole
  <1>5. QED
    BY <1>1, <1>3, <1>4 DEF SessionInv

\* The vault opens: no other UNLOCK is at work and no lock has still to wipe.
LEMMA UnlockInstalledKeeps ==
  ASSUME SessionTypeOK, SessionInv, NEW s \in Session, UnlockInstalled(s)
  PROVE  SessionInv'
  <1>1. /\ unlock[s] = "revise" /\ unlock'[s] = "arm" /\ vaultState' = s
        /\ \A t \in Session \ {s} : unlock'[t] = unlock[t]
        /\ UNCHANGED <<stored, alarm, restore, lock, lockedOut>>
    BY DEF UnlockInstalled, SessionTypeOK
  <1>2. Tears(Unpersisted \/ Unwiped)
    BY DEF UnlockInstalled
  <1>3. StoredInv'
    BY <1>1 DEF SessionInv, StoredInv, SessionTypeOK
  <1>4. ASSUME ~torn' PROVE Whole'
    <2>1. Whole /\ ~(Unpersisted \/ Unwiped)
      BY <1>2, <1>4, NotTorn
    <2>2. UnlockInv'
      BY <1>1, <2>1 DEF UnlockInv, Arming, Unpersisted, SessionTypeOK
    <2>3. OpenInv'
      BY <1>1, <2>1 DEF Whole, OpenInv, Arming, Locking
    <2>4. RestoreInv'
      BY <1>1, <2>1 DEF Whole, RestoreInv, Uninstalled
    <2>5. LockInv'
      BY <1>1, <2>1 DEF Whole, LockInv, Unwiped, SessionTypeOK
    <2>6. LockedInv'
      BY <1>1, <2>1 DEF Whole, LockedInv, SessionTypeOK
    <2>7. QED
      BY <2>2, <2>3, <2>4, <2>5, <2>6 DEF Whole
  <1>5. QED
    BY <1>3, <1>4 DEF SessionInv

\* The countdown starts while nothing is locking.
LEMMA UnlockArmedKeeps ==
  ASSUME SessionTypeOK, SessionInv, NEW s \in Session, UnlockArmed(s)
  PROVE  SessionInv'
  <1>1. /\ unlock[s] = "arm" /\ unlock'[s] = "persist" /\ alarm'
        /\ \A t \in Session \ {s} : unlock'[t] = unlock[t]
        /\ UNCHANGED <<vaultState, stored, restore, lock, lockedOut>>
    BY DEF UnlockArmed, ArmAutoLock, SessionTypeOK
  <1>2. Tears(Locking)
    BY DEF UnlockArmed
  <1>3. StoredInv'
    BY <1>1 DEF SessionInv, StoredInv, SessionTypeOK
  <1>4. ASSUME ~torn' PROVE Whole'
    <2>1. Whole /\ ~Locking
      <3>1. Locking \in BOOLEAN
        BY DEF Locking
      <3>2. QED
        BY <1>2, <1>4, <3>1, NotTorn
    <2>2. UnlockInv'
      BY <1>1, <2>1 DEF Whole, UnlockInv, Arming, Locking, SessionTypeOK
    <2>3. OpenInv'
      BY <1>1, <2>1 DEF Whole, OpenInv, Arming, SessionTypeOK
    <2>4. RestoreInv'
      BY <1>1, <2>1 DEF Whole, RestoreInv, Uninstalled, Locking
    <2>5. LockInv'
      BY <1>1, <2>1 DEF Whole, LockInv, SessionTypeOK
    <2>6. LockedInv'
      BY <1>1, <2>1 DEF Whole, LockedInv, SessionTypeOK
    <2>7. QED
      BY <2>2, <2>3, <2>4, <2>5, <2>6 DEF Whole
  <1>5. QED
    BY <1>3, <1>4 DEF SessionInv

\* The stored session is the one in memory, whose countdown runs.
LEMMA UnlockPersistedKeeps ==
  ASSUME SessionTypeOK, SessionInv, NEW s \in Session, UnlockPersisted(s)
  PROVE  SessionInv'
  <1>1. /\ unlock[s] = "persist" /\ unlock'[s] = "done" /\ stored' = s
        /\ \A t \in Session \ {s} : unlock'[t] = unlock[t]
        /\ UNCHANGED <<vaultState, alarm, restore, lock, lockedOut, torn>>
    BY DEF UnlockPersisted, sessionGhosts, SessionTypeOK
  <1>2. StoredInv'
    BY <1>1 DEF StoredInv
  <1>3. ASSUME Whole PROVE Whole'
    <2>1. vaultState = s /\ alarm /\ ~Locking
      BY <1>1, <1>3 DEF Whole, UnlockInv, Arming
    <2>2. UnlockInv'
      BY <1>1, <1>3, <2>1 DEF Whole, UnlockInv, Arming, Locking, SessionTypeOK
    <2>3. OpenInv'
      BY <1>1, <2>1 DEF OpenInv
    <2>4. RestoreInv'
      BY <1>1, <1>3, <2>1, SessionAssumption DEF Whole, RestoreInv
    <2>5. LockInv'
      BY <1>1, <1>3, <2>1 DEF Whole, LockInv, Locking, SessionTypeOK
    <2>6. LockedInv'
      BY <1>1, <1>3 DEF Whole, LockedInv, SessionTypeOK
    <2>7. QED
      BY <2>2, <2>3, <2>4, <2>5, <2>6 DEF Whole
  <1>4. QED
    BY <1>1, <1>2, <1>3 DEF SessionInv

\* A use of the vault rearms the countdown while nothing is locking.
LEMMA MessageArmedKeeps ==
  ASSUME SessionTypeOK, SessionInv, NEW p \in Page, MessageArmed(p)
  PROVE  SessionInv'
  <1>1. alarm' /\ UNCHANGED <<vaultState, stored, unlock, restore, lock, lockedOut>>
    BY DEF MessageArmed, ArmAutoLock
  <1>2. Tears(Locking)
    BY DEF MessageArmed
  <1>3. ASSUME ~torn' PROVE Whole
    <2>1. Locking \in BOOLEAN
      BY DEF Locking
    <2>2. QED
      BY <1>2, <1>3, <2>1, NotTorn
  <1>4. ASSUME Whole PROVE Whole'
    BY <1>1, <1>4 DEF Whole, UnlockInv, OpenInv, RestoreInv, LockInv, LockedInv,
                      Locking, Uninstalled
  <1>5. QED
    BY <1>1, <1>3, <1>4 DEF SessionInv, StoredInv

\* A restore begins from storage, with no change announced.
LEMMA RestoreBeginsKeeps ==
  ASSUME SessionTypeOK, SessionInv, RestoreBegins, vaultState = NoSession,
         UNCHANGED <<vaultState, stored, alarm, unlock, lock, lockedOut>>
  PROVE  SessionInv'
  <1>1. restore'.session = stored /\ stored # NoSession
    BY DEF RestoreBegins
  <1>2. Tears(Unwiped \/ Uninstalled)
    BY DEF RestoreBegins
  <1>3. ASSUME ~torn' PROVE Whole'
    <2>1. Whole /\ ~(Unwiped \/ Uninstalled)
      BY <1>2, <1>3, NotTorn
    <2>2. ~Locking
      BY <1>1, <2>1 DEF Whole, LockInv, Locking, Unwiped, SessionTypeOK
    <2>3. RestoreInv'
      BY <1>1, <2>1, <2>2 DEF RestoreInv, Locking, Uninstalled
    <2>4. (UnlockInv /\ OpenInv /\ LockInv /\ LockedInv)'
      BY <2>1 DEF Whole, UnlockInv, OpenInv, LockInv, LockedInv, Locking
    <2>5. QED
      BY <2>3, <2>4 DEF Whole
  <1>4. QED
    BY <1>3 DEF SessionInv, StoredInv

LEMMA MessageLockedKeeps ==
  ASSUME SessionTypeOK, SessionInv, NEW p \in Page, MessageLocked(p)
  PROVE  SessionInv'
  <1>1. vaultState = NoSession /\ UNCHANGED <<vaultState, stored, alarm, unlock, lock, lockedOut>>
    BY DEF MessageLocked
  <1>2. CASE RestoreBegins
    BY <1>1, <1>2, RestoreBeginsKeeps
  <1>3. CASE UNCHANGED <<restore, torn>>
    BY <1>1, <1>3, SessionFrame DEF session
  <1>4. QED
    BY <1>2, <1>3 DEF MessageLocked

LEMMA RestoreFetchedKeeps ==
  ASSUME SessionTypeOK, SessionInv, RestoreFetched
  PROVE  SessionInv'
  <1>1. /\ restore.at = "fetch"
        /\ restore'.session = restore.session /\ restore'.current = restore.current
        /\ UNCHANGED <<vaultState, stored, alarm, unlock, lock, lockedOut, torn>>
    BY DEF RestoreFetched, SessionTypeOK, sessionGhosts
  <1>2. QED
    BY <1>1 DEF SessionInv, StoredInv, Whole, UnlockInv, OpenInv, RestoreInv,
                LockInv, LockedInv, Locking, Uninstalled

\* The stored session goes only while nothing but the restore needs it.
LEMMA RestoreFailedKeeps ==
  ASSUME SessionTypeOK, SessionInv, RestoreFailed
  PROVE  SessionInv'
  <1>1. /\ restore.at = "fetch" /\ restore'.at = "none"
        /\ stored' = IF restore.current THEN NoSession ELSE stored
        /\ UNCHANGED <<vaultState, alarm, unlock, lock, lockedOut, torn>>
    BY NoRestoreType DEF RestoreFailed, sessionGhosts
  <1>2. StoredInv'
    BY <1>1 DEF SessionInv, StoredInv
  <1>3. ASSUME Whole PROVE Whole'
    <2>1. UnlockInv' /\ RestoreInv'
      BY <1>1, <1>3 DEF Whole, UnlockInv, RestoreInv, Locking
    <2>2. OpenInv'
      BY <1>1, <1>3 DEF Whole, OpenInv, RestoreInv, Locking
    <2>3. LockInv'
      BY <1>1, <1>3 DEF Whole, LockInv
    <2>4. LockedInv'
      <3>1. lockedOut \subseteq Session
        BY DEF SessionTypeOK
      <3>2. QED
        BY <1>1, <1>3, <3>1, SessionAssumption DEF Whole, LockedInv
    <2>5. QED
      BY <2>1, <2>2, <2>3, <2>4 DEF Whole
  <1>4. QED
    BY <1>1, <1>2, <1>3 DEF SessionInv

\* A current restore installs what storage still holds.
LEMMA RestoreInstalledKeeps ==
  ASSUME SessionTypeOK, SessionInv, RestoreInstalled
  PROVE  SessionInv'
  <1>1. /\ restore.at = "revise" /\ restore'.at = "none"
        /\ vaultState' = IF restore.current /\ vaultState = NoSession
                         THEN restore.session ELSE vaultState
        /\ UNCHANGED <<stored, alarm, unlock, lock, lockedOut, torn>>
    BY NoRestoreType DEF RestoreInstalled, sessionGhosts
  <1>2. ASSUME Whole, vaultState' # vaultState
        PROVE  vaultState = NoSession /\ vaultState' = stored /\ ~Locking
    BY <1>1, <1>2 DEF Whole, RestoreInv
  <1>3. ASSUME Whole PROVE Whole'
    <2>1. UnlockInv'
      BY <1>1, <1>2, <1>3, SessionAssumption DEF Whole, UnlockInv, Locking
    <2>2. OpenInv'
      BY <1>1, <1>2, <1>3 DEF Whole, OpenInv, Locking
    <2>3. RestoreInv'
      BY <1>1 DEF RestoreInv
    <2>4. LockInv'
      BY <1>1, <1>2, <1>3 DEF Whole, LockInv, Locking
    <2>5. LockedInv'
      BY <1>1, <1>2, <1>3 DEF Whole, LockedInv
    <2>6. QED
      BY <2>1, <2>2, <2>3, <2>4, <2>5 DEF Whole
  <1>4. QED
    BY <1>1, <1>3 DEF SessionInv, StoredInv

\* lockVault finds memory and storage in agreement, or memory empty.
LEMMA LockVaultKeeps ==
  ASSUME SessionTypeOK, SessionInv, NEW l \in Locker, LockVault(l),
         UNCHANGED <<unlock, lockedOut>>
  PROVE  SessionInv'
  <1>1. /\ lock'[l].at \in {"clear", "wipe"}
        /\ lock'[l].at = IF vaultState # NoSession THEN "clear" ELSE "wipe"
        /\ lock'[l].open = {vaultState, stored} \ {NoSession}
        /\ \A m \in Locker \ {l} : lock'[m] = lock[m]
        /\ vaultState' = NoSession
        /\ stored' = IF vaultState # NoSession THEN NoSession ELSE stored
    BY LockVaultType
  <1>2. Locking'
    BY <1>1 DEF Locking
  <1>3. restore'.current = FALSE
    BY RestoreType DEF LockVault
  <1>4. StoredInv'
    BY <1>1 DEF SessionInv, StoredInv
  <1>5. ASSUME ~torn' PROVE Whole'
    <2>1. Whole /\ ~Unpersisted
      <3>1. Tears(Unpersisted)
        BY DEF LockVault
      <3>2. Unpersisted \in BOOLEAN
        BY DEF Unpersisted
      <3>3. QED
        BY <1>5, <3>1, <3>2, NotTorn
    <2>2. UnlockInv'
      BY <2>1 DEF UnlockInv, Unpersisted, Arming
    <2>3. OpenInv'
      BY <1>1, <1>2 DEF OpenInv
    <2>4. RestoreInv'
      BY <1>3 DEF RestoreInv
    <2>5. LockInv'
      <3>1. vaultState # NoSession => stored = vaultState
        BY <2>1 DEF Whole, OpenInv, Unpersisted, Arming, SessionTypeOK
      <3>2. \A s \in lock'[l].open : unlock[s] = "done" /\ s # NoSession
        BY <1>1, <3>1 DEF SessionInv, StoredInv
      <3>3. ASSUME NEW m \in Locker \ {l}
            PROVE  /\ lock'[m].at = "wipe" => vaultState' = NoSession
                   /\ lock'[m].at = "clear" => stored' = NoSession
                   /\ \A s \in lock'[m].open :
                         /\ lock'[m].at # "none" => unlock'[s] = "done"
                         /\ lock'[m].at = "clear" => vaultState' # s
        <4>1. \A s \in lock[m].open : s # NoSession
          BY SessionAssumption DEF SessionTypeOK
        <4>2. QED
          BY <1>1, <2>1, <4>1 DEF Whole, LockInv
      <3>4. QED
        BY <1>1, <3>2, <3>3 DEF LockInv
    <2>6. LockedInv'
      <3>1. \A s \in lockedOut : s # NoSession
        BY SessionAssumption DEF SessionTypeOK
      <3>2. QED
        BY <1>1, <2>1, <3>1 DEF Whole, LockedInv
    <2>7. QED
      BY <2>2, <2>3, <2>4, <2>5, <2>6 DEF Whole
  <1>6. QED
    BY <1>4, <1>5 DEF SessionInv

LEMMA LockWipesKeeps ==
  ASSUME SessionTypeOK, SessionInv, NEW l \in Locker, LockWipes(l)
  PROVE  SessionInv'
  <1>1. /\ lock[l].at = "wipe" /\ lock'[l].at = "clear" /\ lock'[l].open = lock[l].open
        /\ \A m \in Locker \ {l} : lock'[m] = lock[m]
        /\ vaultState' = NoSession /\ stored' = NoSession
        /\ UNCHANGED <<alarm, unlock, restore, lockedOut, torn>>
    BY DEF LockWipes, SessionTypeOK, sessionGhosts
  <1>2. /\ \A m \in Locker : \A s \in lock[m].open : s # NoSession
        /\ \A s \in lockedOut : s # NoSession
    BY SessionAssumption DEF SessionTypeOK
  <1>3. ASSUME Whole PROVE Whole'
    <2>1. Locking /\ Locking'
      BY <1>1 DEF Locking
    <2>2. UnlockInv'
      BY <1>1, <1>3, <2>1 DEF Whole, UnlockInv, LockInv, Arming
    <2>3. OpenInv'
      BY <1>1 DEF OpenInv
    <2>4. RestoreInv'
      BY <1>1, <1>3, <2>1 DEF Whole, RestoreInv
    <2>5. LockInv'
      BY <1>1, <1>2, <1>3 DEF Whole, LockInv
    <2>6. LockedInv'
      BY <1>1, <1>2, <1>3 DEF Whole, LockedInv
    <2>7. QED
      BY <2>2, <2>3, <2>4, <2>5, <2>6 DEF Whole
  <1>4. QED
    BY <1>1, <1>3 DEF SessionInv, StoredInv

\* The last stretch of a lock: what it found open is out for good.
LEMMA LockClearsKeeps ==
  ASSUME SessionTypeOK, SessionInv, NEW l \in Locker, LockClears(l)
  PROVE  SessionInv'
  <1>1. /\ lock[l].at = "clear" /\ lock'[l].at = "none"
        /\ \A m \in Locker \ {l} : lock'[m] = lock[m]
        /\ lockedOut' = lockedOut \cup lock[l].open
        /\ UNCHANGED <<vaultState, stored, unlock, restore, torn>>
    BY RestType DEF LockClears, SessionTypeOK
  <1>2. \A s \in lock[l].open : s # NoSession
    BY SessionAssumption DEF SessionTypeOK
  <1>3. ASSUME Whole PROVE Whole'
    <2>1. Locking /\ stored = NoSession
      BY <1>1, <1>3 DEF Locking, Whole, LockInv
    <2>2. UnlockInv'
      BY <1>1, <1>3, <2>1 DEF Whole, UnlockInv
    <2>3. OpenInv'
      BY <1>1, <1>3, <2>1 DEF Whole, OpenInv
    <2>4. RestoreInv'
      BY <1>1, <1>3, <2>1 DEF Whole, RestoreInv
    <2>5. LockInv'
      BY <1>1, <1>3 DEF Whole, LockInv
    <2>6. LockedInv'
      BY <1>1, <1>2, <1>3, <2>1 DEF Whole, LockedInv, LockInv
    <2>7. QED
      BY <2>2, <2>3, <2>4, <2>5, <2>6 DEF Whole
  <1>4. QED
    BY <1>1, <1>3 DEF SessionInv, StoredInv

\* A stopped worker leaves storage and the alarm as they were.
LEMMA RestartKeeps ==
  ASSUME SessionTypeOK, SessionInv, Restart
  PROVE  SessionInv'
  <1>1. /\ \A s \in Session : /\ unlock'[s] \notin {"revise", "arm", "persist"}
                              /\ unlock[s] = "done" => unlock'[s] = "done"
        /\ \A l \in Locker : lock'[l].at = "none"
        /\ restore'.at = "none" /\ vaultState' = NoSession
        /\ UNCHANGED <<stored, alarm, lockedOut>>
    BY RestType, NoRestoreType DEF Restart, SessionTypeOK, UnlockAt
  <1>2. \A s \in lockedOut : s \in Session /\ s # NoSession
    BY SessionAssumption DEF SessionTypeOK
  <1>3. StoredInv'
    BY <1>1 DEF SessionInv, StoredInv, SessionTypeOK
  <1>4. ASSUME ~torn' PROVE Whole'
    <2>1. Whole /\ ~Unwiped
      <3>1. Tears(Unwiped)
        BY DEF Restart
      <3>2. Unwiped \in BOOLEAN
        BY DEF Unwiped
      <3>3. QED
        BY <1>4, <3>1, <3>2, NotTorn
    <2>2. UnlockInv'
      BY <1>1 DEF UnlockInv, Arming
    <2>3. OpenInv'
      <3>1. stored # NoSession => ~Locking
        BY <2>1 DEF Whole, LockInv, Locking, Unwiped, SessionTypeOK
      <3>2. QED
        BY <1>1, <2>1, <3>1 DEF Whole, OpenInv
    <2>4. RestoreInv' /\ LockInv'
      BY <1>1 DEF RestoreInv, LockInv
    <2>5. LockedInv'
      BY <1>1, <1>2, <2>1 DEF Whole, LockedInv
    <2>6. QED
      BY <2>2, <2>3, <2>4, <2>5 DEF Whole
  <1>5. QED
    BY <1>3, <1>4 DEF SessionInv

LEMMA SessionStep ==
  ASSUME SessionTypeOK, SessionInv, [SessionNext]_sessionVars
  PROVE  SessionInv'
  <1>1. CASE UNCHANGED sessionVars
    BY <1>1, SessionFrame DEF sessionVars, session
  <1>2. ASSUME NEW s \in Session, Revoke(s)
        PROVE  SessionInv'
    BY <1>2, SessionFrame DEF Revoke, session, sessionGhosts
  <1>3. ASSUME NEW p \in Page, MessageUnlocked(p) \/ MessageRestored(p)
        PROVE  SessionInv'
    BY <1>3, SessionFrame DEF MessageUnlocked, MessageRestored, session, sessionGhosts
  <1>4. ASSUME NEW l \in Locker, LockBegins(l) \/ AlarmFires(l)
        PROVE  SessionInv'
    BY <1>4, LockVaultKeeps DEF LockBegins, AlarmFires
  <1>5. QED
    BY <1>1, <1>2, <1>3, <1>4, UnlockKeeps, UnlockFetchedKeeps, UnlockInstalledKeeps,
       UnlockArmedKeeps, UnlockPersistedKeeps, MessageLockedKeeps, MessageArmedKeeps,
       RestoreFetchedKeeps, RestoreFailedKeeps, RestoreInstalledKeeps,
       LockWipesKeeps, LockClearsKeeps, RestartKeeps DEF SessionNext

LEMMA SessionHolds == SessionSpec => [](SessionTypeOK /\ SessionInv)
  <1>1. SessionInit => SessionTypeOK /\ SessionInv
    BY SessionInitType, InitSession
  <1>2. SessionTypeOK /\ SessionInv /\ [SessionNext]_sessionVars => (SessionTypeOK /\ SessionInv)'
    BY SessionTypeStep, SessionStep
  <1>3. QED
    BY <1>1, <1>2, PTL DEF SessionSpec

-----------------------------------------------------------------------------
\* lockVault is final: for any number of sessions, concurrent locks, pages and
\* restarts, a session that a finished lock found open is back in neither
\* memory nor storage, unless two handlers overlapped in one of the windows.
THEOREM LocksHold == SessionSpec => []LockHolds
  <1>1. SessionInv => LockHolds
    BY DEF SessionInv, Whole, LockedInv, LockHolds
  <1>2. QED
    BY <1>1, SessionHolds, PTL

\* A worker at rest can be stopped without losing or mixing up the session, and
\* an open session, in memory or in storage, always has its countdown running.
THEOREM RestartIsSafe == SessionSpec => []RestartKeepsSession
  <1>1. SessionTypeOK /\ SessionInv => RestartKeepsSession
    <2> SUFFICES ASSUME SessionTypeOK, SessionInv, ~torn, Quiet
                 PROVE  /\ vaultState # NoSession => stored = vaultState
                        /\ vaultState # NoSession \/ stored # NoSession => alarm
      BY DEF RestartKeepsSession
    <2>1. ~Locking
      BY RestType DEF Quiet, Locking
    <2>2. vaultState # NoSession => unlock[vaultState] \notin Arming
      BY DEF Quiet, Arming, SessionTypeOK
    <2>3. QED
      BY <2>1, <2>2 DEF SessionInv, Whole, OpenInv
  <1>2. QED
    BY <1>1, SessionHolds, PTL

-----------------------------------------------------------------------------
(* Type correctness.                                                       *)

Popup == [screen : {"closed", "loading", "locked", "unlocked"},
          asked : Query, seq : 0..MaxSearches, shown : Query \cup {None},
          pending : (Item \X Origin) \cup {None}]

Open == {"locked", "unlocked"}

\* A popup that is not open waits for nothing; a fill that was resolved has a
\* target.
ShapeInv ==
    /\ \A x \in flights : x.at # "asked" => x.target \in Target
    /\ popup.screen \notin Open => searches = {} /\ \A x \in flights : ~x.heard

TypeInv == FillTypeOK /\ ShapeInv

LEMMA ClosedType ==
  /\ Closed \in Popup /\ Closed.screen = "closed" /\ Closed.pending = None
  /\ Closed.shown = None
  <1>1. 0 \in 0..MaxSearches
    BY FillAssumption
  <1>2. QED
    BY <1>1, QueryAssumption, Zenon DEF Closed, Popup

LEMMA FillInitType == FillInit => TypeInv
  <1> SUFFICES ASSUME FillInit PROVE TypeInv
    OBVIOUS
  <1>1. popup \in Popup /\ popup.pending = None /\ popup.shown = None
    BY ClosedType DEF FillInit
  <1>2. frame \in [Frame -> [doc : {1}, origin : Origin, visible : BOOLEAN]]
    <2>1. PICK top \in Origin : frame = [f \in Frame |-> [doc |-> 1, origin |-> top,
                                                          visible |-> TRUE]]
      BY DEF FillInit
    <2>2. [doc |-> 1, origin |-> top, visible |-> TRUE]
             \in [doc : {1}, origin : Origin, visible : BOOLEAN]
      BY Zenon
    <2>3. QED
      BY <2>1, <2>2
  <1>3. 1 \in 1..MaxDocs /\ 0 \in 0..MaxFills
    BY FillAssumption
  <1>4. QED
    BY <1>1, <1>2, <1>3 DEF FillInit, TypeInv, FillTypeOK, ShapeInv, Popup

\* What refreshSearch does.
LEMMA SearchesDo ==
  ASSUME TypeInv, NEW query \in Query, Searches(query)
  PROVE  /\ popup' \in Popup /\ popup'.screen = "unlocked" /\ popup'.asked = query
         /\ popup'.seq = popup.seq + 1 /\ popup'.shown = popup.shown
         /\ popup'.pending = popup.pending
         /\ searches' = searches \cup {[seq |-> popup.seq + 1, query |-> query]}
         /\ searches' \subseteq [seq : 1..MaxSearches, query : Query]
  <1>1. popup \in Popup /\ searches \subseteq [seq : 1..MaxSearches, query : Query]
    BY DEF TypeInv, FillTypeOK, Popup
  <1>2. popup.seq + 1 \in 1..MaxSearches /\ popup.seq + 1 \in 0..MaxSearches
    BY <1>1, FillAssumption DEF Searches, Popup
  <1>3. [seq |-> popup.seq + 1, query |-> query] \in [seq : 1..MaxSearches, query : Query]
    BY <1>2
  <1>4. popup' = [popup EXCEPT !.screen = "unlocked", !.asked = query, !.seq = popup.seq + 1]
    BY DEF Searches
  <1>5. QED
    BY <1>1, <1>2, <1>3, <1>4 DEF Searches, Popup

\* Steps of the popup alone.
LEMMA PopupType ==
  ASSUME TypeInv, popup' \in Popup, popup'.screen \in Open,
         searches' \subseteq [seq : 1..MaxSearches, query : Query],
         unlocked' \in BOOLEAN, UNCHANGED <<docs, frame, recorded, flights, fillGhosts>>
  PROVE  TypeInv'
  BY DEF TypeInv, FillTypeOK, ShapeInv, Popup, Open, fillGhosts

LEMMA ShowVaultType ==
  ASSUME TypeInv, ShowVault
  PROVE  TypeInv'
  <1>1. PICK query \in Query : Searches(query)
    BY QueryAssumption, Zenon DEF ShowVault
  <1>2. popup' \in Popup /\ popup'.screen \in Open
        /\ searches' \subseteq [seq : 1..MaxSearches, query : Query]
    BY <1>1, SearchesDo DEF Open
  <1>3. unlocked' \in BOOLEAN /\ UNCHANGED <<docs, frame, recorded, flights, fillGhosts>>
    BY Zenon DEF ShowVault
  <1>4. QED
    BY <1>2, <1>3, PopupType

LEMMA HandleSearchType ==
  ASSUME TypeInv, NEW query \in Query, HandleSearch(query)
  PROVE  TypeInv'
  <1>1. popup' \in Popup /\ popup'.screen \in Open
        /\ searches' \subseteq [seq : 1..MaxSearches, query : Query]
    BY SearchesDo DEF Open, HandleSearch
  <1>2. unlocked' \in BOOLEAN /\ UNCHANGED <<docs, frame, recorded, flights, fillGhosts>>
    BY DEF HandleSearch, TypeInv, FillTypeOK
  <1>3. QED
    BY <1>1, <1>2, PopupType

\* A frame is either of the new document or as it was.
LEMMA NavigateType ==
  ASSUME TypeInv, NEW f \in Frame, Navigate(f)
  PROVE  TypeInv'
  <1> DEFINE Shown == [doc : 1..MaxDocs, origin : Origin, visible : BOOLEAN]
  <1>1. docs + 1 \in 1..MaxDocs /\ docs' = docs + 1
    BY FillAssumption DEF Navigate, TypeInv, FillTypeOK
  <1>2. PICK o \in Origin, visible \in BOOLEAN :
           frame' = [g \in Frame |-> IF g = f \/ f = 0
                      THEN [doc |-> docs + 1, origin |-> o, visible |-> visible]
                      ELSE frame[g]]
    BY DEF Navigate
  <1>3. [doc |-> docs + 1, origin |-> o, visible |-> visible] \in Shown
    BY <1>1, Zenon
  <1>4. frame \in [Frame -> Shown]
    BY DEF TypeInv, FillTypeOK
  <1> HIDE DEF Shown
  <1>5. frame' \in [Frame -> Shown]
    BY <1>2, <1>3, <1>4
  <1> USE DEF Shown
  <1>6. UNCHANGED <<recorded, unlocked, popup, searches, flights, fills, agreed, filled>>
    BY DEF Navigate, fillGhosts
  <1>7. QED
    BY <1>1, <1>5, <1>6 DEF TypeInv, FillTypeOK, ShapeInv

LEMMA SenderType ==
  ASSUME TypeInv, NEW f \in Frame
  PROVE  SenderFrame(f) \in Target
  <1>1. frame[f].doc \in 0..MaxDocs /\ frame[f].origin \in Origin
    BY FillAssumption DEF TypeInv, FillTypeOK
  <1>2. QED
    BY <1>1 DEF SenderFrame, Target

LEMMA ReportType ==
  ASSUME TypeInv, NEW f \in Frame, ReportFillTarget(f)
  PROVE  TypeInv'
  BY SenderType DEF ReportFillTarget, TypeInv, FillTypeOK, ShapeInv, fillGhosts

LEMMA OpenPopupType ==
  ASSUME TypeInv, OpenPopup
  PROVE  TypeInv'
  <1>1. popup' \in Popup /\ popup'.screen = "loading" /\ popup'.pending = None
        /\ popup'.shown = None
    BY ClosedType DEF OpenPopup, Popup
  <1>2. searches = {} /\ \A x \in flights : ~x.heard
    BY DEF OpenPopup, TypeInv, ShapeInv, Open
  <1>3. QED
    BY <1>1, <1>2 DEF OpenPopup, TypeInv, FillTypeOK, ShapeInv, Popup, fillGhosts

LEMMA ShowUnlockFormType ==
  ASSUME TypeInv, ShowUnlockForm
  PROVE  TypeInv'
  <1>1. popup' \in Popup /\ popup'.screen \in Open
    BY DEF ShowUnlockForm, TypeInv, FillTypeOK, Popup, Open
  <1>2. QED
    BY <1>1, PopupType DEF ShowUnlockForm, TypeInv, FillTypeOK

LEMMA LockAnsweredType ==
  ASSUME TypeInv, LockAnswered
  PROVE  TypeInv'
  <1>1. popup' \in Popup /\ popup'.screen \in Open
    BY DEF LockAnswered, TypeInv, FillTypeOK, Popup, Open
  <1>2. QED
    BY <1>1, PopupType DEF LockAnswered, TypeInv, FillTypeOK

LEMMA SearchAnsweredType ==
  ASSUME TypeInv, NEW s \in searches, SearchAnswered(s)
  PROVE  TypeInv'
  <1>1. s.query \in Query /\ popup.screen \in Open
    BY DEF TypeInv, FillTypeOK, ShapeInv
  <1>2. popup' \in Popup /\ popup'.screen \in Open
    BY <1>1 DEF SearchAnswered, TypeInv, FillTypeOK, Popup
  <1>3. searches' \subseteq [seq : 1..MaxSearches, query : Query]
    BY DEF SearchAnswered, TypeInv, FillTypeOK
  <1>4. QED
    BY <1>2, <1>3, PopupType DEF SearchAnswered, TypeInv, FillTypeOK

LEMMA QuietType ==
  ASSUME TypeInv,
         \/ \E s \in searches : SearchLost(s)
         \/ LockWorker
  PROVE  TypeInv'
  BY DEF SearchLost, LockWorker, TypeInv, FillTypeOK, ShapeInv, fillGhosts

LEMMA CancelFillType ==
  ASSUME TypeInv, CancelFill
  PROVE  TypeInv'
  <1>1. popup' \in Popup /\ popup'.screen = popup.screen
    BY DEF CancelFill, TypeInv, FillTypeOK, Popup
  <1>2. popup.screen \in Open
    BY DEF CancelFill, TypeInv, FillTypeOK, Open
  <1>3. QED
    BY <1>1, <1>2, PopupType DEF CancelFill, TypeInv, FillTypeOK

-----------------------------------------------------------------------------
(* Fills in flight.                                                        *)

\* A fill whose popup is gone is otherwise the same.
LEMMA UnheardType ==
  ASSUME NEW x \in Flight
  PROVE  LET y == [x EXCEPT !.heard = FALSE]
         IN  /\ y \in Flight /\ ~y.heard /\ y.at = x.at /\ y.target = x.target
             /\ y.item = x.item /\ y.confirmed = x.confirmed
  BY DEF Flight

LEMMA AskedType ==
  ASSUME NEW n \in 1..MaxFills, NEW i \in Item, NEW c \in Origin \cup {None}
  PROVE  LET x == [id |-> n, item |-> i, confirmed |-> c, at |-> "asked",
                   target |-> None, answer |-> None, heard |-> TRUE]
         IN  x \in Flight /\ x.at = "asked" /\ x.item = i /\ x.confirmed = c
  <1> DEFINE x == [id |-> n, item |-> i, confirmed |-> c, at |-> "asked",
                   target |-> None, answer |-> None, heard |-> TRUE]
  <1>1. x \in Flight
    BY Zenon DEF Flight
  <1>2. x.at = "asked" /\ x.item = i /\ x.confirmed = c
    OBVIOUS
  <1>3. QED
    BY <1>1, <1>2

\* A fill whose popup is gone: all the fills in flight become these.
LEMMA ClosesType ==
  ASSUME TypeInv, NEW S \in SUBSET flights, Closes,
         flights' = {[x EXCEPT !.heard = FALSE] : x \in S},
         UNCHANGED <<docs, frame, recorded, unlocked, fillGhosts>>
  PROVE  TypeInv'
  <1>1. S \subseteq Flight
    BY DEF TypeInv, FillTypeOK
  <1>2. ASSUME NEW y \in flights'
        PROVE  /\ y \in Flight /\ ~y.heard
               /\ \E x \in flights : y.at = x.at /\ y.target = x.target
    <2>1. PICK x \in S : y = [x EXCEPT !.heard = FALSE]
      OBVIOUS
    <2>2. x \in Flight /\ x \in flights
      BY <1>1
    <2>3. y \in Flight /\ ~y.heard /\ y.at = x.at /\ y.target = x.target
      BY <2>1, <2>2, UnheardType
    <2>4. QED
      BY <2>2, <2>3
  <1>3. \A y \in flights' : y.at # "asked" => y.target \in Target
    BY <1>2 DEF TypeInv, ShapeInv
  <1>4. /\ popup' \in Popup /\ popup'.pending = None /\ popup'.shown = None
        /\ searches' = {}
    BY ClosedType DEF Closes
  <1>5. QED
    BY <1>2, <1>3, <1>4 DEF TypeInv, FillTypeOK, ShapeInv, Popup, fillGhosts

\* A new fill is asked for from an open popup.
LEMMA AsksDo ==
  ASSUME TypeInv, NEW i \in Item, NEW c \in Origin \cup {None}, Asks(i, c)
  PROVE  \E x \in Flight :
           /\ x.at = "asked" /\ x.item = i /\ x.confirmed = c
           /\ flights' = flights \cup {x}
           /\ fills' \in 0..MaxFills
           /\ popup' \in Popup /\ popup'.screen \in Open /\ popup'.shown = popup.shown
           /\ UNCHANGED <<docs, frame, recorded, unlocked, searches, filled>>
  <1> DEFINE x == [id |-> fills + 1, item |-> i, confirmed |-> c, at |-> "asked",
                   target |-> None, answer |-> None, heard |-> TRUE]
  <1>1. fills + 1 \in 1..MaxFills /\ fills + 1 \in 0..MaxFills
    BY FillAssumption DEF Asks, TypeInv, FillTypeOK
  <1>2. x \in Flight /\ x.at = "asked" /\ x.item = i /\ x.confirmed = c
    BY <1>1, AskedType
  <1>3. /\ flights' = flights \cup {x} /\ fills' = fills + 1
        /\ UNCHANGED <<docs, frame, recorded, unlocked, searches, filled>>
    BY DEF Asks
  <1>4. popup' \in Popup /\ popup'.screen \in Open /\ popup'.shown = popup.shown
    BY DEF Asks, TypeInv, FillTypeOK, Popup, Open
  <1> HIDE DEF x
  <1>5. QED
    BY <1>1, <1>2, <1>3, <1>4

LEMMA AsksType ==
  ASSUME TypeInv, NEW i \in Item, NEW c \in Origin \cup {None}, Asks(i, c),
         agreed' \subseteq Item \X Origin
  PROVE  TypeInv'
  <1>1. PICK x \in Flight :
           /\ x.at = "asked" /\ flights' = flights \cup {x} /\ fills' \in 0..MaxFills
           /\ popup' \in Popup /\ popup'.screen \in Open
           /\ UNCHANGED <<docs, frame, recorded, unlocked, searches, filled>>
    BY AsksDo
  <1>2. flights' \subseteq Flight /\ ShapeInv'
    BY <1>1 DEF TypeInv, FillTypeOK, ShapeInv
  <1>3. QED
    BY <1>1, <1>2 DEF TypeInv, FillTypeOK, Popup, Open

\* The user agrees to what the banner names.
LEMMA AgreesTo ==
  ASSUME TypeInv, FillAnyway
  PROVE  \E i \in Item, o \in Origin :
           popup.pending = <<i, o>> /\ Asks(i, o) /\ agreed' = agreed \cup {<<i, o>>}
  <1>1. popup.pending \in Item \X Origin
    BY DEF FillAnyway, TypeInv, FillTypeOK
  <1>2. PICK i \in Item, o \in Origin : popup.pending = <<i, o>>
    BY <1>1
  <1>3. popup.pending[1] = i /\ popup.pending[2] = o
    BY <1>2
  <1>4. QED
    BY <1>2, <1>3 DEF FillAnyway

LEMMA FillAnywayType ==
  ASSUME TypeInv, FillAnyway
  PROVE  TypeInv'
  <1>1. PICK i \in Item, o \in Origin : Asks(i, o) /\ agreed' = agreed \cup {<<i, o>>}
    BY AgreesTo
  <1>2. agreed' \subseteq Item \X Origin
    BY <1>1 DEF TypeInv, FillTypeOK
  <1>3. QED
    BY <1>1, <1>2, AsksType

\* A fill in flight is replaced by its next state.
LEMMA FlightStep ==
  ASSUME TypeInv, NEW x \in flights, NEW y \in Flight, Becomes(x, y),
         y.target \in Target, y.heard = x.heard, recorded' \in Target \cup {None},
         filled' \subseteq [item : Item, frame : Frame, origin : Origin],
         UNCHANGED <<docs, frame, unlocked, popup, searches, fills, agreed>>
  PROVE  TypeInv'
  <1>1. flights' \subseteq Flight
    BY DEF Becomes, TypeInv, FillTypeOK
  <1>2. ShapeInv'
    BY DEF Becomes, TypeInv, ShapeInv
  <1>3. QED
    BY <1>1, <1>2 DEF TypeInv, FillTypeOK

LEMMA ResolvedTarget ==
  ASSUME TypeInv
  PROVE  ResolveFillTarget \in Target
  <1>1. frame[0].origin \in Origin /\ 0 \in 0..MaxDocs /\ 0 \in Frame
    BY FillAssumption DEF TypeInv, FillTypeOK, Frame
  <1>2. [frame |-> 0, doc |-> 0, origin |-> frame[0].origin] \in Target
    BY <1>1 DEF Target
  <1>3. QED
    BY <1>2 DEF ResolveFillTarget, TypeInv, FillTypeOK

\* What the worker's decision leaves.
LEMMA FillResolvedDoes ==
  ASSUME TypeInv, NEW x \in flights, FillResolved(x)
  PROVE  \E y \in Flight :
           /\ Becomes(x, y) /\ y.target \in Target /\ y.heard = x.heard
           /\ y.item = x.item /\ y.confirmed = x.confirmed
           /\ y.at = "sent" => \/ UrlMatches(y.item, y.target.origin)
                               \/ ConfirmedFor(y, y.target)
           /\ UNCHANGED <<docs, frame, recorded, unlocked, popup, searches, fillGhosts>>
  <1> DEFINE target == ResolveFillTarget
             answer == IF ~unlocked THEN "error"
                       ELSE IF UrlMatches(x.item, target.origin)
                               \/ ConfirmedFor(x, target) THEN None
                       ELSE IF Confirmable(target) THEN "confirmable"
                       ELSE "error"
             at == IF answer = None THEN "sent" ELSE "answered"
             y == [x EXCEPT !.target = target, !.answer = answer, !.at = at]
  <1>1. Becomes(x, y) /\ UNCHANGED <<docs, frame, recorded, unlocked, popup, searches, fillGhosts>>
    BY DEF FillResolved
  <1>2. target \in Target /\ x \in Flight
    BY ResolvedTarget DEF TypeInv, FillTypeOK
  <1>3. answer \in {None, "error", "confirmable"} /\ at \in {"sent", "answered"}
    OBVIOUS
  <1>4. answer \notin {"error", "confirmable"} =>
           UrlMatches(x.item, target.origin) \/ ConfirmedFor(x, target)
    OBVIOUS
  <1> HIDE DEF target, answer, at
  <1>5. /\ y \in Flight /\ y.target = target /\ y.heard = x.heard /\ y.at = at
        /\ y.item = x.item /\ y.confirmed = x.confirmed
    BY <1>2, <1>3 DEF Flight
  <1>6. y.at = "sent" => UrlMatches(x.item, target.origin) \/ ConfirmedFor(x, target)
    BY <1>3, <1>4, <1>5, FillAssumption DEF at
  <1>7. ConfirmedFor(x, target) => ConfirmedFor(y, y.target)
    BY <1>5 DEF ConfirmedFor
  <1> HIDE DEF y
  <1>8. QED
    BY <1>1, <1>2, <1>5, <1>6, <1>7

LEMMA FillResolvedType ==
  ASSUME TypeInv, NEW x \in flights, FillResolved(x)
  PROVE  TypeInv'
  <1>1. PICK y \in Flight :
           /\ Becomes(x, y) /\ y.target \in Target /\ y.heard = x.heard
           /\ UNCHANGED <<docs, frame, recorded, unlocked, popup, searches, fillGhosts>>
    BY FillResolvedDoes
  <1>2. recorded' \in Target \cup {None}
        /\ filled' \subseteq [item : Item, frame : Frame, origin : Origin]
    BY <1>1 DEF TypeInv, FillTypeOK, fillGhosts
  <1>3. QED
    BY <1>1, <1>2, FlightStep DEF fillGhosts

\* A sent fill has been answered.
LEMMA AnsweredFlight ==
  ASSUME TypeInv, NEW x \in flights, x.at = "sent", NEW answer \in {"ok", "error"}
  PROVE  LET y == [x EXCEPT !.at = "answered", !.answer = answer]
         IN  /\ y \in Flight /\ y.target \in Target /\ y.target = x.target
             /\ y.heard = x.heard /\ y.at = "answered" /\ y.item = x.item
             /\ y.confirmed = x.confirmed
  <1>1. x \in Flight /\ x.target \in Target
    BY DEF TypeInv, FillTypeOK, ShapeInv
  <1>2. QED
    BY <1>1 DEF Flight

LEMMA FillDeliveredDoes ==
  ASSUME TypeInv, NEW x \in flights, FillDelivered(x)
  PROVE  /\ x.at = "sent" /\ x.target \in Target /\ x.item \in Item
         /\ frame[x.target.frame].origin = x.target.origin
         /\ filled' = filled \cup {[item |-> x.item, frame |-> x.target.frame,
                                    origin |-> x.target.origin]}
         /\ \E y \in Flight :
              /\ Becomes(x, y) /\ y.target \in Target /\ y.heard = x.heard
              /\ y.at = "answered" /\ y.confirmed = x.confirmed /\ y.item = x.item
         /\ UNCHANGED <<docs, frame, recorded, unlocked, popup, searches, fills, agreed>>
  <1>1. x.at = "sent" /\ x.target \in Target /\ x.item \in Item
    BY DEF FillDelivered, TypeInv, FillTypeOK, ShapeInv, Flight
  <1>2. frame[x.target.frame].origin = x.target.origin
    BY DEF FillDelivered, Receives, SameOrigin
  <1>3. Becomes(x, [x EXCEPT !.at = "answered", !.answer = "ok"])
    BY DEF FillDelivered
  <1>4. \E y \in Flight :
              /\ Becomes(x, y) /\ y.target \in Target /\ y.heard = x.heard
              /\ y.at = "answered" /\ y.confirmed = x.confirmed /\ y.item = x.item
    BY <1>1, <1>3, AnsweredFlight
  <1>5. QED
    BY <1>1, <1>2, <1>4 DEF FillDelivered

LEMMA FillDeliveredType ==
  ASSUME TypeInv, NEW x \in flights, FillDelivered(x)
  PROVE  TypeInv'
  <1>1. PICK y \in Flight : Becomes(x, y) /\ y.target \in Target /\ y.heard = x.heard
    BY FillDeliveredDoes
  <1>2. [item |-> x.item, frame |-> x.target.frame, origin |-> x.target.origin]
           \in [item : Item, frame : Frame, origin : Origin]
    BY FillDeliveredDoes DEF Target
  <1>3. filled' \subseteq [item : Item, frame : Frame, origin : Origin]
    BY <1>2, FillDeliveredDoes DEF TypeInv, FillTypeOK
  <1>4. /\ recorded' \in Target \cup {None}
        /\ UNCHANGED <<docs, frame, unlocked, popup, searches, fills, agreed>>
    BY FillDeliveredDoes DEF TypeInv, FillTypeOK
  <1>5. QED
    BY <1>1, <1>3, <1>4, FlightStep

LEMMA FillMissedType ==
  ASSUME TypeInv, NEW x \in flights, FillMissed(x)
  PROVE  TypeInv'
  <1> DEFINE y == [x EXCEPT !.at = "answered", !.answer = "error"]
  <1>1. Becomes(x, y) /\ x.at = "sent" /\ recorded' = None
    BY DEF FillMissed
  <1>2. y \in Flight /\ y.target \in Target /\ y.heard = x.heard
    BY <1>1, AnsweredFlight
  <1>3. /\ filled' \subseteq [item : Item, frame : Frame, origin : Origin]
        /\ UNCHANGED <<docs, frame, unlocked, popup, searches, fills, agreed>>
    BY DEF FillMissed, fillGhosts, TypeInv, FillTypeOK
  <1> HIDE DEF y
  <1>4. recorded' \in Target \cup {None}
    BY <1>1
  <1>5. QED
    BY <1>1, <1>2, <1>3, <1>4, FlightStep

\* The popup learns the answer only while it is open.
LEMMA FillAnsweredType ==
  ASSUME TypeInv, NEW x \in flights, FillAnswered(x)
  PROVE  TypeInv'
  <1>1. CASE Closes /\ flights' = {[y EXCEPT !.heard = FALSE] : y \in flights \ {x}}
    <2>1. flights \ {x} \in SUBSET flights
      OBVIOUS
    <2>2. QED
      BY <1>1, <2>1, ClosesType DEF FillAnswered
  <1>2. CASE /\ Heard(x)
             /\ popup' = [popup EXCEPT !.pending = <<x.item, x.target.origin>>]
             /\ flights' = flights \ {x} /\ UNCHANGED searches
    <2>1. x.item \in Item /\ x.target.origin \in Origin
      BY DEF FillAnswered, TypeInv, FillTypeOK, ShapeInv, Flight, Target
    <2>2. popup.screen \in Open
      BY <1>2 DEF Heard, TypeInv, ShapeInv
    <2>3. popup' \in Popup /\ popup'.screen \in Open
      BY <1>2, <2>1, <2>2 DEF TypeInv, FillTypeOK, Popup
    <2>4. QED
      BY <1>2, <2>3 DEF FillAnswered, TypeInv, FillTypeOK, ShapeInv, Popup, Open, fillGhosts
  <1>3. CASE flights' = flights \ {x} /\ UNCHANGED <<popup, searches>>
    BY <1>3 DEF FillAnswered, TypeInv, FillTypeOK, ShapeInv, fillGhosts
  <1>4. QED
    BY <1>1, <1>2, <1>3 DEF FillAnswered

LEMMA FillTypeStep ==
  ASSUME TypeInv, [FillNext]_fillVars
  PROVE  TypeInv'
  <1>1. CASE UNCHANGED fillVars
    BY <1>1 DEF fillVars, TypeInv, FillTypeOK, ShapeInv
  <1>2. CASE ClosePopup
    <2>1. flights \in SUBSET flights
      OBVIOUS
    <2>2. QED
      BY <1>2, <2>1, ClosesType DEF ClosePopup
  <1>3. ASSUME NEW i \in Item, HandleFill(i)
        PROVE  TypeInv'
    <2>1. agreed' \subseteq Item \X Origin /\ Asks(i, None)
      BY <1>3 DEF HandleFill, TypeInv, FillTypeOK
    <2>2. QED
      BY <2>1, AsksType
  <1>4. QED
    BY <1>1, <1>2, <1>3, NavigateType, ReportType, OpenPopupType, ShowVaultType,
       ShowUnlockFormType, LockAnsweredType, HandleSearchType, SearchAnsweredType,
       QuietType, FillAnywayType, CancelFillType, FillResolvedType, FillDeliveredType,
       FillMissedType, FillAnsweredType DEF FillNext

\* The tab, the popup and every search and fill in flight stay well formed: the
\* popup asks about an origin only while it is open.
THEOREM FillTypeCorrect == FillSpec => []TypeInv
  BY FillInitType, FillTypeStep, PTL DEF FillSpec

-----------------------------------------------------------------------------
(* Searches.                                                               *)

\* Whoever is latest was asked for what the box says.
SearchInv ==
    \A s \in searches : /\ s.seq <= popup.seq
                        /\ s.seq = popup.seq => s.query = popup.asked

LEMMA SearchesKeep ==
  ASSUME TypeInv, SearchInv, NEW query \in Query, Searches(query)
  PROVE  SearchInv' /\ popup'.shown = popup.shown
  <1>1. /\ popup'.asked = query /\ popup'.seq = popup.seq + 1
        /\ popup'.shown = popup.shown
        /\ searches' = searches \cup {[seq |-> popup.seq + 1, query |-> query]}
    BY SearchesDo
  <1>2. popup.seq \in Nat /\ \A s \in searches : s.seq \in Nat
    BY FillAssumption DEF TypeInv, FillTypeOK
  <1>3. QED
    BY <1>1, <1>2 DEF SearchInv

\* The popup's search state is left alone, or the popup is closed.
LEMMA SearchFrame ==
  ASSUME SearchInv, \/ searches' \subseteq searches /\ popup'.seq = popup.seq
                       /\ popup'.asked = popup.asked
                    \/ searches' = {}
  PROVE  SearchInv'
  BY DEF SearchInv

SearchStep == popup'.shown # popup.shown => popup'.shown \in {None, popup.asked}

LEMMA SearchKeeps ==
  ASSUME TypeInv, SearchInv, [FillNext]_fillVars
  PROVE  SearchInv' /\ SearchStep
  <1> USE DEF SearchStep
  <1>1. ASSUME UNCHANGED <<popup, searches>>
        PROVE  SearchInv' /\ SearchStep
    BY <1>1, SearchFrame
  <1>2. CASE UNCHANGED fillVars
    BY <1>1, <1>2 DEF fillVars
  <1>3. ASSUME NEW f \in Frame, Navigate(f) \/ ReportFillTarget(f)
        PROVE  SearchInv' /\ SearchStep
    BY <1>1, <1>3 DEF Navigate, ReportFillTarget
  <1>4. CASE OpenPopup
    <2>1. searches = {} /\ searches' = searches
      BY <1>4 DEF OpenPopup, TypeInv, ShapeInv, Open
    <2>2. popup'.shown = None
      BY <1>4, ClosedType DEF OpenPopup, Popup
    <2>3. QED
      BY <2>1, <2>2, SearchFrame
  <1>5. CASE ShowVault
    <2>1. PICK query \in Query : Searches(query)
      BY <1>5, QueryAssumption, Zenon DEF ShowVault
    <2>2. QED
      BY <2>1, SearchesKeep
  <1>6. CASE ShowUnlockForm \/ CancelFill
    BY <1>6, SearchFrame DEF ShowUnlockForm, CancelFill, TypeInv, FillTypeOK, Popup
  <1>7. CASE LockAnswered
    BY <1>7, SearchFrame DEF LockAnswered, TypeInv, FillTypeOK, Popup
  <1>8. CASE LockWorker
    BY <1>1, <1>8 DEF LockWorker
  <1>9. CASE ClosePopup
    BY <1>9, ClosedType, SearchFrame DEF ClosePopup, Closes
  <1>10. ASSUME NEW query \in Query, HandleSearch(query)
         PROVE  SearchInv' /\ SearchStep
    BY <1>10, SearchesKeep DEF HandleSearch
  <1>11. ASSUME NEW s \in searches, SearchAnswered(s)
         PROVE  SearchInv' /\ SearchStep
    <2>1. popup \in Popup /\ searches' \subseteq searches
      BY <1>11 DEF SearchAnswered, TypeInv, FillTypeOK, Popup
    <2>2. PICK found \in {s.query, None} :
             popup' = IF IsLatest(s) THEN [popup EXCEPT !.shown = found] ELSE popup
      BY <1>11 DEF SearchAnswered
    <2>3. popup'.seq = popup.seq /\ popup'.asked = popup.asked
      BY <2>1, <2>2 DEF Popup
    <2>4. popup' # popup => popup'.shown = found /\ s.seq = popup.seq
      BY <2>1, <2>2 DEF Popup, IsLatest
    <2>5. s.seq = popup.seq => s.query = popup.asked
      BY DEF SearchInv
    <2>6. QED
      BY <2>1, <2>2, <2>3, <2>4, <2>5, SearchFrame
  <1>12. ASSUME NEW s \in searches, SearchLost(s)
         PROVE  SearchInv' /\ SearchStep
    BY <1>12, SearchFrame DEF SearchLost
  <1>13. ASSUME NEW i \in Item, NEW c \in Origin \cup {None}, Asks(i, c)
         PROVE  SearchInv' /\ SearchStep
    BY <1>13, SearchFrame DEF Asks, TypeInv, FillTypeOK, Popup
  <1>14. ASSUME NEW x \in flights, FillResolved(x) \/ FillDelivered(x) \/ FillMissed(x)
         PROVE  SearchInv' /\ SearchStep
    BY <1>1, <1>14 DEF FillResolved, FillDelivered, FillMissed
  <1>15. ASSUME NEW x \in flights, FillAnswered(x)
         PROVE  SearchInv' /\ SearchStep
    <2>1. CASE Closes
      BY <2>1, ClosedType, SearchFrame DEF Closes
    <2>2. CASE /\ popup' = [popup EXCEPT !.pending = <<x.item, x.target.origin>>]
               /\ UNCHANGED searches
      BY <2>2, SearchFrame DEF TypeInv, FillTypeOK, Popup
    <2>3. CASE UNCHANGED <<popup, searches>>
      BY <1>1, <2>3
    <2>4. QED
      BY <1>15, <2>1, <2>2, <2>3 DEF FillAnswered
  <1>16. QED
    BY <1>2, <1>3, <1>4, <1>5, <1>6, <1>7, <1>8, <1>9, <1>10, <1>11, <1>12, <1>13,
       <1>14, <1>15, AgreesTo DEF FillNext, HandleFill

\* refreshSearch shows the latest answer only: in whatever order the answers of
\* any number of searches arrive, the list changes to the one for what the box
\* says, or is emptied.
THEOREM ListIsLatest == FillSpec => ListFollowsLatest
  <1>1. FillInit => SearchInv
    BY DEF FillInit, SearchInv
  <1>2. TypeInv /\ SearchInv /\ [FillNext]_fillVars => SearchInv'
    BY SearchKeeps
  <1>3. TypeInv /\ SearchInv /\ [FillNext]_fillVars
          => [popup'.shown # popup.shown => popup'.shown \in {None, popup.asked}]_fillVars
    BY SearchKeeps DEF SearchStep
  <1>4. QED
    BY <1>1, <1>2, <1>3, FillTypeCorrect, PTL DEF FillSpec, ListFollowsLatest

-----------------------------------------------------------------------------
(* Where logins end up.                                                    *)

LEMMA MatchesBelong ==
  ASSUME SuffixesApart, NEW i \in Item, NEW o \in Origin, UrlMatches(i, o)
  PROVE  Belongs(i, o)
  <1>1. PICK url \in Urls[i] : OriginMatches(url, o)
    BY DEF UrlMatches
  <1>2. o.scheme = "http" => url.scheme = "http" \/ Loopback(o.host)
    BY <1>1, Zenon DEF OriginMatches
  <1>3. HostMatches(url.host, o.host)
    BY <1>1, Zenon DEF OriginMatches
  <1>4. \/ url.host = o.host
        \/ RegistrableDomain(url.host) = url.host /\ RegistrableDomain(o.host) = url.host
    BY <1>3, Zenon DEF HostMatches, SuffixesApart
  <1>5. QED
    BY <1>1, <1>2, <1>4, Zenon DEF Belongs

\* What holds for a fill in flight: the origin it says the user confirmed, the
\* user did, and it has been sent to a site that is the item's or confirmed.
Backed(x) ==
    /\ x.confirmed # None => <<x.item, x.confirmed>> \in agreed
    /\ x.at = "sent" => \/ UrlMatches(x.item, x.target.origin)
                        \/ ConfirmedFor(x, x.target)

FlightInv == \A x \in flights : Backed(x)

\* Steps after which every fill in flight was there before, with another popup.
LEMMA FlightsKept ==
  ASSUME FlightInv, UNCHANGED <<agreed, filled>>,
         \A y \in flights' : \E x \in flights :
            /\ y.confirmed = x.confirmed /\ y.item = x.item
            /\ y.at = x.at /\ y.target = x.target
  PROVE  FlightInv'
  <1> SUFFICES ASSUME NEW y \in flights'
               PROVE  /\ y.confirmed # None => <<y.item, y.confirmed>> \in agreed'
                      /\ y.at = "sent" => \/ UrlMatches(y.item, y.target.origin)
                                          \/ ConfirmedFor(y, y.target)
    BY DEF FlightInv, Backed
  <1>1. PICK x \in flights : /\ y.confirmed = x.confirmed /\ y.item = x.item
                             /\ y.at = x.at /\ y.target = x.target
    OBVIOUS
  <1>2. Backed(x)
    BY DEF FlightInv
  <1>3. QED
    BY <1>1, <1>2, Zenon DEF Backed, ConfirmedFor

\* One fill in flight takes its next step.
LEMMA FlightMoves ==
  ASSUME FlightInv, UNCHANGED agreed, NEW x \in flights, NEW y, Becomes(x, y),
         y.item = x.item, y.confirmed = x.confirmed,
         y.at = "sent" => \/ UrlMatches(y.item, y.target.origin)
                          \/ ConfirmedFor(y, y.target)
  PROVE  FlightInv'
  <1>1. Backed(y)
    BY Zenon DEF FlightInv, Backed
  <1>2. \A z \in flights' : Backed(z)
    BY <1>1, Zenon DEF FlightInv, Becomes
  <1>3. QED
    BY <1>2, Zenon DEF FlightInv, Backed

LEMMA UnheardKept ==
  ASSUME TypeInv, FlightInv, UNCHANGED <<agreed, filled>>, NEW S \in SUBSET flights,
         flights' = {[x EXCEPT !.heard = FALSE] : x \in S}
  PROVE  FlightInv'
  <1>1. ASSUME NEW y \in flights'
        PROVE  \E x \in flights : /\ y.confirmed = x.confirmed /\ y.item = x.item
                                  /\ y.at = x.at /\ y.target = x.target
    <2>1. PICK x \in S : y = [x EXCEPT !.heard = FALSE]
      OBVIOUS
    <2>2. x \in flights /\ x \in Flight
      BY DEF TypeInv, FillTypeOK
    <2>3. QED
      BY <2>1, <2>2, UnheardType
  <1>2. QED
    BY <1>1, FlightsKept

LEMMA AsksKept ==
  ASSUME TypeInv, FlightInv, NEW i \in Item, NEW c \in Origin \cup {None}, Asks(i, c),
         agreed \subseteq agreed', c # None => <<i, c>> \in agreed'
  PROVE  FlightInv'
  <1>1. PICK x \in Flight : /\ x.at = "asked" /\ x.item = i /\ x.confirmed = c
                            /\ flights' = flights \cup {x}
    BY AsksDo
  <1>2. ASSUME NEW y \in flights'
        PROVE  /\ y.confirmed # None => <<y.item, y.confirmed>> \in agreed'
               /\ y.at = "sent" => \/ UrlMatches(y.item, y.target.origin)
                                   \/ ConfirmedFor(y, y.target)
    <2>1. CASE y = x
      BY <1>1, <2>1
    <2>2. CASE y \in flights
      BY <2>2 DEF FlightInv, Backed
    <2>3. QED
      BY <1>1, <2>1, <2>2
  <1>3. QED
    BY <1>2 DEF FlightInv, Backed

LEMMA FlightStepInv ==
  ASSUME TypeInv, FlightInv, [FillNext]_fillVars
  PROVE  FlightInv'
  <1>1. ASSUME flights' \subseteq flights, UNCHANGED agreed
        PROVE  FlightInv'
    BY <1>1 DEF FlightInv, Backed
  <1>2. CASE UNCHANGED fillVars
    BY <1>1, <1>2 DEF fillVars
  <1>3. ASSUME NEW f \in Frame, Navigate(f) \/ ReportFillTarget(f)
        PROVE  FlightInv'
    BY <1>1, <1>3 DEF Navigate, ReportFillTarget, fillGhosts
  <1>4. CASE OpenPopup \/ ShowVault \/ ShowUnlockForm \/ LockWorker \/ LockAnswered
             \/ CancelFill
    <2>1. flights' = flights /\ agreed' = agreed
      BY <1>4, Zenon DEF OpenPopup, ShowVault, ShowUnlockForm, LockWorker, LockAnswered,
         CancelFill, fillGhosts
    <2>2. QED
      BY <1>1, <2>1
  <1>5. CASE ClosePopup
    <2>1. flights \in SUBSET flights
      OBVIOUS
    <2>2. QED
      BY <1>5, <2>1, UnheardKept DEF ClosePopup, fillGhosts
  <1>6. ASSUME NEW query \in Query, HandleSearch(query)
        PROVE  FlightInv'
    BY <1>1, <1>6 DEF HandleSearch, fillGhosts
  <1>7. ASSUME NEW s \in searches, SearchAnswered(s) \/ SearchLost(s)
        PROVE  FlightInv'
    BY <1>1, <1>7 DEF SearchAnswered, SearchLost, fillGhosts
  <1>8. ASSUME NEW i \in Item, HandleFill(i)
        PROVE  FlightInv'
    BY <1>8, AsksKept DEF HandleFill
  <1>9. CASE FillAnyway
    <2>1. PICK i \in Item, o \in Origin : Asks(i, o) /\ agreed' = agreed \cup {<<i, o>>}
      BY <1>9, AgreesTo
    <2>2. agreed \subseteq agreed' /\ <<i, o>> \in agreed'
      BY <2>1
    <2>3. QED
      BY <2>1, <2>2, AsksKept
  <1>10. ASSUME NEW x \in flights, FillResolved(x)
         PROVE  FlightInv'
    <2>1. PICK y \in Flight :
             /\ Becomes(x, y) /\ y.item = x.item /\ y.confirmed = x.confirmed
             /\ y.at = "sent" => \/ UrlMatches(y.item, y.target.origin)
                                 \/ ConfirmedFor(y, y.target)
             /\ UNCHANGED fillGhosts
      BY <1>10, FillResolvedDoes
    <2>2. QED
      BY <2>1, FlightMoves DEF fillGhosts
  <1>11. ASSUME NEW x \in flights, FillDelivered(x)
         PROVE  FlightInv'
    <2>1. UNCHANGED agreed
      BY <1>11 DEF FillDelivered
    <2>2. PICK y \in Flight : /\ Becomes(x, y) /\ y.at = "answered"
                              /\ y.confirmed = x.confirmed /\ y.item = x.item
      BY <1>11, FillDeliveredDoes
    <2>3. QED
      BY <2>1, <2>2, FlightMoves
  <1>12. ASSUME NEW x \in flights, FillMissed(x)
         PROVE  FlightInv'
    <2> DEFINE y == [x EXCEPT !.at = "answered", !.answer = "error"]
    <2>1. Becomes(x, y) /\ x.at = "sent" /\ UNCHANGED agreed
      BY <1>12 DEF FillMissed, fillGhosts
    <2>2. y.at = "answered" /\ y.item = x.item /\ y.confirmed = x.confirmed
      BY <2>1, AnsweredFlight
    <2> HIDE DEF y
    <2>3. QED
      BY <2>1, <2>2, FlightMoves
  <1>13. ASSUME NEW x \in flights, FillAnswered(x)
         PROVE  FlightInv'
    <2>1. UNCHANGED <<agreed, filled>>
      BY <1>13 DEF FillAnswered, fillGhosts
    <2>2. CASE flights' = {[y EXCEPT !.heard = FALSE] : y \in flights \ {x}}
      <3>1. flights \ {x} \in SUBSET flights
        OBVIOUS
      <3>2. QED
        BY <2>1, <2>2, <3>1, UnheardKept
    <2>3. CASE flights' = flights \ {x}
      BY <1>1, <2>1, <2>3
    <2>4. QED
      BY <1>13, <2>2, <2>3 DEF FillAnswered
  <1>14. QED
    BY <1>2, <1>3, <1>4, <1>5, <1>6, <1>7, <1>8, <1>9, <1>10, <1>11, <1>12, <1>13
    DEF FillNext

\* What was filled before stays where it belonged.
LEMMA FilledKept ==
  ASSUME FillsBelong, agreed \subseteq agreed', filled' \subseteq filled
  PROVE  FillsBelong'
  BY Zenon DEF FillsBelong

LEMMA BelongStep ==
  ASSUME SuffixesApart, TypeInv, FlightInv, FillsBelong, [FillNext]_fillVars
  PROVE  FillsBelong'
  <1>1. ASSUME NEW x \in flights, FillDelivered(x)
        PROVE  FillsBelong'
    <2> DEFINE login == [item |-> x.item, frame |-> x.target.frame,
                         origin |-> x.target.origin]
    <2>1. /\ x.at = "sent" /\ x.target \in Target /\ x.item \in Item
          /\ filled' = filled \cup {login} /\ agreed' = agreed
      BY <1>1, FillDeliveredDoes
    <2>2. /\ login.item = x.item /\ login.frame = x.target.frame
          /\ login.origin = x.target.origin
      OBVIOUS
    <2> HIDE DEF login
    <2>3. Backed(x)
      BY DEF FlightInv
    <2>4. x.target.origin \in Origin
      BY <2>1 DEF Target
    <2>5. CASE UrlMatches(x.item, x.target.origin)
      <3>1. Belongs(x.item, x.target.origin)
        BY <2>1, <2>4, <2>5, MatchesBelong
      <3>2. QED
        BY <2>1, <2>2, <3>1, Zenon DEF FillsBelong
    <2>6. CASE ConfirmedFor(x, x.target)
      <3>1. x.target.frame = 0 /\ x.confirmed = x.target.origin
        BY <2>6, Zenon DEF ConfirmedFor, Confirmable
      <3>2. <<x.item, x.target.origin>> \in agreed
        BY <2>3, <2>4, <3>1, FillAssumption DEF Backed
      <3>3. QED
        BY <2>1, <2>2, <3>1, <3>2, Zenon DEF FillsBelong
    <2>7. QED
      BY <2>1, <2>3, <2>5, <2>6 DEF Backed
  <1>2. CASE UNCHANGED fillGhosts
    BY <1>2, FilledKept DEF fillGhosts
  <1>3. ASSUME NEW i \in Item, NEW c \in Origin \cup {None}, Asks(i, c),
               agreed \subseteq agreed'
        PROVE  FillsBelong'
    BY <1>3, FilledKept DEF Asks
  <1>4. CASE FillAnyway
    BY <1>3, <1>4, AgreesTo
  <1>5. ASSUME NEW i \in Item, HandleFill(i)
        PROVE  FillsBelong'
    BY <1>3, <1>5 DEF HandleFill
  <1>6. CASE UNCHANGED fillVars
    BY <1>2, <1>6 DEF fillVars, fillGhosts
  <1>7. ASSUME OpenPopup \/ ShowVault \/ ShowUnlockForm \/ ClosePopup \/ LockWorker
               \/ LockAnswered \/ CancelFill
        PROVE  UNCHANGED fillGhosts
    BY <1>7, Zenon DEF OpenPopup, ShowVault, ShowUnlockForm, ClosePopup, LockWorker,
       LockAnswered, CancelFill
  <1>8. ASSUME NEW f \in Frame, Navigate(f) \/ ReportFillTarget(f)
        PROVE  UNCHANGED fillGhosts
    BY <1>8, Zenon DEF Navigate, ReportFillTarget
  <1>9. ASSUME NEW query \in Query, HandleSearch(query)
        PROVE  UNCHANGED fillGhosts
    BY <1>9, Zenon DEF HandleSearch
  <1>10. ASSUME NEW s \in searches, SearchAnswered(s) \/ SearchLost(s)
         PROVE  UNCHANGED fillGhosts
    BY <1>10, Zenon DEF SearchAnswered, SearchLost
  <1>11. ASSUME NEW x \in flights, FillResolved(x) \/ FillMissed(x) \/ FillAnswered(x)
         PROVE  UNCHANGED fillGhosts
    BY <1>11, Zenon DEF FillResolved, FillMissed, FillAnswered
  <1>12. QED
    BY <1>1, <1>2, <1>4, <1>5, <1>6, <1>7, <1>8, <1>9, <1>10, <1>11, Zenon DEF FillNext

\* However the tab navigates between the worker's decision and the arrival of
\* its message, and however many fills are in flight, a login ends up only in a
\* frame of its own site or on the origin the user agreed to, where no public
\* suffix lies below a saved registrable domain.
THEOREM LoginsStayHome == ASSUME SuffixesApart PROVE FillSpec => []FillsBelong
  <1>1. FillInit => FlightInv /\ FillsBelong
    BY DEF FillInit, FlightInv, FillsBelong
  <1>2. TypeInv /\ FlightInv /\ FillsBelong /\ [FillNext]_fillVars => FlightInv' /\ FillsBelong'
    BY FlightStepInv, BelongStep
  <1>3. QED
    BY <1>1, <1>2, FillTypeCorrect, PTL DEF FillSpec

=============================================================================
