# nopass: TLA+ models, model checking and proofs

nopass is a zero-knowledge password manager: a Rust API server over Postgres
(`crates/nopass-api`), a TypeScript client library (`packages/crypto`), shared
UI code (`packages/ui`) and four clients (web, browser extension, desktop, CLI).
The server never sees a plaintext; what it must get right is *which* ciphertext,
credential, wrap, session and version it keeps when several devices and several
requests act at once. Postgres runs at READ COMMITTED and most handlers are a
sequence of separate statements, so the order in which handlers interleave is
where the difficult behaviour lies. The clients in turn must keep their own
state (keys in memory, revision and epoch records) consistent with a server
that can be slow, restarted or ahead of them.

## Inventory

| Component | State | Operations | Hard behaviour | What makes it correct |
|---|---|---|---|---|
| Account credentials (`routes/auth.rs`, `password.rs`, `proof.rs`, `recovery.rs`; `db/auth.rs`, `pending.rs`, `recovery.rs`, `sessions.rs`; `account-key.ts`, `password-change.ts`, `account-recovery.ts`) | credential record, wrapped account key, recovery kit, pending handshakes, recovery tokens, sessions | register, OPAQUE and SRP login, upgrade, account-key migration, password change, kit set and clear, recovery | two-round handshakes racing rotations; lost and repeated finish requests; expiry and eviction | the password that logs in opens the items; a change revokes what the old password authenticated; handshakes and tokens are redeemed once |
| Organization keys (`routes/orgs.rs`, `db/orgs.rs`; `identity.ts`, `org-trust.ts`, `OrgPanel.tsx`) | key epoch, member rows with signed wraps, org items; per device: pins, highest epoch, ledger | create, invite, accept, re-sign, rotate and remove | an invite, re-sign or rotation built from an old view; a client that opens the org while it rotates | a removed member never receives a later key; every wrap verifies back to the owner at one epoch |
| Login throttle (`db/throttle.rs`, `routes/auth.rs`) | counter and lock per network and per account, trusted networks | count an attempt, reset on success, decay, prune | backoff racing successes; boundary of the free attempts | a stranger never locks the owner out of a network they use; guesses per lock are bounded |
| Vault items (`routes/vault.rs`, `db/vaults.rs`, `routes/sync.rs`, `db/sync.rs`) | vaults, items with version and tombstone, sync events | create, update, delete, move, delete vault, sync | optimistic versions, write skew, last-writer-wins merges | no lost update; an account keeps a vault |
| Item envelopes (`item-envelope.ts`, `vault-context.tsx`, `local-trust-state.ts`) | highest revision per item and device, v2-only marker | decrypt, encrypt, upgrade legacy items | several devices, a server that answers with old blobs | no rollback is accepted; the marker never locks out a readable item |
| Browser extension (`apps/extension/src`: `background/index.ts`, `webauthn/`, `consent/`, `content/`, `popup/`, `lib/url-match.ts`) | keys in the worker's memory and in session storage, auto-lock alarm; ceremonies, consent windows; fill target, popup list | unlock, lock, restore, use; create and get a passkey; search, fill, confirm | service worker stopped at any await, lock racing an unlock, two devices signing, windows and timers, a tab that navigates | a lock is final; counters never repeat; nothing is signed without its own consent; a login reaches only its site |
| Web vault view (`vault-context.tsx`, `vault-store.ts`, panes) | list, plaintexts, selection, editor, requests in flight | unlock, load, decrypt, edit, save, move, delete, lock | answers after a lock or a second login, closures over old rows | what is shown is what a save replaces |
| Web pages (`UnlockScreen.tsx`, `recovery`, `recover`, `devices`, `shares`, `s/[id]`, `import`) | one page's keys, flags and data | register, make a kit, recover, change the password, revoke, share, reveal, import | pages left in the middle, lost answers, retries | a code that was shown opens the account; revocations hold; imports add up |
| Desktop client (`apps/desktop/src/App.tsx`) | store, local database, dialog | sign in, sync, decrypt, edit, delete, lock | nothing is cancelled by a lock; offline rows | it holds only rows the server had; spinners stop |
| Command line client (`apps/cli/src`) | session file, device id, `.env` files, child processes, secrets socket | login, lock, passwd, recover, get, adopt, run | several processes, kills and signals between two writes | a reference leads to the secret it replaced; nothing stays on the disk |
| Shares and devices (`routes/shares.rs`, `devices.rs`) | view counters, device rows, sessions | create, view, revoke; register, remove | concurrent views at the limit, revocation under way | a secret is never shown past its limit |
| Billing, activity, sync events (`routes/billing.rs`, `activity.rs`, `sync.rs`) | subscription rows, two logs | webhooks; append, list | webhooks out of order | not modelled |

Nothing else in the server or the clients keeps state of its own that several
actors change; `PROJECT.json` lists the rest with the reason it is left out.

How the parts interact: a client library operation makes two HTTP requests
(start and finish) to the account handlers and gets a session; with the session
it reads and writes vaults, items and organizations; the account key it unwraps
at login is what opens the items, and the identity key under it is what opens
the organization keys. Clients on different machines share nothing but the
server; the tabs, windows and worker of one browser share its storage, and the
processes of the command line client share the disk. Inside one client a
background task (the re-encryption of old items) runs beside the user.

## Modules

| Module | Models | Theorems |
|---|---|---|
| `AccountCredentials` | the credential life cycle of one account, statement by statement | |
| `AccountCredentialsProofs` | | 6 |
| `MCAccountCredentials` | its instances for TLC | |
| `OrgKeys` | the key of one organization: invites, re-signing, rotation and removal | |
| `OrgAccess` | what an organization promises about access; `OrgKeys` implements it | |
| `OrgKeysProofs` | | 6 |
| `MCOrgKeys` | instances of `OrgKeys` | |
| `VaultItems` | vaults, items and envelopes of one account with several web clients | |
| `VaultItemsProofs` | | 5 |
| `MCVaultItems` | instances of `VaultItems` | |
| `ExtensionSession`, `MCExtensionSession` | the extension's session: unlock, lock, countdown, restore | |
| `ExtensionPasskeys`, `MCExtensionPasskeys` | passkey ceremonies from the page to the server's row | |
| `ExtensionPasskeysProofs` | | 4 |
| `ExtensionFill`, `MCExtensionFill` | fill target, origin rules, popup and fill | |
| `ExtensionProofs` | of `ExtensionSession` and of `ExtensionFill` | 6 |
| `WebVault`, `MCWebVault` | the vault view of one web tab, from unlock to unlock | |
| `WebVaultProofs` | | 3 |
| `CliCommands`, `MCCliCommands` | the commands that share one machine | |
| `CliCommandsProofs` | | 4 |
| `AccountServer` | one account at the server as the applications see it, with the requests on their way | |
| `DesktopClient` | the desktop application, over `AccountServer` | |
| `OnePuxImport` | the mappers of a 1Password export, as functions | |
| `WebPages` | the pages around the vault, over `AccountServer` and `OnePuxImport` | |
| `ClientApps`, `MCClientApps` | desktop, pages and server together | |
| `ClientAppsProofs` | | 8 |

Three conventions hold in all of them. In the server a statement outside a transaction is one
action, and a transaction is one action, taken at its commit; where a handler
makes several statements, anything may happen between them; in a client an
action is what runs between two awaits. Passwords, keys,
texts and signatures are abstracted to the few values a property tells apart.
An operator commented "Mutant" is a variant of the definition below it that
a plausible mistake in the code would produce; it is not used by the
specification, and `PROJECT.json` says which property it is there to break.

### AccountCredentials

State: the `users` row (`cred`, `wrap`, `kit`, and `dataKey`, the key the items
are really under), `pending_opaque_logins` and `pending_srp_sessions`
(`pending`), `pending_recovery_sessions` (`tokens`), `sessions` together with
what the client of each holds in memory, and the operation each process is
carrying out (`op`). `changedAt` and `grants` are history variables.
A credential, a wrap or a derived key is represented by the password it was made
from; creation times and ids are drawn from the counter `now`.

| Actions | Code |
|---|---|
| `LoginStart`, `SrpInit`, `UpgradeStart`, `ProofStart`, `ChangeStart`, `RecoveryInit`, `KitStart` | the reads of `login_start`, `srp_init`, `upgrade_start`, `proof/start`, `password/start`, `recovery_init`, and `require_auth` of a kit request |
| `InsertPending`, `InsertToken` | `insert_opaque_login`, `insert_srp` (insert and evict in one transaction), `insert_recovery` |
| `Authenticate`, `TakePending`, `PeekToken`, `ReadUser`, `FindSession` | the checks of the finish requests, each a statement of its own |
| `IssueSession`, `CompleteSrpUpgrade`, `SetAccountKey`, `ChangePassword`, `CompleteRecovery`, `SetKit`, `ClearKit` | the writing transactions |
| `Abort`, `Resend`, `EndSession`, `SignOutOthers`, `AgeSession`, `Expire*`, `Prune*` | lost and repeated requests, logout, ages and time limits, housekeeping |

### OrgKeys and OrgAccess

State: `organizations.key_epoch`, the member rows with wrap, epoch, signer and
signature, the key each item is under; per device the view `OrgPanel` holds, the
highest epoch accepted, a verified invite and the request in flight. `orgKey`,
`known` (which keys the server has ever stored a wrap of, per user) and `used`
are history variables. A key is its number, a signature the fields it binds.
`Signers`, `LinkHolds` and `Verifies` are `wrap_chain` and `verifyOrgKeyChain`.

| Actions | Code |
|---|---|
| `GetMember`, `ListMembers`, `OpenOrg` | the three statements of `get_org`, and `openOrgKey` on the answer |
| `Invite`, `InviteMember`, `LoadInvite`, `AcceptInvite` | `inviteMember`, `db::invite_member`, `loadOrgs`, `acceptInvite` |
| `ResignOrg`, `RewrapEpoch`, `RewrapMembers` | `resignOrg`, the epoch check of the route, `db::rewrap_members` |
| `PrepareRotation`, `RotateKey` | `buildRotation`, `commitRotation` with `db::rotate_key` |
| `Abort` | a request refused, cancelled or lost |

`OrgAccess` says the same without keys, wraps, devices or requests: who is in,
who can read, and that the only way out is a new generation of the key. The
refinement maps `gen` to the epoch, standing to the member rows, and readers to
the users the server has stored a wrap of the current key for.

### VaultItems

State on the server: vaults, item rows (version, envelope revision, text,
tombstone), the v2-only marker, and deletes of a vault whose guards have been
evaluated. Per client: how far the load is (`phase`, `toList`, `got`), the vault
store (`local`, `tabs`), the revision store (`store`, `seen`, `v2Only`), the
background upgrade (`up`) and the requests in flight (`req`). `made`, `born` and
`blind` are history variables. A text is a number, a blob a text with the
revision its envelope binds, and revision 0 the v1 format.

| Actions | Code |
|---|---|
| `ListVaults`, `ListItems`, `FinishLoad`, `LoadFails`, `OpenStore`, `Decrypt`, `Lock` | the effects of `vault-context.tsx` after an unlock, `openRevisionStore`, `lock` |
| `StartSave`, `StartCreate`, `StartMove`, `StartDelete` | `saveItem`, `moveItem`, `deleteItem` up to the request |
| `Serve`, `Refuse` | the statement of the request in `db/vaults.rs`, and whether it affects a row |
| `Finish`, `Fail` | the rest of the handler in the client when the answer arrives, or does not |
| `CreateVault`, `CheckVault`, `DeleteVault` | `create_vault`; the guards and the effect of `delete_vault_if_safe`, with the cascade |
| `StartUpgrade`, `UpgradeItem`, `RejectItem`, `ItemUpgraded`, `ItemFailed`, `PublishV2Only`, `MarkV2Only` | the upgrade effect, `upgradeLegacyItems`, `set_vault_format`, `publishV2Only` |

One statement of Postgres is not always one action: a `DELETE` evaluates its
guards on a snapshot and locks its row later, and only rows another transaction
*changed* are evaluated again. `CheckVault` and `DeleteVault` are these halves.
A client has at most one request of its user and one of its upgrade under way:
the form is disabled while it saves, and the pass is a sequential loop. A second
move or delete clicked while the first is unanswered is left out; on the server
it is what a second client with the same copies does.

### ExtensionSession

State: `vaultState`, the copy in `chrome.storage.session`, the alarm; per login
where its UNLOCK stands, the one restore in flight, per call of `lockVault` and
per message where it stands. Storage and alarm calls take effect in the order
the worker issues them, so the effect belongs to the stretch that issues the
call. `Restart` is the browser stopping the worker at any await: memory and
handlers are gone, storage and the alarm stay. `lockedOut` (sessions a finished
lock had found) and `torn` are history variables. `torn` is set where an unlock
and a lock overlap in a window the code leaves open: `lockVault` waiting for the
storage while an unlock installs its session, or UNLOCK waiting for the alarm
while a lock runs. The properties speak about the behaviours without such an
overlap; in the others the late write can put a locked session back into storage
or clear the alarm of a new one.

| Actions | Code |
|---|---|
| `Unlock`, `UnlockFetched`, `UnlockFailed`, `UnlockInstalled`, `UnlockArmed`, `UnlockPersisted` | the UNLOCK message, await by await |
| `Message*` | `restoreVaultState` and `armAutoLock` before any other message |
| `Restore*` | `restoreVaultState` with its generation |
| `LockBegins`, `AlarmFires`, `LockWipes`, `LockClears`, `Revoke` | `lockVault` and what calls it |

### ExtensionPasskeys

State: the server's item row (version, sign counter), the passkeys stored, per
device and unlock the copy of the row in `vaultState.items`, per tab the page's
promise and the ceremony at the relay, the consent windows. A ceremony keeps the
object of the unlock it began under. The interceptor's timer (`GiveUp`), the
consent window's (`ConsentTimeout`), a lost window, a stopped worker, a refused
or unanswered update and a relay that is still busy are actions of their own.

### ExtensionFill

State: the tab's frames with their document, origin and visible password field,
the recorded fill target, the popup, the searches and fills in flight. `SameOrigin`,
`UrlMatches` and the other rules of `lib/url-match.ts` are operators over scheme,
host labels and port; the public suffix list is a constant. The frames navigate
between any two steps. `filled` and `agreed` are history variables.

### WebVault

State: the server's rows, the store (`items`, `keys`, `loading`), the provider's
decryptions, plaintexts, revision records, selection and editor, and loads and
calls in flight. A lock clears the store and unmounts the provider; the answers
of its calls still arrive and write the store of whoever is logged in by then,
as in the code. `lost` is a history variable: a save was accepted over a text its
editor did not start from. The server takes a save, of this tab or of another
device, onto a row in the trash as well as onto an active one: `update_item` looks
at the version only, and a soft delete keeps it. Another device may save several
times, so that the version a tab counts up by itself can meet one the server has
given to somebody else's text.

### CliCommands

State: the session file and the live tokens, the device file, the vault's items,
the `.env` files, and per process the command with what it has read and the child
it runs. A kill may come between any two steps and a signal while a child is up.
`raced` names the item names for which two adopts overlapped, `litter` what an
ended command left on the disk.

### AccountServer, DesktopClient, WebPages, OnePuxImport, ClientApps

`AccountServer` is the account as the applications see it: what the password
opens, sessions with their device, item rows and every version they ever had,
the recovery kit, the shared links, and `calls`, the requests in flight. A
request is carried out in one step, and it can fail at any moment before its
answer is taken: refused, lost, or carried out with the answer lost. Once a
client has given up, its request is no longer carried out later. A session is
told apart by its client and the event of its login, since one visit of a page
can log in more than once. Users act within a budget (`Act`), everything else is
free.

`DesktopClient` follows `App.tsx`: the effect that moves to the vault screen and
syncs, `onSuccess` that comes later, the loop that writes the local database,
decryptions that overlap, the dialog that captured a row and a text. Nothing is
cancelled by a lock. The local database may refuse a row or fail to be read: a
sync then falls back to the local rows as if it were offline (`SyncUnwritten`), and
a save keeps its dialog open. What it does, it does at once: the writes of one sync
are one step, and so is the write after a save.

`WebPages` shows one page of the tab at a time. Leaving a page ends its setState
calls and wipes the keys of registration, but not what it has begun: `deriving`
(kits being derived), `loops` (imports) and calls go on. `OnePuxImport` maps an
entry, a category with a sequence of fields, to the type of the item its mapper
makes and the positions of the fields it keeps. The order matters: the lookups
by id and title return the first match, also when its value is empty, and the
loops over addresses and keys overwrite, so the last one stays.

`ClientApps` interleaves them. The meeting points are the sessions a page ends
under the desktop, the rows an import adds, and a recovery that ends everything.

## Runs

| Run | Bounds | What it shows |
|---|---|---|
| `AccountLifecycle` | 2 operations at a time, 2 passwords, 5 rows created, 1 pending handshake per table | the password that logs in opens the items (`AccountOpens`); kit and clients hold the right key (`KeysAgree`); a migration only replaces the credential it proved (`MigrationProvesCurrent`); a change leaves nothing behind that predates it (`NothingPredatesChange`); nothing is redeemed twice (`SingleUse`) |
| `AccountLegacyRecovery` | the same | finding: a recovery by a pre-OPAQUE client makes a migrated account unreadable |
| `OrgInvites` | 3 users, devices of the owner and an admin, 3 keys, chains of 3 | `RemovedCannotRead`; `MembersVerify`; `ItemsSurvive`; `OrgKeys` implements `OrgAccess` |
| `OrgLegacy` | 2 users, 2 devices of the owner, 3 keys | `RemovedCannotRead`, `NeverOpensOlder` and the refinement while an old organization is re-signed and rotated |
| `VaultEdits` | 2 clients, 2 vaults, 1 item, 2 texts, moves up to version 2; loads may fail | `NoLostUpdate`; `NoFalseRollback`; `RevisionNamesText` |
| `VaultUpgrade` | 2 clients, 1 vault, 2 items, 1 new text; loads succeed | the marker is published only when no v1 row is left (`MarkerMeansV2`) |
| `ExtensionLocks` | 2 logins, 2 locks, 1 page, 2 uses, 1 restart | a lock is final (`LockHolds`); a restart keeps the open session with its countdown and no other (`RestartKeepsSession`); an idle vault is locked in the end (`IdleVaultLocks`) |
| `PasskeyCeremonies` | 2 devices with a tab each, 2 calls, 2 unlocks, 1 edit elsewhere | no counter reaches a site twice (`CountersNeverRepeat`); what a page gets is stored (`DeliveredIsStored`) and was agreed to in its own window (`OwnConsent`); every call settles (`CallsSettle`) |
| `FillTargets` | 1 login with 2 URLs, 3 origins, 2 further documents, 2 searches, 2 fills | a login goes only into its own site or where the user agreed (`FillsBelong`); the list shows the latest search (`ListFollowsLatest`) |
| `WebVaultView` | 2 accounts, an item and a new one, 4 versions, 3 events | no save over a text its author had not read (`NoStaleSave`); what is shown is what a save replaces (`ViewMatchesRows`); an opened vault settles (`VaultSettles`) |
| `CliShared` | 2 processes, 2 files, 2 variables, 4 commands | references resolve (`RefsResolve`); a child gets the secrets of its file (`ChildGetsSecrets`); nothing stays on the disk (`NothingLeftBehind`); commands end (`CommandsEnd`) |
| `ClientApps` | 3 items, 1 device, 1 link, exports with every category, fields that share an id, two addresses and two keys; 3 events of the desktop, 4 of the web tab, or 1 and 2 together | `RowsAsServed`, `ShownKitOpens`, `RevocationHolds`, `ViewsWithinLimit`, `ImportTallies`, `ImportKeepsTexts`, `ClientsSettle` |

Why the bounds are enough. Every hazard listed involves at most two actors and
one object they disagree about: two operations of one account, two devices of an
organization, two clients of one item, an unlock and a lock, two ceremonies of
one passkey, two commands and one file. Two of each, with a third user where a
member is removed by one and invited by another, give every pairwise
interleaving of the steps. `MaxNow`, `MaxKey`, `MaxText`, `MaxVersion` and the
bounds on events only limit how long a behaviour can go on; each leaves room for
a row, its replacement, and one more actor working from what was replaced. The
budget of `ClientApps` is spent only by what users do: requests, answers,
failures, expiry and other devices come on top. Four events cover registering,
making a kit, leaving and coming back; a link made, copied, revealed and revoked;
a sign-in, a lock and a second sign-in of the desktop. The theorems below remove
the bounds for the properties they cover.

`MembersVerify` is checked with a role fixed per user (`FixedRoles`). With a
free choice, a member can be removed and invited again with another role between
the `list_members` and the `wrap_chain` of one `get_org`; a rotation built from
that torn view signs the old role beside a row with the new one, and the chain
check of that member refuses it until the next rotation. Nobody gains access.
The chain is walked for at most `MaxChain` links (`identity.ts:304`, 16 in the
code): when each admin is invited by the one before, the one invited by the
fifteenth in the row is refused until a rotation puts everybody directly below
the owner. `OrgInvites` has as many users as its `MaxChain` allows.

`PasskeyCeremonies` gives each device one tab. With two tabs on one device both
ceremonies read one counter of the shared object before either has stored it;
the first update counts the object's version up, so the second is accepted by
the server with the same counter, and both signatures are returned.

`CHECK_DEADLOCK FALSE` stands where a behaviour may end: in `VaultEdits`, and in
the runs of the clients, users may run out of texts, versions or events with
everything at rest. The account, organization and upgrade runs have no state
without a successor.

The type invariants of the modules are proved, and are in no configuration.

## Fairness

The server's modules assume none: whether a request is retried is up to users.
The clients' liveness properties use weak fairness of what the platform
schedules, and nothing of what users or other devices do:

- `ExtensionSession`: pending awaits of storage, alarms and fetch resolve, and an
  alarm that is set fires when nobody rearms it, also after the worker was
  stopped, since the browser wakes it for an alarm. Uses and restarts are bounded.
- `ExtensionPasskeys`: the interceptor's and the consent window's timers run out,
  and steps the worker or relay has started go on. The server is not assumed to
  answer: an update fails in the end (`SendFails`).
- `WebVault`, `ClientApps`: every request is answered or fails (browsers end a
  connection), decryptions and effects that are due run.
- `CliCommands`: a request is answered or fails, and a child that was signalled
  ends; a child nobody signals may run for ever, and `CommandsEnd` allows it.

## Proofs

### Account credentials

For any set of passwords, any number of concurrent operations and no bound on
the rows (`MaxNow` is any number), assuming only `ConstAssumption`:
`TypeCorrect`, `ChangeRevokes` and `RedeemedOnce`; and,
when no client older than the account key recovers the account
(`"legacy_recovery" \notin Ops`, without which `AccountLegacyRecovery` is a
counterexample), `PasswordOpensItems`, `KitOpensItems` and
`MigrationsProveCurrent`.

`OpShape` records what an operation carries at each point of its handler, and is
proved with the type. `PastInv` keeps every stamp and id at or below `now`; it is
what makes the stamp of a row inserted after a change larger than the stamp of
the change. `UseInv` says that a handshake taken by `DELETE ... RETURNING` is in no
table, in no grant and in no other operation, so a repeated finish finds nothing.
`UnwrappedInv` is the reason the migrations are safe: while there is no wrapped key
the credential has never changed, so whatever was proved was proved for the
current password. `MemoryInv` carries the data key through operations that hold it
across a rotation. Each is preserved by every action, with one step per action in
the proof.

### Vault items

For any clients, vaults and items, assuming only `VaultAssumption`: `TypeCorrect`,
`NoUpdateIsLost`, `CurrentIsNoRollback` and `RevisionIsText`; and, where loads do
not fail, items are not moved and vaults are not deleted, `MarkerIsTrue`.

None of the first three properties is inductive. The argument is that a copy never
runs ahead of its row (`Behind`): its version and its revision are at most the
row's, the same version means the same revision, and the same revision means the
same text. `HeldInv` says so of every copy a client holds, fetched, stored
or waiting to be upgraded. `ReqInv` says what a request relies on between
being sent and being answered: a write whose version is still the row's replaces
the text its author read at a higher revision (`Replaces`), a move was sent
from a copy that is behind, and the copy kept after an accepted request is
behind the row the server then has. Moves are the delicate case, since both sides
count the version up without comparing it: the copy stays behind by as much as
it was. `ItemInv`, `SeenInv` and `Owns` rule out that anybody has heard of an
item that is still being created, because ids are drawn once.

`MarkerIsTrue` adds `LegacyInv`: while a v1 row is on the server the marker is not
set, and each client that has begun to load still has the row ahead of it
(`StillV1`), in a vault it has yet to list, in what it fetched, in its store, in
the list of its pass or in a request of the pass, or its pass has failed. An
accepted write cannot take the row out of the store unnoticed, because by
`Behind` the copy kept would be ahead of the v1 row. The three assumptions are
each needed: after a failed load the pass runs over an empty list, a vault deleted
meanwhile makes a load fail, and an item moved between two listings can be missed
by both.

### Organization keys

For any users, devices, items and number of keys, assuming `OrgAssumption` and that
`None` is no row: `TypeCorrect`, `RemovedStayOut`, `OpensForward` and the refinement
`RefinesAccess`; when nobody re-signs (`"rewrap" \notin Ops`),
`RotationKeepsItems`; and when, besides, the organization is not a legacy one,
every user keeps one role (`OneRole`) and at most `MaxChain - 2` users can be
admins (`ShortChains`), `ChainsLeadToOwner`, that is, `MembersVerify`.

`KeyInv` is the heart of it. `FreshInv`: the key of a rotation under way is in
no row, no view, no other request and with no user until the rotation is applied,
which needs `BoundInv` (keys are numbered in the order of generation) and is why
a removed member cannot have been handed the new key early. `ItemInv`: every item is
under the current key or gone, because an applied rotation covers them exactly.
`ReaderInv`: whoever was given the current key has a row. `OwnerInv`: the owner's
row is never removed and nobody else is an owner. The lemma `Rotates` says what an
accepted rotation does in one place; the refinement proof maps it to `Rotate`, an
applied invite to `Invite`, a re-sign to `Reissue`, and everything else to a
stutter or an `Accept`.

`RotationKeepsItems` needs that a rotation built on the current epoch has opened
the current key (`ViewInv`), hence that the owner's row always holds it; a re-sign
from an old view can break this, which is why the assumption is there.

`ChainsLeadToOwner` is about chains of any shape, and `wrap_chain` is a recursive
function, so it cannot be unfolded a fixed number of times. `ChainInv` says that
the member rows form a tree: there is a rank, 0 for the owner, such that the signer
of a row has a smaller rank than the row and is the owner or an admin (`Ranked`), and
every row is signed over the role, epoch and key it holds (`RowInv`). An invite hangs
a new row below its sender; a rotation signs every row by the owner and flattens the
tree. That a row has a chain to the owner follows by taking the least rank without
one (`LeastNatural`, `SignersWalk`); since ranks fall along the chain and only admins
stand between its ends, it has at most as many links as there are admins and two
more. `AskInv` and `ListInv` carry what an invite or a rotation was built from across
the statements of `get_org`. Each hypothesis is needed: without `OneRole` the race
described under Runs is a counterexample, a re-sign from an old view can sign for a
row that has changed, and the bound on admins is the one the code has.

### Extension session

For any sessions, pages, concurrent locks and restarts (in `ExtensionProofs`):
`SessionTypeCorrect`, `LocksHold` and `RestartIsSafe`. `SessionInv` is stated under
`~torn`, that is, while no two handlers have overlapped in one of the named windows:
an UNLOCK that has set `vaultState` and not yet stored its session is the one in
memory (`UnlockInv`); memory and storage agree otherwise and the countdown runs while
nothing is locking (`OpenInv`); a restore that may still install its session began
from what storage still holds (`RestoreInv`); from the wipe on, what a lock found open
is out (`LockInv`, `LockedInv`). A session never comes back after a lock because its
UNLOCK is done, so only a restore could bring it back, and a restore that is current
excludes a lock in flight.

### Extension passkeys

`TypeCorrect` and `ConsentIsOwn` for any devices, tabs and calls;
`CountersAreUnique` and `DeliveredStays` when a device runs one ceremony at a time
(`TabsPer = 1`; with two tabs TLC finds a counter that is signed twice). `CopyInv`:
no copy of the item is ahead of the row, and one with the row's version has its
counter. `Counts` says what an assertion relies on at each point of its ceremony:
until it is sent, that its counter is one more than that of the copy it read; once
sent, that the row is as it was if the version is; once stored, that the row has
reached its counter. `ConsentInv`: a ceremony past its prompt was approved in its
own window.

### Extension fill

For any logins, origins, documents, searches and fills (in `ExtensionProofs`):
`FillTypeCorrect` and `ListIsLatest`; and, when `SuffixesApart`, `LoginsStayHome`.
`SuffixesApart` says that no public suffix lies below a saved registrable domain, as
seen from the tab's origins; it is needed because the matching rule takes every
subdomain of a saved registrable domain for the same site. The instance of
`FillTargets` assumes it too.

`SearchInv`: no search in flight is newer than the popup's number, and one with that
number asked for what the box says. `FlightInv` is what carries a decision across
the navigations that can follow it: an origin a fill says the user confirmed was
agreed to for that item, and a fill that was sent has a target that matches the item
or that the user confirmed. `SameOrigin`, evaluated where the message arrives, then
ties the target to what the frame shows at that moment. A fill that nobody waits for
(`heard` is false) opens no banner, which is why `ShapeInv` says that a popup that
is not open waits for nothing.

### Web vault

For any accounts, items, versions and number of logins and changes: `TypeCorrect`,
`SavesAreCurrent` and `ViewIsCurrent`. `Inv` has four parts besides the types. `HeldInv`:
no row in the list, or in an answer on its way, is ahead of the server's, and the
same version means the same text (`NotAhead`); a step of the server only grows a row
(`Grows`), so this survives whatever other devices do. `CallInv`: a save that is not
marked behind carries the text of the row it carries, and once carried out leaves a
row that is not ahead either, a move included, although a move counts the version
up without comparing it. `Fits`: an open editor is on a row of the list, and on its
text unless the draft is behind; every step that changes the list renders anew, or
happens in a locked tab. `JobInv`: a decryption that may still set the map is one of
the list as it is now, with the keys that are in the store, because every change of
the list restarts the effect.

### Command line

For any processes, files, names and number of commands: `TypeCorrect`, `RefsLead`,
`SecretsReachChild` and `DiskIsClean`. A name that has not raced leads to one item of
the vault (`Leads`), so an item saved later cannot come before it. `AdoptOk` carries the
check of the name across the steps after it: a name found free still is, or another
adopt of it was past its check when it was saved and the name is in `raced`; an
adopt that writes has saved its item, and the text it writes holds references that
all lead somewhere. `RunOk` uses that `run` reads the file before the vault: the
references it read lead somewhere in any later vault. `DiskOk` says at which steps a
process has a temporary file or a socket. For the types, `CountInv` counts the tokens
issued together with the logins that still wait for one (`Asking`, a finite set)
against the commands started; `ProcType` keeps the item of an adopt in the vault also
when its name has raced, where `Leads` says nothing.

### Client applications

For any items, devices, links, view limits, exports and budgets: `TypeCorrect`,
`HeldRowsWereServed`, `ShownCodesOpen`, `RevokedStaysRevoked`, `SecretsWithinLimit`,
`ImportsTally` and `ImportsKeepTexts`, all from one invariant, `ClientInv`
(`Invariance`), because the applications meet in the requests under way and none of
the properties is inductive alone:

- `NumberInv`, `VisitInv`: visits, logins, codes and texts are numbered by the events,
  so an answer that a page takes for its own was asked for by that page, and not by
  an earlier visit or another page.
- `RowsInv`: every row in the store, in the local database, on its way there or in
  an answer is one the item once had. For an update the answer carries no row; that
  the row the client makes up is right follows from the version check at the server.
- `CodeInv`, `KitInv`: a code is in one place at a time, being derived, in a request
  or stored, and is shown last. Zeros are uploaded only under a code whose page has
  been left, so it will not be shown.
- `SessionInv`: a login that is under way has a session that nobody has seen, hence
  what a request ends cannot be opened again by it.
- `LinkInv`, `ViewInv`: a link is created once; views counted at the server cover the
  secrets shown and the answers on their way (`Views`, a cardinality).
- `ImportInv`: an import has one request under way while it waits and none
  otherwise, and entries done, failed, left and waiting add up to the export.
- `TypeInv` adds the types and `LockedInv`: a late answer writes the store of a locked
  desktop, but starts no decryption and opens no dialog.

The proof corrected the model: two logins of one visit of the recovery page had shared
one session, so that closing the first closed the second. `FilesAssumption` (an export
is a finite set of entries, whose fields have numbered positions) and `NoneIsNoRow`
became explicit.

`ImportKeepsTexts` says which fields an entry may lose (`MayGo`), and that it loses no
other, for any category, order and repetition of fields. What it may lose: in a card,
an identity or a key a text under an id that is not looked up, in any category with
lookups a second field of an id, every address and every key but the last, and what
stands where the category's mapper does not look. `MappersKeep` goes through the eight
mappers; `FirstById`, `FirstIsEarlier` and `LastIsLater` are the facts about lookups
and overwriting loops it needs.

### What is only model-checked

The five liveness properties: `IdleVaultLocks`, `CallsSettle`, `VaultSettles`,
`CommandsEnd` and `ClientsSettle`. Liveness under fairness, and `ENABLED`, are out of
the prover's reach. Every other property of a run that passes is also a theorem, under
the hypotheses named above.

## Findings

`AccountLegacyRecovery` is the run that TLC refutes: a recovery by a pre-OPAQUE
client of an account with a wrapped key leaves the wrap of the old password
beside re-encrypted items, although `docs/auth.md:167` says such a recovery can
still finish.

Other disagreements between the code and what the repository says of it were met
while modelling. The models take these steps; the properties are stated so that
they say what does hold around them.

Server:

- `routes/auth.rs:348`: a login handshake taken before a credential change issues
  its session after it; `db/auth.rs:130` says that "a credential change must not
  let one finish afterwards".
- `routes/recovery.rs:132`: `recovery_init` compares the code and stores the token in
  a later statement. A kit that is replaced or disabled in between is outlived by
  the token, which can then complete a recovery with the authority of the old code;
  `docs/auth.md:214` says that "A recovery token dies when the kit is replaced or
  disabled", and `db/recovery.rs:45` that "it dies with the kit". The model takes this
  step, and `AccountOpens` and `KeysAgree` show that the account it leaves opens.
- `db/vaults.rs:114`: a save onto a row that another device has moved to the trash is
  accepted and answered as a success; the row stays in the trash with the new text.
- `routes/orgs.rs:112`: `get_org` reads the caller's wrap and the chain in two
  statements, so an invite from a view that straddles a rotation wraps the
  retired key for the new epoch; `docs/security-model.md:165` says of a client
  with a retired key that "it never writes with it".
- `db/orgs.rs:240`: `rewrap_members` does not look at the epoch inside its
  transaction and can overwrite a rotation; `docs/security-model.md:161` says that
  wraps for any other epoch are refused.
- `db/vaults.rs:216`: the guards of `delete_vault_if_safe` read a snapshot, so two
  deletes can remove the last two vaults and a delete can take a new item with it;
  the comment above says this is what having them in one statement prevents.
- `db/devices.rs:45`: "a revoked device can never keep using a token it already
  holds", but a session that was issued before the device was registered is not
  linked to it. The command line client registers its device with the session of
  its first login, so that session outlives the revocation.

Web and extension:

- `vault-context.tsx:354`: the upgrade effect also runs after a failed load, finds
  no v1 item in the empty list and marks the account v2-only; line 351 says "Only
  when no v1 blob of any kind is left".
- `background/index.ts:614`: two ceremonies on one device repeat a sign counter.
- `UnlockScreen.tsx:177`: leaving the page while a kit is being derived zeroes the
  keys, and the wrap of zeros is uploaded under a code nobody has seen. A lost
  answer of `recovery.set` likewise leaves a kit whose code is unknown.
- `s/[id]/page.tsx:86` keeps the key "for a retry after a network error", which no
  button offers; a lost answer has consumed a view.
- `import/page.tsx:98`: an item whose answer is lost is counted as failed; importing
  again makes it twice.
- `onepassword.ts`: the mappers of cards, identities and SSH keys drop the section
  texts they do not name. An identity keeps the last of its addresses (`:281`), an SSH
  key item the last of its keys (`:313`), and of the fields with one id only the first
  is found (`:156`), while `mapDatabase` skips every one of them (`:392`).

Desktop:

- `App.tsx:272`: an older decryption that ends after a newer one shows an older
  text beside the newer row; saving it reverts the newer text without a conflict.
- `App.tsx:156`: a late `onSuccess` puts the screen on "vault" after a lock, and the
  next sign-in then does not sync.
- `App.tsx:254`: rows of the local database are in snake case, so
  `deletedAt === null` hides all of them offline; the database keeps deleted rows
  and rows of every account.
- `App.tsx:138`: saving the vault keys to the keychain always throws, because they
  are not extractable (`account-key.ts:88`).
- `App.tsx:275`: `loadVaultKeys` sends `privateKey`, the command expects
  `private_key` (`commands.rs:7`), so a non-empty list is refused and the refusal
  is swallowed.

## Not modelled

Cryptography is ideal: a key opens what it wrapped and nothing else, and a
signature binds its fields. Names, labels, favourites, formatting, logging,
metrics and HTTP details are left out. `PROJECT.json` lists every component with
its status. Of the modelled components these parts are missing:

- account credentials: registration at the server, the rewriting of email hashes
  during a rolling deploy, and the per-item part of a legacy recovery;
- organization keys: creating and listing organizations;
- vault items: the limit of 32 vaults and two tabs that share one local storage;
- web vault view: filters, sorting, bulk actions;
- desktop client: Touch ID and the SSH agent, which never get a key (see above).

Not modelled at all: the login throttle (counters that only refuse attempts, and
every modelled login may be refused), billing (no model reads a plan), the sync
events and the merge of `sync-engine.ts` (no client calls them), the activity log
(append and display), start-up, configuration and metrics, and the arithmetic of
the cryptographic primitives.

## Plan

Done: the models and runs above, and a theorem for every safety property, action
property and refinement that a run checks. Left, in order of importance:

1. The login throttle as a module of its own, with a proved bound on guesses; the
   server's part of registration with two versions of the hash.
2. Two tabs that share one revision store.
3. A weaker hypothesis: `RotationKeepsItems` with re-signing, as long as no re-sign
   straddles a rotation.

One run stands for one distinct question; where a new component needs one, runs
that refute a claim are dropped before runs that establish one.
