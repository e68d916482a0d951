------------------------------- MODULE CliCommands -------------------------------
(***************************************************************************)
(* The nopwd command line client (apps/cli): commands that run at the same *)
(* time on one machine and share its session file, its .env files and the  *)
(* vault on the server.                                                    *)
(*                                                                         *)
(* A process is one command; its steps are the awaits of the command and   *)
(* the writes another process or a kill can come between.  A line of a     *)
(* .env file is its key and either the secret itself or a reference to a   *)
(* vault item.  The secret that the line <<f, k>> started with is <<f, k>>.*)
(*                                                                         *)
(* Left out: what get and list print, the parsing of .env lines and source *)
(* files (adopt edits no source file), prompts, and the revision store.    *)
(***************************************************************************)
EXTENDS Naturals, Sequences

CONSTANTS
    Proc,         \* processes
    File,         \* .env files of one directory
    Key,          \* variable names
    Extra,        \* item names given with --name
    MaxCommands,  \* bound on the commands started
    None

ASSUME CliAssumption ==
    /\ MaxCommands \in Nat /\ None \notin Key \cup Extra
    /\ None \notin {"adopt", "run", "socket"}

Name   == Key \cup Extra
Secret == File \X Key
Lines  == [Key -> Name \cup {None}]
Item   == [name : Name, value : Secret]

VARIABLES
    session,   \* the token in the session file, if any
    tokens,    \* the tokens that are live on the server
    issued,    \* number of tokens issued
    device,    \* the device id file exists
    vault,     \* the items, in the order the server lists them
    files,     \* per file and key: the name its reference gives, None for the secret
    proc,      \* the processes
    started,   \* number of commands started
    litter,    \* what commands that ended by themselves left on the disk
    raced      \* names adopted while another adopt of the name was past its check

shared == <<session, tokens, issued, device, vault, files>>
vars   == <<shared, proc, started, litter, raced>>

-----------------------------------------------------------------------------
(* State                                                                   *)

Steps == {"idle", "auth", "register", "saveSession", "fetch", "readLine", "save",
          "writeTmp", "rename", "spawn", "listen", "child", "logout", "clear",
          "change", "recover"}

Idle == [cmd |-> None, pc |-> "idle", token |-> None, file |-> None,
         key |-> None, name |-> None, text |-> None, items |-> <<>>,
         tmp |-> FALSE, socket |-> FALSE, child |-> "none", got |-> None,
         known |-> FALSE]

Literal == [k \in Key |-> None]

TypeOK ==
    /\ session \in 1..issued \cup {None} /\ tokens \subseteq 1..issued
    /\ issued \in 0..MaxCommands /\ started \in 0..MaxCommands
    /\ device \in BOOLEAN
    /\ \A j \in DOMAIN vault : vault[j] \in Item
    /\ files \in [File -> Lines]
    /\ \A p \in Proc :
          LET r == proc[p] IN
          /\ r.pc \in Steps /\ r.token \in 1..issued \cup {None}
          /\ r.tmp => r.cmd = "adopt" /\ r.pc = "rename"
          /\ r.socket => r.cmd = "socket" /\ r.pc \in {"listen", "child"}
          /\ (r.child # "none") = (r.pc = "child")
          /\ r.pc \in {"writeTmp", "rename"} =>
                \E j \in DOMAIN vault :
                   vault[j] = [name |-> r.name, value |-> <<r.file, r.key>>]
    /\ raced \subseteq Name

Init ==
    /\ session = None /\ tokens = {} /\ issued = 0 /\ device = FALSE
    /\ vault = <<>> /\ files = [f \in File |-> Literal]
    /\ proc = [p \in Proc |-> Idle] /\ started = 0
    /\ litter = {} /\ raced = {}

\* What a process has on the disk.
OnDisk(r) == (IF r.tmp THEN {"tmp"} ELSE {}) \cup
             (IF r.socket THEN {"socket"} ELSE {})

Becomes(p, r) ==
    /\ proc' = [proc EXCEPT ![p] = r]
    /\ UNCHANGED <<started, litter>>

\* The process exits with r as its last state.
Exits(p, r) ==
    /\ proc' = [proc EXCEPT ![p] = Idle]
    /\ litter' = litter \cup OnDisk(r)
    /\ UNCHANGED started

Starts(p, r) ==
    /\ proc[p].pc = "idle" /\ started < MaxCommands
    /\ started' = started + 1
    /\ proc' = [proc EXCEPT ![p] = r]
    /\ UNCHANGED <<shared, litter, raced>>

-----------------------------------------------------------------------------
(* login, lock, passwd and recover                                         *)

\* loginWithCredentials reads the device id before it asks for the session.
Login(p) == Starts(p, [Idle EXCEPT !.cmd = "login", !.pc = "auth",
                                   !.known = device])

\* loginWithPassword and unlockAccount; a machine without an id registers.  An
\* account that cannot be unlocked ends the command and leaves its session
\* live on the server.
Authenticated(p) ==
    LET r == proc[p] IN
    /\ r.pc = "auth"
    /\ issued' = issued + 1 /\ tokens' = tokens \cup {issued + 1}
    /\ \/ Becomes(p, [r EXCEPT !.token = issued + 1,
                               !.pc = IF r.known THEN "saveSession"
                                      ELSE "register"])
       \/ Exits(p, r)
    /\ UNCHANGED <<session, device, vault, files, raced>>

\* A registration that fails does not keep the vault closed.
Registers(p) ==
    LET r == proc[p] IN
    /\ r.pc = "register"
    /\ device' \in {device, TRUE}
    /\ Becomes(p, [r EXCEPT !.pc = "saveSession"])
    /\ UNCHANGED <<session, tokens, issued, vault, files, raced>>

SavesSession(p) ==
    /\ proc[p].pc = "saveSession"
    /\ session' = proc[p].token
    /\ Exits(p, proc[p])
    /\ UNCHANGED <<tokens, issued, device, vault, files, raced>>

Lock(p) == Starts(p, [Idle EXCEPT !.cmd = "lock", !.token = session,
                        !.pc = IF session = None THEN "clear" ELSE "logout"])

\* Best effort: the token stays live when the request is lost.
LogsOut(p) ==
    LET r == proc[p] IN
    /\ r.pc = "logout"
    /\ tokens' \in {tokens, tokens \ {r.token}}
    /\ Becomes(p, [r EXCEPT !.pc = "clear"])
    /\ UNCHANGED <<session, issued, device, vault, files, raced>>

Clears(p) ==
    /\ proc[p].pc = "clear"
    /\ session' = None
    /\ Exits(p, proc[p])
    /\ UNCHANGED <<tokens, issued, device, vault, files, raced>>

Passwd(p) ==
    /\ session # None
    /\ Starts(p, [Idle EXCEPT !.cmd = "passwd", !.pc = "change",
                              !.token = session])

\* The server ends the other sessions of the account.
ChangesPassword(p) ==
    /\ proc[p].pc = "change" /\ proc[p].token \in tokens
    /\ tokens' = {proc[p].token}
    /\ Exits(p, proc[p])
    /\ UNCHANGED <<session, issued, device, vault, files, raced>>

Recover(p) == Starts(p, [Idle EXCEPT !.cmd = "recover", !.pc = "recover"])

\* The account is recovered, every session ends and the file goes; without the
\* answer the file stays.
Recovers(p) ==
    /\ proc[p].pc = "recover"
    /\ tokens' = {} /\ session' \in {session, None}
    /\ Exits(p, proc[p])
    /\ UNCHANGED <<issued, device, vault, files, raced>>

-----------------------------------------------------------------------------
(* The commands that read the vault                                        *)

\* get and list read the vault and end; withSession refuses without a session.
Get(p) ==
    /\ session # None
    /\ Starts(p, [Idle EXCEPT !.cmd = "get", !.pc = "fetch", !.token = session])

Adopt(p, f, k, n) ==
    /\ session # None /\ n \in {k} \cup Extra
    /\ Starts(p, [Idle EXCEPT !.cmd = "adopt", !.pc = "fetch", !.token = session,
                              !.file = f, !.key = k, !.name = n])

\* run --dotenv reads the file before it asks for the vault.
Run(p, f, cmd) ==
    /\ session # None
    /\ Starts(p, [Idle EXCEPT !.cmd = cmd, !.pc = "fetch", !.token = session,
                              !.file = f, !.text = files[f]])

\* fetchAndDecryptItems
Fetches(p) ==
    LET r == proc[p] IN
    /\ r.pc = "fetch" /\ r.token \in tokens
    /\ IF r.cmd = "get" THEN Exits(p, r)
       ELSE Becomes(p, [r EXCEPT !.items = vault,
                          !.pc = IF r.cmd = "adopt" THEN "readLine" ELSE "spawn"])
    /\ UNCHANGED <<shared, raced>>

\* withSession: a token that is refused ends the session of this machine,
\* whatever the file holds by then.
Unauthorized(p) ==
    /\ proc[p].pc = "fetch" /\ proc[p].token \notin tokens
    /\ session' = None
    /\ Exits(p, proc[p])
    /\ UNCHANGED <<tokens, issued, device, vault, files, raced>>

\* The server is not reached or refuses: the command prints the error and ends.
Fails(p) ==
    /\ proc[p].pc \in {"auth", "change", "recover", "fetch"}
    /\ Exits(p, proc[p])
    /\ UNCHANGED <<shared, raced>>

-----------------------------------------------------------------------------
(* adopt                                                                   *)

\* Mutant: a name that is taken is used again.
AnyName(n, items) == TRUE

\* existingNames, as they were when the vault was fetched.
NameIsFree(n, items) == \A j \in DOMAIN items : items[j].name # n

\* Mutant: the line is rewritten before the item is saved.
RewritesFirst(r) == [files EXCEPT ![r.file][r.key] = r.name]

\* The file stays as it is until the item is saved.
SavesFirst(r) == files

\* The line must hold the secret itself.
ReadsLine(p) ==
    LET r == proc[p] IN
    /\ r.pc = "readLine"
    /\ IF files[r.file][r.key] = None /\ NameIsFree(r.name, r.items)
       THEN /\ files' = SavesFirst(r)
            /\ Becomes(p, [r EXCEPT !.pc = "save", !.text = files[r.file],
                                    !.items = <<>>])
       ELSE UNCHANGED files /\ Exits(p, r)
    /\ UNCHANGED <<session, tokens, issued, device, vault, raced>>

\* createItem; the command ends if only the answer is lost.
Saves(p) ==
    LET r == proc[p] IN
    /\ r.pc = "save" /\ r.token \in tokens
    /\ vault' = Append(vault, [name |-> r.name, value |-> <<r.file, r.key>>])
    /\ raced' = raced \cup
         (IF \E q \in Proc \ {p} :
                proc[q].pc \in {"readLine", "save"} /\ proc[q].name = r.name
          THEN {r.name} ELSE {})
    /\ Becomes(p, [r EXCEPT !.pc = "writeTmp"]) \/ Exits(p, r)
    /\ UNCHANGED <<session, tokens, issued, device, files>>

\* A refused token does not end the session here: adopt reports every error of
\* the save itself.
SaveFails(p) ==
    /\ proc[p].pc = "save"
    /\ Exits(p, proc[p])
    /\ UNCHANGED <<shared, raced>>

\* The temporary file holds every other line as it was read.
WritesTmp(p) ==
    LET r == proc[p] IN
    /\ r.pc = "writeTmp"
    /\ \/ Becomes(p, [r EXCEPT !.pc = "rename", !.tmp = TRUE])
       \/ Exits(p, r)
    /\ UNCHANGED <<shared, raced>>

\* catch { unlinkSync(tmp) }
Unlinked(r) == [r EXCEPT !.tmp = FALSE]

Renames(p) ==
    LET r == proc[p] IN
    /\ r.pc = "rename"
    /\ files' = [files EXCEPT ![r.file] = [r.text EXCEPT ![r.key] = r.name]]
    /\ Exits(p, [r EXCEPT !.tmp = FALSE])
    /\ UNCHANGED <<session, tokens, issued, device, vault, raced>>

RenameFails(p) ==
    /\ proc[p].pc = "rename"
    /\ Exits(p, Unlinked(proc[p]))
    /\ UNCHANGED <<shared, raced>>

-----------------------------------------------------------------------------
(* run                                                                     *)

\* resolveReference: the first item of the name; None if there is none.
Resolve(items, n) ==
    LET at == {j \in DOMAIN items : items[j].name = n}
    IN IF at = {} THEN None
       ELSE items[CHOOSE j \in at : \A i \in at : j <= i].value

\* resolveSecretRefs: what the child finds in its environment.
Environment(f, text, items) ==
    [k \in Key |-> IF text[k] = None THEN <<f, k>> ELSE Resolve(items, text[k])]

Spawns(p) ==
    LET r == proc[p] IN
    /\ r.pc = "spawn"
    /\ IF r.cmd = "run"
       THEN Becomes(p, [r EXCEPT !.pc = "child", !.child = "up",
                          !.got = Environment(r.file, r.text, r.items)])
       ELSE Becomes(p, [r EXCEPT !.pc = "listen", !.socket = TRUE])
    /\ UNCHANGED <<shared, raced>>

\* The secrets stay with nopwd, and the signal handlers are installed.
Listens(p) ==
    LET r == proc[p] IN
    /\ r.pc = "listen"
    /\ Becomes(p, [r EXCEPT !.pc = "child", !.child = "up"])
    /\ UNCHANGED <<shared, raced>>

\* cleanup: the directory of the socket.
CleanedUp(r) == [r EXCEPT !.socket = FALSE]

\* Mutant: the server keeps the process alive after its child.
ServesOn(p) ==
    /\ proc[p].pc = "child" /\ proc[p].child # "gone"
    /\ Becomes(p, [proc[p] EXCEPT !.child = "gone"])
    /\ UNCHANGED <<shared, raced>>

\* The child has ended, or could not be started.
ChildEnds(p) ==
    /\ proc[p].pc = "child"
    /\ Exits(p, CleanedUp(proc[p]))
    /\ UNCHANGED <<shared, raced>>

\* Mutant: the signal ends nopwd and leaves its child.
NeverForwards(r) == FALSE

\* SIGINT and SIGTERM are handled once the socket is served.
Forwards(r) == r.cmd = "socket" /\ r.pc = "child"

\* Elsewhere the signal ends the process where it is; between mkdtemp and the
\* handlers that leaves the directory, as a kill does.
Signal(p) ==
    LET r == proc[p] IN
    /\ r.pc # "idle"
    /\ \/ /\ Forwards(r) /\ r.child = "up"
          /\ Becomes(p, [r EXCEPT !.child = "signalled"])
       \/ /\ ~Forwards(r)
          /\ Exits(p, [r EXCEPT !.tmp = FALSE, !.socket = @ /\ r.pc = "child"])
    /\ UNCHANGED <<shared, raced>>

\* SIGKILL or a power cut; what it leaves on the disk is nobody's fault.
Kill(p) ==
    LET r == proc[p] IN
    /\ r.pc # "idle"
    /\ Exits(p, [r EXCEPT !.tmp = FALSE, !.socket = FALSE])
    /\ UNCHANGED <<shared, raced>>

Answered(p) ==
    \/ Authenticated(p) \/ Registers(p) \/ SavesSession(p)
    \/ LogsOut(p) \/ Clears(p) \/ ChangesPassword(p) \/ Recovers(p)
    \/ Fetches(p) \/ Unauthorized(p) \/ Fails(p)
    \/ ReadsLine(p) \/ Saves(p) \/ SaveFails(p)
    \/ WritesTmp(p) \/ Renames(p) \/ RenameFails(p)
    \/ Spawns(p) \/ Listens(p)

Next ==
    \E p \in Proc :
       \/ Login(p) \/ Lock(p) \/ Passwd(p) \/ Recover(p) \/ Get(p)
       \/ \E f \in File, k \in Key, n \in Name : Adopt(p, f, k, n)
       \/ \E f \in File, cmd \in {"run", "socket"} : Run(p, f, cmd)
       \/ Answered(p) \/ ChildEnds(p) \/ Signal(p) \/ Kill(p)

Spec == Init /\ [][Next]_vars

\* Requests are answered or fail, and a child that is signalled ends; a child
\* that is not may run for ever.
Fairness ==
    \A p \in Proc :
       /\ WF_vars(Answered(p))
       /\ WF_vars(proc[p].child = "signalled" /\ ChildEnds(p))

FairSpec == Spec /\ Fairness

-----------------------------------------------------------------------------
(* Properties                                                              *)

\* A reference in a file leads to the secret it replaced, wherever adopt was
\* stopped or lost its answer and whatever other commands did meanwhile, unless
\* two adopts of one name overlapped: the vault allows a name twice.
RefsResolve ==
    \A f \in File, k \in Key :
       LET n == files[f][k]
       IN n = None \/ n \in raced \/ Resolve(vault, n) = <<f, k>>

\* A child started by run --dotenv has for each variable the secret its line
\* had before anybody adopted it, also when an adopt of that line was between
\* two of its steps while run read the file and the vault.
ChildGetsSecrets ==
    \A p \in Proc :
       LET r == proc[p]
       IN r.cmd = "run" /\ r.child # "none" =>
             \A k \in Key : r.got[k] = <<r.file, k>> \/ r.text[k] \in raced

\* No command that ends by itself, or by a signal while it serves the socket,
\* leaves a copy of the file or the secrets socket on the disk.
NothingLeftBehind == litter = {}

\* Every command ends, unless it waits for a child that nobody has signalled.
CommandsEnd ==
    \A p \in Proc :
       (proc[p].pc # "idle") ~> (proc[p].pc = "idle" \/ proc[p].child = "up")

=============================================================================
