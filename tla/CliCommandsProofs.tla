---------------------------- MODULE CliCommandsProofs ----------------------------
(***************************************************************************)
(* Proofs about CliCommands, for any processes, files, keys, names and     *)
(* number of commands.                                                     *)
(***************************************************************************)
EXTENDS CliCommands, FiniteSetTheorems, TLAPS

-----------------------------------------------------------------------------
(* The invariant.                                                          *)

\* What a child can find in its environment.
Env == {Environment(f, t, i) : f \in File, t \in Lines, i \in Seq(Item)}

Cmd == {"login", "lock", "passwd", "recover", "get", "adopt", "run", "socket"}

Process ==
    [cmd : Cmd \cup {None}, pc : Steps, token : Nat \cup {None},
     file : File \cup {None}, key : Key \cup {None}, name : Name \cup {None},
     text : Lines \cup {None}, items : Seq(Item), tmp : BOOLEAN, socket : BOOLEAN,
     child : {"none", "up", "signalled"}, got : Env \cup {None}, known : BOOLEAN]

\* The name is given to one item of the list, and that item holds the secret.
Leads(items, n, secret) ==
    \E j \in DOMAIN items :
       /\ items[j].value = secret
       /\ \A i \in DOMAIN items : items[i].name = n <=> i = j

\* Every reference in the text of a file leads to what it replaced.
TextOk(text, f, items, race) ==
    \A k \in Key : text[k] = None \/ text[k] \in race \/ Leads(items, text[k], <<f, k>>)

\* A process has on the disk only what it removes later on.
DiskOk(r) ==
    /\ r.tmp => r.pc = "rename"
    /\ r.socket => r.cmd = "socket" /\ r.pc \in {"listen", "child"}
    /\ r.child # "none" => r.pc = "child"

\* What an adopt relies on: the name it found free still is, unless it raced.
AdoptOk(r, items, race) ==
    /\ r.cmd = "adopt" => r.file \in File /\ r.key \in Key /\ r.name \in Name
    /\ r.pc \in {"readLine", "save", "writeTmp", "rename"} => r.cmd = "adopt"
    /\ r.pc = "readLine" /\ NameIsFree(r.name, r.items) =>
          r.name \in race \/ NameIsFree(r.name, items)
    /\ r.pc = "save" => r.name \in race \/ NameIsFree(r.name, items)
    /\ r.pc \in {"writeTmp", "rename"} =>
          r.name \in race \/ Leads(items, r.name, <<r.file, r.key>>)
    /\ r.pc \in {"save", "writeTmp", "rename"} =>
          r.text \in Lines /\ TextOk(r.text, r.file, items, race)

\* What run relies on: the text was read before the vault.
RunOk(r, items, race) ==
    /\ r.cmd \in {"run", "socket"} => r.file \in File /\ r.text \in Lines
    /\ r.pc = "spawn" => r.cmd \in {"run", "socket"}
    /\ r.cmd \in {"run", "socket"} /\ r.pc = "fetch" => TextOk(r.text, r.file, items, race)
    /\ r.pc = "spawn" => TextOk(r.text, r.file, r.items, race)
    /\ r.cmd = "run" /\ r.pc = "child" =>
          \A k \in Key : r.got[k] = <<r.file, k>> \/ r.text[k] \in race
    /\ r.pc = "listen" => r.cmd = "socket"
    /\ r.pc = "fetch" => r.cmd \in {"get", "adopt", "run", "socket"}

ProcOk(r, items, race) == DiskOk(r) /\ AdoptOk(r, items, race) /\ RunOk(r, items, race)

StateInv ==
    /\ session \in Nat \cup {None} /\ issued \in Nat /\ device \in BOOLEAN
    /\ vault \in Seq(Item) /\ files \in [File -> Lines] /\ raced \subseteq Name
    /\ proc \in [Proc -> Process]

Inv == /\ StateInv
       /\ \A f \in File : TextOk(files[f], f, vault, raced)
       /\ \A p \in Proc : ProcOk(proc[p], vault, raced)
       /\ NothingLeftBehind

LEMMA IdleType ==
  /\ Idle \in Process /\ Idle.pc = "idle" /\ Idle.child = "none"
  /\ ~Idle.tmp /\ ~Idle.socket /\ Idle.items = <<>>
  <1>1. << >> \in Seq(Item)
    OBVIOUS
  <1>2. "idle" \in Steps
    BY DEF Steps
  <1>3. QED
    BY <1>1, <1>2, Zenon DEF Idle, Process

LEMMA IdleOk ==
  ASSUME NEW items, NEW race
  PROVE  ProcOk(Idle, items, race)
  <1>1. Idle.cmd \notin {"adopt", "run", "socket"}
    BY CliAssumption DEF Idle
  <1>2. QED
    BY <1>1, IdleType DEF ProcOk, DiskOk, AdoptOk, RunOk

LEMMA InitInv == Init => Inv
  <1> SUFFICES ASSUME Init PROVE Inv
    OBVIOUS
  <1>1. /\ session \in Nat \cup {None} /\ issued \in Nat /\ vault \in Seq(Item)
        /\ raced \subseteq Name
    BY DEF Init
  <1>2. device \in BOOLEAN /\ NothingLeftBehind
    BY Zenon DEF Init, NothingLeftBehind
  <1>3. Literal \in Lines /\ \A k \in Key : Literal[k] = None
    BY DEF Literal, Lines
  <1>4. files \in [File -> Lines] /\ \A f \in File : files[f] = Literal
    BY <1>3 DEF Init
  <1>5. proc \in [Proc -> Process] /\ \A p \in Proc : proc[p] = Idle
    BY IdleType DEF Init
  <1>6. \A f \in File : TextOk(files[f], f, vault, raced)
    BY <1>3, <1>4 DEF TextOk
  <1>7. QED
    BY <1>1, <1>2, <1>4, <1>5, <1>6, IdleOk DEF Inv, StateInv

\* Steps of one process that leave the vault, the files and the races alone.
LEMMA QuietStep ==
  ASSUME Inv, NEW p \in Proc, NEW r \in Process, ProcOk(r, vault, raced),
         proc' = [proc EXCEPT ![p] = r], UNCHANGED <<vault, files, raced, litter>>,
         session' \in Nat \cup {None}, issued' \in Nat, device' \in BOOLEAN
  PROVE  Inv'
  <1>1. /\ proc' \in [Proc -> Process]
        /\ \A q \in Proc : proc'[q] = IF q = p THEN r ELSE proc[q]
    BY DEF Inv, StateInv
  <1>2. \A q \in Proc : ProcOk(proc'[q], vault, raced)
    BY <1>1 DEF Inv
  <1>3. StateInv'
    BY <1>1 DEF Inv, StateInv
  <1>4. \A q \in Proc : ProcOk(proc'[q], vault', raced')
    BY <1>2
  <1>5. \A f \in File : TextOk(files'[f], f, vault', raced')
    BY DEF Inv
  <1>6. NothingLeftBehind'
    BY DEF Inv, NothingLeftBehind
  <1> USE DEF Inv
  <1>7. QED
    BY <1>3, <1>4, <1>5, <1>6 DEF ProcOk, DiskOk, AdoptOk, RunOk, TextOk, Leads, NameIsFree

\* What a process has on the disk away from the steps that put it there.
LEMMA NothingOnDisk ==
  ASSUME NEW r, ~r.tmp, ~r.socket
  PROVE  OnDisk(r) = {}
  BY DEF OnDisk

LEMMA ProcDisk ==
  ASSUME Inv, NEW p \in Proc, proc[p].pc \notin {"rename", "listen", "child"}
  PROVE  OnDisk(proc[p]) = {}
  <1>1. ~proc[p].tmp /\ ~proc[p].socket
    BY DEF Inv, ProcOk, DiskOk
  <1>2. QED
    BY <1>1, NothingOnDisk

LEMMA ExitStep ==
  ASSUME Inv, NEW p \in Proc, NEW r, Exits(p, r), OnDisk(r) = {},
         UNCHANGED <<vault, files, raced>>,
         session' \in Nat \cup {None}, issued' \in Nat, device' \in BOOLEAN
  PROVE  Inv'
  <1>1. proc' = [proc EXCEPT ![p] = Idle] /\ litter' = litter
    BY DEF Exits
  <1>2. QED
    BY <1>1, IdleType, IdleOk, QuietStep

\* The vault has grown, and what the others rely on still holds.
LEMMA LeadsStays ==
  ASSUME NEW items \in Seq(Item), NEW new \in Item, NEW n \in Name, NEW secret,
         Leads(items, n, secret), new.name # n
  PROVE  Leads(Append(items, new), n, secret)
  <1>1. PICK j \in DOMAIN items : /\ items[j].value = secret
                                  /\ \A i \in DOMAIN items : items[i].name = n <=> i = j
    BY DEF Leads
  <1> DEFINE more == Append(items, new)
  <1>2. /\ DOMAIN items = 1..Len(items) /\ Len(items) \in Nat
        /\ DOMAIN more = 1..(Len(items) + 1)
        /\ more[Len(items) + 1] = new
        /\ \A i \in 1..Len(items) : more[i] = items[i]
    OBVIOUS
  <1> HIDE DEF more
  <1>3. j \in DOMAIN more /\ more[j].value = secret
    BY <1>1, <1>2
  <1>4. \A i \in DOMAIN more : more[i].name = n <=> i = j
    BY <1>1, <1>2
  <1>5. QED
    BY <1>3, <1>4 DEF Leads, more

LEMMA FreeStays ==
  ASSUME NEW items \in Seq(Item), NEW new \in Item, NEW n, NameIsFree(n, items), new.name # n
  PROVE  NameIsFree(n, Append(items, new))
  BY DEF NameIsFree

LEMMA FreeLeads ==
  ASSUME NEW items \in Seq(Item), NEW new \in Item, NameIsFree(new.name, items)
  PROVE  Leads(Append(items, new), new.name, new.value)
  <1> DEFINE more == Append(items, new)
  <1>2. /\ DOMAIN items = 1..Len(items) /\ Len(items) \in Nat
        /\ DOMAIN more = 1..(Len(items) + 1)
        /\ more[Len(items) + 1] = new
        /\ \A i \in 1..Len(items) : more[i] = items[i]
    OBVIOUS
  <1> HIDE DEF more
  <1>3. \A i \in DOMAIN more : more[i].name = new.name <=> i = Len(items) + 1
    BY <1>2 DEF NameIsFree
  <1>4. QED
    BY <1>2, <1>3 DEF Leads, more

\* A name that leads somewhere is not free.
LEMMA LeadsNotFree ==
  ASSUME NEW items, NEW n, NEW secret, Leads(items, n, secret)
  PROVE  ~NameIsFree(n, items)
  BY DEF Leads, NameIsFree

\* The first item of a name that leads somewhere is the one it leads to.
LEMMA LeadsResolves ==
  ASSUME NEW items \in Seq(Item), NEW n, NEW secret, Leads(items, n, secret)
  PROVE  Resolve(items, n) = secret
  <1>1. PICK j \in DOMAIN items : /\ items[j].value = secret
                                  /\ \A i \in DOMAIN items : items[i].name = n <=> i = j
    BY DEF Leads
  <1>2. {i \in DOMAIN items : items[i].name = n} = {j}
    BY <1>1
  <1>3. j \in Nat
    BY <1>1
  <1>4. (CHOOSE i \in {j} : \A k \in {j} : i <= k) = j
    BY <1>3
  <1>5. QED
    BY <1>1, <1>2, <1>4 DEF Resolve

-----------------------------------------------------------------------------
(* Commands start.                                                         *)

LEMMA StartsStep ==
  ASSUME Inv, NEW p \in Proc, NEW r \in Process, ProcOk(r, vault, raced), Starts(p, r)
  PROVE  Inv'
  <1>1. /\ proc' = [proc EXCEPT ![p] = r] /\ UNCHANGED <<vault, files, raced, litter>>
        /\ UNCHANGED <<session, issued, device>>
    BY DEF Starts, shared
  <1>2. session' \in Nat \cup {None} /\ issued' \in Nat /\ device' \in BOOLEAN
    BY <1>1 DEF Inv, StateInv
  <1>3. QED
    BY <1>1, <1>2, QuietStep

\* login, lock, passwd, recover and get carry no file.
LEMMA PlainStarts ==
  ASSUME Inv, NEW p \in Proc, Login(p) \/ Lock(p) \/ Passwd(p) \/ Recover(p) \/ Get(p)
  PROVE  Inv'
  <1> DEFINE Plain(r) == /\ r \in Process /\ r.cmd \notin {"adopt", "run", "socket"}
                         /\ r.pc \in {"auth", "clear", "logout", "change", "recover", "fetch"}
                         /\ r.pc = "fetch" => r.cmd = "get"
                         /\ ~r.tmp /\ ~r.socket /\ r.child = "none"
  <1>1. ASSUME NEW r, Plain(r), Starts(p, r)
        PROVE  Inv'
    <2>1. ProcOk(r, vault, raced)
      BY <1>1 DEF ProcOk, DiskOk, AdoptOk, RunOk
    <2>2. QED
      BY <1>1, <2>1, StartsStep
  <1>2. session \in Nat \cup {None} /\ device \in BOOLEAN
    BY DEF Inv, StateInv
  <1>3. CASE Login(p)
    <2> DEFINE r == [Idle EXCEPT !.cmd = "login", !.pc = "auth", !.known = device]
    <2>1. "login" \in Cmd /\ "auth" \in Steps
      BY DEF Cmd, Steps
    <2>2. r \in Process
      BY <1>2, <2>1, IdleType DEF Process
    <2>3. /\ r.cmd = "login" /\ r.pc = "auth" /\ r.tmp = Idle.tmp /\ r.socket = Idle.socket
          /\ r.child = Idle.child
      BY <2>2, IdleType DEF Process
    <2>4. Starts(p, r)
      BY <1>3 DEF Login
    <2> HIDE DEF r
    <2>5. QED
      BY <1>1, <2>2, <2>3, <2>4, IdleType
  <1>4. CASE Lock(p)
    <2> DEFINE at == IF session = None THEN "clear" ELSE "logout"
               r == [Idle EXCEPT !.cmd = "lock", !.token = session, !.pc = at]
    <2>1. at \in {"clear", "logout"}
      OBVIOUS
    <2>2. Starts(p, r)
      BY <1>4 DEF Lock
    <2> HIDE DEF at
    <2>3. "lock" \in Cmd /\ at \in Steps
      BY <2>1 DEF Cmd, Steps
    <2>4. r \in Process
      BY <1>2, <2>3, IdleType DEF Process
    <2>5. /\ r.cmd = "lock" /\ r.pc = at /\ r.tmp = Idle.tmp /\ r.socket = Idle.socket
          /\ r.child = Idle.child
      BY <2>4, IdleType DEF Process
    <2> HIDE DEF r
    <2>6. QED
      BY <1>1, <2>1, <2>2, <2>4, <2>5, IdleType
  <1>5. CASE Passwd(p)
    <2> DEFINE r == [Idle EXCEPT !.cmd = "passwd", !.pc = "change", !.token = session]
    <2>1. "passwd" \in Cmd /\ "change" \in Steps
      BY DEF Cmd, Steps
    <2>2. r \in Process
      BY <1>2, <2>1, IdleType DEF Process
    <2>3. /\ r.cmd = "passwd" /\ r.pc = "change" /\ r.tmp = Idle.tmp /\ r.socket = Idle.socket
          /\ r.child = Idle.child
      BY <2>2, IdleType DEF Process
    <2>4. Starts(p, r)
      BY <1>5 DEF Passwd
    <2> HIDE DEF r
    <2>5. QED
      BY <1>1, <2>2, <2>3, <2>4, IdleType
  <1>6. CASE Recover(p)
    <2> DEFINE r == [Idle EXCEPT !.cmd = "recover", !.pc = "recover"]
    <2>1. "recover" \in Cmd /\ "recover" \in Steps
      BY DEF Cmd, Steps
    <2>2. r \in Process
      BY <1>2, <2>1, IdleType DEF Process
    <2>3. /\ r.cmd = "recover" /\ r.pc = "recover" /\ r.tmp = Idle.tmp /\ r.socket = Idle.socket
          /\ r.child = Idle.child
      BY <2>2, IdleType DEF Process
    <2>4. Starts(p, r)
      BY <1>6 DEF Recover
    <2> HIDE DEF r
    <2>5. QED
      BY <1>1, <2>2, <2>3, <2>4, IdleType
  <1>7. CASE Get(p)
    <2> DEFINE r == [Idle EXCEPT !.cmd = "get", !.pc = "fetch", !.token = session]
    <2>1. "get" \in Cmd /\ "fetch" \in Steps
      BY DEF Cmd, Steps
    <2>2. r \in Process
      BY <1>2, <2>1, IdleType DEF Process
    <2>3. /\ r.cmd = "get" /\ r.pc = "fetch" /\ r.tmp = Idle.tmp /\ r.socket = Idle.socket
          /\ r.child = Idle.child
      BY <2>2, IdleType DEF Process
    <2>4. Starts(p, r)
      BY <1>7 DEF Get
    <2> HIDE DEF r
    <2>5. QED
      BY <1>1, <2>2, <2>3, <2>4, IdleType
  <1>8. QED
    BY <1>3, <1>4, <1>5, <1>6, <1>7

LEMMA AdoptStep ==
  ASSUME Inv, NEW p \in Proc, NEW f \in File, NEW k \in Key, NEW n \in Name, Adopt(p, f, k, n)
  PROVE  Inv'
  <1> DEFINE r == [Idle EXCEPT !.cmd = "adopt", !.pc = "fetch", !.token = session,
                               !.file = f, !.key = k, !.name = n]
  <1>1. session \in Nat \cup {None}
    BY DEF Inv, StateInv
  <1>2. /\ r \in Process /\ r.cmd = "adopt" /\ r.pc = "fetch" /\ r.file = f /\ r.key = k
        /\ r.name = n /\ ~r.tmp /\ ~r.socket /\ r.child = "none"
    <2>1. "adopt" \in Cmd /\ "fetch" \in Steps
      BY DEF Cmd, Steps
    <2>2. r \in Process
      BY <1>1, <2>1, IdleType DEF Process
    <2>3. /\ r.cmd = "adopt" /\ r.pc = "fetch" /\ r.file = f /\ r.key = k
          /\ r.name = n /\ r.tmp = Idle.tmp /\ r.socket = Idle.socket
          /\ r.child = Idle.child
      BY <2>2, IdleType DEF Process
    <2>4. QED
      BY <2>2, <2>3, IdleType
  <1>3. Starts(p, r)
    BY DEF Adopt
  <1> HIDE DEF r
  <1>4. ProcOk(r, vault, raced)
    BY <1>2 DEF ProcOk, DiskOk, AdoptOk, RunOk
  <1>5. QED
    BY <1>2, <1>3, <1>4, StartsStep

\* run takes the references of the file as they are.
LEMMA RunStep ==
  ASSUME Inv, NEW p \in Proc, NEW f \in File, NEW cmd \in {"run", "socket"}, Run(p, f, cmd)
  PROVE  Inv'
  <1> DEFINE r == [Idle EXCEPT !.cmd = cmd, !.pc = "fetch", !.token = session,
                               !.file = f, !.text = files[f]]
  <1>1. session \in Nat \cup {None} /\ files[f] \in Lines /\ cmd \in Cmd
    BY DEF Inv, StateInv, Cmd
  <1>2. /\ r \in Process /\ r.cmd = cmd /\ r.pc = "fetch" /\ r.file = f /\ r.text = files[f]
        /\ ~r.tmp /\ ~r.socket /\ r.child = "none"
    <2>1. "fetch" \in Steps
      BY DEF Steps
    <2>2. r \in Process
      BY <1>1, <2>1, IdleType DEF Process
    <2>3. /\ r.cmd = cmd /\ r.pc = "fetch" /\ r.file = f /\ r.text = files[f]
          /\ r.tmp = Idle.tmp /\ r.socket = Idle.socket /\ r.child = Idle.child
      BY <2>2, IdleType DEF Process
    <2>4. QED
      BY <2>2, <2>3, IdleType
  <1>3. Starts(p, r)
    BY DEF Run
  <1>4. TextOk(files[f], f, vault, raced)
    BY DEF Inv
  <1> HIDE DEF r
  <1>5. ProcOk(r, vault, raced)
    BY <1>1, <1>2, <1>4 DEF ProcOk, DiskOk, AdoptOk, RunOk
  <1>6. QED
    BY <1>2, <1>3, <1>5, StartsStep

-----------------------------------------------------------------------------
(* Commands go on.                                                         *)

LEMMA BecomesStep ==
  ASSUME Inv, NEW p \in Proc, NEW r \in Process, ProcOk(r, vault, raced), Becomes(p, r),
         UNCHANGED <<vault, files, raced>>,
         session' \in Nat \cup {None}, issued' \in Nat, device' \in BOOLEAN
  PROVE  Inv'
  BY QuietStep DEF Becomes

\* A command that only moves to its next step, or gets a token.
LEMMA MovesOn ==
  ASSUME NEW r \in Process, NEW items, NEW race, ProcOk(r, items, race),
         NEW at \in {"saveSession", "register", "clear"}, NEW token \in Nat \cup {None},
         r.pc \in {"auth", "register", "logout"}
  PROVE  LET s == [r EXCEPT !.token = token, !.pc = at]
         IN  s \in Process /\ ProcOk(s, items, race)
  <1> DEFINE s == [r EXCEPT !.token = token, !.pc = at]
  <1>1. /\ s \in Process /\ s.pc = at /\ s.cmd = r.cmd /\ s.file = r.file /\ s.key = r.key
        /\ s.name = r.name /\ s.text = r.text /\ s.tmp = r.tmp /\ s.socket = r.socket
        /\ s.child = r.child
    <2>1. at \in Steps
      BY DEF Steps
    <2>2. s \in Process
      BY <2>1 DEF Process
    <2>3. QED
      BY <2>2 DEF Process
  <1>2. ~r.tmp /\ ~r.socket /\ r.child = "none"
    BY DEF ProcOk, DiskOk
  <1> HIDE DEF s
  <1>3. ProcOk(s, items, race)
    BY <1>1, <1>2 DEF ProcOk, DiskOk, AdoptOk, RunOk
  <1>4. QED
    BY <1>1, <1>3 DEF s

LEMMA AuthenticatedStep ==
  ASSUME Inv, NEW p \in Proc, Authenticated(p)
  PROVE  Inv'
  <1> DEFINE r == proc[p]
             at == IF r.known THEN "saveSession" ELSE "register"
  <1>1. /\ r.pc = "auth" /\ issued' = issued + 1
        /\ UNCHANGED <<session, device, vault, files, raced>>
        /\ \/ Becomes(p, [r EXCEPT !.token = issued + 1, !.pc = at])
           \/ Exits(p, r)
    BY DEF Authenticated
  <1>2. /\ session' \in Nat \cup {None} /\ issued' \in Nat /\ device' \in BOOLEAN
        /\ issued + 1 \in Nat \cup {None}
    BY <1>1 DEF Inv, StateInv
  <1>3. at \in {"saveSession", "register", "clear"}
    OBVIOUS
  <1>4. r \in Process /\ ProcOk(r, vault, raced)
    BY DEF Inv, StateInv
  <1> HIDE DEF at
  <1>5. CASE Becomes(p, [r EXCEPT !.token = issued + 1, !.pc = at])
    BY <1>1, <1>2, <1>3, <1>4, <1>5, MovesOn, BecomesStep
  <1>6. CASE Exits(p, r)
    BY <1>1, <1>2, <1>6, ProcDisk, ExitStep
  <1>7. QED
    BY <1>1, <1>5, <1>6

LEMMA RegistersStep ==
  ASSUME Inv, NEW p \in Proc, Registers(p) \/ LogsOut(p)
  PROVE  Inv'
  <1> DEFINE r == proc[p]
  <1>1. /\ r.pc \in {"register", "logout"}
        /\ UNCHANGED <<session, issued, vault, files, raced>>
        /\ \E at \in {"saveSession", "clear"} : Becomes(p, [r EXCEPT !.pc = at])
    BY DEF Registers, LogsOut
  <1>2. device' \in BOOLEAN
    BY Zenon DEF Registers, LogsOut, Inv, StateInv
  <1>3. PICK at \in {"saveSession", "clear"} : Becomes(p, [r EXCEPT !.pc = at])
    BY <1>1
  <1>4. r \in Process /\ ProcOk(r, vault, raced) /\ r.token \in Nat \cup {None}
    BY DEF Inv, StateInv, Process
  <1>5. [r EXCEPT !.pc = at] = [r EXCEPT !.token = r.token, !.pc = at]
    BY <1>4 DEF Process
  <1>6. session' \in Nat \cup {None} /\ issued' \in Nat
    BY <1>1 DEF Inv, StateInv
  <1>7. QED
    BY <1>1, <1>2, <1>3, <1>4, <1>5, <1>6, MovesOn, BecomesStep

\* Commands that end, with nothing of theirs on the disk.
LEMMA EndStep ==
  ASSUME Inv, NEW p \in Proc,
         \/ SavesSession(p) \/ Clears(p) \/ ChangesPassword(p) \/ Recovers(p)
         \/ Unauthorized(p) \/ Fails(p) \/ SaveFails(p)
  PROVE  Inv'
  <1>1. /\ Exits(p, proc[p]) /\ UNCHANGED <<issued, device, vault, files, raced>>
        /\ proc[p].pc \notin {"rename", "listen", "child"}
    BY DEF SavesSession, Clears, ChangesPassword, Recovers, Unauthorized, Fails, SaveFails,
       shared
  <1>2. session' \in {session, None, proc[p].token}
    BY DEF SavesSession, Clears, ChangesPassword, Recovers, Unauthorized, Fails, SaveFails,
       shared
  <1>3. session' \in Nat \cup {None} /\ issued' \in Nat /\ device' \in BOOLEAN
    BY <1>1, <1>2 DEF Inv, StateInv, Process
  <1>4. QED
    BY <1>1, <1>3, ProcDisk, ExitStep

LEMMA FetchedType ==
  ASSUME NEW r \in Process, NEW at \in Steps, NEW items \in Seq(Item)
  PROVE  [r EXCEPT !.items = items, !.pc = at] \in Process
  BY DEF Process

LEMMA FetchesStep ==
  ASSUME Inv, NEW p \in Proc, Fetches(p)
  PROVE  Inv'
  <1> DEFINE r == proc[p]
             at == IF r.cmd = "adopt" THEN "readLine" ELSE "spawn"
             s == [r EXCEPT !.items = vault, !.pc = at]
  <1>1. /\ r.pc = "fetch" /\ UNCHANGED <<session, issued, device, vault, files, raced>>
        /\ IF r.cmd = "get" THEN Exits(p, r) ELSE Becomes(p, s)
    BY DEF Fetches, shared
  <1>2. session' \in Nat \cup {None} /\ issued' \in Nat /\ device' \in BOOLEAN
    BY <1>1 DEF Inv, StateInv
  <1>3. CASE r.cmd = "get"
    BY <1>1, <1>2, <1>3, ProcDisk, ExitStep
  <1>4. CASE r.cmd # "get"
    <2>1. at \in Steps
      BY DEF Steps
    <2>2. /\ r \in Process /\ vault \in Seq(Item) /\ ProcOk(r, vault, raced)
          /\ at = IF r.cmd = "adopt" THEN "readLine" ELSE "spawn"
      BY DEF Inv, StateInv
    <2> HIDE DEF at
    <2>3. s \in Process
      BY <2>1, <2>2, FetchedType
    <2>4. /\ s.pc = at /\ s.items = vault /\ s.cmd = r.cmd /\ s.file = r.file /\ s.key = r.key
          /\ s.name = r.name /\ s.text = r.text /\ s.tmp = r.tmp /\ s.socket = r.socket
          /\ s.child = r.child
      BY <2>2, <2>3 DEF Process
    <2>5. Becomes(p, s)
      BY <1>1, <1>4
    <2> HIDE DEF s
    <2>6. r.cmd \in {"adopt", "run", "socket"} /\ ~r.tmp /\ ~r.socket /\ r.child = "none"
      BY <1>1, <1>4, <2>2 DEF ProcOk, DiskOk, RunOk
    <2>7. DiskOk(s)
      BY <2>4, <2>6 DEF DiskOk
    <2>8. AdoptOk(s, vault, raced) /\ RunOk(s, vault, raced)
      <3>1. CASE r.cmd = "adopt"
        BY <2>2, <2>4, <3>1 DEF ProcOk, AdoptOk, RunOk
      <3>2. CASE r.cmd \in {"run", "socket"}
        <4>1. TextOk(r.text, r.file, vault, raced) /\ r.file \in File /\ r.text \in Lines
          BY <1>1, <2>2, <3>2 DEF ProcOk, RunOk
        <4>2. QED
          BY <2>2, <2>4, <3>2, <4>1 DEF AdoptOk, RunOk
      <3>3. QED
        BY <2>6, <3>1, <3>2
    <2>9. QED
      BY <1>1, <1>2, <2>3, <2>5, <2>7, <2>8, BecomesStep DEF ProcOk
  <1>5. QED
    BY <1>3, <1>4

LEMMA ReadsLineStep ==
  ASSUME Inv, NEW p \in Proc, ReadsLine(p)
  PROVE  Inv'
  <1> DEFINE r == proc[p]
             s == [r EXCEPT !.pc = "save", !.text = files[r.file], !.items = <<>>]
  <1>1. /\ r.pc = "readLine" /\ UNCHANGED <<session, issued, device, vault, files, raced>>
        /\ \/ NameIsFree(r.name, r.items) /\ Becomes(p, s)
           \/ Exits(p, r)
    BY DEF ReadsLine, SavesFirst
  <1>2. session' \in Nat \cup {None} /\ issued' \in Nat /\ device' \in BOOLEAN
    BY <1>1 DEF Inv, StateInv
  <1>3. CASE Exits(p, r)
    BY <1>1, <1>2, <1>3, ProcDisk, ExitStep
  <1>4. CASE NameIsFree(r.name, r.items) /\ Becomes(p, s)
    <2>1. r \in Process /\ ProcOk(r, vault, raced)
      BY DEF Inv, StateInv
    <2>2. /\ r.cmd = "adopt" /\ r.file \in File /\ r.key \in Key /\ r.name \in Name
          /\ r.name \in raced \/ NameIsFree(r.name, vault)
          /\ ~r.tmp /\ ~r.socket /\ r.child = "none"
      BY <1>1, <1>4, <2>1 DEF ProcOk, AdoptOk, DiskOk
    <2>3. files[r.file] \in Lines /\ TextOk(files[r.file], r.file, vault, raced)
      BY <2>2 DEF Inv, StateInv
    <2>4. s \in Process
      <3>1. "save" \in Steps /\ << >> \in Seq(Item)
        BY DEF Steps
      <3>2. QED
        BY <2>1, <2>3, <3>1 DEF Process
    <2>5. /\ s.pc = "save" /\ s.text = files[r.file] /\ s.cmd = r.cmd /\ s.file = r.file
          /\ s.key = r.key /\ s.name = r.name /\ s.tmp = r.tmp /\ s.socket = r.socket
          /\ s.child = r.child
      BY <2>1, <2>4 DEF Process
    <2>6. Becomes(p, s)
      BY <1>4
    <2> HIDE DEF s
    <2>7. ProcOk(s, vault, raced)
      BY <2>2, <2>3, <2>5 DEF ProcOk, DiskOk, AdoptOk, RunOk
    <2>8. QED
      BY <1>1, <1>2, <2>4, <2>6, <2>7, BecomesStep
  <1>5. QED
    BY <1>1, <1>3, <1>4

LEMMA WritesTmpStep ==
  ASSUME Inv, NEW p \in Proc, WritesTmp(p)
  PROVE  Inv'
  <1> DEFINE r == proc[p]
             s == [r EXCEPT !.pc = "rename", !.tmp = TRUE]
  <1>1. /\ r.pc = "writeTmp" /\ UNCHANGED <<session, issued, device, vault, files, raced>>
        /\ Becomes(p, s) \/ Exits(p, r)
    BY DEF WritesTmp, shared
  <1>2. session' \in Nat \cup {None} /\ issued' \in Nat /\ device' \in BOOLEAN
    BY <1>1 DEF Inv, StateInv
  <1>3. CASE Exits(p, r)
    BY <1>1, <1>2, <1>3, ProcDisk, ExitStep
  <1>4. CASE Becomes(p, s)
    <2>1. r \in Process /\ ProcOk(r, vault, raced)
      BY DEF Inv, StateInv
    <2>2. "rename" \in Steps
      BY DEF Steps
    <2>3. s \in Process
      BY <2>1, <2>2 DEF Process
    <2>4. /\ s.pc = "rename" /\ s.text = r.text /\ s.cmd = r.cmd /\ s.file = r.file
          /\ s.key = r.key /\ s.name = r.name /\ s.socket = r.socket /\ s.child = r.child
      BY <2>1, <2>3 DEF Process
    <2>5. Becomes(p, s)
      BY <1>4
    <2> HIDE DEF s
    <2>6. ProcOk(s, vault, raced)
      BY <1>1, <2>1, <2>4 DEF ProcOk, DiskOk, AdoptOk, RunOk
    <2>7. QED
      BY <1>1, <1>2, <2>3, <2>5, <2>6, BecomesStep
  <1>5. QED
    BY <1>1, <1>3, <1>4

\* A reference replaces the secret it leads to, beside lines as they were read.
LEMMA RenamesStep ==
  ASSUME Inv, NEW p \in Proc, Renames(p)
  PROVE  Inv'
  <1> DEFINE r == proc[p]
             text == [r.text EXCEPT ![r.key] = r.name]
             s == [r EXCEPT !.tmp = FALSE]
  <1>1. /\ r.pc = "rename" /\ UNCHANGED <<session, issued, device, vault, raced>>
        /\ files' = [files EXCEPT ![r.file] = text] /\ Exits(p, s)
    BY DEF Renames
  <1>2. /\ r \in Process /\ ProcOk(r, vault, raced) /\ files \in [File -> Lines]
    BY DEF Inv, StateInv
  <1>3. /\ r.file \in File /\ r.key \in Key /\ r.name \in Name /\ r.text \in Lines
        /\ r.name \in raced \/ Leads(vault, r.name, <<r.file, r.key>>)
        /\ TextOk(r.text, r.file, vault, raced) /\ ~r.socket
    BY <1>1, <1>2 DEF ProcOk, AdoptOk, DiskOk
  <1>4. text \in Lines /\ \A k \in Key : text[k] = IF k = r.key THEN r.name ELSE r.text[k]
    BY <1>3 DEF Lines
  <1> HIDE DEF text
  <1>5. TextOk(text, r.file, vault, raced)
    BY <1>3, <1>4 DEF TextOk
  <1>6. files' \in [File -> Lines] /\ \A f \in File : files'[f] = IF f = r.file THEN text
                                                                 ELSE files[f]
    BY <1>1, <1>2, <1>4
  <1>7. \A f \in File : TextOk(files'[f], f, vault, raced)
    BY <1>5, <1>6 DEF Inv
  <1>8. OnDisk(s) = {}
    <2>1. ~s.tmp /\ ~s.socket
      BY <1>2, <1>3 DEF Process
    <2> HIDE DEF s
    <2>2. QED
      BY <2>1, NothingOnDisk
  <1>9. proc' = [proc EXCEPT ![p] = Idle] /\ litter' = litter
    BY <1>1, <1>8 DEF Exits
  <1>10. proc' \in [Proc -> Process] /\ \A q \in Proc : ProcOk(proc'[q], vault, raced)
    BY <1>9, IdleType, IdleOk DEF Inv, StateInv
  <1>11. StateInv' /\ NothingLeftBehind'
    BY <1>1, <1>6, <1>9, <1>10 DEF Inv, StateInv, NothingLeftBehind
  <1>12. /\ \A f \in File : TextOk(files'[f], f, vault', raced')
         /\ \A q \in Proc : ProcOk(proc'[q], vault', raced')
    BY <1>1, <1>7, <1>10
  <1>13. QED
    BY <1>11, <1>12
    DEF Inv, ProcOk, DiskOk, AdoptOk, RunOk, TextOk, Leads, NameIsFree

-----------------------------------------------------------------------------
(* An item is saved.                                                       *)

LEMMA TextStays ==
  ASSUME NEW items \in Seq(Item), NEW new \in Item, NEW text \in Lines, NEW f,
         NEW race, NEW more, race \subseteq more, TextOk(text, f, items, race),
         new.name \in more \/ NameIsFree(new.name, items)
  PROVE  TextOk(text, f, Append(items, new), more)
  <1> SUFFICES ASSUME NEW k \in Key, text[k] # None, text[k] \notin more
               PROVE  Leads(Append(items, new), text[k], <<f, k>>)
    BY DEF TextOk
  <1>1. text[k] \in Name
    BY DEF Lines
  <1>2. Leads(items, text[k], <<f, k>>)
    BY DEF TextOk
  <1>3. new.name # text[k]
    BY <1>2, LeadsNotFree
  <1>4. QED
    BY <1>1, <1>2, <1>3, LeadsStays

\* Another process, past its check of the name or not, is not misled.
LEMMA OthersStay ==
  ASSUME NEW items \in Seq(Item), NEW new \in Item, NEW r \in Process,
         NEW race, NEW more, race \subseteq more, ProcOk(r, items, race),
         new.name \in more \/ NameIsFree(new.name, items),
         r.pc \in {"readLine", "save"} /\ r.name = new.name => new.name \in more
  PROVE  ProcOk(r, Append(items, new), more)
  <1> DEFINE vlt == Append(items, new)
  <1>1. ASSUME NameIsFree(r.name, items), r.pc \in {"readLine", "save"}
        PROVE  r.name \in more \/ NameIsFree(r.name, vlt)
    BY <1>1, FreeStays
  <1>2. ASSUME NEW s, r.name \in Name, Leads(items, r.name, s)
        PROVE  r.name \in more \/ Leads(vlt, r.name, s)
    BY <1>2, LeadsStays, LeadsNotFree
  <1>3. ASSUME r.text \in Lines, TextOk(r.text, r.file, items, race)
        PROVE  TextOk(r.text, r.file, vlt, more)
    BY <1>3, TextStays
  <1>4. ASSUME TextOk(r.text, r.file, r.items, race)
        PROVE  TextOk(r.text, r.file, r.items, more)
    BY <1>4 DEF TextOk
  <1> HIDE DEF vlt
  <1>5. AdoptOk(r, vlt, more)
    <2>1. AdoptOk(r, items, race)
      BY DEF ProcOk
    <2>2. /\ r.pc \in {"readLine", "save"}
          /\ r.name \in race \/ NameIsFree(r.name, items)
          => r.name \in more \/ NameIsFree(r.name, vlt)
      BY <1>1
    <2>3. r.pc \in {"writeTmp", "rename"} =>
             r.name \in more \/ Leads(vlt, r.name, <<r.file, r.key>>)
      BY <1>2, <2>1 DEF AdoptOk
    <2>4. QED
      BY <1>3, <2>1, <2>2, <2>3 DEF AdoptOk
  <1>6. RunOk(r, vlt, more)
    <2>1. RunOk(r, items, race)
      BY DEF ProcOk
    <2>2. QED
      BY <1>3, <1>4, <2>1 DEF RunOk
  <1>7. QED
    BY <1>5, <1>6 DEF ProcOk, vlt

LEMMA SavesStep ==
  ASSUME Inv, NEW p \in Proc, Saves(p)
  PROVE  Inv'
  <1> DEFINE r == proc[p]
             new == [name |-> r.name, value |-> <<r.file, r.key>>]
             s == [r EXCEPT !.pc = "writeTmp"]
  <1>1. /\ r.pc = "save" /\ vault' = Append(vault, new)
        /\ Becomes(p, s) \/ Exits(p, r)
        /\ UNCHANGED <<session, issued, device, files>>
    BY DEF Saves
  <1>2. /\ r \in Process /\ ProcOk(r, vault, raced) /\ vault \in Seq(Item)
    BY DEF Inv, StateInv
  <1>3. /\ r.cmd = "adopt" /\ r.file \in File /\ r.key \in Key /\ r.name \in Name
        /\ r.name \in raced \/ NameIsFree(r.name, vault)
        /\ r.text \in Lines /\ TextOk(r.text, r.file, vault, raced)
        /\ ~r.tmp /\ ~r.socket /\ r.child = "none"
    BY <1>1, <1>2 DEF ProcOk, AdoptOk, DiskOk
  <1>4. new \in Item /\ new.name = r.name /\ new.value = <<r.file, r.key>>
    BY <1>3 DEF Item, Secret
  <1>5. /\ raced \subseteq raced' /\ raced' \subseteq Name
        /\ \A q \in Proc \ {p} :
              proc[q].pc \in {"readLine", "save"} /\ proc[q].name = r.name => r.name \in raced'
    <2>1. raced' = raced \cup (IF \E q \in Proc \ {p} :
                                     proc[q].pc \in {"readLine", "save"}
                                     /\ proc[q].name = r.name
                               THEN {r.name} ELSE {})
      BY DEF Saves
    <2>2. raced \subseteq Name
      BY DEF Inv, StateInv
    <2>3. QED
      BY <1>3, <2>1, <2>2
  <1> HIDE DEF new
  <1>6. new.name \in raced' \/ NameIsFree(new.name, vault)
    BY <1>3, <1>4, <1>5
  <1>7. \A q \in Proc \ {p} : ProcOk(proc[q], vault', raced')
    <2>1. \A q \in Proc : proc[q] \in Process /\ ProcOk(proc[q], vault, raced)
      BY DEF Inv, StateInv
    <2>2. QED
      BY <1>1, <1>2, <1>4, <1>5, <1>6, <2>1, OthersStay
  <1>8. \A f \in File : TextOk(files[f], f, vault', raced')
    <2>1. \A f \in File : files[f] \in Lines /\ TextOk(files[f], f, vault, raced)
      BY DEF Inv, StateInv
    <2>2. QED
      BY <1>1, <1>2, <1>4, <1>5, <1>6, <2>1, TextStays
  <1>9. s \in Process /\ ProcOk(s, vault', raced')
    <2>1. "writeTmp" \in Steps
      BY DEF Steps
    <2>2. s \in Process
      BY <1>2, <2>1 DEF Process
    <2>3. /\ s.pc = "writeTmp" /\ s.text = r.text /\ s.cmd = r.cmd /\ s.file = r.file
          /\ s.key = r.key /\ s.name = r.name /\ s.tmp = r.tmp /\ s.socket = r.socket
          /\ s.child = r.child
      BY <1>2, <2>2 DEF Process
    <2> HIDE DEF s
    <2>4. r.name \in raced' \/ Leads(vault', r.name, <<r.file, r.key>>)
      BY <1>1, <1>2, <1>4, <1>6, FreeLeads
    <2>5. TextOk(r.text, r.file, vault', raced')
      BY <1>1, <1>2, <1>3, <1>4, <1>5, <1>6, TextStays
    <2>6. QED
      BY <1>3, <2>2, <2>3, <2>4, <2>5 DEF ProcOk, DiskOk, AdoptOk, RunOk
  <1>10. PICK t \in {s, Idle} : proc' = [proc EXCEPT ![p] = t]
    BY <1>1 DEF Becomes, Exits
  <1>11. litter' = litter
    <2>1. OnDisk(r) = {}
      BY <1>1, ProcDisk
    <2>2. QED
      BY <1>1, <2>1 DEF Becomes, Exits
  <1>12. t \in Process /\ ProcOk(t, vault', raced')
    BY <1>9, IdleType, IdleOk
  <1>13. /\ proc' \in [Proc -> Process]
         /\ \A q \in Proc : proc'[q] = IF q = p THEN t ELSE proc[q]
    BY <1>10, <1>12 DEF Inv, StateInv
  <1>14. \A q \in Proc : ProcOk(proc'[q], vault', raced')
    BY <1>7, <1>12, <1>13
  <1>15. vault' \in Seq(Item)
    BY <1>1, <1>2, <1>4
  <1>16. StateInv' /\ NothingLeftBehind'
    BY <1>1, <1>5, <1>11, <1>13, <1>15 DEF Inv, StateInv, NothingLeftBehind
  <1>17. \A f \in File : TextOk(files'[f], f, vault', raced')
    BY <1>1, <1>8
  <1>18. QED
    BY <1>14, <1>16, <1>17
    DEF Inv, ProcOk, DiskOk, AdoptOk, RunOk, TextOk, Leads, NameIsFree

-----------------------------------------------------------------------------
(* run, and the ends of commands.                                          *)

LEMMA SpawnsStep ==
  ASSUME Inv, NEW p \in Proc, Spawns(p)
  PROVE  Inv'
  <1> DEFINE r == proc[p]
             env == Environment(r.file, r.text, r.items)
             s == [r EXCEPT !.pc = "child", !.child = "up", !.got = env]
             t == [r EXCEPT !.pc = "listen", !.socket = TRUE]
  <1>1. /\ r.pc = "spawn" /\ UNCHANGED <<session, issued, device, vault, files, raced>>
        /\ IF r.cmd = "run" THEN Becomes(p, s) ELSE Becomes(p, t)
    BY DEF Spawns, shared
  <1>2. session' \in Nat \cup {None} /\ issued' \in Nat /\ device' \in BOOLEAN
    BY <1>1 DEF Inv, StateInv
  <1>3. r \in Process /\ ProcOk(r, vault, raced) /\ r.items \in Seq(Item)
    BY DEF Inv, StateInv, Process
  <1>4. /\ r.cmd \in {"run", "socket"} /\ r.file \in File /\ r.text \in Lines
        /\ TextOk(r.text, r.file, r.items, raced)
        /\ ~r.tmp /\ ~r.socket /\ r.child = "none"
    BY <1>1, <1>3 DEF ProcOk, RunOk, DiskOk
  <1>5. env \in Env
    BY <1>3, <1>4 DEF Env
  <1>6. \A k \in Key : env[k] = <<r.file, k>> \/ r.text[k] \in raced
    <2> SUFFICES ASSUME NEW k \in Key, r.text[k] \notin raced
                 PROVE  env[k] = <<r.file, k>>
      OBVIOUS
    <2>1. env[k] = IF r.text[k] = None THEN <<r.file, k>> ELSE Resolve(r.items, r.text[k])
      BY DEF Environment
    <2>2. r.text[k] # None => Leads(r.items, r.text[k], <<r.file, k>>)
      BY <1>4 DEF TextOk
    <2>3. QED
      BY <1>3, <2>1, <2>2, LeadsResolves
  <1> HIDE DEF env
  <1>7. "child" \in Steps /\ "listen" \in Steps
    BY DEF Steps
  <1>8. CASE r.cmd = "run"
    <2>1. s \in Process
      BY <1>3, <1>5, <1>7 DEF Process
    <2>2. /\ s.pc = "child" /\ s.got = env /\ s.text = r.text /\ s.cmd = r.cmd
          /\ s.file = r.file /\ s.tmp = r.tmp /\ s.socket = r.socket
      BY <1>3, <2>1 DEF Process
    <2>3. Becomes(p, s)
      BY <1>1, <1>8
    <2> HIDE DEF s
    <2>4. ProcOk(s, vault, raced)
      BY <1>4, <1>6, <1>8, <2>2 DEF ProcOk, DiskOk, AdoptOk, RunOk
    <2>5. QED
      BY <1>1, <1>2, <2>1, <2>3, <2>4, BecomesStep
  <1>9. CASE r.cmd # "run"
    <2>1. t \in Process
      BY <1>3, <1>7 DEF Process
    <2>2. /\ t.pc = "listen" /\ t.text = r.text /\ t.cmd = r.cmd
          /\ t.file = r.file /\ t.tmp = r.tmp /\ t.child = r.child
      BY <1>3, <2>1 DEF Process
    <2>3. Becomes(p, t)
      BY <1>1, <1>9
    <2> HIDE DEF t
    <2>4. ProcOk(t, vault, raced)
      BY <1>4, <1>9, <2>2 DEF ProcOk, DiskOk, AdoptOk, RunOk
    <2>5. QED
      BY <1>1, <1>2, <2>1, <2>3, <2>4, BecomesStep
  <1>10. QED
    BY <1>8, <1>9

LEMMA ListensStep ==
  ASSUME Inv, NEW p \in Proc, Listens(p)
  PROVE  Inv'
  <1> DEFINE r == proc[p]
             s == [r EXCEPT !.pc = "child", !.child = "up"]
  <1>1. /\ r.pc = "listen" /\ UNCHANGED <<session, issued, device, vault, files, raced>>
        /\ Becomes(p, s)
    BY DEF Listens, shared
  <1>2. session' \in Nat \cup {None} /\ issued' \in Nat /\ device' \in BOOLEAN
    BY <1>1 DEF Inv, StateInv
  <1>3. r \in Process /\ ProcOk(r, vault, raced) /\ "child" \in Steps
    BY DEF Inv, StateInv, Steps
  <1>4. s \in Process
    BY <1>3 DEF Process
  <1>5. /\ s.pc = "child" /\ s.text = r.text /\ s.cmd = r.cmd /\ s.file = r.file
        /\ s.tmp = r.tmp /\ s.socket = r.socket
    BY <1>3, <1>4 DEF Process
  <1> HIDE DEF s
  <1>6. ProcOk(s, vault, raced)
    BY <1>1, <1>3, <1>5 DEF ProcOk, DiskOk, AdoptOk, RunOk
  <1>7. QED
    BY <1>1, <1>2, <1>4, <1>6, BecomesStep

\* Commands whose last act is to take away what they have on the disk, and
\* commands that are killed.
LEMMA CleanEnd ==
  ASSUME Inv, NEW p \in Proc, NEW r, Exits(p, r), ~r.tmp, ~r.socket, UNCHANGED <<shared, raced>>
  PROVE  Inv'
  <1>1. UNCHANGED <<session, issued, device, vault, files, raced>>
    BY DEF shared
  <1>2. session' \in Nat \cup {None} /\ issued' \in Nat /\ device' \in BOOLEAN
    BY <1>1 DEF Inv, StateInv
  <1>3. QED
    BY <1>1, <1>2, NothingOnDisk, ExitStep

LEMMA CleanEndStep ==
  ASSUME Inv, NEW p \in Proc, RenameFails(p) \/ ChildEnds(p) \/ Kill(p)
  PROVE  Inv'
  <1> DEFINE r == proc[p]
  <1>1. r \in Process /\ DiskOk(r) /\ UNCHANGED <<shared, raced>>
    BY DEF Inv, StateInv, ProcOk, RenameFails, ChildEnds, Kill
  <1>2. CASE RenameFails(p)
    <2> DEFINE s == Unlinked(r)
    <2>1. ~s.tmp /\ ~s.socket
      BY <1>1, <1>2 DEF RenameFails, DiskOk, Unlinked, Process
    <2>2. Exits(p, s)
      BY <1>2 DEF RenameFails
    <2> HIDE DEF s
    <2>3. QED
      BY <1>1, <2>1, <2>2, CleanEnd
  <1>3. CASE ChildEnds(p)
    <2> DEFINE s == CleanedUp(r)
    <2>1. ~s.tmp /\ ~s.socket
      BY <1>1, <1>3 DEF ChildEnds, DiskOk, CleanedUp, Process
    <2>2. Exits(p, s)
      BY <1>3 DEF ChildEnds
    <2> HIDE DEF s
    <2>3. QED
      BY <1>1, <2>1, <2>2, CleanEnd
  <1>4. CASE Kill(p)
    <2> DEFINE s == [r EXCEPT !.tmp = FALSE, !.socket = FALSE]
    <2>1. ~s.tmp /\ ~s.socket
      BY <1>1 DEF Process
    <2>2. Exits(p, s)
      BY <1>4 DEF Kill
    <2> HIDE DEF s
    <2>3. QED
      BY <1>1, <2>1, <2>2, CleanEnd
  <1>5. QED
    BY <1>2, <1>3, <1>4

\* A signal is passed on by a command that serves its socket, and ends any other
\* one, which has no socket once it has a child.
LEMMA SignalStep ==
  ASSUME Inv, NEW p \in Proc, Signal(p)
  PROVE  Inv'
  <1> DEFINE r == proc[p]
             s == [r EXCEPT !.child = "signalled"]
             left == r.socket /\ r.pc = "child"
             t == [r EXCEPT !.tmp = FALSE, !.socket = left]
  <1>1. /\ UNCHANGED <<shared, raced>>
        /\ \/ Forwards(r) /\ Becomes(p, s)
           \/ ~Forwards(r) /\ Exits(p, t)
    BY DEF Signal
  <1>2. r \in Process /\ ProcOk(r, vault, raced) /\ UNCHANGED <<vault, files>>
    BY <1>1 DEF Inv, StateInv, shared
  <1>3. CASE Forwards(r) /\ Becomes(p, s)
    <2>1. s \in Process
      BY <1>2 DEF Process
    <2>2. /\ s.pc = r.pc /\ s.text = r.text /\ s.cmd = r.cmd /\ s.file = r.file
          /\ s.tmp = r.tmp /\ s.socket = r.socket /\ s.got = r.got
      BY <1>2, <2>1 DEF Process
    <2>3. Becomes(p, s) /\ r.cmd = "socket" /\ r.pc = "child"
      BY <1>3 DEF Forwards
    <2> HIDE DEF s
    <2>4. ProcOk(s, vault, raced)
      BY <1>2, <2>2, <2>3 DEF ProcOk, DiskOk, AdoptOk, RunOk
    <2>5. session' \in Nat \cup {None} /\ issued' \in Nat /\ device' \in BOOLEAN
      BY <1>1 DEF Inv, StateInv, shared
    <2>6. QED
      BY <1>1, <1>2, <2>1, <2>3, <2>4, <2>5, BecomesStep
  <1>4. CASE ~Forwards(r) /\ Exits(p, t)
    <2>1. ~left
      BY <1>2, <1>4 DEF Forwards, ProcOk, DiskOk
    <2>2. left \in BOOLEAN
      OBVIOUS
    <2> HIDE DEF left
    <2>3. ~t.tmp /\ ~t.socket
      BY <1>2, <2>1, <2>2 DEF Process
    <2>4. Exits(p, t)
      BY <1>4
    <2> HIDE DEF t
    <2>5. QED
      BY <1>1, <2>3, <2>4, CleanEnd
  <1>5. QED
    BY <1>1, <1>3, <1>4

LEMMA InvStep ==
  ASSUME Inv, [Next]_vars
  PROVE  Inv'
  <1>1. CASE UNCHANGED vars
    <2>1. UNCHANGED <<session, issued, device, vault, files, raced, proc, litter>>
      BY <1>1 DEF vars, shared
    <2>2. /\ \A f \in File : TextOk(files'[f], f, vault', raced')
          /\ \A q \in Proc : ProcOk(proc'[q], vault', raced')
      BY <2>1 DEF Inv
    <2>3. StateInv' /\ NothingLeftBehind'
      BY <2>1 DEF Inv, StateInv, NothingLeftBehind
    <2>4. QED
      BY <2>2, <2>3 DEF Inv, ProcOk, DiskOk, AdoptOk, RunOk, TextOk, Leads, NameIsFree
  <1>2. ASSUME NEW p \in Proc, Answered(p)
        PROVE  Inv'
    BY <1>2, AuthenticatedStep, RegistersStep, EndStep, FetchesStep, ReadsLineStep, SavesStep,
       WritesTmpStep, RenamesStep, CleanEndStep, SpawnsStep, ListensStep DEF Answered
  <1>3. QED
    BY <1>1, <1>2, PlainStarts, AdoptStep, RunStep, CleanEndStep, SignalStep DEF Next

-----------------------------------------------------------------------------
(* The theorems.                                                           *)

LEMMA InvAlways == Spec => []Inv
  BY InitInv, InvStep, PTL DEF Spec

LEMMA InvResolves ==
  ASSUME Inv
  PROVE  RefsResolve
  <1> SUFFICES ASSUME NEW f \in File, NEW k \in Key, files[f][k] # None,
                      files[f][k] \notin raced
               PROVE  Resolve(vault, files[f][k]) = <<f, k>>
    BY DEF RefsResolve
  <1>1. Leads(vault, files[f][k], <<f, k>>) /\ vault \in Seq(Item)
    BY DEF Inv, StateInv, TextOk
  <1>2. QED
    BY <1>1, LeadsResolves

LEMMA InvSecrets ==
  ASSUME Inv
  PROVE  ChildGetsSecrets
  <1>1. \A p \in Proc : ProcOk(proc[p], vault, raced)
    BY DEF Inv
  <1>2. QED
    BY <1>1 DEF ChildGetsSecrets, ProcOk, DiskOk, RunOk

\* Wherever any number of adopts are stopped or lose an answer, a reference in
\* a file leads to the secret it replaced, unless two adopts of one name
\* overlapped.
THEOREM RefsLead == Spec => []RefsResolve
  BY InvAlways, InvResolves, PTL

\* A child of run has the secret of every line, whatever adopts of those lines
\* went on while the file and then the vault were read.
THEOREM SecretsReachChild == Spec => []ChildGetsSecrets
  BY InvAlways, InvSecrets, PTL

\* No command that ends by itself, or by a signal while it serves its socket,
\* leaves a temporary file or a socket behind.
THEOREM DiskIsClean == Spec => []NothingLeftBehind
  <1>1. Inv => NothingLeftBehind
    BY DEF Inv
  <1>2. QED
    BY <1>1, InvAlways, PTL

-----------------------------------------------------------------------------
(* The types.  A token is issued to a login, which was started as a command, *)
(* so the tokens are counted by the commands.                              *)

\* The logins that have yet to get their token.
Asking == {p \in Proc : proc[p].pc = "auth"}

CountInv ==
    /\ issued \in Nat /\ started \in 0..MaxCommands
    /\ IsFiniteSet(Asking)
    /\ issued + Cardinality(Asking) <= started

\* The process has a token that was issued, has a child while it waits for one,
\* and rewrites a line only for an item that is in the vault, raced or not.
ProcType(r, n, items) ==
    /\ r.token \in 1..n \cup {None}
    /\ r.pc = "child" => r.child # "none"
    /\ r.pc \in {"writeTmp", "rename"} =>
          \E j \in DOMAIN items : items[j] = [name |-> r.name, value |-> <<r.file, r.key>>]

TypeInv ==
    /\ CountInv
    /\ session \in 1..issued \cup {None} /\ tokens \subseteq 1..issued
    /\ \A p \in Proc : ProcType(proc[p], issued, vault)

LEMMA IdleTyped ==
  ASSUME NEW n, NEW items
  PROVE  ProcType(Idle, n, items)
  BY DEF ProcType, Idle

LEMMA InitTypeInv == Init => TypeInv
  <1> SUFFICES ASSUME Init PROVE TypeInv
    OBVIOUS
  <1>1. \A p \in Proc : proc[p] = Idle
    BY DEF Init
  <1>2. Asking = {}
    BY <1>1, IdleType DEF Asking
  <1>3. IsFiniteSet(Asking) /\ Cardinality(Asking) = 0
    BY <1>2, FS_EmptySet
  <1>4. CountInv
    BY <1>3, CliAssumption DEF CountInv, Init
  <1>5. session \in 1..issued \cup {None} /\ tokens \subseteq 1..issued
    BY DEF Init
  <1>6. \A p \in Proc : ProcType(proc[p], issued, vault)
    BY <1>1, IdleTyped
  <1>7. QED
    BY <1>4, <1>5, <1>6 DEF TypeInv

\* Nobody else is disturbed by tokens and items that are added.
LEMMA OthersTyped ==
  ASSUME Inv, TypeInv, NEW p \in Proc, NEW r, proc' = [proc EXCEPT ![p] = r],
         issued' \in Nat, issued <= issued',
         \A j \in DOMAIN vault : j \in DOMAIN vault' /\ vault'[j] = vault[j],
         ProcType(r, issued', vault')
  PROVE  \A q \in Proc : ProcType(proc'[q], issued', vault')
  <1> SUFFICES ASSUME NEW q \in Proc PROVE ProcType(proc'[q], issued', vault')
    OBVIOUS
  <1>1. proc'[q] = IF q = p THEN r ELSE proc[q]
    BY DEF Inv, StateInv
  <1>2. ProcType(proc[q], issued, vault) /\ issued \in Nat
    BY DEF TypeInv, CountInv
  <1>3. ProcType(proc[q], issued', vault')
    BY <1>2 DEF ProcType
  <1>4. QED
    BY <1>1, <1>3

\* A process that moves on or ends, and is not about to ask for a token.
LEMMA MovesTyped ==
  ASSUME Inv, TypeInv, NEW p \in Proc, NEW r, proc' = [proc EXCEPT ![p] = r],
         r.pc # "auth", UNCHANGED <<issued, started>>,
         session' \in {session, None, proc[p].token}, tokens' \subseteq tokens,
         \A j \in DOMAIN vault : j \in DOMAIN vault' /\ vault'[j] = vault[j],
         ProcType(r, issued, vault')
  PROVE  TypeInv'
  <1>1. issued \in Nat /\ started \in 0..MaxCommands /\ IsFiniteSet(Asking)
        /\ issued + Cardinality(Asking) <= started
    BY DEF TypeInv, CountInv
  <1>2. \A q \in Proc : ProcType(proc'[q], issued', vault')
    <2>1. issued' \in Nat /\ issued <= issued' /\ ProcType(r, issued', vault')
      BY <1>1
    <2>2. QED
      BY <2>1, OthersTyped, Zenon
  <1>3. Asking' \subseteq Asking
    BY DEF Asking, Inv, StateInv
  <1>4. /\ IsFiniteSet(Asking') /\ Cardinality(Asking') <= Cardinality(Asking)
        /\ Cardinality(Asking) \in Nat /\ Cardinality(Asking') \in Nat
    BY <1>1, <1>3, FS_Subset, FS_CardinalityType
  <1>5. CountInv'
    BY <1>1, <1>4 DEF CountInv
  <1>6. session' \in 1..issued' \cup {None} /\ tokens' \subseteq 1..issued'
    BY DEF TypeInv, ProcType
  <1>7. QED
    BY <1>2, <1>5, <1>6 DEF TypeInv

LEMMA ExitsTyped ==
  ASSUME Inv, TypeInv, NEW p \in Proc, NEW r, Exits(p, r), UNCHANGED issued,
         session' \in {session, None, proc[p].token}, tokens' \subseteq tokens,
         \A j \in DOMAIN vault : j \in DOMAIN vault' /\ vault'[j] = vault[j]
  PROVE  TypeInv'
  BY MovesTyped, IdleTyped, IdleType DEF Exits

LEMMA StartsTyped ==
  ASSUME Inv, TypeInv, NEW p \in Proc, NEW r, Starts(p, r), r.token \in {None, session},
         r.pc \notin {"child", "writeTmp", "rename"}
  PROVE  TypeInv'
  <1>1. /\ issued \in Nat /\ started \in 0..MaxCommands /\ IsFiniteSet(Asking)
        /\ issued + Cardinality(Asking) <= started
    BY DEF TypeInv, CountInv
  <1>2. /\ proc' = [proc EXCEPT ![p] = r] /\ started' = started + 1 /\ started < MaxCommands
        /\ UNCHANGED <<session, tokens, issued, vault>>
    BY DEF Starts, shared
  <1>3. ProcType(r, issued', vault')
    BY <1>2 DEF TypeInv, ProcType
  <1>4. \A q \in Proc : ProcType(proc'[q], issued', vault')
    <2>1. /\ issued' \in Nat /\ issued <= issued'
          /\ \A j \in DOMAIN vault : j \in DOMAIN vault' /\ vault'[j] = vault[j]
      BY <1>1, <1>2
    <2>2. QED
      BY <1>2, <1>3, <2>1, OthersTyped, Zenon
  <1>5. Asking' \subseteq Asking \cup {p}
    BY <1>2 DEF Asking, Inv, StateInv
  <1>6. /\ IsFiniteSet(Asking \cup {p}) /\ Cardinality(Asking) \in Nat
        /\ Cardinality(Asking \cup {p}) <= Cardinality(Asking) + 1
        /\ Cardinality(Asking \cup {p}) \in Nat
    <2>1. /\ IsFiniteSet(Asking \cup {p})
          /\ Cardinality(Asking \cup {p}) =
                IF p \in Asking THEN Cardinality(Asking) ELSE Cardinality(Asking) + 1
      BY <1>1, FS_AddElement, Zenon
    <2>2. Cardinality(Asking) \in Nat
      BY <1>1, FS_CardinalityType, Zenon
    <2>3. QED
      BY <2>1, <2>2
  <1>7. /\ IsFiniteSet(Asking') /\ Cardinality(Asking') <= Cardinality(Asking \cup {p})
        /\ Cardinality(Asking') \in Nat
    BY <1>5, <1>6, FS_Subset, FS_CardinalityType
  <1>8. CountInv'
    BY <1>1, <1>2, <1>6, <1>7, CliAssumption DEF CountInv
  <1>9. QED
    BY <1>2, <1>4, <1>8 DEF TypeInv

LEMMA CommandsTyped ==
  ASSUME Inv, TypeInv, NEW p \in Proc,
         \/ Login(p) \/ Lock(p) \/ Passwd(p) \/ Recover(p) \/ Get(p)
         \/ \E f \in File, k \in Key, n \in Name : Adopt(p, f, k, n)
         \/ \E f \in File, cmd \in {"run", "socket"} : Run(p, f, cmd)
  PROVE  TypeInv'
  <1>1. CASE Login(p)
    BY <1>1, StartsTyped DEF Login, Idle
  <1>2. CASE Lock(p)
    BY <1>2, StartsTyped DEF Lock, Idle
  <1>3. CASE Passwd(p)
    BY <1>3, StartsTyped DEF Passwd, Idle
  <1>4. CASE Recover(p)
    BY <1>4, StartsTyped DEF Recover, Idle
  <1>5. CASE Get(p)
    BY <1>5, StartsTyped DEF Get, Idle
  <1>6. ASSUME NEW f \in File, NEW k \in Key, NEW n \in Name, Adopt(p, f, k, n)
        PROVE  TypeInv'
    BY <1>6, StartsTyped DEF Adopt, Idle
  <1>7. ASSUME NEW f \in File, NEW cmd \in {"run", "socket"}, Run(p, f, cmd)
        PROVE  TypeInv'
    BY <1>7, StartsTyped DEF Run, Idle
  <1>8. QED
    BY <1>1, <1>2, <1>3, <1>4, <1>5, <1>6, <1>7

\* A login that gets its token no longer asks for one.
LEMMA AuthenticatedTyped ==
  ASSUME Inv, TypeInv, NEW p \in Proc, Authenticated(p)
  PROVE  TypeInv'
  <1>1. /\ issued \in Nat /\ started \in 0..MaxCommands /\ IsFiniteSet(Asking)
        /\ issued + Cardinality(Asking) <= started
    BY DEF TypeInv, CountInv
  <1>2. /\ proc[p].pc = "auth" /\ issued' = issued + 1 /\ tokens' = tokens \cup {issued + 1}
        /\ UNCHANGED <<session, vault, started>>
    BY DEF Authenticated, Becomes, Exits
  <1>3. PICK r : /\ proc' = [proc EXCEPT ![p] = r] /\ r.pc \notin {"auth", "child", "writeTmp", "rename"}
                 /\ r.token \in {None, issued + 1}
    <2>1. CASE Exits(p, proc[p])
      <3>1. Idle.pc = "idle" /\ Idle.token = None /\ proc' = [proc EXCEPT ![p] = Idle]
        BY <2>1 DEF Exits, Idle
      <3>2. WITNESS Idle
      <3>3. QED
        BY <3>1
    <2>2. CASE ~Exits(p, proc[p])
      <3> DEFINE at == IF proc[p].known THEN "saveSession" ELSE "register"
                 r == [proc[p] EXCEPT !.token = issued + 1, !.pc = at]
      <3>1. proc' = [proc EXCEPT ![p] = r]
        BY <2>2 DEF Authenticated, Becomes
      <3>2. proc[p] \in Process /\ at \in {"saveSession", "register"}
        BY DEF Inv, StateInv
      <3> HIDE DEF at
      <3>3. r.pc = at /\ r.token = issued + 1
        BY <3>2 DEF Process
      <3> HIDE DEF r
      <3>4. QED
        BY <3>1, <3>2, <3>3
    <2>3. QED
      BY <2>1, <2>2
  <1>4. ProcType(r, issued', vault')
    BY <1>1, <1>2, <1>3 DEF ProcType
  <1>5. \A q \in Proc : ProcType(proc'[q], issued', vault')
    <2>1. /\ issued' \in Nat /\ issued <= issued'
          /\ \A j \in DOMAIN vault : j \in DOMAIN vault' /\ vault'[j] = vault[j]
      BY <1>1, <1>2
    <2>2. QED
      BY <1>3, <1>4, <2>1, OthersTyped, Zenon
  <1>6. Asking' = Asking \ {p} /\ p \in Asking
    BY <1>2, <1>3 DEF Asking, Inv, StateInv
  <1>7. /\ IsFiniteSet(Asking') /\ Cardinality(Asking') = Cardinality(Asking) - 1
        /\ Cardinality(Asking) \in Nat
    BY <1>1, <1>6, FS_RemoveElement, FS_CardinalityType
  <1>8. CountInv'
    BY <1>1, <1>2, <1>7 DEF CountInv
  <1>9. session' \in 1..issued' \cup {None} /\ tokens' \subseteq 1..issued'
    <2>1. 1..issued \subseteq 1..issued' /\ issued + 1 \in 1..issued'
      BY <1>1, <1>2
    <2>2. session \in 1..issued \cup {None} /\ tokens \subseteq 1..issued
      BY DEF TypeInv
    <2>3. QED
      BY <1>2, <2>1, <2>2, Zenon
  <1>10. QED
    BY <1>5, <1>8, <1>9 DEF TypeInv

\* A process that keeps its token and goes on to a step without demands.
LEMMA BecomesTyped ==
  ASSUME Inv, TypeInv, NEW p \in Proc, NEW r, Becomes(p, r), UNCHANGED <<session, issued>>,
         tokens' \subseteq tokens, r.token = proc[p].token, r.pc # "auth",
         \A j \in DOMAIN vault : j \in DOMAIN vault' /\ vault'[j] = vault[j],
         r.pc = "child" => r.child # "none",
         r.pc \in {"writeTmp", "rename"} =>
            \E j \in DOMAIN vault' : vault'[j] = [name |-> r.name, value |-> <<r.file, r.key>>]
  PROVE  TypeInv'
  <1>1. ProcType(r, issued, vault')
    BY DEF TypeInv, ProcType
  <1>2. QED
    BY <1>1, MovesTyped DEF Becomes

LEMMA SessionTyped ==
  ASSUME Inv, TypeInv, NEW p \in Proc,
         \/ Registers(p) \/ SavesSession(p) \/ LogsOut(p) \/ Clears(p)
         \/ ChangesPassword(p) \/ Recovers(p) \/ Unauthorized(p) \/ Fails(p)
  PROVE  TypeInv'
  <1>1. proc[p] \in Process
    BY DEF Inv, StateInv
  <1>2. CASE Registers(p)
    <2>1. [proc[p] EXCEPT !.pc = "saveSession"].token = proc[p].token
          /\ [proc[p] EXCEPT !.pc = "saveSession"].pc = "saveSession"
      BY <1>1 DEF Process
    <2>2. QED
      BY <1>2, <2>1, BecomesTyped DEF Registers
  <1>3. CASE LogsOut(p)
    <2>1. [proc[p] EXCEPT !.pc = "clear"].token = proc[p].token
          /\ [proc[p] EXCEPT !.pc = "clear"].pc = "clear"
      BY <1>1 DEF Process
    <2>2. QED
      BY <1>3, <2>1, BecomesTyped DEF LogsOut
  <1>4. CASE SavesSession(p) \/ Clears(p)
    BY <1>4, ExitsTyped DEF SavesSession, Clears
  <1>5. CASE ChangesPassword(p)
    BY <1>5, ExitsTyped DEF ChangesPassword
  <1>6. CASE Recovers(p) \/ Unauthorized(p)
    BY <1>6, ExitsTyped DEF Recovers, Unauthorized
  <1>7. CASE Fails(p)
    BY <1>7, ExitsTyped DEF Fails, shared
  <1>8. QED
    BY <1>2, <1>3, <1>4, <1>5, <1>6, <1>7

LEMMA FetchesTyped ==
  ASSUME Inv, TypeInv, NEW p \in Proc, Fetches(p)
  PROVE  TypeInv'
  <1>1. proc[p] \in Process /\ UNCHANGED <<session, tokens, issued, vault>>
    BY DEF Inv, StateInv, Fetches, shared
  <1>2. CASE Exits(p, proc[p])
    BY <1>1, <1>2, ExitsTyped
  <1>3. CASE ~Exits(p, proc[p])
    <2> DEFINE at == IF proc[p].cmd = "adopt" THEN "readLine" ELSE "spawn"
               r == [proc[p] EXCEPT !.items = vault, !.pc = at]
    <2>1. Becomes(p, r)
      BY <1>3 DEF Fetches
    <2>2. at \in {"readLine", "spawn"}
      OBVIOUS
    <2> HIDE DEF at
    <2>3. r.token = proc[p].token /\ r.pc = at
      BY <1>1 DEF Process
    <2> HIDE DEF r
    <2>4. QED
      BY <1>1, <2>1, <2>2, <2>3, BecomesTyped
  <1>4. QED
    BY <1>2, <1>3

LEMMA AdoptTyped ==
  ASSUME Inv, TypeInv, NEW p \in Proc,
         ReadsLine(p) \/ SaveFails(p) \/ WritesTmp(p) \/ Renames(p) \/ RenameFails(p)
  PROVE  TypeInv'
  <1>1. proc[p] \in Process /\ UNCHANGED <<session, tokens, issued, vault>>
    BY DEF Inv, StateInv, ReadsLine, SaveFails, WritesTmp, Renames, RenameFails, shared
  <1>2. CASE \E r : Exits(p, r)
    BY <1>1, <1>2, ExitsTyped
  <1>3. CASE ReadsLine(p) /\ ~(\E r : Exits(p, r))
    <2> DEFINE r == [proc[p] EXCEPT !.pc = "save", !.text = files[proc[p].file], !.items = <<>>]
    <2>1. Becomes(p, r)
      BY <1>3 DEF ReadsLine
    <2>2. r.token = proc[p].token /\ r.pc = "save"
      BY <1>1 DEF Process
    <2> HIDE DEF r
    <2>3. QED
      BY <1>1, <2>1, <2>2, BecomesTyped
  <1>4. CASE WritesTmp(p) /\ ~(\E r : Exits(p, r))
    <2> DEFINE r == [proc[p] EXCEPT !.pc = "rename", !.tmp = TRUE]
    <2>1. Becomes(p, r) /\ proc[p].pc = "writeTmp"
      BY <1>4 DEF WritesTmp
    <2>2. /\ r.token = proc[p].token /\ r.pc = "rename" /\ r.name = proc[p].name
          /\ r.file = proc[p].file /\ r.key = proc[p].key
      BY <1>1 DEF Process
    <2> HIDE DEF r
    <2>3. \E j \in DOMAIN vault : vault[j] = [name |-> r.name, value |-> <<r.file, r.key>>]
      BY <2>1, <2>2 DEF TypeInv, ProcType
    <2>4. QED
      BY <1>1, <2>1, <2>2, <2>3, BecomesTyped
  <1>5. QED
    BY <1>2, <1>3, <1>4 DEF SaveFails, Renames, RenameFails

LEMMA SavesTyped ==
  ASSUME Inv, TypeInv, NEW p \in Proc, Saves(p)
  PROVE  TypeInv'
  <1> DEFINE new == [name |-> proc[p].name, value |-> <<proc[p].file, proc[p].key>>]
             r   == [proc[p] EXCEPT !.pc = "writeTmp"]
  <1>1. proc[p] \in Process /\ vault \in Seq(Item) /\ UNCHANGED <<session, tokens, issued>>
    BY DEF Inv, StateInv, Saves
  <1>2. vault' = Append(vault, new) /\ (Becomes(p, r) \/ Exits(p, proc[p]))
    BY DEF Saves
  <1>3. /\ r.token = proc[p].token /\ r.pc = "writeTmp" /\ r.name = proc[p].name
        /\ r.file = proc[p].file /\ r.key = proc[p].key
    BY <1>1 DEF Process
  <1> HIDE DEF r
  <1>4. [name |-> r.name, value |-> <<r.file, r.key>>] = new
    BY <1>3
  <1> HIDE DEF new
  <1>5. /\ \A j \in DOMAIN vault : j \in DOMAIN vault' /\ vault'[j] = vault[j]
        /\ \E j \in DOMAIN vault' : vault'[j] = new
    BY <1>1, <1>2
  <1>6. QED
    BY <1>1, <1>2, <1>3, <1>4, <1>5, BecomesTyped, ExitsTyped

LEMMA RunTyped ==
  ASSUME Inv, TypeInv, NEW p \in Proc, Spawns(p) \/ Listens(p)
  PROVE  TypeInv'
  <1>1. proc[p] \in Process /\ UNCHANGED <<session, tokens, issued, vault>>
    BY DEF Inv, StateInv, Spawns, Listens, shared
  <1>2. CASE Spawns(p) /\ proc[p].cmd = "run"
    <2> DEFINE env == Environment(proc[p].file, proc[p].text, proc[p].items)
               r == [proc[p] EXCEPT !.pc = "child", !.child = "up", !.got = env]
    <2>1. Becomes(p, r)
      BY <1>2 DEF Spawns
    <2> HIDE DEF env
    <2>2. r.token = proc[p].token /\ r.pc = "child" /\ r.child = "up"
      BY <1>1 DEF Process
    <2> HIDE DEF r
    <2>3. QED
      BY <1>1, <2>1, <2>2, BecomesTyped
  <1>3. CASE Spawns(p) /\ proc[p].cmd # "run"
    <2> DEFINE r == [proc[p] EXCEPT !.pc = "listen", !.socket = TRUE]
    <2>1. Becomes(p, r)
      BY <1>3 DEF Spawns
    <2>2. r.token = proc[p].token /\ r.pc = "listen"
      BY <1>1 DEF Process
    <2> HIDE DEF r
    <2>3. QED
      BY <1>1, <2>1, <2>2, BecomesTyped
  <1>4. CASE Listens(p)
    <2> DEFINE r == [proc[p] EXCEPT !.pc = "child", !.child = "up"]
    <2>1. Becomes(p, r)
      BY <1>4 DEF Listens
    <2>2. r.token = proc[p].token /\ r.pc = "child" /\ r.child = "up"
      BY <1>1 DEF Process
    <2> HIDE DEF r
    <2>3. QED
      BY <1>1, <2>1, <2>2, BecomesTyped
  <1>5. QED
    BY <1>2, <1>3, <1>4

LEMMA EndTyped ==
  ASSUME Inv, TypeInv, NEW p \in Proc, ChildEnds(p) \/ Signal(p) \/ Kill(p)
  PROVE  TypeInv'
  <1>1. proc[p] \in Process /\ UNCHANGED <<session, tokens, issued, vault>>
    BY DEF Inv, StateInv, ChildEnds, Signal, Kill, shared
  <1>2. CASE \E r : Exits(p, r)
    BY <1>1, <1>2, ExitsTyped
  <1>3. CASE ~(\E r : Exits(p, r))
    <2> DEFINE r == [proc[p] EXCEPT !.child = "signalled"]
    <2>1. Becomes(p, r) /\ proc[p].pc = "child"
      BY <1>3 DEF ChildEnds, Signal, Kill, Forwards
    <2>2. r.token = proc[p].token /\ r.pc = proc[p].pc /\ r.child = "signalled"
      BY <1>1 DEF Process
    <2> HIDE DEF r
    <2>3. QED
      BY <1>1, <2>1, <2>2, BecomesTyped
  <1>4. QED
    BY <1>2, <1>3

LEMMA TypeInvStep ==
  ASSUME Inv, TypeInv, [Next]_vars
  PROVE  TypeInv'
  <1>1. CASE UNCHANGED vars
    BY <1>1 DEF vars, shared, TypeInv, CountInv, Asking, ProcType
  <1>2. ASSUME NEW p \in Proc, Answered(p)
        PROVE  TypeInv'
    BY <1>2, AuthenticatedTyped, SessionTyped, FetchesTyped, AdoptTyped, SavesTyped, RunTyped
       DEF Answered
  <1>3. QED
    BY <1>1, <1>2, CommandsTyped, EndTyped DEF Next

LEMMA InvTyped ==
  ASSUME Inv, TypeInv
  PROVE  TypeOK
  <1>1. /\ issued \in 0..MaxCommands /\ started \in 0..MaxCommands
    <2>1. Cardinality(Asking) \in Nat
      BY FS_CardinalityType DEF TypeInv, CountInv
    <2>2. QED
      BY <2>1, CliAssumption DEF TypeInv, CountInv
  <1>2. /\ session \in 1..issued \cup {None} /\ tokens \subseteq 1..issued
        /\ device \in BOOLEAN /\ files \in [File -> Lines] /\ raced \subseteq Name
    BY DEF Inv, StateInv, TypeInv
  <1>3. \A j \in DOMAIN vault : vault[j] \in Item
    BY DEF Inv, StateInv
  <1>4. ASSUME NEW p \in Proc
        PROVE  LET r == proc[p] IN
               /\ r.pc \in Steps /\ r.token \in 1..issued \cup {None}
               /\ r.tmp => r.cmd = "adopt" /\ r.pc = "rename"
               /\ r.socket => r.cmd = "socket" /\ r.pc \in {"listen", "child"}
               /\ (r.child # "none") = (r.pc = "child")
               /\ r.pc \in {"writeTmp", "rename"} =>
                     \E j \in DOMAIN vault :
                        vault[j] = [name |-> r.name, value |-> <<r.file, r.key>>]
    <2>1. proc[p].pc \in Steps
      BY DEF Inv, StateInv, Process
    <2>2. ProcOk(proc[p], vault, raced) /\ ProcType(proc[p], issued, vault)
      BY DEF Inv, TypeInv
    <2>3. QED
      BY <2>1, <2>2 DEF ProcOk, DiskOk, AdoptOk, ProcType
  <1>5. QED
    BY <1>1, <1>2, <1>3, <1>4 DEF TypeOK

\* However many commands run at once, every token the machine or a command
\* holds was issued by the server, to one login each, a process waits at its
\* child exactly while it has one, and a line is rewritten only for an item
\* that is in the vault.
THEOREM TypeCorrect == Spec => []TypeOK
  <1>1. Inv /\ TypeInv /\ [Next]_vars => TypeInv'
    BY TypeInvStep
  <1>2. Inv /\ TypeInv => TypeOK
    BY InvTyped
  <1>3. QED
    BY InitTypeInv, InvAlways, <1>1, <1>2, PTL DEF Spec

=============================================================================
