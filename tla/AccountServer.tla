------------------------------ MODULE AccountServer ------------------------------
(***************************************************************************)
(* One account at the server as its client applications see it: sessions   *)
(* and devices, items, the recovery kit and the shared links, and the      *)
(* requests on their way to it.  DesktopClient and WebPages send requests  *)
(* and take the answers; ClientApps puts them together.                    *)
(*                                                                         *)
(* A request is carried out in one step (each handler here is a statement  *)
(* or a transaction) and may fail at any moment before its answer is       *)
(* taken: refused, lost, or carried out with the answer lost.  The client  *)
(* cannot tell these apart.  Proofs of the password, the pending rows of   *)
(* the login protocols and the envelopes are AccountCredentials and        *)
(* VaultItems.                                                             *)
(***************************************************************************)
EXTENDS Naturals, FiniteSets

CONSTANTS
    Item,       \* item ids
    Stored,     \* items the account has at first
    Device,     \* registered devices; only the command line client has one
    Share,      \* ids of shared links
    ViewLimits, \* the choices of a link's view limit
    Budgets,    \* the ways to bound what the users of each client do
    MaxEvents,  \* bound on what they do together
    None

ASSUME ServerAssumption ==
    /\ Stored \subseteq Item /\ ViewLimits \subseteq Nat \ {0}
    /\ MaxEvents \in Nat
    /\ \A b \in Budgets : /\ b \in [desktop : Nat, web : Nat]
                          /\ b.desktop + b.web <= MaxEvents
    /\ None \notin Item \cup Device \cup Share

VARIABLES
    account,   \* "none" before registration, then what the password opens
    sessions,  \* live sessions
    devices,   \* registered devices
    rows,      \* per item: its row, if any
    past,      \* per item: the versions and texts it has ever had
    kit,       \* the recovery kit, if any
    grants,    \* recovery tokens
    shares,    \* per link: its row, if any
    calls,     \* requests in flight
    events,    \* number of things the users have done
    budget     \* per client: how much more its user may do

accountVars == <<account, sessions, devices>>
serverVars  == <<accountVars, rows, past, kit, grants, shares>>

-----------------------------------------------------------------------------
(* State                                                                   *)

\* A session is told by its client and the event of its login.
Session == [of : {"web", "check", "desktop", "cli"}, n : Nat,
            device : Device \cup {None}]

Row == [version : Nat, text : Nat, deleted : BOOLEAN]

\* What is not there is no row.
ASSUME NoneIsNoRow == None \notin Row

\* What was wrapped: the account's keys, or the zeros they were overwritten with.
Keys == {"real", "zero"}

Kit == [code : Nat, keys : Keys]

ShareRow == [used : Nat, limit : ViewLimits, expired : BOOLEAN]

\* The session of each login; the command line client's first login came before
\* its device was registered.
CliSessions == {[of |-> "cli", n |-> 0, device |-> None]} \cup
               {[of |-> "cli", n |-> 1, device |-> d] : d \in Device}

WebSession == [of |-> "web", n |-> 0, device |-> None]

DesktopSession == [of |-> "desktop", n |-> 0, device |-> None]

NoRow(S) == [x \in S |-> None]

New(text) == [version |-> 1, text |-> text, deleted |-> FALSE]

ServerInit ==
    /\ \/ /\ account = "real" /\ devices = Device
          /\ sessions = {WebSession, DesktopSession} \cup CliSessions
          /\ rows = [i \in Item |-> IF i \in Stored THEN New(0) ELSE None]
          /\ past = [i \in Item |-> IF i \in Stored THEN {<<1, 0>>} ELSE {}]
          /\ kit = [code |-> 0, keys |-> "real"]
       \/ /\ account = "none" /\ devices = {} /\ sessions = {}
          /\ rows = NoRow(Item) /\ past = [i \in Item |-> {}] /\ kit = None
    /\ grants = {} /\ shares = NoRow(Share) /\ calls = {}
    /\ events = 0 /\ budget \in Budgets

Active(table, i) == table[i] # None /\ ~table[i].deleted

-----------------------------------------------------------------------------
(* Requests                                                                *)

\* A user of the client does something.
Act(client) ==
    /\ budget[client] > 0
    /\ budget' = [budget EXCEPT ![client] = @ - 1]
    /\ events' = events + 1

Call(from, n, kind, session, arg) ==
    [from |-> from, n |-> n, kind |-> kind, session |-> session, arg |-> arg,
     at |-> "sent", answer |-> None]

Send(c) == calls' = calls \cup {c}

Taken(c) == calls' = calls \ {c}

Answered(c) == c.at = "done"

\* The answer is on its way; session routes check the token first.
Done(c, answer) ==
    /\ c.at = "sent"
    /\ calls' = (calls \ {c}) \cup {[c EXCEPT !.at = "done", !.answer = answer]}
    /\ UNCHANGED <<events, budget>>

Authorised(c) == c.session \in sessions

\* The client gives the request up: it is refused or lost, or carried out and
\* its answer lost.
Failed(c) == c.at \in {"sent", "done"}

-----------------------------------------------------------------------------
(* Sessions and devices                                                    *)

ServeRegister(c) ==
    /\ c.kind = "register" /\ account = "none"
    /\ account' = "real"
    /\ Done(c, None)
    /\ UNCHANGED <<sessions, devices, rows, past, kit, grants, shares>>

\* A session is linked to a device only if the login names one; the web and
\* the desktop client never do.
ServeLogin(c) ==
    LET s == [of |-> c.from, n |-> c.arg.code, device |-> None]
    IN /\ c.kind = "login" /\ account # "none"
       /\ sessions' = sessions \cup {s}
       /\ Done(c, [session |-> s])
       /\ UNCHANGED <<account, devices, rows, past, kit, grants, shares>>

ServeLogout(c) ==
    /\ c.kind = "logout" /\ Authorised(c)
    /\ sessions' = sessions \ {c.session}
    /\ Done(c, None)
    /\ UNCHANGED <<account, devices, rows, past, kit, grants, shares>>

\* rotate_master_password under a session: all others end, and so do the
\* recovery tokens.
ServeChangePassword(c) ==
    /\ c.kind = "change" /\ Authorised(c)
    /\ sessions' = {c.session} /\ grants' = {}
    /\ Done(c, None)
    /\ UNCHANGED <<account, devices, rows, past, kit, shares>>

ServeDevices(c) ==
    /\ c.kind = "devices" /\ Authorised(c)
    /\ Done(c, [listed |-> devices])
    /\ UNCHANGED serverVars

\* Mutant: the device goes, its sessions stay.
SessionsStay(d) == sessions

\* delete_device ends the sessions that are linked to it.
SessionsWithout(d) == {s \in sessions : s.device # d}

ServeRemoveDevice(c) ==
    /\ c.kind = "remove_device" /\ Authorised(c) /\ c.arg.device \in devices
    /\ devices' = devices \ {c.arg.device}
    /\ sessions' = SessionsWithout(c.arg.device)
    /\ Done(c, None)
    /\ UNCHANGED <<account, rows, past, kit, grants, shares>>

ServeSignOutOthers(c) ==
    /\ c.kind = "sign_out_others" /\ Authorised(c)
    /\ sessions' = {c.session}
    /\ Done(c, None)
    /\ UNCHANGED <<account, devices, rows, past, kit, grants, shares>>

-----------------------------------------------------------------------------
(* Items                                                                   *)

ServeItems(c) ==
    /\ c.kind = "items" /\ Authorised(c)
    /\ Done(c, [rows |-> rows])
    /\ UNCHANGED serverVars

Store(i, row) ==
    /\ rows' = [rows EXCEPT ![i] = row]
    /\ past' = [past EXCEPT ![i] = @ \cup {<<row.version, row.text>>}]

ServeCreate(c) ==
    /\ c.kind = "create" /\ Authorised(c) /\ rows[c.arg.item] = None
    /\ Store(c.arg.item, New(c.arg.text))
    /\ Done(c, [row |-> New(c.arg.text)])
    /\ UNCHANGED <<accountVars, kit, grants, shares>>

\* Mutant: the server does not compare versions.
AnyVersion(c) == TRUE

SameVersion(c) == rows[c.arg.item].version = c.arg.row.version

\* update_item: a row in the trash is saved like any other, and stays there.
ServeUpdate(c) ==
    LET row == rows[c.arg.item]
    IN /\ c.kind = "update" /\ Authorised(c) /\ row # None
       /\ SameVersion(c)
       /\ Store(c.arg.item, [row EXCEPT !.version = @ + 1, !.text = c.arg.text])
       /\ Done(c, None)
       /\ UNCHANGED <<accountVars, kit, grants, shares>>

ServeDelete(c) ==
    /\ c.kind = "delete" /\ Authorised(c) /\ Active(rows, c.arg.item)
    /\ Store(c.arg.item, [rows[c.arg.item] EXCEPT !.deleted = TRUE])
    /\ Done(c, None)
    /\ UNCHANGED <<accountVars, kit, grants, shares>>

\* Another device saves an item, also one that is in the trash by now.
OtherSaves(i) ==
    /\ Act("desktop") /\ rows[i] # None
    /\ Store(i, [rows[i] EXCEPT !.version = @ + 1, !.text = events + 1])
    /\ UNCHANGED <<accountVars, kit, grants, shares, calls>>

-----------------------------------------------------------------------------
(* Recovery                                                                *)

ServeKitStatus(c) ==
    /\ c.kind = "status" /\ Authorised(c)
    /\ Done(c, [enabled |-> kit # None])
    /\ UNCHANGED serverVars

ServeSetKit(c) ==
    /\ c.kind = "set_kit" /\ Authorised(c)
    /\ kit' = [code |-> c.arg.code, keys |-> c.arg.keys] /\ grants' = {}
    /\ Done(c, None)
    /\ UNCHANGED <<accountVars, rows, past, shares>>

ServeClearKit(c) ==
    /\ c.kind = "clear_kit" /\ Authorised(c)
    /\ kit' = None /\ grants' = {}
    /\ Done(c, None)
    /\ UNCHANGED <<accountVars, rows, past, shares>>

\* The code must be the kit's; the answer carries the kit and a token.
ServeRecoveryInit(c) ==
    /\ c.kind = "recovery_init" /\ kit # None /\ kit.code = c.arg.code
    /\ grants' = grants \cup {c.n}
    /\ Done(c, [keys |-> kit.keys, grant |-> c.n])
    /\ UNCHANGED <<accountVars, rows, past, kit, shares>>

\* rotate_master_password under a token, which is consumed: the password and
\* the kit wrap what the client sends, and every session ends.
ServeRecovery(c) ==
    /\ c.kind = "recovery" /\ c.arg.grant \in grants
    /\ account' = c.arg.keys /\ kit' = [code |-> c.arg.code, keys |-> c.arg.keys]
    /\ sessions' = {} /\ grants' = {}
    /\ Done(c, None)
    /\ UNCHANGED <<devices, rows, past, shares>>

-----------------------------------------------------------------------------
(* Shared links                                                            *)

ServeCreateShare(c) ==
    /\ c.kind = "create_share" /\ Authorised(c) /\ shares[c.arg.share] = None
    /\ shares' = [shares EXCEPT ![c.arg.share] =
                    [used |-> 0, limit |-> c.arg.limit, expired |-> FALSE]]
    /\ Done(c, None)
    /\ UNCHANGED <<accountVars, rows, past, kit, grants>>

ServeShares(c) ==
    /\ c.kind = "shares" /\ Authorised(c)
    /\ Done(c, [listed |-> {s \in Share : shares[s] # None /\ ~shares[s].expired}])
    /\ UNCHANGED serverVars

ServeRevoke(c) ==
    /\ c.kind = "revoke" /\ Authorised(c) /\ shares[c.arg.share] # None
    /\ shares' = [shares EXCEPT ![c.arg.share] = None]
    /\ Done(c, None)
    /\ UNCHANGED <<accountVars, rows, past, kit, grants>>

\* Mutant: the limit is compared before the view is counted.
ViewAfterLimit(s) == shares[s].used <= shares[s].limit

ViewLeft(s) == shares[s].used < shares[s].limit

\* consume_view: one statement checks and counts.
ServeView(c) ==
    LET s == c.arg.share
    IN /\ c.kind = "view" /\ shares[s] # None /\ ~shares[s].expired /\ ViewLeft(s)
       /\ shares' = [shares EXCEPT ![s].used = @ + 1]
       /\ Done(c, [left |-> shares[s].limit - shares[s].used - 1])
       /\ UNCHANGED <<accountVars, rows, past, kit, grants>>

\* The clock passes expires_at.
Expire(s) ==
    /\ Act("web") /\ shares[s] # None /\ ~shares[s].expired
    /\ shares' = [shares EXCEPT ![s].expired = TRUE]
    /\ UNCHANGED <<accountVars, rows, past, kit, grants, calls>>

\* delete_expired, from the hourly task.
DeleteExpired ==
    /\ \E s \in Share : shares[s] # None /\ shares[s].expired
    /\ shares' = [s \in Share |-> IF shares[s] # None /\ shares[s].expired
                                  THEN None ELSE shares[s]]
    /\ UNCHANGED <<accountVars, rows, past, kit, grants, calls, events,
                   budget>>

-----------------------------------------------------------------------------
Serve(c) ==
    \/ ServeRegister(c) \/ ServeLogin(c) \/ ServeLogout(c)
    \/ ServeChangePassword(c) \/ ServeDevices(c) \/ ServeRemoveDevice(c)
    \/ ServeSignOutOthers(c)
    \/ ServeItems(c) \/ ServeCreate(c) \/ ServeUpdate(c) \/ ServeDelete(c)
    \/ ServeKitStatus(c) \/ ServeSetKit(c) \/ ServeClearKit(c)
    \/ ServeRecoveryInit(c) \/ ServeRecovery(c)
    \/ ServeCreateShare(c) \/ ServeShares(c) \/ ServeRevoke(c) \/ ServeView(c)

ServerNext ==
    \/ \E c \in calls : Serve(c)
    \/ \E i \in Item : OtherSaves(i)
    \/ \E s \in Share : Expire(s)
    \/ DeleteExpired

ServerTypeOK ==
    /\ account \in Keys \cup {"none"}
    /\ sessions \subseteq Session /\ devices \subseteq Device
    /\ rows \in [Item -> Row \cup {None}]
    /\ kit \in Kit \cup {None} /\ grants \subseteq Nat
    /\ shares \in [Share -> ShareRow \cup {None}]
    /\ \A c \in calls : c.at \in {"sent", "done"}
    /\ events \in 0..MaxEvents

=============================================================================
