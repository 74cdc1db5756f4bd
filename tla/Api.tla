--------------------------------- MODULE Api ---------------------------------
(***************************************************************************)
(* The command API of the desktop: the listener and the person's choice to *)
(* have it (api.rs), the tokens (tokens.rs), one request from connecting   *)
(* to its answer (api.rs, api/http.rs), the question to the person         *)
(* (api/prompt.rs) and the files a confirmed route writes (api/files.rs,   *)
(* api/confirmed.rs, api/documents.rs).                                    *)
(*                                                                         *)
(* The routes are those of module Routes; what a change of records means   *)
(* is the business of modules Ledger, Books, Recurring and Library: here   *)
(* it leaves a mark of who made it. A time is what is left of it, and Tick *)
(* lets it pass.                                                           *)
(***************************************************************************)
EXTENDS Routes, Integers, Sequences, SequencesExt, FiniteSetsExt, Functions

CONSTANTS
  MaxConns,      \* bound: connections, one request each
  MaxSecrets,    \* bound: tokens ever made, each with its own secret
  Paths,         \* files outside the app
  Requests,      \* Requests[s][c]: what connection c may send in scope s
  Happens,       \* bound: Happens[s]: what else goes on in scope s
  CONNECTIONS,   \* Limits: connections at once
  REQUEST_TIME,  \* Limits: for a whole request to arrive
  WAIT, COOLDOWN,\* how long a question waits, and how long a no lasts
  MaxServers,    \* bound: times the listener is started
  MaxChanges     \* bound: changes of tokens, of settings, and locks

ASSUME ApiAssumption ==
  {MaxConns, MaxSecrets, CONNECTIONS, REQUEST_TIME, WAIT, COOLDOWN, MaxServers, MaxChanges} \subseteq Nat \ {0}

Sent == UNION {UNION {Requests[s][c] : c \in DOMAIN Requests[s]} : s \in DOMAIN Requests}
(* A uuid other than 0 is what is given as the argument clientUuid.        *)
ASSUME RequestsAssumption ==
  \A r \in Sent :
    /\ r \in [route : STRING, args : SUBSET STRING, secret : Nat, path : Paths \cup {0}, uuid : Nat, fault : STRING, large : BOOLEAN]
    /\ r.uuid # 0 => "clientUuid" \in r.args

VARIABLES
  app,       \* the app runs
  vault,     \* "none" | "locked" | "open"
  token,     \* the table api_tokens: token[id]: [secret, scope, expired]
  settings,  \* [locale, timezone]: who set it last: 0, a connection, or -1, the window
  document,  \* the document of documents.get has its file
  records,   \* the changes made, in order: [by, uuid]
  enabled,   \* the person's choice, in the configuration file
  busy,      \* what the window's thread does with the host: "" | "launch" | "stop"
  server,    \* [n, up, stop, woken, used], n the launches so far
  portFile,  \* api.json: 0, or the launch that wrote it
  conn,      \* conn[c]: [stage, server, request, grant, left, heard, seen, answer]
  dialog,    \* dialog[c]: "" | "shown" | its answer, which is on its way
  open, refused,   \* State of the Prompter; refused[id]: what is left of a no
  disk,      \* disk[p]: [by, whole], by 0 (no file), a connection or -1 (others)
  said,      \* history: the requests the person said yes to
  scope, changes   \* what happens in this run, and how often the window changed things

vars == <<app, vault, token, settings, document, records, enabled, busy, server, portFile, conn, dialog, open, refused, disk, said,
          scope, changes>>
Conns == 1..MaxConns
Secrets == 1..MaxSecrets
hostVars == <<enabled, busy, server, portFile>>
dataVars == <<vault, token, settings, document, records>>
askVars == <<dialog, open, refused, said>>
runVars == <<app, scope, changes>>

Answers == {"yes", "no", "failed"}
NoRequest == [route |-> "", args |-> {}, secret |-> 0, path |-> 0, uuid |-> 0, fault |-> "", large |-> FALSE]
NoGrant == [id |-> 0, scope |-> ""]
Idle == [stage |-> "idle", server |-> 0, request |-> NoRequest, grant |-> NoGrant, left |-> 0, heard |-> "", seen |-> [f \in {} |-> 0], answer |-> ""]
NoFile == [by |-> 0, whole |-> FALSE]
NoServer == [n |-> 1, up |-> FALSE, stop |-> FALSE, woken |-> FALSE, used |-> 0]
Ids == 1..(2 + MaxChanges)   \* two tokens at first, and a change for each that is made
Codes ==
  {"ok", "refused", "denied", "internal", "forbidden", "method_not_allowed", "unauthorized", "not_set_up", "locked", "too_large",
   "unknown_route", "invalid_input", "file_exists", "not_found"}
Stages ==
  {"idle", "knocking", "reading", "body", "whole", "describe", "ask", "waiting", "run", "work", "reply", "create", "fill",
   "answered", "done"}
Fields == {"locale", "timezone"}
Whose == Conns \cup {0, -1}
Connections ==
  [stage : Stages, server : Nat, request : Sent \cup {NoRequest}, grant : [id : Ids \cup {0}, scope : {"", "READ", "WRITE"}],
   left : Nat, heard : Answers \cup {""}, seen : [Fields -> Whose] \cup [{} -> Whose], answer : Codes \cup {""}]
Servers == [n : Nat, up : BOOLEAN, stop : BOOLEAN, woken : BOOLEAN, used : Int]
Scopes == DOMAIN Requests
TypeOK ==
  /\ scope \in Scopes /\ server \in Servers
  /\ app \in BOOLEAN /\ vault \in {"none", "locked", "open"} /\ document \in BOOLEAN
  /\ DOMAIN token \subseteq 1..(2 + changes["token"]) /\ changes \in [{"token", "settings", "lock"} -> 0..MaxChanges]
  /\ token \in [DOMAIN token -> [secret : Nat \ {0}, scope : {"READ", "WRITE"}, expired : BOOLEAN]]
  /\ settings \in [Fields -> Whose] /\ records \in Seq([by : Conns, uuid : Nat])
  /\ conn \in [Conns -> Connections] /\ dialog \in [Conns -> {"", "shown"} \cup Answers]
  /\ open \in BOOLEAN /\ refused \in [Ids -> Nat] /\ said \subseteq Conns
  /\ disk \in [Paths -> [by : Whose, whole : BOOLEAN]]
Changed(kind) == changes[kind] < MaxChanges /\ changes' = [changes EXCEPT ![kind] = @ + 1]

-----------------------------------------------------------------------------
(* What is refused before a route runs, in its order.                      *)
Known(r) == r.route \in DOMAIN AllRoutes
RouteOf(c) == AllRoutes[conn[c].request.route]
Allows(held, asked) == held = "WRITE" \/ asked = "READ"

(* verify: unknown, revoked and expired tokens look the same.              *)
Grants(r) == {id \in DOMAIN token : token[id].secret = r.secret /\ ~token[id].expired}
TooLittle(r) == \A id \in Grants(r) : ~Allows(token[id].scope, AllRoutes[r.route].scope)

(* A check gives its code when it fails, and the first code counts.        *)
Fails(failed, code) == IF failed THEN code ELSE ""
first ?? next == IF first = "" THEN next ELSE first

Door(r) == Fails(r.fault \in {"host", "origin"}, "forbidden") ?? Fails(r.fault = "method", "method_not_allowed")
Authenticate(r) ==
  Fails(r.secret = 0, "unauthorized") ?? Fails(vault = "none", "not_set_up") ?? Fails(vault = "locked", "locked")
    ?? Fails(Grants(r) = {}, "unauthorized")

(* admit_large, before the body is read.                                   *)
Admitted(r) ==
  Fails(~Known(r) \/ ~TakesAFile(r.route), "too_large") ?? Door(r) ?? Authenticate(r) ?? Fails(TooLittle(r), "forbidden")
(* handle.                                                                 *)
Refusal(r) ==
  Door(r) ?? Fails(r.fault = "target", "unknown_route") ?? Authenticate(r) ?? Fails(~Known(r), "unknown_route")
    ?? Fails(TooLittle(r), "forbidden") ?? Fails(~Fits(r), "invalid_input")

-----------------------------------------------------------------------------
(* A connection. The slot is given back however it ends.                   *)
At(c, stage) == conn[c].stage = stage
Released(c) == [server EXCEPT !.used = IF conn[c].server = server.n THEN @ - 1 ELSE @]
Go(c, stage) == conn' = [conn EXCEPT ![c].stage = stage] /\ UNCHANGED server
Answered(c, code) == conn' = [conn EXCEPT ![c].stage = "answered", ![c].answer = code] /\ UNCHANGED server
Others == UNCHANGED <<dataVars, enabled, busy, portFile, askVars, disk, runVars>>

(* Connections are numbered in the order in which they are made.           *)
Connect(c, r) ==
  /\ server.up /\ At(c, "idle") /\ \A d \in 1..(c - 1) : ~At(d, "idle")
  /\ conn' = [conn EXCEPT ![c] = [Idle EXCEPT !.stage = "knocking", !.server = server.n, !.request = r]]
  /\ UNCHANGED server /\ Others

(* accept_loop: the flag is looked at when something has connected, and a  *)
(* connection over the limit is closed without an answer.                  *)
Knocking == {c \in Conns : At(c, "knocking") /\ conn[c].server = server.n}
Accept ==
  /\ server.up /\ Others
  /\ \/ /\ server.stop /\ (server.woken \/ Knocking # {})
        /\ server' = [server EXCEPT !.up = FALSE]
        /\ conn' = [c \in Conns |-> IF c \in Knocking THEN [conn[c] EXCEPT !.stage = "done"] ELSE conn[c]]
     \/ /\ ~server.stop
        /\ \E c \in Knocking :
             IF server.used >= CONNECTIONS THEN Go(c, "done")
             ELSE /\ server' = [server EXCEPT !.used = @ + 1]
                  /\ conn' = [conn EXCEPT ![c].stage = "reading", ![c].left = REQUEST_TIME]

(* read_request: a large body is read only once it is admitted.            *)
ReadHead(c) ==
  /\ At(c, "reading") /\ conn[c].request.large
  /\ IF Admitted(conn[c].request) = "" THEN Go(c, "body") ELSE Answered(c, Admitted(conn[c].request))
  /\ Others
ReadBody(c) ==
  /\ At(c, "body") \/ (At(c, "reading") /\ ~conn[c].request.large)
  /\ Go(c, "whole") /\ Others
Dropped(c) == conn' = [conn EXCEPT ![c].stage = "done"] /\ server' = Released(c) /\ Others
Reading(c) == conn[c].stage \in {"reading", "body"}
ClientLeaves(c) == Reading(c) /\ Dropped(c)
OutOfTime(c) == Reading(c) /\ conn[c].left = 0 /\ Dropped(c)

(* handle, up to the route.                                                *)
Handle(c) ==
  LET r == conn[c].request IN
    /\ At(c, "whole")
    /\ IF Refusal(r) # "" THEN Answered(c, Refusal(r))
       ELSE /\ conn' = [conn EXCEPT ![c].stage = IF RouteOf(c).confirm THEN "describe" ELSE "run",
                                    ![c].grant = LET id == CHOOSE id \in Grants(r) : TRUE IN [id |-> id, scope |-> token[id].scope]]
            /\ UNCHANGED server
    /\ Others
Respond(c) ==
  /\ At(c, "answered")
  /\ conn' = [conn EXCEPT ![c].stage = "done"] /\ server' = Released(c)
  /\ Others

-----------------------------------------------------------------------------
(* What stops a route, before the question and again before its work. The  *)
(* path is checked first, except where the kind of the document decides    *)
(* how it must end.                                                        *)
Shut == Fails(vault # "open", "locked")
CannotWork(r) ==
  LET taken == Fails(disk[r.path] # NoFile, "file_exists")
      gone == Fails(~document, "not_found")
  IN IF r.route \in {"status", "schema"} THEN ""
     ELSE IF r.route = "documents.get" THEN Shut ?? gone ?? taken
     ELSE IF AllRoutes[r.route].confirm THEN taken ?? Shut
     ELSE Fails(~MakesSense(r), "invalid_input") ?? Shut
Describe(c) ==
  /\ At(c, "describe")
  /\ IF CannotWork(conn[c].request) # "" THEN Answered(c, CannotWork(conn[c].request)) ELSE Go(c, "ask")
  /\ Others

Ask(c) ==
  /\ At(c, "ask")
  /\ \/ (open \/ refused[conn[c].grant.id] > 0) /\ Answered(c, "denied") /\ UNCHANGED <<dialog, open>>
     \/ ~open /\ refused[conn[c].grant.id] = 0 /\ Answered(c, "internal") /\ UNCHANGED <<dialog, open>>
     \/ /\ ~open /\ refused[conn[c].grant.id] = 0
        /\ open' = TRUE /\ dialog' = [dialog EXCEPT ![c] = "shown"]
        /\ conn' = [conn EXCEPT ![c].stage = "waiting", ![c].left = WAIT] /\ UNCHANGED server
  /\ UNCHANGED <<dataVars, enabled, busy, portFile, refused, said, disk, runVars>>

(* The dialog's thread: closed first, then the answer goes to the one who  *)
(* asked, if it still waits.                                               *)
Close(c, answer) ==
  /\ dialog[c] = "shown"
  /\ dialog' = [dialog EXCEPT ![c] = answer] /\ open' = FALSE
  /\ said' = IF answer = "yes" THEN said \cup {c} ELSE said
  /\ UNCHANGED <<dataVars, hostVars, conn, refused, disk, runVars>>
(* Mutant of Asker: one channel for all who wait.                          *)
AskerWhoWaits(c) == {d \in Conns : At(d, "waiting")}
Asker(c) == {d \in {c} : At(d, "waiting")}
Deliver(c) ==
  /\ dialog[c] \in Answers
  /\ dialog' = [dialog EXCEPT ![c] = ""]
  /\ conn' = [d \in Conns |-> IF d \in Asker(c) THEN [conn[d] EXCEPT !.heard = dialog[c]] ELSE conn[d]]
  /\ UNCHANGED <<dataVars, hostVars, open, refused, said, disk, runVars>>

Receive(c) ==
  /\ At(c, "waiting") /\ conn[c].heard # ""
  /\ IF conn[c].heard = "yes" THEN Go(c, "run") ELSE Answered(c, "denied")
  /\ refused' = IF conn[c].heard = "no" THEN [refused EXCEPT ![conn[c].grant.id] = COOLDOWN] ELSE refused
  /\ UNCHANGED <<dataVars, enabled, busy, portFile, dialog, open, said, disk, runVars>>
(* Mutant of AskAgain: a question that was given up no longer counts.      *)
AskAgainAfter(now) == FALSE
AskAgain(now) == now
TimeOut(c) ==
  /\ At(c, "waiting") /\ conn[c].heard = "" /\ conn[c].left = 0
  /\ Answered(c, "denied")
  /\ open' = AskAgain(open)
  /\ UNCHANGED <<dataVars, enabled, busy, portFile, dialog, refused, said, disk, runVars>>

-----------------------------------------------------------------------------
(* The routes. Each look into the vault is a call of its own.              *)
LooksTwice(c) == RouteOf(c).today \/ conn[c].request.route = "settings.set"
Begin(c) ==
  LET stopped == CannotWork(conn[c].request) IN
    /\ At(c, "run") /\ LooksTwice(c)
    /\ IF stopped # "" THEN Answered(c, stopped)
       ELSE conn' = [conn EXCEPT ![c].stage = "work", ![c].seen = settings] /\ UNCHANGED server
    /\ Others
Ready(c) == At(c, "work") \/ (At(c, "run") /\ ~LooksTwice(c))
Stopped(c) == IF At(c, "work") THEN Shut ELSE CannotWork(conn[c].request)
GivenUp(c) == Ready(c) /\ Stopped(c) # "" /\ Answered(c, Stopped(c)) /\ Others

Look(c) ==
  /\ Ready(c) /\ Stopped(c) = "" /\ RouteOf(c).scope = "READ" /\ ~RouteOf(c).confirm
  /\ Answered(c, "ok") /\ Others
(* transactions.create: a uuid that is there gives back its transaction.   *)
(* Mutant of IsThere: looked for by nobody.                                *)
IsThereNever(r) == FALSE
IsThere(r) == "clientUuid" \in r.args /\ \E i \in DOMAIN records : records[i].uuid = r.uuid
Change(c) ==
  LET r == conn[c].request IN
    /\ Ready(c) /\ Stopped(c) = "" /\ RouteOf(c).changes
    /\ \/ Answered(c, "ok") /\ records' = IF IsThere(r) THEN records ELSE Append(records, [by |-> c, uuid |-> r.uuid])
       \/ Answered(c, "refused") /\ UNCHANGED records
    /\ UNCHANGED <<vault, token, settings, document, enabled, busy, portFile, askVars, disk, runVars>>

(* settings.set: what was read is saved with what was given, and read once *)
(* more for the answer.                                                    *)
SaveSettings(c) ==
  /\ At(c, "work") /\ vault = "open" /\ conn[c].request.route = "settings.set"
  /\ settings' = [f \in DOMAIN settings |-> IF f \in conn[c].request.args THEN c ELSE conn[c].seen[f]]
  /\ Go(c, "reply")
  /\ UNCHANGED <<vault, token, document, records, enabled, busy, portFile, askVars, disk, runVars>>
Reply(c) == At(c, "reply") /\ Answered(c, IF vault = "open" THEN "ok" ELSE "locked") /\ Others

(* A confirmed route has read what it writes; now it makes the file.       *)
ReadForFile(c) ==
  /\ Ready(c) /\ Stopped(c) = "" /\ RouteOf(c).confirm
  /\ Go(c, "create") /\ Others
MayCreate(p) == disk[p] = NoFile
CreateFile(c) ==
  LET p == conn[c].request.path IN
    /\ At(c, "create")
    /\ \/ ~MayCreate(p) /\ Answered(c, "file_exists") /\ UNCHANGED disk
       \/ MayCreate(p) /\ Answered(c, "internal") /\ UNCHANGED disk
       \/ MayCreate(p) /\ disk' = [disk EXCEPT ![p] = [by |-> c, whole |-> FALSE]] /\ Go(c, "fill")
    /\ UNCHANGED <<dataVars, enabled, busy, portFile, askVars, runVars>>
FillFile(c) ==
  LET p == conn[c].request.path IN
    /\ At(c, "fill")
    /\ \/ disk' = [disk EXCEPT ![p].whole = TRUE] /\ Answered(c, "ok")
       \/ disk' = [disk EXCEPT ![p] = NoFile] /\ Answered(c, "internal")
    /\ UNCHANGED <<dataVars, enabled, busy, portFile, askVars, runVars>>

-----------------------------------------------------------------------------
(* The host, on the window's thread: one call at a time, and with it       *)
(* whatever else is done in the window.                                    *)
Window == app /\ busy = ""
HostRest == UNCHANGED <<dataVars, conn, askVars, disk, runVars>>
Launching == server.n < MaxServers /\ busy' = "launch" /\ UNCHANGED <<server, portFile>>
(* Mutant of WakeUp: nothing connects to make the listener look.           *)
WakeUpNever(s) == [s EXCEPT !.stop = TRUE]
WakeUp(s) == [s EXCEPT !.stop = TRUE, !.woken = TRUE]
Stopping == busy' = "stop" /\ server' = WakeUp(server) /\ UNCHANGED portFile

(* set_enabled.                                                            *)
TurnOn ==
  /\ Window /\ vault = "open"
  /\ enabled' = TRUE
  /\ IF server.up THEN UNCHANGED <<busy, server, portFile>> ELSE Launching
  /\ HostRest
TurnOff ==
  /\ Window /\ vault = "open"
  /\ enabled' = FALSE
  /\ IF server.up THEN Stopping ELSE UNCHANGED <<busy, server, portFile>>
  /\ HostRest
(* start_with, and what is done when it fails: before the port file is     *)
(* written or after it, and then it is removed. A choice that was just     *)
(* made is taken back, unless the app is locked by then.                   *)
Launched ==
  /\ busy = "launch" /\ busy' = ""
  /\ server' = [NoServer EXCEPT !.n = server.n + 1, !.up = TRUE] /\ portFile' = server.n + 1
  /\ UNCHANGED enabled /\ HostRest
FileAfterFailure(n) == 0
LaunchFails ==
  /\ busy = "launch" /\ busy' = ""
  /\ portFile' \in {portFile, FileAfterFailure(server.n + 1)}
  /\ server' = [NoServer EXCEPT !.n = server.n + 1]
  /\ enabled' = (enabled /\ vault # "open")
  /\ HostRest
(* ApiServer::drop.                                                        *)
HasStopped ==
  /\ busy = "stop" /\ ~server.up
  /\ busy' = "" /\ portFile' = 0
  /\ UNCHANGED <<enabled, server>> /\ HostRest

(* start_if_enabled.                                                       *)
Start ==
  /\ ~app /\ app' = TRUE
  /\ IF enabled THEN Launching ELSE portFile' = 0 /\ UNCHANGED <<busy, server>>
  /\ UNCHANGED <<enabled, dataVars, conn, askVars, disk, scope, changes>>
(* The app ends, with the port file removed, or breaks off.                *)
Ends ==
  /\ app /\ app' = FALSE
  /\ portFile' \in IF server.up /\ busy = "" THEN {0, portFile} ELSE {portFile}
  /\ server' = [NoServer EXCEPT !.n = server.n] /\ busy' = ""
  /\ vault' = IF vault = "open" THEN "locked" ELSE vault
  /\ conn' = [c \in Conns |-> IF At(c, "idle") THEN conn[c] ELSE [conn[c] EXCEPT !.stage = "done"]]
  /\ dialog' = [c \in Conns |-> ""] /\ open' = FALSE /\ refused' = [id \in Ids |-> 0]
  /\ UNCHANGED <<token, settings, document, records, enabled, disk, said, scope, changes>>

-----------------------------------------------------------------------------
(* What else the person does, and others on the computer, and time.        *)
DataRest == UNCHANGED <<hostVars, conn, askVars, disk, app, scope>>
Made == {token[id].secret : id \in DOMAIN token} \cup {conn[c].request.secret : c \in Conns}
CreateToken ==
  /\ Window /\ vault = "open" /\ Changed("token")
  /\ \E secret \in Secrets \ Made, held \in {"READ", "WRITE"} :
       LET next == Max(DOMAIN token \cup {0}) + 1 IN
         token' = [id \in DOMAIN token \cup {next} |->
                     IF id = next THEN [secret |-> secret, scope |-> held, expired |-> FALSE] ELSE token[id]]
  /\ UNCHANGED <<vault, settings, document, records>> /\ DataRest
Revoke ==
  /\ Window /\ vault = "open" /\ Changed("token")
  /\ \E id \in DOMAIN token : token' = Restrict(token, DOMAIN token \ {id})
  /\ UNCHANGED <<vault, settings, document, records>> /\ DataRest
Expire ==
  /\ Changed("token")
  /\ \E id \in DOMAIN token : ~token[id].expired /\ token' = [token EXCEPT ![id].expired = TRUE]
  /\ UNCHANGED <<vault, settings, document, records>> /\ DataRest
ChangeSettings ==
  /\ Window /\ vault = "open" /\ Changed("settings")
  /\ settings' = [f \in DOMAIN settings |-> -1]
  /\ UNCHANGED <<vault, token, document, records>> /\ DataRest
DeleteDocument ==
  /\ vault = "open" /\ document /\ document' = FALSE
  /\ UNCHANGED <<vault, token, settings, records, changes>> /\ DataRest
Lock ==
  /\ vault = "open" /\ Changed("lock") /\ vault' = "locked"
  /\ UNCHANGED <<token, settings, document, records>> /\ DataRest
Unlock ==
  /\ Window /\ vault = "locked" /\ vault' = "open"
  /\ UNCHANGED <<token, settings, document, records, changes>> /\ DataRest
(* wipe_all_data: the configuration goes too, then the listener.           *)
Erase ==
  /\ Window /\ vault # "none" /\ Changed("lock") /\ vault' = "none"
  /\ token' = <<>> /\ document' = FALSE /\ records' = <<>> /\ enabled' = FALSE
  /\ IF server.up THEN Stopping ELSE UNCHANGED <<busy, server, portFile>>
  /\ UNCHANGED <<settings, conn, askVars, disk, app, scope>>
TheirFile ==
  /\ \E p \in Paths : disk[p] = NoFile /\ disk' = [disk EXCEPT ![p] = [by |-> -1, whole |-> TRUE]]
  /\ UNCHANGED <<dataVars, hostVars, conn, askVars, runVars>>

Less(n) == IF n > 0 THEN n - 1 ELSE 0
Running == {c \in Conns : Reading(c) \/ At(c, "waiting")}
Tick ==
  /\ (\E c \in Running : conn[c].left > 0) \/ \E id \in Ids : refused[id] > 0
  /\ conn' = [c \in Conns |-> IF c \in Running THEN [conn[c] EXCEPT !.left = Less(@)] ELSE conn[c]]
  /\ refused' = [id \in Ids |-> Less(refused[id])]
  /\ UNCHANGED <<dataVars, hostVars, dialog, open, said, disk, runVars>>

-----------------------------------------------------------------------------
Init ==
  /\ scope \in Scopes /\ changes = [kind \in {"token", "settings", "lock"} |-> 0]
  /\ app = TRUE /\ vault = "open" /\ enabled = TRUE /\ busy = ""
  /\ token = <<[secret |-> 1, scope |-> "READ", expired |-> FALSE], [secret |-> 2, scope |-> "WRITE", expired |-> FALSE]>>
  /\ settings = [f \in Fields |-> 0] /\ document = TRUE /\ records = <<>>
  /\ server = [NoServer EXCEPT !.up = TRUE] /\ portFile = 1
  /\ conn = [c \in Conns |-> Idle] /\ dialog = [c \in Conns |-> ""]
  /\ open = FALSE /\ refused = [id \in Ids |-> 0] /\ said = {} /\ disk = [p \in Paths |-> NoFile]

ServerStep(c) ==
  \/ ReadHead(c) \/ Handle(c) \/ Describe(c) \/ Ask(c) \/ Receive(c) \/ TimeOut(c)
  \/ Begin(c) \/ GivenUp(c) \/ Look(c) \/ Change(c) \/ SaveSettings(c) \/ Reply(c) \/ ReadForFile(c) \/ CreateFile(c) \/ FillFile(c) \/ Respond(c)
Also(kind) == kind \in Happens[scope]
Client(c) ==
  \/ c \in DOMAIN Requests[scope] /\ \E r \in Requests[scope][c] : Connect(c, r)
  \/ ReadBody(c) \/ (Also("leave") /\ ClientLeaves(c))
Next ==
  \/ \E c \in Conns : ServerStep(c) \/ Client(c) \/ OutOfTime(c) \/ Deliver(c) \/ \E answer \in Answers : Close(c, answer)
  \/ Accept \/ Launched \/ LaunchFails \/ HasStopped \/ Tick
  \/ Also("host") /\ (TurnOn \/ TurnOff \/ Start \/ Ends \/ (busy = "launch" /\ Lock) \/ Unlock)
  \/ Also("files") /\ (DeleteDocument \/ TheirFile)
  \/ Also("lock") /\ (Revoke \/ Lock)
  \/ Also("window") /\ (CreateToken \/ Expire \/ ChangeSettings \/ Erase)

(* Threads go on and time passes; people and other programs need not do    *)
(* anything.                                                               *)
Fairness ==
  /\ WF_vars(Accept) /\ WF_vars(Launched \/ LaunchFails) /\ WF_vars(HasStopped) /\ WF_vars(Tick)
  /\ \A c \in Conns : WF_vars(ServerStep(c)) /\ WF_vars(OutOfTime(c)) /\ WF_vars(Deliver(c))
Spec == Init /\ [][Next]_vars /\ Fairness
-----------------------------------------------------------------------------
(* Properties.                                                             *)

(* The app thinks a question is open exactly while one is on screen, and   *)
(* there is never a second one: not after a time-out, when the dialog      *)
(* stays up, and not after a dialog that failed (prompt.rs:46-60, 86-104). *)
QuestionsAreShown ==
  LET shown == {c \in Conns : dialog[c] = "shown"} IN (open <=> shown # {}) /\ Cardinality(shown) <= 1

(* A file was written for a request only if the person said yes to that    *)
(* very request while it waited, and it is at the path they were shown     *)
(* (prompt.rs:106-113, confirmed.rs:1-5). A file that is there is never    *)
(* replaced or removed, whoever made it in whatever moment: a request only *)
(* takes back what it could not finish (files.rs:51-80).                   *)
AllowedFile(p, c) == disk[p].by = c => c \in said /\ conn[c].request.path = p
Finishing(p, c) ==
  /\ disk[p] = [by |-> c, whole |-> FALSE] /\ At(c, "fill")
  /\ disk'[p] \in {NoFile, [by |-> c, whole |-> TRUE]}
OnlyAllowed ==
  /\ [](\A p \in Paths, c \in Conns : AllowedFile(p, c))
  /\ [][\A p \in Paths : disk[p] # NoFile /\ disk'[p] # disk[p] => \E c \in Conns : Finishing(p, c)]_vars

(* Records and settings are changed only for a token that may write, and a *)
(* program that sends a transaction again, at once or later, records it    *)
(* once (read.rs:1-2, tokens.rs:50-60, write.rs:13-14).                    *)
OnceEach ==
  /\ \A i \in DOMAIN records : conn[records[i].by].grant.scope = "WRITE"
  /\ \A f \in DOMAIN settings : settings[f] \in Conns => conn[settings[f]].grant.scope = "WRITE"
  /\ \A i, j \in DOMAIN records : records[i].uuid # 0 /\ records[i].uuid = records[j].uuid => i = j

(* Whatever the person and the clients do or leave undone, every           *)
(* connection ends and gives its slot back, and stopping the listener does *)
(* not wait for anybody (api.rs:217-226, http.rs:57-72, prompt.rs:106).    *)
(* While nothing is being started or stopped the port file names the       *)
(* listener exactly when one is up (api.rs:190-226, 447-470).              *)
EverythingEnds ==
  /\ \A c \in Conns : ~At(c, "idle") ~> At(c, "done")
  /\ busy = "stop" ~> busy # "stop"
  /\ [](Window => (server.up <=> portFile = server.n))

(* Violated: a setting a request leaves out stays as it is (write.rs:13).  *)
LeftOutStays ==
  [][\A c \in Conns : At(c, "work") /\ conn'[c].stage = "reply" =>
       \A f \in DOMAIN settings \ conn[c].request.args : settings'[f] = settings[f]]_vars
===============================================================================
