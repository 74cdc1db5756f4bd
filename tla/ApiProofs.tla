------------------------------ MODULE ApiProofs ------------------------------
(***************************************************************************)
(* Proofs about the command API: its type invariant, that one question is  *)
(* asked at a time, that files are written only for requests the person    *)
(* said yes to, and that only tokens that may write change anything, and a *)
(* transaction sent again once.                                            *)
(***************************************************************************)
EXTENDS Api, FiniteSetTheorems, WellFoundedInduction, TLAPS

\* The app thinks a question is open exactly while one is shown, and it is the only one.
OneQuestion ==
  /\ open <=> \E c \in Conns : dialog[c] = "shown"
  /\ \A c, d \in Conns : dialog[c] = "shown" /\ dialog[d] = "shown" => c = d

\* Where a yes has come: from the person over the dialog to the one who waits, and to what it may do then.
Agreed ==
  \A c \in Conns :
    /\ dialog[c] = "yes" \/ conn[c].heard = "yes" => c \in said
    /\ conn[c].stage \in {"run", "work"} /\ RouteOf(c).confirm => c \in said
    /\ conn[c].stage \in {"create", "fill"} => c \in said
    /\ dialog[c] # "" \/ c \in said => ~At(c, "idle")

\* Whose a file is, and what the one who fills it finds.
Written ==
  /\ \A p \in Paths, c \in Conns : disk[p].by = c => c \in said /\ conn[c].request.path = p
  /\ \A c \in Conns : At(c, "fill") /\ conn[c].request.path \in Paths => disk[conn[c].request.path] = [by |-> c, whole |-> FALSE]

\* A request that is past the checks has a route its token allows; before, it was granted nothing.
Before == {"idle", "knocking", "reading", "body", "whole"}
Past == {"describe", "ask", "waiting", "run", "work", "reply", "create", "fill"}
Granted ==
  \A c \in Conns :
    /\ conn[c].stage \in Past =>
         /\ Known(conn[c].request)
         /\ RouteOf(c).scope = "WRITE" => conn[c].grant.scope = "WRITE"
    /\ conn[c].stage \in Before => conn[c].grant.scope = ""

\* No two tokens have one secret.
OneSecret == \A a, b \in DOMAIN token : token[a].secret = token[b].secret => a = b

\* Who has changed something, or is about to save what it saw, was granted it.
MayWrite(c) == ~At(c, "idle") /\ conn[c].grant.scope = "WRITE"
Changers ==
  /\ \A i \in DOMAIN records : MayWrite(records[i].by)
  /\ \A f \in Fields : settings[f] \in Conns => MayWrite(settings[f])
  /\ \A c \in Conns : \A f \in DOMAIN conn[c].seen : conn[c].seen[f] \in Conns => MayWrite(conn[c].seen[f])
  /\ \A c \in Conns : conn[c].stage = "work" => conn[c].seen \in [Fields -> Whose]

\* A transaction that is sent with a uuid is recorded once.
Once == \A i, j \in DOMAIN records : records[i].uuid # 0 /\ records[i].uuid = records[j].uuid => i = j

ApiInv == TypeOK /\ OneQuestion /\ Agreed /\ Written /\ Granted /\ OneSecret /\ Changers /\ Once

-----------------------------------------------------------------------------
(* The route table: what changes records or settings takes a token that    *)
(* may write.                                                              *)
Guarded(route) == route.changes = TRUE \/ route.name = "settings.set" => route.scope = "WRITE"

LEMMA EntriesGuarded ==
  ASSUME NEW name, NEW needs, NEW may
  PROVE  /\ Guarded(Changes(name, needs, may)) /\ Guarded(Today(Changes(name, needs, may)))
         /\ name # "settings.set" => Guarded(Looks(name, needs, may)) /\ Guarded(Today(Looks(name, needs, may)))
         /\ name # "settings.set" => Guarded(Saves(name, needs, may)) /\ Guarded(Today(Saves(name, needs, may)))
BY DEF Guarded, Looks, Changes, Saves, Today

LEMMA TableGuarded == \A route \in ALL : Guarded(route)
<1>1. \A route \in ListRoutes \cup StatsRoutes : Guarded(route)
  BY EntriesGuarded DEF ListRoutes, StatsRoutes
<1>2. \A route \in SettingsRoutes : Guarded(route)
  BY DEF SettingsRoutes, Guarded, Changes, Looks
<1>3. \A route \in CategoryRoutes \cup TransactionRoutes \cup BudgetRoutes \cup RecurringRoutes : Guarded(route)
  BY EntriesGuarded DEF CategoryRoutes, TransactionRoutes, BudgetRoutes, RecurringRoutes
<1>4. \A route \in ExportRoutes \cup ReportRoutes \cup BackupRoute \cup DebtsFileRoute : Guarded(route)
  BY EntriesGuarded DEF ExportRoutes, ReportRoutes, BackupRoute, DebtsFileRoute
<1>5. \A route \in DocumentRoutes \cup DocumentChangeRoutes : Guarded(route)
  BY EntriesGuarded DEF DocumentRoutes, DocumentChangeRoutes
<1>6. \A route \in DocumentFileRoute : Guarded(route)
  BY DEF DocumentFileRoute, Guarded, Saves, Looks
<1>7. \A route \in DebtLookRoutes \cup FriendRoutes : Guarded(route)
  BY EntriesGuarded DEF DebtLookRoutes, FriendRoutes
<1>8. \A route \in LedgerRoutes \cup BillRoutes : Guarded(route)
  BY EntriesGuarded DEF LedgerRoutes, BillRoutes
<1> QED BY <1>1, <1>2, <1>3, <1>4, <1>5, <1>6, <1>7, <1>8 DEF ALL

LEMMA RoutesGuarded ==
  ASSUME NEW name \in DOMAIN AllRoutes, AllRoutes[name].changes = TRUE \/ name = "settings.set"
  PROVE  AllRoutes[name].scope = "WRITE"
<1> DEFINE route == CHOOSE route \in ALL : route.name = name
<1>1. AllRoutes[name] = route /\ \E entry \in ALL : entry.name = name
  BY DEF AllRoutes
<1>2. route \in ALL /\ route.name = name
  BY <1>1
<1> HIDE DEF route
<1> QED BY <1>1, <1>2, TableGuarded DEF Guarded

-----------------------------------------------------------------------------
(* What the checks say.                                                    *)
LEMMA ChecksSay ==
  ASSUME NEW r
  PROVE  /\ Door(r) \in Codes \cup {""} /\ Authenticate(r) \in Codes \cup {""}
         /\ Admitted(r) \in Codes \cup {""} /\ Refusal(r) \in Codes \cup {""} /\ CannotWork(r) \in Codes \cup {""}
         /\ Shut \in Codes \cup {""}
<1> DEFINE Said(code) == code \in Codes \cup {""}
<1>1. \A failed, code : Said(code) => Said(Fails(failed, code))
  BY DEF Fails, Codes
<1>2. \A a, b : Said(a) /\ Said(b) => Said(a ?? b)
  BY DEF ??
<1>3. \A code \in Codes : Said(code)
  OBVIOUS
<1> HIDE DEF Said
<1>4. Said("")
  BY DEF Said
<1>5. Said(Door(r)) /\ Said(Authenticate(r)) /\ Said(Shut)
  BY <1>1, <1>2, <1>3 DEF Codes, Door, Authenticate, Shut
<1>6. Said(Admitted(r)) /\ Said(Refusal(r))
  BY <1>1, <1>2, <1>3, <1>5 DEF Codes, Admitted, Refusal
<1>7. Said(CannotWork(r))
  BY <1>1, <1>2, <1>3, <1>4, <1>5 DEF Codes, CannotWork
<1> QED BY <1>5, <1>6, <1>7 DEF Said

LEMMA NotRefused ==
  ASSUME NEW r, Refusal(r) = ""
  PROVE  Known(r) /\ Fits(r) /\ ~TooLittle(r) /\ Grants(r) # {}
<1>1. /\ Authenticate(r) = "" /\ Fails(~Known(r), "unknown_route") = "" /\ Fails(TooLittle(r), "forbidden") = ""
      /\ Fails(~Fits(r), "invalid_input") = ""
  BY DEF Refusal, ??
<1>2. Fails(Grants(r) = {}, "unauthorized") = ""
  BY <1>1 DEF Authenticate, ??
<1>3. Known(r) /\ Fits(r) /\ ~TooLittle(r)
  BY <1>1 DEF Fails
<1>4. Grants(r) # {}
  BY <1>2 DEF Fails
<1> QED BY <1>3, <1>4

-----------------------------------------------------------------------------
(* How a connection moves.                                                 *)
Only(c) == conn' \in [Conns -> Connections] /\ \A d \in Conns \ {c} : conn'[d] = conn[d]
Alike(c) ==
  /\ conn'[c].request = conn[c].request /\ conn'[c].grant = conn[c].grant
  /\ conn'[c].heard = conn[c].heard /\ conn'[c].seen = conn[c].seen

LEMMA Becomes ==
  ASSUME conn \in [Conns -> Connections], NEW c \in Conns, NEW new \in Connections, conn' = [conn EXCEPT ![c] = new]
  PROVE  Only(c) /\ conn'[c] = new
BY DEF Only

LEMMA Goes ==
  ASSUME conn \in [Conns -> Connections], NEW c \in Conns, NEW stage \in Stages, Go(c, stage)
  PROVE  Only(c) /\ Alike(c) /\ conn'[c].stage = stage /\ server' = server
<1> DEFINE new == [conn[c] EXCEPT !.stage = stage]
<1>1. conn[c] \in Connections /\ conn' = [conn EXCEPT ![c] = new] /\ server' = server
  BY DEF Go
<1>2. /\ new \in Connections /\ new.stage = stage /\ new.request = conn[c].request /\ new.grant = conn[c].grant
      /\ new.heard = conn[c].heard /\ new.seen = conn[c].seen
  BY <1>1 DEF Connections
<1> HIDE DEF new
<1> QED BY <1>1, <1>2, Becomes DEF Alike

LEMMA GivesAnswer ==
  ASSUME conn \in [Conns -> Connections], NEW c \in Conns, NEW code \in Codes, Answered(c, code)
  PROVE  Only(c) /\ Alike(c) /\ conn'[c].stage = "answered" /\ server' = server
<1> DEFINE new == [conn[c] EXCEPT !.stage = "answered", !.answer = code]
<1>1. conn[c] \in Connections /\ conn' = [conn EXCEPT ![c] = new] /\ server' = server
  BY DEF Answered
<1>2. /\ new \in Connections /\ new.stage = "answered" /\ new.request = conn[c].request /\ new.grant = conn[c].grant
      /\ new.heard = conn[c].heard /\ new.seen = conn[c].seen
  BY <1>1 DEF Connections, Stages
<1> HIDE DEF new
<1> QED BY <1>1, <1>2, Becomes DEF Alike

LEMMA Drops ==
  ASSUME TypeOK, NEW c \in Conns, conn' = [conn EXCEPT ![c].stage = "done"], server' = Released(c)
  PROVE  /\ Only(c) /\ Alike(c) /\ conn'[c].stage = "done"
         /\ server' \in Servers
<1> DEFINE new == [conn[c] EXCEPT !.stage = "done"]
<1>1. conn[c] \in Connections /\ conn' = [conn EXCEPT ![c] = new]
  BY DEF TypeOK
<1>2. /\ new \in Connections /\ new.stage = "done" /\ new.request = conn[c].request /\ new.grant = conn[c].grant
      /\ new.heard = conn[c].heard /\ new.seen = conn[c].seen
  BY <1>1 DEF Connections, Stages
<1>3. server' \in Servers
  <2> DEFINE used == IF conn[c].server = server.n THEN server.used - 1 ELSE server.used
  <2>1. server' = [server EXCEPT !.used = used] /\ used \in Int
    <3>1. server' = [server EXCEPT !.used = used]
      BY DEF Released
    <3>2. server.used \in Int
      BY DEF TypeOK, Servers
    <3>3. used \in Int
      BY <3>2
    <3> QED BY <3>1, <3>3
  <2> HIDE DEF used
  <2> QED BY <2>1 DEF TypeOK, Servers
<1> HIDE DEF new
<1> QED BY <1>1, <1>2, <1>3, Becomes DEF Alike, TypeOK

LEMMA MaxIsIn ==
  ASSUME NEW k \in Nat, NEW S, S \subseteq 1..k
  PROVE  Max(S \cup {0}) \in S \cup {0}
<1> DEFINE Bounds == {n \in Nat : \A s \in S : s <= n}
           Below == OpToRel(<, Nat)
<1>1. k \in Bounds /\ Bounds \subseteq Nat
  OBVIOUS
<1>2. IsWellFoundedOn(Below, Nat)
  BY NatLessThanWellFounded
<1>3. \A m, n \in Nat : m < n => <<m, n>> \in Below
  BY DEF OpToRel
<1> HIDE DEF Below
<1>4. PICK m \in Bounds : \A n \in Bounds : <<n, m>> \notin Below
  BY <1>1, <1>2, WFMin
<1>5. m \in S \cup {0}
  <2>1. CASE m = 0
    BY <2>1
  <2>2. CASE m # 0
    <3>1. m - 1 \in Nat /\ m - 1 \notin Bounds
      <4>1. m \in Nat
        OBVIOUS
      <4>2. m - 1 \in Nat /\ m - 1 < m
        BY <2>2, <4>1
      <4> HIDE DEF Bounds
      <4> QED BY <1>3, <1>4, <4>1, <4>2
    <3>2. PICK s \in S : ~(s <= m - 1)
      BY <3>1
    <3>3. s <= m /\ s \in Nat
      BY <1>4
    <3> QED BY <3>2, <3>3, <1>4
  <2> QED BY <2>1, <2>2
<1>6. \A s \in S \cup {0} : m >= s
  BY <1>4
<1> QED BY <1>5, <1>6 DEF Max

LEMMA RecordsAre ==
  ASSUME records \in Seq([by : Conns, uuid : Nat])
  PROVE  \A i \in DOMAIN records : records[i] \in [by : Conns, uuid : Nat] /\ records[i].by \in Conns /\ records[i].uuid \in Nat
<1> DEFINE Records == [by : Conns, uuid : Nat]
<1>1. records \in Seq(Records)
  OBVIOUS
<1> HIDE DEF Records
<1>2. \A i \in DOMAIN records : records[i] \in Records
  BY <1>1
<1> QED BY <1>2 DEF Records

LEMMA ChangersKept ==
  ASSUME ApiInv, UNCHANGED <<records, settings>>, \A c \in Conns : MayWrite(c) => MayWrite(c)',
         \A c \in Conns : conn'[c].seen = conn[c].seen /\ (conn'[c].stage = "work" => conn[c].stage = "work")
  PROVE  Changers'
<1>1. \A i \in DOMAIN records : records[i].by \in Conns
  BY RecordsAre DEF ApiInv, TypeOK
<1>2. (\A i \in DOMAIN records : MayWrite(records[i].by))'
  BY <1>1 DEF ApiInv, Changers
<1>3. (\A f \in Fields : settings[f] \in Conns => MayWrite(settings[f]))'
  BY DEF ApiInv, Changers
<1>4. (\A c \in Conns : \A f \in DOMAIN conn[c].seen : conn[c].seen[f] \in Conns => MayWrite(conn[c].seen[f]))'
  BY DEF ApiInv, Changers
<1>5. \A c \in Conns : conn'[c].stage = "work" => conn'[c].seen \in [Fields -> Whose]
  BY DEF ApiInv, Changers
<1> QED BY <1>2, <1>3, <1>4, <1>5 DEF Changers

(* One connection moves, with what it then must have.                      *)
Moved(c) ==
  /\ Only(c) /\ Alike(c) /\ ~At(c, "idle") /\ conn'[c].stage # "idle"
  /\ conn'[c].stage \in Past => conn[c].stage \in Past
  /\ conn'[c].stage \in Before => conn[c].stage \in Before
  /\ conn'[c].stage \in {"run", "work"} /\ RouteOf(c).confirm => c \in said
  /\ conn'[c].stage \in {"create", "fill"} => c \in said
  /\ conn'[c].stage \notin {"fill", "work"}
RestIsKept == UNCHANGED <<token, settings, records, dialog, open, said, disk>>

LEMMA MovedKeeps ==
  ASSUME ApiInv, TypeOK', NEW c \in Conns, Moved(c), RestIsKept
  PROVE  ApiInv'
<1>1. OneQuestion'
  BY DEF ApiInv, OneQuestion, RestIsKept
<1>2. Agreed'
  BY DEF ApiInv, Agreed, Moved, Only, Alike, At, RouteOf, RestIsKept
<1>3. Written'
  BY DEF ApiInv, Written, Moved, Only, Alike, At, RestIsKept
<1>4. Granted'
  <2>1. ASSUME NEW d \in Conns
        PROVE  /\ conn'[d].stage \in Past => conn[d].stage \in Past
               /\ conn'[d].stage \in Before => conn[d].stage \in Before
               /\ conn'[d].request = conn[d].request /\ conn'[d].grant = conn[d].grant
    BY DEF Moved, Only, Alike
  <2>2. ASSUME NEW d \in Conns
        PROVE  /\ conn'[d].stage \in Past =>
                    /\ Known(conn'[d].request)
                    /\ RouteOf(d)'.scope = "WRITE" => conn'[d].grant.scope = "WRITE"
               /\ conn'[d].stage \in Before => conn'[d].grant.scope = ""
    <3>1. RouteOf(d)' = RouteOf(d)
      BY <2>1 DEF RouteOf
    <3>2. /\ conn[d].stage \in Past =>
               Known(conn[d].request) /\ (RouteOf(d).scope = "WRITE" => conn[d].grant.scope = "WRITE")
          /\ conn[d].stage \in Before => conn[d].grant.scope = ""
      BY DEF ApiInv, Granted
    <3> QED BY <2>1, <3>1, <3>2
  <2> QED BY <2>2 DEF Granted
<1>5. OneSecret'
  BY DEF ApiInv, OneSecret, RestIsKept
<1>6. Changers'
  <2>1. \A d \in Conns : MayWrite(d) => MayWrite(d)'
    BY DEF Moved, Only, Alike, MayWrite, At
  <2>2. \A d \in Conns : conn'[d].seen = conn[d].seen /\ (conn'[d].stage = "work" => conn[d].stage = "work")
    BY DEF Moved, Only, Alike
  <2> QED BY <2>1, <2>2, ChangersKept DEF RestIsKept
<1>7. Once'
  BY DEF ApiInv, Once, RestIsKept
<1> QED BY <1>1, <1>2, <1>3, <1>4, <1>5, <1>6, <1>7 DEF ApiInv

(* Several connections move, to where nothing is asked or done.            *)
Quiet ==
  \A c \in Conns : Alike(c) /\ (conn'[c].stage = conn[c].stage \/ (~At(c, "idle") /\ conn'[c].stage \in {"answered", "done"}))

LEMMA QuietKeeps ==
  ASSUME ApiInv, TypeOK', Quiet, RestIsKept
  PROVE  ApiInv'
<1>1. OneQuestion'
  BY DEF ApiInv, OneQuestion, RestIsKept
<1>2. Agreed'
  BY DEF ApiInv, Agreed, Quiet, Alike, At, RouteOf, RestIsKept
<1>3. Written'
  BY DEF ApiInv, Written, Quiet, Alike, At, RestIsKept
<1>4. Granted'
  BY DEF ApiInv, Granted, Quiet, Alike, At, RouteOf, Past, Before
<1>5. OneSecret'
  BY DEF ApiInv, OneSecret, RestIsKept
<1>6. Changers'
  <2>1. \A d \in Conns : MayWrite(d) => MayWrite(d)'
    BY DEF Quiet, Alike, MayWrite, At
  <2>2. \A d \in Conns : conn'[d].seen = conn[d].seen /\ (conn'[d].stage = "work" => conn[d].stage = "work")
    BY DEF Quiet, Alike
  <2> QED BY <2>1, <2>2, ChangersKept DEF RestIsKept
<1>7. Once'
  BY DEF ApiInv, Once, RestIsKept
<1> QED BY <1>1, <1>2, <1>3, <1>4, <1>5, <1>6, <1>7 DEF ApiInv

-----------------------------------------------------------------------------
(* Steps of a connection that only moves.                                  *)
LEMMA TypeKept ==
  ASSUME TypeOK, conn' \in [Conns -> Connections], server' \in Servers, Others
  PROVE  TypeOK' /\ RestIsKept
BY DEF TypeOK, Others, dataVars, askVars, runVars, RestIsKept

LEMMA AcceptKeeps ==
  ASSUME ApiInv, Accept
  PROVE  ApiInv'
<1>1. CASE /\ server.stop /\ server' = [server EXCEPT !.up = FALSE]
           /\ conn' = [c \in Conns |-> IF c \in Knocking THEN [conn[c] EXCEPT !.stage = "done"] ELSE conn[c]]
  <2>1. ASSUME NEW c \in Conns
        PROVE  /\ conn'[c] \in Connections /\ Alike(c)
               /\ conn'[c].stage = conn[c].stage \/ (At(c, "knocking") /\ conn'[c].stage = "done")
    <3> DEFINE new == [conn[c] EXCEPT !.stage = "done"]
    <3>1. conn[c] \in Connections /\ conn'[c] = IF c \in Knocking THEN new ELSE conn[c]
      BY <1>1 DEF ApiInv, TypeOK
    <3>2. /\ new \in Connections /\ new.stage = "done" /\ new.request = conn[c].request /\ new.grant = conn[c].grant
          /\ new.heard = conn[c].heard /\ new.seen = conn[c].seen
      BY <3>1 DEF Connections, Stages
    <3> HIDE DEF new
    <3> QED BY <3>1, <3>2 DEF Alike, Knocking
  <2>2. conn' \in [Conns -> Connections]
    BY <1>1, <2>1
  <2>3. server' \in Servers
    BY <1>1 DEF ApiInv, TypeOK, Servers
  <2>4. Quiet
    BY <2>1 DEF Quiet, At
  <2> QED BY <2>2, <2>3, <2>4, TypeKept, QuietKeeps DEF Accept, ApiInv
<1>2. ASSUME NEW c \in Knocking, Go(c, "done")
      PROVE  ApiInv'
  <2>1. c \in Conns /\ At(c, "knocking")
    BY DEF Knocking
  <2>2. Only(c) /\ Alike(c) /\ conn'[c].stage = "done" /\ server' = server
    BY <1>2, <2>1, Goes DEF ApiInv, TypeOK, Stages
  <2>3. Moved(c)
    BY <2>1, <2>2 DEF Moved, Past, Before, At
  <2> QED BY <2>1, <2>2, <2>3, TypeKept, MovedKeeps DEF Accept, ApiInv, TypeOK, Only
<1>3. ASSUME NEW c \in Knocking, server' = [server EXCEPT !.used = @ + 1],
             conn' = [conn EXCEPT ![c].stage = "reading", ![c].left = REQUEST_TIME]
      PROVE  ApiInv'
  <2> DEFINE new == [conn[c] EXCEPT !.stage = "reading", !.left = REQUEST_TIME]
  <2>1. c \in Conns /\ At(c, "knocking") /\ conn[c] \in Connections /\ conn' = [conn EXCEPT ![c] = new]
    BY <1>3 DEF Knocking, ApiInv, TypeOK
  <2>2. /\ new \in Connections /\ new.stage = "reading" /\ new.request = conn[c].request /\ new.grant = conn[c].grant
        /\ new.heard = conn[c].heard /\ new.seen = conn[c].seen
    BY <2>1, ApiAssumption DEF Connections, Stages
  <2>3. server' \in Servers
    <3>1. server \in Servers
      BY DEF ApiInv, TypeOK
    <3> QED BY <1>3, <3>1 DEF Servers
  <2> HIDE DEF new
  <2>4. Only(c) /\ Alike(c) /\ conn'[c].stage = "reading"
    BY <2>1, <2>2, Becomes DEF Alike, ApiInv, TypeOK
  <2>5. Moved(c)
    BY <2>1, <2>4 DEF Moved, Past, Before, At
  <2> QED BY <2>1, <2>3, <2>4, <2>5, TypeKept, MovedKeeps DEF Accept, ApiInv, Only
<1> QED BY <1>1, <1>2, <1>3 DEF Accept

LEMMA ReadHeadKeeps ==
  ASSUME ApiInv, NEW c \in Conns, ReadHead(c)
  PROVE  ApiInv'
<1>1. Only(c) /\ Alike(c) /\ server' \in Servers /\ ~At(c, "idle") /\ conn'[c].stage \in {"body", "answered"} /\ conn[c].stage = "reading"
  BY Goes, GivesAnswer, ChecksSay DEF ReadHead, ApiInv, TypeOK, Stages, At
<1>2. Moved(c)
  BY <1>1 DEF Moved, Past, Before, At
<1> QED BY <1>1, <1>2, TypeKept, MovedKeeps DEF ReadHead, ApiInv, Only

LEMMA ReadBodyKeeps ==
  ASSUME ApiInv, NEW c \in Conns, ReadBody(c)
  PROVE  ApiInv'
<1>1. Only(c) /\ Alike(c) /\ server' \in Servers /\ ~At(c, "idle") /\ conn'[c].stage = "whole" /\ conn[c].stage \in {"reading", "body"}
  BY Goes DEF ReadBody, ApiInv, TypeOK, Stages, At
<1>2. Moved(c)
  BY <1>1 DEF Moved, Past, Before, At
<1> QED BY <1>1, <1>2, TypeKept, MovedKeeps DEF ReadBody, ApiInv, Only

LEMMA ClientLeavesKeeps ==
  ASSUME ApiInv, NEW c \in Conns, ClientLeaves(c)
  PROVE  ApiInv'
<1>1. Only(c) /\ Alike(c) /\ server' \in Servers /\ ~At(c, "idle") /\ conn'[c].stage = "done"
  BY Drops DEF ClientLeaves, Reading, Dropped, ApiInv, At
<1>2. Moved(c)
  BY <1>1 DEF Moved, Past, Before, At
<1> QED BY <1>1, <1>2, TypeKept, MovedKeeps DEF ClientLeaves, Dropped, ApiInv, Only

LEMMA OutOfTimeKeeps ==
  ASSUME ApiInv, NEW c \in Conns, OutOfTime(c)
  PROVE  ApiInv'
<1>1. Only(c) /\ Alike(c) /\ server' \in Servers /\ ~At(c, "idle") /\ conn'[c].stage = "done"
  BY Drops DEF OutOfTime, Reading, Dropped, ApiInv, At
<1>2. Moved(c)
  BY <1>1 DEF Moved, Past, Before, At
<1> QED BY <1>1, <1>2, TypeKept, MovedKeeps DEF OutOfTime, Dropped, ApiInv, Only

LEMMA RespondKeeps ==
  ASSUME ApiInv, NEW c \in Conns, Respond(c)
  PROVE  ApiInv'
<1>1. Only(c) /\ Alike(c) /\ server' \in Servers /\ ~At(c, "idle") /\ conn'[c].stage = "done"
  BY Drops DEF Respond, ApiInv, At
<1>2. Moved(c)
  BY <1>1 DEF Moved, Past, Before, At
<1> QED BY <1>1, <1>2, TypeKept, MovedKeeps DEF Respond, ApiInv, Only

LEMMA DescribeKeeps ==
  ASSUME ApiInv, NEW c \in Conns, Describe(c)
  PROVE  ApiInv'
<1>1. Only(c) /\ Alike(c) /\ server' \in Servers /\ ~At(c, "idle") /\ At(c, "describe") /\ conn'[c].stage \in {"ask", "answered"}
  BY Goes, GivesAnswer, ChecksSay DEF Describe, ApiInv, TypeOK, Stages, At
<1>2. Moved(c)
  BY <1>1 DEF Moved, Past, Before, At
<1> QED BY <1>1, <1>2, TypeKept, MovedKeeps DEF Describe, ApiInv, Only

LEMMA GivenUpKeeps ==
  ASSUME ApiInv, NEW c \in Conns, GivenUp(c)
  PROVE  ApiInv'
<1>1. Only(c) /\ Alike(c) /\ server' \in Servers /\ ~At(c, "idle") /\ conn'[c].stage = "answered"
  BY GivesAnswer, ChecksSay DEF GivenUp, Ready, Stopped, ApiInv, TypeOK, At
<1>2. Moved(c)
  BY <1>1 DEF Moved, Past, Before, At
<1> QED BY <1>1, <1>2, TypeKept, MovedKeeps DEF GivenUp, ApiInv, Only

LEMMA LookKeeps ==
  ASSUME ApiInv, NEW c \in Conns, Look(c)
  PROVE  ApiInv'
<1>1. Only(c) /\ Alike(c) /\ server' \in Servers /\ ~At(c, "idle") /\ conn'[c].stage = "answered"
  BY GivesAnswer DEF Look, Ready, ApiInv, TypeOK, At, Codes
<1>2. Moved(c)
  BY <1>1 DEF Moved, Past, Before, At
<1> QED BY <1>1, <1>2, TypeKept, MovedKeeps DEF Look, ApiInv, Only

LEMMA ReplyKeeps ==
  ASSUME ApiInv, NEW c \in Conns, Reply(c)
  PROVE  ApiInv'
<1>1. Only(c) /\ Alike(c) /\ server' \in Servers /\ ~At(c, "idle") /\ conn'[c].stage = "answered"
  BY GivesAnswer DEF Reply, ApiInv, TypeOK, At, Codes
<1>2. Moved(c)
  BY <1>1 DEF Moved, Past, Before, At
<1> QED BY <1>1, <1>2, TypeKept, MovedKeeps DEF Reply, ApiInv, Only

LEMMA ReadForFileKeeps ==
  ASSUME ApiInv, NEW c \in Conns, ReadForFile(c)
  PROVE  ApiInv'
<1>1. Only(c) /\ Alike(c) /\ server' \in Servers /\ ~At(c, "idle") /\ conn'[c].stage = "create" /\ conn[c].stage \in {"run", "work"} /\ c \in said
  BY Goes DEF ReadForFile, Ready, ApiInv, Agreed, TypeOK, Stages, At
<1>2. Moved(c)
  BY <1>1 DEF Moved, Past, Before, At
<1> QED BY <1>1, <1>2, TypeKept, MovedKeeps DEF ReadForFile, ApiInv, Only

LEMMA TimeOutKeeps ==
  ASSUME ApiInv, NEW c \in Conns, TimeOut(c)
  PROVE  ApiInv'
<1>1. Only(c) /\ Alike(c) /\ server' = server /\ ~At(c, "idle") /\ conn'[c].stage = "answered"
  BY GivesAnswer DEF TimeOut, ApiInv, TypeOK, At, Codes
<1>2. Moved(c)
  BY <1>1 DEF Moved, Past, Before, At
<1>3. Others
  BY DEF TimeOut, AskAgain, Others, dataVars, askVars, runVars
<1> QED BY <1>1, <1>2, <1>3, TypeKept, MovedKeeps DEF ApiInv, TypeOK, Only

LEMMA ReceiveKeeps ==
  ASSUME ApiInv, NEW c \in Conns, Receive(c)
  PROVE  ApiInv'
<1>1. Only(c) /\ Alike(c) /\ server' = server /\ At(c, "waiting") /\ (conn'[c].stage = "answered" \/ (conn'[c].stage = "run" /\ conn[c].heard = "yes"))
  BY Goes, GivesAnswer DEF Receive, ApiInv, TypeOK, At, Codes, Stages
<1>2. Moved(c)
  BY <1>1 DEF Moved, Past, Before, At, ApiInv, Agreed
<1>3. refused' \in [Ids -> Nat]
  BY ApiAssumption DEF Receive, ApiInv, TypeOK
<1>4. TypeOK' /\ RestIsKept
  BY <1>1, <1>3 DEF Receive, ApiInv, TypeOK, Only, dataVars, runVars, RestIsKept
<1> QED BY <1>2, <1>4, MovedKeeps

-----------------------------------------------------------------------------
(* Connecting, and what is granted.                                        *)
LEMMA ConnectKeeps ==
  ASSUME ApiInv, NEW c \in Conns, NEW r \in Sent, Connect(c, r)
  PROVE  ApiInv'
<1> DEFINE new == [Idle EXCEPT !.stage = "knocking", !.server = server.n, !.request = r]
<1>1. At(c, "idle") /\ conn' = [conn EXCEPT ![c] = new] /\ server' = server /\ Others
  BY DEF Connect
<1>2. server.n \in Nat
  BY DEF ApiInv, TypeOK, Servers
<1>3. new \in Connections /\ new.stage = "knocking" /\ new.grant.scope = "" /\ new.heard = "" /\ new.seen = [f \in {} |-> 0]
  BY <1>2 DEF Idle, Connections, Stages, NoGrant, NoRequest
<1> HIDE DEF new
<1>4. Only(c) /\ conn'[c] = new
  BY <1>1, <1>3, Becomes DEF ApiInv, TypeOK
<1>5. TypeOK' /\ RestIsKept
  BY <1>1, <1>4, TypeKept DEF ApiInv, TypeOK, Only
<1>6. dialog[c] = "" /\ c \notin said
  BY <1>1 DEF ApiInv, Agreed
<1>7. OneQuestion'
  BY <1>5 DEF ApiInv, OneQuestion, RestIsKept
<1>8. Agreed'
  BY <1>3, <1>4, <1>5, <1>6 DEF ApiInv, Agreed, Only, At, RouteOf, RestIsKept
<1>9. Written'
  <2>1. \A p \in Paths : disk[p].by # c
    BY <1>6 DEF ApiInv, Written
  <2>2. (\A p \in Paths, d \in Conns : disk[p].by = d => d \in said /\ conn[d].request.path = p)'
    BY <1>4, <1>5, <2>1 DEF ApiInv, Written, Only, RestIsKept
  <2>3. (\A d \in Conns : At(d, "fill") /\ conn[d].request.path \in Paths => disk[conn[d].request.path] = [by |-> d, whole |-> FALSE])'
    BY <1>3, <1>4, <1>5 DEF ApiInv, Written, Only, At, RestIsKept
  <2> QED BY <2>2, <2>3 DEF Written
<1>10. Granted'
  BY <1>3, <1>4 DEF ApiInv, Granted, Only, RouteOf, Past, Before
<1>11. OneSecret'
  BY <1>5 DEF ApiInv, OneSecret, RestIsKept
<1>12. Changers'
  <2>1. \A d \in Conns : MayWrite(d) => d # c /\ MayWrite(d)'
    BY <1>1, <1>4 DEF MayWrite, At, Only
  <2>2. \A i \in DOMAIN records : records[i].by \in Conns
    BY RecordsAre DEF ApiInv, TypeOK
  <2>3. (\A i \in DOMAIN records : MayWrite(records[i].by))'
    BY <1>5, <2>1, <2>2 DEF ApiInv, Changers, RestIsKept
  <2>4. (\A f \in Fields : settings[f] \in Conns => MayWrite(settings[f]))'
    BY <1>5, <2>1 DEF ApiInv, Changers, RestIsKept
  <2>5. (\A d \in Conns : \A f \in DOMAIN conn[d].seen : conn[d].seen[f] \in Conns => MayWrite(conn[d].seen[f]))'
    BY <1>3, <1>4, <2>1 DEF ApiInv, Changers, Only
  <2>6. \A d \in Conns : conn'[d].stage = "work" => conn'[d].seen \in [Fields -> Whose]
    BY <1>3, <1>4 DEF ApiInv, Changers, Only
  <2> QED BY <2>3, <2>4, <2>5, <2>6 DEF Changers
<1>13. Once'
  BY <1>5 DEF ApiInv, Once, RestIsKept
<1> QED BY <1>5, <1>7, <1>8, <1>9, <1>10, <1>11, <1>12, <1>13 DEF ApiInv

LEMMA HandleKeeps ==
  ASSUME ApiInv, NEW c \in Conns, Handle(c)
  PROVE  ApiInv'
<1> DEFINE r == conn[c].request
           id == CHOOSE id \in Grants(r) : TRUE
           stage == IF RouteOf(c).confirm THEN "describe" ELSE "run"
           new == [conn[c] EXCEPT !.stage = stage, !.grant = [id |-> id, scope |-> token[id].scope]]
<1>1. CASE Refusal(r) # ""
  <2>1. Answered(c, Refusal(r)) /\ At(c, "whole")
    BY <1>1 DEF Handle
  <2>2. Only(c) /\ Alike(c) /\ server' = server /\ conn'[c].stage = "answered"
    BY <1>1, <2>1, GivesAnswer, ChecksSay DEF ApiInv, TypeOK
  <2>3. Moved(c)
    BY <2>1, <2>2 DEF Moved, Past, Before, At
  <2> QED BY <2>2, <2>3, TypeKept, MovedKeeps DEF Handle, ApiInv, TypeOK, Only
<1>2. CASE Refusal(r) = ""
  <2>1. At(c, "whole") /\ conn' = [conn EXCEPT ![c] = new] /\ server' = server /\ Others
    BY <1>2 DEF Handle
  <2>2. Known(r) /\ id \in Grants(r) /\ ~TooLittle(r)
    BY <1>2, NotRefused
  <2>3. id \in DOMAIN token /\ id \in Ids /\ token[id].scope \in {"READ", "WRITE"}
    <3>1. id \in DOMAIN token /\ id \in 1..(2 + changes["token"]) /\ changes["token"] \in 0..MaxChanges
      BY <2>2 DEF Grants, ApiInv, TypeOK
    <3>2. MaxChanges \in Nat
      BY ApiAssumption
    <3>3. id \in Ids
      BY <3>1, <3>2 DEF Ids
    <3>4. token[id].scope \in {"READ", "WRITE"}
      BY <3>1 DEF ApiInv, TypeOK
    <3> QED BY <3>1, <3>3, <3>4
  <2>4. RouteOf(c).scope = "WRITE" => token[id].scope = "WRITE"
    <3>1. \A other \in Grants(r) : other = id
      BY <2>2 DEF Grants, ApiInv, OneSecret
    <3>2. Allows(token[id].scope, AllRoutes[r.route].scope)
      BY <2>2, <3>1 DEF TooLittle
    <3> QED BY <3>2 DEF Allows, RouteOf
  <2> HIDE DEF id
  <2>5. stage \in {"describe", "run"} /\ (stage = "run" => ~RouteOf(c).confirm) /\ conn[c] \in Connections
    BY DEF ApiInv, TypeOK
  <2> HIDE DEF stage
  <2>6. /\ new \in Connections /\ new.stage = stage /\ new.grant.scope = token[id].scope /\ new.request = r
        /\ new.heard = conn[c].heard /\ new.seen = conn[c].seen
    BY <2>3, <2>5 DEF Connections, Stages
  <2> HIDE DEF new
  <2>7. Only(c) /\ conn'[c] = new
    BY <2>1, <2>6, Becomes DEF ApiInv, TypeOK
  <2>8. TypeOK' /\ RestIsKept
    BY <2>1, <2>7, TypeKept DEF ApiInv, TypeOK, Only
  <2>9. OneQuestion'
    BY <2>8 DEF ApiInv, OneQuestion, RestIsKept
  <2>10. Agreed'
    BY <2>1, <2>5, <2>6, <2>7, <2>8 DEF ApiInv, Agreed, Only, At, RouteOf, RestIsKept
  <2>11. Written'
    BY <2>5, <2>6, <2>7, <2>8 DEF ApiInv, Written, Only, At, RestIsKept
  <2>12. Granted'
    BY <2>2, <2>4, <2>5, <2>6, <2>7 DEF ApiInv, Granted, Only, RouteOf, Known, Past, Before
  <2>13. OneSecret'
    BY <2>8 DEF ApiInv, OneSecret, RestIsKept
  <2>14. Changers'
    <3>1. \A d \in Conns : MayWrite(d) => MayWrite(d)'
      BY <2>1, <2>7 DEF ApiInv, Granted, Before, MayWrite, At, Only
    <3>2. \A d \in Conns : conn'[d].seen = conn[d].seen /\ (conn'[d].stage = "work" => conn[d].stage = "work")
      BY <2>5, <2>6, <2>7 DEF Only
    <3> QED BY <2>8, <3>1, <3>2, ChangersKept DEF RestIsKept
  <2>15. Once'
    BY <2>8 DEF ApiInv, Once, RestIsKept
  <2> QED BY <2>8, <2>9, <2>10, <2>11, <2>12, <2>13, <2>14, <2>15 DEF ApiInv
<1> QED BY <1>1, <1>2

-----------------------------------------------------------------------------
(* The question.                                                           *)
LEMMA AskKeeps ==
  ASSUME ApiInv, NEW c \in Conns, Ask(c)
  PROVE  ApiInv'
<1>1. At(c, "ask")
  BY DEF Ask
<1>2. CASE /\ Answered(c, "denied") \/ Answered(c, "internal")
           /\ UNCHANGED <<dialog, open>>
  <2>1. Only(c) /\ Alike(c) /\ server' = server /\ conn'[c].stage = "answered"
    BY <1>2, GivesAnswer DEF ApiInv, TypeOK, Codes
  <2>2. Moved(c)
    BY <1>1, <2>1 DEF Moved, Past, Before, At
  <2>3. Others
    BY <1>2 DEF Ask, Others, dataVars, askVars, runVars
  <2> QED BY <2>1, <2>2, <2>3, TypeKept, MovedKeeps DEF ApiInv, TypeOK, Only
<1>3. CASE /\ ~open /\ open' = TRUE /\ dialog' = [dialog EXCEPT ![c] = "shown"] /\ server' = server
           /\ conn' = [conn EXCEPT ![c].stage = "waiting", ![c].left = WAIT]
  <2> DEFINE new == [conn[c] EXCEPT !.stage = "waiting", !.left = WAIT]
  <2>1. conn[c] \in Connections /\ conn' = [conn EXCEPT ![c] = new]
    BY <1>3 DEF ApiInv, TypeOK
  <2>2. /\ new \in Connections /\ new.stage = "waiting" /\ new.request = conn[c].request /\ new.grant = conn[c].grant
        /\ new.heard = conn[c].heard /\ new.seen = conn[c].seen
    BY <2>1, ApiAssumption DEF Connections, Stages
  <2> HIDE DEF new
  <2>3. Only(c) /\ Alike(c) /\ conn'[c].stage = "waiting"
    BY <2>1, <2>2, Becomes DEF Alike, ApiInv, TypeOK
  <2>4. UNCHANGED <<token, settings, records, said, disk>>
    BY DEF Ask, dataVars
  <2>5. dialog \in [Conns -> {"", "shown"} \cup Answers] /\ dialog'[c] = "shown" /\ \A d \in Conns \ {c} : dialog'[d] = dialog[d]
    BY <1>3 DEF ApiInv, TypeOK
  <2>6. TypeOK'
    <3>1. dialog' \in [Conns -> {"", "shown"} \cup Answers]
      BY <1>3, <2>5
    <3> QED BY <1>3, <2>3, <3>1 DEF Ask, ApiInv, TypeOK, Only, dataVars, runVars
  <2>7. OneQuestion'
    BY <1>3, <2>5 DEF ApiInv, OneQuestion
  <2>8. Agreed'
    BY <1>1, <2>3, <2>4, <2>5 DEF ApiInv, Agreed, Only, Alike, At, RouteOf
  <2>9. Written'
    BY <2>3, <2>4 DEF ApiInv, Written, Only, Alike, At
  <2>10. Granted'
    BY <1>1, <2>3 DEF ApiInv, Granted, Only, Alike, At, RouteOf, Past, Before
  <2>11. OneSecret'
    BY <2>4 DEF ApiInv, OneSecret
  <2>12. Changers'
    <3>1. \A d \in Conns : MayWrite(d) => MayWrite(d)'
      BY <2>3 DEF MayWrite, At, Only, Alike
    <3>2. \A d \in Conns : conn'[d].seen = conn[d].seen /\ (conn'[d].stage = "work" => conn[d].stage = "work")
      BY <2>3 DEF Only, Alike
    <3> QED BY <2>4, <3>1, <3>2, ChangersKept
  <2>13. Once'
    BY <2>4 DEF ApiInv, Once
  <2> QED BY <2>6, <2>7, <2>8, <2>9, <2>10, <2>11, <2>12, <2>13 DEF ApiInv
<1> QED BY <1>2, <1>3 DEF Ask

LEMMA CloseKeeps ==
  ASSUME ApiInv, NEW c \in Conns, NEW answer \in Answers, Close(c, answer)
  PROVE  ApiInv'
<1>1. dialog[c] = "shown" /\ dialog'[c] = answer /\ answer # "shown" /\ answer # "" /\ \A d \in Conns \ {c} : dialog'[d] = dialog[d]
  BY DEF Close, ApiInv, TypeOK, Answers
<1>2. conn' = conn /\ open' = FALSE /\ UNCHANGED <<token, settings, records, disk>>
  BY DEF Close, dataVars
<1>3. said \subseteq said' /\ said' \subseteq said \cup {c} /\ (answer = "yes" => c \in said')
  BY DEF Close
<1>4. TypeOK'
  <2>1. dialog' \in [Conns -> {"", "shown"} \cup Answers]
    BY DEF Close, ApiInv, TypeOK
  <2> QED BY <1>2, <1>3, <2>1 DEF Close, ApiInv, TypeOK, dataVars, hostVars, runVars
<1>5. OneQuestion'
  BY <1>1, <1>2 DEF ApiInv, OneQuestion
<1>6. Agreed'
  BY <1>1, <1>2, <1>3 DEF ApiInv, Agreed, At, RouteOf
<1>7. Written'
  BY <1>2, <1>3 DEF ApiInv, Written, At
<1>8. Granted'
  BY <1>2 DEF ApiInv, Granted, RouteOf
<1>9. OneSecret' /\ Once'
  BY <1>2 DEF ApiInv, OneSecret, Once
<1>10. Changers'
  BY <1>2, ChangersKept DEF MayWrite, At
<1> QED BY <1>4, <1>5, <1>6, <1>7, <1>8, <1>9, <1>10 DEF ApiInv

LEMMA DeliverKeeps ==
  ASSUME ApiInv, NEW c \in Conns, Deliver(c)
  PROVE  ApiInv'
<1>1. dialog[c] \in Answers /\ dialog'[c] = "" /\ (\A d \in Conns \ {c} : dialog'[d] = dialog[d]) /\ dialog' \in [Conns -> {"", "shown"} \cup Answers]
  BY DEF Deliver, ApiInv, TypeOK
<1>2. UNCHANGED <<token, settings, records, disk, open, said>>
  BY DEF Deliver, dataVars
<1>3. ASSUME NEW d \in Conns
      PROVE  /\ conn'[d] \in Connections /\ conn'[d].stage = conn[d].stage /\ conn'[d].request = conn[d].request
             /\ conn'[d].grant = conn[d].grant /\ conn'[d].seen = conn[d].seen
             /\ conn'[d].heard = conn[d].heard \/ (d = c /\ conn'[d].heard = dialog[c])
  <2> DEFINE new == [conn[d] EXCEPT !.heard = dialog[c]]
  <2>1. conn[d] \in Connections /\ conn'[d] = IF d \in Asker(c) THEN new ELSE conn[d]
    BY DEF Deliver, ApiInv, TypeOK
  <2>2. /\ new \in Connections /\ new.stage = conn[d].stage /\ new.request = conn[d].request /\ new.grant = conn[d].grant
        /\ new.heard = dialog[c] /\ new.seen = conn[d].seen
    BY <1>1, <2>1 DEF Connections
  <2> HIDE DEF new
  <2> QED BY <2>1, <2>2 DEF Asker
<1>4. TypeOK'
  <2>1. conn' \in [Conns -> Connections]
    BY <1>3 DEF Deliver
  <2> QED BY <1>1, <2>1 DEF Deliver, ApiInv, TypeOK, dataVars, hostVars, runVars
<1>5. OneQuestion'
  BY <1>1, <1>2 DEF ApiInv, OneQuestion, Answers
<1>6. Agreed'
  BY <1>1, <1>2, <1>3 DEF ApiInv, Agreed, At, RouteOf, Answers
<1>7. Written'
  BY <1>2, <1>3 DEF ApiInv, Written, At
<1>8. Granted'
  <2> SUFFICES ASSUME NEW d \in Conns
               PROVE  /\ conn'[d].stage \in Past =>
                           /\ Known(conn'[d].request)
                           /\ AllRoutes[conn'[d].request.route].scope = "WRITE" => conn'[d].grant.scope = "WRITE"
                      /\ conn'[d].stage \in Before => conn'[d].grant.scope = ""
    BY DEF Granted, RouteOf
  <2>1. conn'[d].stage = conn[d].stage /\ conn'[d].request = conn[d].request /\ conn'[d].grant = conn[d].grant
    BY <1>3
  <2>2. /\ conn[d].stage \in Past =>
             Known(conn[d].request) /\ (AllRoutes[conn[d].request.route].scope = "WRITE" => conn[d].grant.scope = "WRITE")
        /\ conn[d].stage \in Before => conn[d].grant.scope = ""
    BY DEF ApiInv, Granted, RouteOf
  <2> QED BY <2>1, <2>2 DEF Known
<1>9. OneSecret' /\ Once'
  BY <1>2 DEF ApiInv, OneSecret, Once
<1>10. Changers'
  <2>1. \A d \in Conns : MayWrite(d) => MayWrite(d)'
    BY <1>3 DEF MayWrite, At
  <2>2. \A d \in Conns : conn'[d].seen = conn[d].seen /\ (conn'[d].stage = "work" => conn[d].stage = "work")
    BY <1>3
  <2> QED BY <1>2, <2>1, <2>2, ChangersKept
<1> QED BY <1>4, <1>5, <1>6, <1>7, <1>8, <1>9, <1>10 DEF ApiInv

-----------------------------------------------------------------------------
(* The routes.                                                             *)
LEMMA BeginKeeps ==
  ASSUME ApiInv, NEW c \in Conns, Begin(c)
  PROVE  ApiInv'
<1>1. At(c, "run")
  BY DEF Begin
<1>2. CASE CannotWork(conn[c].request) # ""
  <2>1. Only(c) /\ Alike(c) /\ server' = server /\ conn'[c].stage = "answered"
    BY <1>2, GivesAnswer, ChecksSay DEF Begin, ApiInv, TypeOK
  <2>2. Moved(c)
    BY <1>1, <2>1 DEF Moved, Past, Before, At
  <2> QED BY <2>1, <2>2, TypeKept, MovedKeeps DEF Begin, ApiInv, TypeOK, Only
<1>3. CASE CannotWork(conn[c].request) = ""
  <2> DEFINE new == [conn[c] EXCEPT !.stage = "work", !.seen = settings]
  <2>1. conn[c] \in Connections /\ settings \in [Fields -> Whose] /\ conn' = [conn EXCEPT ![c] = new] /\ server' = server /\ Others
    BY <1>3 DEF Begin, ApiInv, TypeOK
  <2>2. /\ new \in Connections /\ new.stage = "work" /\ new.request = conn[c].request /\ new.grant = conn[c].grant
        /\ new.heard = conn[c].heard /\ new.seen = settings
    BY <2>1 DEF Connections, Stages
  <2> HIDE DEF new
  <2>3. Only(c) /\ conn'[c] = new
    BY <2>1, <2>2, Becomes DEF ApiInv, TypeOK
  <2>4. TypeOK' /\ RestIsKept
    BY <2>1, <2>3, TypeKept DEF ApiInv, TypeOK, Only
  <2>5. OneQuestion' /\ OneSecret' /\ Once'
    BY <2>4 DEF ApiInv, OneQuestion, OneSecret, Once, RestIsKept
  <2>6. Agreed'
    BY <1>1, <2>2, <2>3, <2>4 DEF ApiInv, Agreed, Only, At, RouteOf, RestIsKept
  <2>7. Written'
    BY <2>2, <2>3, <2>4 DEF ApiInv, Written, Only, At, RestIsKept
  <2>8. Granted'
    BY <1>1, <2>2, <2>3 DEF ApiInv, Granted, Only, At, RouteOf, Known, Past, Before
  <2>9. Changers'
    <3>1. \A d \in Conns : MayWrite(d) => MayWrite(d)'
      BY <1>1, <2>2, <2>3 DEF MayWrite, At, Only
    <3>2. \A i \in DOMAIN records : records[i].by \in Conns
      BY RecordsAre DEF ApiInv, TypeOK
    <3>3. (\A i \in DOMAIN records : MayWrite(records[i].by))'
      BY <2>4, <3>1, <3>2 DEF ApiInv, Changers, RestIsKept
    <3>4. (\A f \in Fields : settings[f] \in Conns => MayWrite(settings[f]))'
      BY <2>4, <3>1 DEF ApiInv, Changers, RestIsKept
    <3>5. (\A d \in Conns : \A f \in DOMAIN conn[d].seen : conn[d].seen[f] \in Conns => MayWrite(conn[d].seen[f]))'
      BY <2>1, <2>2, <2>3, <3>1 DEF ApiInv, Changers, Only
    <3>6. \A d \in Conns : conn'[d].stage = "work" => conn'[d].seen \in [Fields -> Whose]
      BY <2>1, <2>2, <2>3 DEF ApiInv, Changers, Only
    <3> QED BY <3>3, <3>4, <3>5, <3>6 DEF Changers
  <2> QED BY <2>4, <2>5, <2>6, <2>7, <2>8, <2>9 DEF ApiInv
<1> QED BY <1>2, <1>3

LEMMA ChangeKeeps ==
  ASSUME ApiInv, NEW c \in Conns, Change(c)
  PROVE  ApiInv'
<1> DEFINE r == conn[c].request
           new == [by |-> c, uuid |-> r.uuid]
<1>1. Only(c) /\ Alike(c) /\ server' = server /\ conn[c].stage \in {"run", "work"} /\ conn'[c].stage = "answered"
  BY GivesAnswer DEF Change, Ready, ApiInv, TypeOK, At, Codes
<1>2. records' = records \/ (~IsThere(r) /\ records' = Append(records, new))
  BY DEF Change
<1>3. UNCHANGED <<token, settings, dialog, open, said, disk>>
  BY DEF Change, askVars
<1>4. MayWrite(c)
  <2>1. Known(r) /\ RouteOf(c).changes = TRUE /\ (RouteOf(c).scope = "WRITE" => conn[c].grant.scope = "WRITE")
    BY <1>1 DEF Change, ApiInv, Granted, Past
  <2>2. RouteOf(c).scope = "WRITE"
    BY <2>1, RoutesGuarded DEF RouteOf, Known
  <2> QED BY <1>1, <2>1, <2>2 DEF MayWrite, At
<1>5. r \in Sent \cup {NoRequest} /\ r.uuid \in Nat /\ (r.uuid # 0 => "clientUuid" \in r.args)
  <2>1. r \in Sent \cup {NoRequest}
    BY DEF ApiInv, TypeOK, Connections
  <2> HIDE DEF r
  <2>2. CASE r \in Sent
    BY <2>2, RequestsAssumption
  <2>3. CASE r = NoRequest
    BY <2>3 DEF NoRequest
  <2> QED BY <2>1, <2>2, <2>3
<1> HIDE DEF r
<1>6. records \in Seq([by : Conns, uuid : Nat]) /\ new \in [by : Conns, uuid : Nat]
  BY <1>5 DEF ApiInv, TypeOK
<1>7. TypeOK'
  <2>1. records' \in Seq([by : Conns, uuid : Nat])
    <3> DEFINE Records == [by : Conns, uuid : Nat]
    <3>1. records \in Seq(Records) /\ new \in Records
      BY <1>6
    <3> HIDE DEF new, Records
    <3>2. records' \in Seq(Records)
      BY <1>2, <3>1
    <3> QED BY <3>2 DEF Records
  <2> QED BY <1>1, <1>3, <2>1 DEF Change, ApiInv, TypeOK, Only, askVars, runVars
<1>8. \A i \in DOMAIN records' : (i \in DOMAIN records /\ records'[i] = records[i]) \/ (records' = Append(records, new) /\ i = Len(records) + 1 /\ records'[i] = new)
  <2> DEFINE Records == [by : Conns, uuid : Nat]
  <2>1. records \in Seq(Records) /\ new \in Records
    BY <1>6
  <2> HIDE DEF new, Records
  <2>2. CASE records' = records
    BY <2>1, <2>2
  <2>3. CASE records' = Append(records, new)
    BY <2>1, <2>3
  <2> QED BY <2>2, <2>3, <1>2
<1>9. \A i \in DOMAIN records : records[i].by \in Conns /\ records[i].uuid \in Nat
  BY <1>6, RecordsAre
<1>10. OneQuestion' /\ OneSecret'
  BY <1>3 DEF ApiInv, OneQuestion, OneSecret
<1>11. Agreed'
  BY <1>1, <1>3 DEF ApiInv, Agreed, Only, Alike, At, RouteOf
<1>12. Written'
  BY <1>1, <1>3 DEF ApiInv, Written, Only, Alike, At
<1>13. Granted'
  BY <1>1 DEF ApiInv, Granted, Only, Alike, RouteOf, Known, Past, Before
<1>14. Changers'
  <2>1. \A d \in Conns : MayWrite(d) => MayWrite(d)'
    BY <1>1 DEF MayWrite, At, Only, Alike
  <2>2. (\A i \in DOMAIN records : MayWrite(records[i].by))'
    BY <1>4, <1>8, <1>9, <2>1 DEF ApiInv, Changers
  <2>3. (\A f \in Fields : settings[f] \in Conns => MayWrite(settings[f]))'
    BY <1>3, <2>1 DEF ApiInv, Changers
  <2>4. (\A d \in Conns : \A f \in DOMAIN conn[d].seen : conn[d].seen[f] \in Conns => MayWrite(conn[d].seen[f]))'
    BY <1>1, <2>1 DEF ApiInv, Changers, Only, Alike
  <2>5. \A d \in Conns : conn'[d].stage = "work" => conn'[d].seen \in [Fields -> Whose]
    BY <1>1 DEF ApiInv, Changers, Only, Alike
  <2> QED BY <2>2, <2>3, <2>4, <2>5 DEF Changers
<1>15. Once'
  <2>1. CASE records' = records
    BY <2>1 DEF ApiInv, Once
  <2>2. CASE ~IsThere(r) /\ records' = Append(records, new)
    <3>1. r.uuid # 0 => \A i \in DOMAIN records : records[i].uuid # r.uuid
      BY <1>5, <2>2 DEF IsThere
    <3> QED BY <1>8, <3>1 DEF ApiInv, Once
  <2> QED BY <1>2, <2>1, <2>2
<1> QED BY <1>7, <1>10, <1>11, <1>12, <1>13, <1>14, <1>15 DEF ApiInv

LEMMA SaveSettingsKeeps ==
  ASSUME ApiInv, NEW c \in Conns, SaveSettings(c)
  PROVE  ApiInv'
<1>1. Only(c) /\ Alike(c) /\ server' = server /\ At(c, "work") /\ conn'[c].stage = "reply"
  BY Goes DEF SaveSettings, ApiInv, TypeOK, Stages
<1>2. UNCHANGED <<token, records, dialog, open, said, disk>>
  BY DEF SaveSettings, askVars
<1>3. MayWrite(c)
  <2>1. Known(conn[c].request) /\ conn[c].request.route = "settings.set" /\ (RouteOf(c).scope = "WRITE" => conn[c].grant.scope = "WRITE")
    BY <1>1 DEF SaveSettings, ApiInv, Granted, Past, At
  <2>2. RouteOf(c).scope = "WRITE"
    BY <2>1, RoutesGuarded DEF RouteOf, Known
  <2> QED BY <1>1, <2>1, <2>2 DEF MayWrite, At
<1>4. conn[c].seen \in [Fields -> Whose] /\ settings \in [Fields -> Whose]
  BY <1>1 DEF ApiInv, TypeOK, Changers, At
<1>5. settings' \in [Fields -> Whose] /\ \A f \in Fields : settings'[f] = c \/ settings'[f] = conn[c].seen[f]
  BY <1>4 DEF SaveSettings, Whose
<1>6. TypeOK'
  BY <1>1, <1>5 DEF SaveSettings, ApiInv, TypeOK, Only, askVars, runVars
<1>7. OneQuestion' /\ OneSecret' /\ Once'
  BY <1>2 DEF ApiInv, OneQuestion, OneSecret, Once
<1>8. Agreed'
  BY <1>1, <1>2 DEF ApiInv, Agreed, Only, Alike, At, RouteOf
<1>9. Written'
  BY <1>1, <1>2 DEF ApiInv, Written, Only, Alike, At
<1>10. Granted'
  BY <1>1 DEF ApiInv, Granted, Only, Alike, At, RouteOf, Known, Past, Before
<1>11. Changers'
  <2>1. \A d \in Conns : MayWrite(d) => MayWrite(d)'
    BY <1>1 DEF MayWrite, At, Only, Alike
  <2>2. \A i \in DOMAIN records : records[i].by \in Conns
    BY RecordsAre DEF ApiInv, TypeOK
  <2>3. (\A i \in DOMAIN records : MayWrite(records[i].by))'
    BY <1>2, <2>1, <2>2 DEF ApiInv, Changers
  <2>4. \A f \in Fields : conn[c].seen[f] \in Conns => MayWrite(conn[c].seen[f])
    BY <1>4 DEF ApiInv, Changers
  <2>5. (\A f \in Fields : settings[f] \in Conns => MayWrite(settings[f]))'
    BY <1>3, <1>5, <2>1, <2>4
  <2>6. (\A d \in Conns : \A f \in DOMAIN conn[d].seen : conn[d].seen[f] \in Conns => MayWrite(conn[d].seen[f]))'
    BY <1>1, <2>1 DEF ApiInv, Changers, Only, Alike
  <2>7. \A d \in Conns : conn'[d].stage = "work" => conn'[d].seen \in [Fields -> Whose]
    BY <1>1 DEF ApiInv, Changers, Only, Alike
  <2> QED BY <2>3, <2>5, <2>6, <2>7 DEF Changers
<1> QED BY <1>6, <1>7, <1>8, <1>9, <1>10, <1>11 DEF ApiInv

LEMMA CreateFileKeeps ==
  ASSUME ApiInv, NEW c \in Conns, CreateFile(c)
  PROVE  ApiInv'
<1> DEFINE p == conn[c].request.path
           file == [by |-> c, whole |-> FALSE]
<1>1. At(c, "create") /\ c \in said
  BY DEF CreateFile, ApiInv, Agreed, At
<1>2. CASE disk' = disk /\ (Answered(c, "file_exists") \/ Answered(c, "internal"))
  <2>1. Only(c) /\ Alike(c) /\ server' = server /\ conn'[c].stage = "answered"
    BY <1>2, GivesAnswer DEF ApiInv, TypeOK, Codes
  <2>2. Moved(c)
    BY <1>1, <2>1 DEF Moved, Past, Before, At
  <2>3. Others
    BY <1>2 DEF CreateFile, Others
  <2> QED BY <2>1, <2>2, <2>3, TypeKept, MovedKeeps DEF ApiInv, TypeOK, Only
<1>3. CASE MayCreate(p) /\ disk' = [disk EXCEPT ![p] = file] /\ Go(c, "fill")
  <2>1. Only(c) /\ Alike(c) /\ server' = server /\ conn'[c].stage = "fill"
    BY <1>3, Goes DEF ApiInv, TypeOK, Stages
  <2>2. disk \in [Paths -> [by : Whose, whole : BOOLEAN]] /\ file \in [by : Whose, whole : BOOLEAN] /\ file.by = c
    BY DEF ApiInv, TypeOK, Whose
  <2> HIDE DEF file, p
  <2>3. disk' \in [Paths -> [by : Whose, whole : BOOLEAN]] /\ \A q \in Paths : disk'[q] = IF q = p THEN file ELSE disk[q]
    BY <1>3, <2>2
  <2>4. UNCHANGED <<token, settings, records, dialog, open, said>>
    BY DEF CreateFile, dataVars, askVars
  <2>5. TypeOK'
    BY <2>1, <2>3 DEF CreateFile, ApiInv, TypeOK, Only, dataVars, askVars, runVars
  <2>6. OneQuestion' /\ OneSecret' /\ Once'
    BY <2>4 DEF ApiInv, OneQuestion, OneSecret, Once
  <2>7. Agreed'
    BY <1>1, <2>1, <2>4 DEF ApiInv, Agreed, Only, Alike, At, RouteOf
  <2>8. Written'
    <3>1. p \in Paths => disk[p].by = 0
      BY <1>3 DEF MayCreate, NoFile
    <3>2. (\A q \in Paths, d \in Conns : disk[q].by = d => d \in said /\ conn[d].request.path = q)'
      <4> SUFFICES ASSUME NEW q \in Paths, NEW d \in Conns, disk'[q].by = d
                   PROVE  d \in said /\ conn[d].request.path = q
        BY <2>1, <2>4 DEF Only, Alike
      <4>1. CASE q = p
        BY <1>1, <2>2, <2>3, <4>1 DEF p
      <4>2. CASE q # p
        BY <2>3, <4>2 DEF ApiInv, Written
      <4> QED BY <4>1, <4>2
    <3>3. (\A d \in Conns : At(d, "fill") /\ conn[d].request.path \in Paths => disk[conn[d].request.path] = [by |-> d, whole |-> FALSE])'
      <4> SUFFICES ASSUME NEW d \in Conns, conn'[d].stage = "fill", conn[d].request.path \in Paths
                   PROVE  disk'[conn[d].request.path] = [by |-> d, whole |-> FALSE]
        BY <2>1 DEF Only, Alike, At
      <4>1. CASE d = c
        BY <2>3, <4>1 DEF p, file
      <4>2. CASE d # c
        <5>1. disk[conn[d].request.path] = [by |-> d, whole |-> FALSE]
          BY <2>1, <4>2 DEF ApiInv, Written, At, Only
        <5>2. conn[d].request.path # p
          BY <3>1, <5>1, ApiAssumption DEF Conns
        <5> QED BY <2>3, <5>1, <5>2
      <4> QED BY <4>1, <4>2
    <3> QED BY <3>2, <3>3 DEF Written
  <2>9. Granted'
    BY <1>1, <2>1 DEF ApiInv, Granted, Only, Alike, At, RouteOf, Known, Past, Before
  <2>10. Changers'
    <3>1. \A d \in Conns : MayWrite(d) => MayWrite(d)'
      BY <2>1 DEF MayWrite, At, Only, Alike
    <3>2. \A d \in Conns : conn'[d].seen = conn[d].seen /\ (conn'[d].stage = "work" => conn[d].stage = "work")
      BY <2>1 DEF Only, Alike
    <3> QED BY <2>4, <3>1, <3>2, ChangersKept
  <2> QED BY <2>5, <2>6, <2>7, <2>8, <2>9, <2>10 DEF ApiInv
<1> QED BY <1>2, <1>3 DEF CreateFile

\* What filling does to the file: it is whole, or taken back.
LEMMA FillsItsOwn ==
  ASSUME ApiInv, NEW c \in Conns, FillFile(c), NEW p \in Paths, disk'[p] # disk[p]
  PROVE  p = conn[c].request.path /\ Finishing(p, c)
<1>1. /\ At(c, "fill") /\ p = conn[c].request.path
      /\ disk'[p] = [disk[p] EXCEPT !.whole = TRUE] \/ disk'[p] = NoFile
  BY DEF FillFile, ApiInv, TypeOK
<1>2. disk[p] = [by |-> c, whole |-> FALSE]
  BY <1>1 DEF ApiInv, Written
<1>3. disk'[p] \in {NoFile, [by |-> c, whole |-> TRUE]}
  <2>1. \A file \in [by : Whose, whole : BOOLEAN] : [file EXCEPT !.whole = TRUE] = [by |-> file.by, whole |-> TRUE]
    <3> SUFFICES ASSUME NEW file \in [by : Whose, whole : BOOLEAN]
                 PROVE  [file EXCEPT !.whole = TRUE] = [by |-> file.by, whole |-> TRUE]
      OBVIOUS
    <3> DEFINE new == [file EXCEPT !.whole = TRUE]
    <3>1. new \in [by : Whose, whole : BOOLEAN] /\ new.by = file.by /\ new.whole = TRUE
      OBVIOUS
    <3> HIDE DEF new
    <3>2. new = [by |-> new.by, whole |-> new.whole]
      BY <3>1
    <3> QED BY <3>1, <3>2 DEF new
  <2>2. disk[p] \in [by : Whose, whole : BOOLEAN]
    BY DEF ApiInv, TypeOK
  <2>3. disk[p].by = c
    BY <1>2
  <2> QED BY <1>1, <2>1, <2>2, <2>3
<1> QED BY <1>1, <1>2, <1>3 DEF Finishing

LEMMA FillFileKeeps ==
  ASSUME ApiInv, NEW c \in Conns, FillFile(c)
  PROVE  ApiInv'
<1>1. At(c, "fill") /\ c \in said
  BY DEF FillFile, ApiInv, Agreed, At
<1>2. Only(c) /\ Alike(c) /\ server' = server /\ conn'[c].stage = "answered"
  BY GivesAnswer DEF FillFile, ApiInv, TypeOK, Codes
<1>3. UNCHANGED <<token, settings, records, dialog, open, said>>
  BY DEF FillFile, dataVars, askVars
<1>4. \A p \in Paths : disk'[p] = disk[p] \/ (p = conn[c].request.path /\ disk'[p] \in {NoFile, [by |-> c, whole |-> TRUE]})
  BY FillsItsOwn DEF Finishing
<1>5. disk' \in [Paths -> [by : Whose, whole : BOOLEAN]]
  <2>1. \A p \in Paths : disk'[p] \in [by : Whose, whole : BOOLEAN]
    <3>1. \A p \in Paths : disk[p] \in [by : Whose, whole : BOOLEAN]
      BY DEF ApiInv, TypeOK
    <3>2. NoFile \in [by : Whose, whole : BOOLEAN] /\ [by |-> c, whole |-> TRUE] \in [by : Whose, whole : BOOLEAN]
      BY DEF NoFile, Whose
    <3> QED BY <1>4, <3>1, <3>2
  <2>2. \E f : disk' = [disk EXCEPT ![conn[c].request.path] = f]
    BY DEF FillFile
  <2> QED BY <2>1, <2>2 DEF ApiInv, TypeOK
<1>6. TypeOK'
  BY <1>2, <1>5 DEF FillFile, ApiInv, TypeOK, Only, dataVars, askVars, runVars
<1>7. OneQuestion' /\ OneSecret' /\ Once'
  BY <1>3 DEF ApiInv, OneQuestion, OneSecret, Once
<1>8. Agreed'
  BY <1>1, <1>2, <1>3 DEF ApiInv, Agreed, Only, Alike, At, RouteOf
<1>9. Written'
  <2>1. \A d \in Conns : d # 0
    BY ApiAssumption DEF Conns
  <2>2. (\A p \in Paths, d \in Conns : disk[p].by = d => d \in said /\ conn[d].request.path = p)'
    BY <1>1, <1>2, <1>3, <1>4, <2>1 DEF ApiInv, Written, Only, Alike, NoFile
  <2>3. (\A d \in Conns : At(d, "fill") /\ conn[d].request.path \in Paths => disk[conn[d].request.path] = [by |-> d, whole |-> FALSE])'
    <3> SUFFICES ASSUME NEW d \in Conns, conn'[d].stage = "fill", conn[d].request.path \in Paths
                 PROVE  disk'[conn[d].request.path] = [by |-> d, whole |-> FALSE]
      BY <1>2 DEF Only, Alike, At
    <3>1. d # c /\ disk[conn[d].request.path] = [by |-> d, whole |-> FALSE]
      BY <1>2 DEF ApiInv, Written, At, Only
    <3>2. conn[c].request.path \in Paths => disk[conn[c].request.path] = [by |-> c, whole |-> FALSE]
      BY <1>1 DEF ApiInv, Written
    <3>3. conn[d].request.path # conn[c].request.path
      BY <3>1, <3>2
    <3> QED BY <1>4, <3>1, <3>3
  <2> QED BY <2>2, <2>3 DEF Written
<1>10. Granted'
  BY <1>1, <1>2 DEF ApiInv, Granted, Only, Alike, At, RouteOf, Known, Past, Before
<1>11. Changers'
  <2>1. \A d \in Conns : MayWrite(d) => MayWrite(d)'
    BY <1>2 DEF MayWrite, At, Only, Alike
  <2>2. \A d \in Conns : conn'[d].seen = conn[d].seen /\ (conn'[d].stage = "work" => conn[d].stage = "work")
    BY <1>2 DEF Only, Alike
  <2> QED BY <1>3, <2>1, <2>2, ChangersKept
<1> QED BY <1>6, <1>7, <1>8, <1>9, <1>10, <1>11 DEF ApiInv

-----------------------------------------------------------------------------
(* The host: no connection moves, except that all end with the app.        *)
HostMoves ==
  /\ server' \in Servers /\ app' \in BOOLEAN /\ vault' \in {"none", "locked", "open"} /\ document' \in BOOLEAN
  /\ changes' \in [{"token", "settings", "lock"} -> 0..MaxChanges] /\ changes["token"] = changes'["token"]
  /\ UNCHANGED <<conn, refused, scope>> /\ RestIsKept

LEMMA HostMovesKeep ==
  ASSUME ApiInv, HostMoves
  PROVE  ApiInv'
<1>1. TypeOK'
  BY DEF ApiInv, TypeOK, HostMoves, RestIsKept
<1>2. Quiet
  BY DEF HostMoves, Quiet, Alike
<1> QED BY <1>1, <1>2, QuietKeeps DEF HostMoves

LEMMA ServersAre ==
  ASSUME TypeOK
  PROVE  /\ server \in Servers /\ WakeUp(server) \in Servers /\ [server EXCEPT !.up = FALSE] \in Servers
         /\ [NoServer EXCEPT !.n = server.n] \in Servers /\ [NoServer EXCEPT !.n = server.n + 1] \in Servers
         /\ [NoServer EXCEPT !.n = server.n + 1, !.up = TRUE] \in Servers
<1>1. server \in Servers /\ server.n \in Nat
  BY DEF TypeOK, Servers
<1>2. WakeUp(server) \in Servers /\ [server EXCEPT !.up = FALSE] \in Servers
  BY <1>1 DEF WakeUp, Servers
<1>3. NoServer \in Servers
  BY DEF NoServer, Servers
<1>4. \A new \in Servers, n \in Nat : [new EXCEPT !.n = n] \in Servers /\ [new EXCEPT !.n = n, !.up = TRUE] \in Servers
  BY DEF Servers
<1>5. server.n + 1 \in Nat
  BY <1>1
<1> HIDE DEF Servers
<1> QED BY <1>1, <1>2, <1>3, <1>4, <1>5

LEMMA ChangedIs ==
  ASSUME TypeOK, NEW kind \in {"token", "settings", "lock"}, Changed(kind)
  PROVE  /\ changes' \in [{"token", "settings", "lock"} -> 0..MaxChanges] /\ changes'[kind] = changes[kind] + 1
         /\ \A other \in {"token", "settings", "lock"} \ {kind} : changes'[other] = changes[other]
<1>1. MaxChanges \in Nat /\ changes \in [{"token", "settings", "lock"} -> 0..MaxChanges]
  BY ApiAssumption DEF TypeOK
<1> QED BY <1>1 DEF Changed

LEMMA HostKeeps ==
  ASSUME ApiInv, TurnOn \/ TurnOff \/ Launched \/ LaunchFails \/ HasStopped
  PROVE  ApiInv'
<1>1. server' \in Servers
  BY ServersAre DEF ApiInv, TurnOn, TurnOff, Launched, LaunchFails, HasStopped, Launching, Stopping
<1>2. UNCHANGED <<app, vault, document, changes, conn, refused, scope>> /\ RestIsKept
  BY DEF TurnOn, TurnOff, Launched, LaunchFails, HasStopped, HostRest, dataVars, askVars, runVars, RestIsKept
<1>3. HostMoves
  BY <1>1, <1>2 DEF HostMoves, ApiInv, TypeOK
<1> QED BY <1>3, HostMovesKeep

LEMMA StartKeeps ==
  ASSUME ApiInv, Start
  PROVE  ApiInv'
<1>1. server' = server
  BY DEF Start, Launching
<1>2. HostMoves
  BY <1>1, ServersAre DEF Start, HostMoves, ApiInv, TypeOK, dataVars, askVars, RestIsKept
<1> QED BY <1>2, HostMovesKeep

LEMMA WindowKeeps ==
  ASSUME ApiInv, DeleteDocument \/ Lock \/ Unlock
  PROVE  ApiInv'
<1>1. changes' \in [{"token", "settings", "lock"} -> 0..MaxChanges] /\ changes["token"] = changes'["token"]
  BY ChangedIs DEF DeleteDocument, Lock, Unlock, ApiInv, TypeOK
<1>2. UNCHANGED <<app, server, conn, refused, scope>> /\ RestIsKept
  BY DEF DeleteDocument, Lock, Unlock, DataRest, hostVars, askVars, RestIsKept
<1>3. vault' \in {"none", "locked", "open"} /\ document' \in BOOLEAN
  BY DEF DeleteDocument, Lock, Unlock, ApiInv, TypeOK
<1>4. HostMoves
  BY <1>1, <1>2, <1>3 DEF HostMoves, ApiInv, TypeOK
<1> QED BY <1>4, HostMovesKeep

LEMMA EndsKeeps ==
  ASSUME ApiInv, Ends
  PROVE  ApiInv'
<1>1. ASSUME NEW c \in Conns
      PROVE  /\ conn'[c] \in Connections /\ Alike(c)
             /\ conn'[c].stage = conn[c].stage \/ (~At(c, "idle") /\ conn'[c].stage = "done")
  <2> DEFINE new == [conn[c] EXCEPT !.stage = "done"]
  <2>1. conn[c] \in Connections /\ conn'[c] = IF At(c, "idle") THEN conn[c] ELSE new
    BY DEF Ends, ApiInv, TypeOK
  <2>2. /\ new \in Connections /\ new.stage = "done" /\ new.request = conn[c].request /\ new.grant = conn[c].grant
        /\ new.heard = conn[c].heard /\ new.seen = conn[c].seen
    BY <2>1 DEF Connections, Stages
  <2> HIDE DEF new
  <2> QED BY <2>1, <2>2 DEF Alike
<1>2. UNCHANGED <<token, settings, records, said, disk>> /\ open' = FALSE /\ \A c \in Conns : dialog'[c] = ""
  BY DEF Ends
<1>3. TypeOK'
  <2>1. conn' \in [Conns -> Connections]
    BY <1>1 DEF Ends
  <2>2. dialog' \in [Conns -> {"", "shown"} \cup Answers] /\ refused' \in [Ids -> Nat]
    BY DEF Ends
  <2>3. server' \in Servers
    BY ServersAre DEF ApiInv, Ends
  <2> QED BY <1>2, <2>1, <2>2, <2>3 DEF Ends, ApiInv, TypeOK
<1>4. Quiet
  BY <1>1 DEF Quiet
<1>5. OneQuestion' /\ OneSecret' /\ Once'
  BY <1>2 DEF ApiInv, OneQuestion, OneSecret, Once
<1>6. Agreed'
  BY <1>2, <1>4 DEF ApiInv, Agreed, Quiet, Alike, At, RouteOf
<1>7. Written'
  <2>1. (\A p \in Paths, d \in Conns : disk[p].by = d => d \in said /\ conn[d].request.path = p)'
    <3> SUFFICES ASSUME NEW p \in Paths, NEW d \in Conns, disk[p].by = d
                 PROVE  d \in said /\ conn'[d].request.path = p
      BY <1>2
    <3> QED BY <1>4 DEF ApiInv, Written, Quiet, Alike
  <2>2. (\A d \in Conns : At(d, "fill") /\ conn[d].request.path \in Paths => disk[conn[d].request.path] = [by |-> d, whole |-> FALSE])'
    BY <1>2, <1>4 DEF ApiInv, Written, Quiet, Alike, At
  <2> QED BY <2>1, <2>2 DEF Written
<1>8. Granted'
  BY <1>4 DEF ApiInv, Granted, Quiet, Alike, At, RouteOf, Past, Before
<1>9. Changers'
  <2>1. \A d \in Conns : MayWrite(d) => MayWrite(d)'
    BY <1>4 DEF Quiet, Alike, MayWrite, At
  <2>2. \A d \in Conns : conn'[d].seen = conn[d].seen /\ (conn'[d].stage = "work" => conn[d].stage = "work")
    BY <1>4 DEF Quiet, Alike
  <2> QED BY <1>2, <2>1, <2>2, ChangersKept
<1> QED BY <1>3, <1>5, <1>6, <1>7, <1>8, <1>9 DEF ApiInv

-----------------------------------------------------------------------------
(* The rest of what the person does, other programs, and time.             *)
TokenMoves == UNCHANGED <<app, vault, settings, document, records, server, conn, dialog, open, refused, said, disk, scope>>

LEMMA TokenMovesKeep ==
  ASSUME ApiInv, TokenMoves, OneSecret', changes' \in [{"token", "settings", "lock"} -> 0..MaxChanges],
         DOMAIN token' \subseteq 1..(2 + changes'["token"]),
         token' \in [DOMAIN token' -> [secret : Nat \ {0}, scope : {"READ", "WRITE"}, expired : BOOLEAN]]
  PROVE  ApiInv'
<1>1. TypeOK'
  BY DEF ApiInv, TypeOK, TokenMoves
<1>2. OneQuestion' /\ Once' /\ Written'
  BY DEF ApiInv, OneQuestion, Once, Written, At, TokenMoves
<1>3. Agreed' /\ Granted'
  BY DEF ApiInv, Agreed, Granted, At, RouteOf, TokenMoves
<1>4. Changers'
  BY ChangersKept DEF MayWrite, At, TokenMoves
<1> QED BY <1>1, <1>2, <1>3, <1>4 DEF ApiInv

LEMMA CreateTokenKeeps ==
  ASSUME ApiInv, CreateToken
  PROVE  ApiInv'
<1> DEFINE next == Max(DOMAIN token \cup {0}) + 1
           Tokens == [secret : Nat \ {0}, scope : {"READ", "WRITE"}, expired : BOOLEAN]
<1>1. PICK secret \in Secrets \ Made, held \in {"READ", "WRITE"} :
        token' = [id \in DOMAIN token \cup {next} |->
                    IF id = next THEN [secret |-> secret, scope |-> held, expired |-> FALSE] ELSE token[id]]
  BY DEF CreateToken
<1>2. /\ DOMAIN token \subseteq 1..(2 + changes["token"]) /\ changes["token"] \in Nat
      /\ changes' \in [{"token", "settings", "lock"} -> 0..MaxChanges] /\ changes'["token"] = changes["token"] + 1
  <2>1. changes' \in [{"token", "settings", "lock"} -> 0..MaxChanges] /\ changes'["token"] = changes["token"] + 1
    BY ChangedIs DEF CreateToken, ApiInv
  <2>2. DOMAIN token \subseteq 1..(2 + changes["token"]) /\ changes["token"] \in 0..MaxChanges
    BY DEF ApiInv, TypeOK
  <2> QED BY <2>1, <2>2, ApiAssumption
<1>3. next \in 1..(3 + changes["token"])
  <2>1. Max(DOMAIN token \cup {0}) \in DOMAIN token \cup {0}
    BY <1>2, MaxIsIn
  <2> QED BY <1>2, <2>1
<1>4. secret \in Nat \ {0} /\ \A id \in DOMAIN token : token[id].secret # secret
  BY <1>1, ApiAssumption DEF Secrets, Made
<1> HIDE DEF next
<1>5. token' \in [DOMAIN token' -> Tokens] /\ DOMAIN token' \subseteq 1..(2 + changes'["token"])
  <2>1. token \in [DOMAIN token -> Tokens]
    BY DEF ApiInv, TypeOK
  <2>2. DOMAIN token' = DOMAIN token \cup {next}
    BY <1>1
  <2>3. DOMAIN token' \subseteq 1..(2 + changes'["token"])
    BY <1>2, <1>3, <2>2
  <2>4. \A id \in DOMAIN token' : token'[id] \in Tokens
    BY <1>1, <1>4, <2>1
  <2> QED BY <1>1, <2>2, <2>3, <2>4
<1>6. OneSecret'
  BY <1>1, <1>4 DEF ApiInv, OneSecret
<1>7. TokenMoves
  BY DEF CreateToken, TokenMoves, DataRest, hostVars, askVars
<1> QED BY <1>2, <1>5, <1>6, <1>7, TokenMovesKeep

LEMMA RevokeKeeps ==
  ASSUME ApiInv, Revoke \/ Expire
  PROVE  ApiInv'
<1> DEFINE Tokens == [secret : Nat \ {0}, scope : {"READ", "WRITE"}, expired : BOOLEAN]
<1>1. changes' \in [{"token", "settings", "lock"} -> 0..MaxChanges] /\ changes'["token"] = changes["token"] + 1
  BY ChangedIs DEF Revoke, Expire, ApiInv
<1>2. token \in [DOMAIN token -> Tokens] /\ DOMAIN token \subseteq 1..(2 + changes["token"]) /\ changes["token"] \in Nat
  <2>1. token \in [DOMAIN token -> Tokens] /\ DOMAIN token \subseteq 1..(2 + changes["token"]) /\ changes["token"] \in 0..MaxChanges
    BY DEF ApiInv, TypeOK
  <2> HIDE DEF Tokens
  <2> QED BY <2>1, ApiAssumption
<1>3. /\ token' \in [DOMAIN token' -> Tokens] /\ DOMAIN token' \subseteq DOMAIN token
      /\ \A id \in DOMAIN token' : token'[id].secret = token[id].secret
  <2>1. CASE Revoke
    BY <1>2, <2>1 DEF Revoke, Restrict
  <2>2. CASE Expire
    <3> HIDE DEF Tokens
    <3>1. PICK id \in DOMAIN token : token' = [token EXCEPT ![id].expired = TRUE]
      BY <2>2 DEF Expire
    <3>2. \A old \in Tokens : [old EXCEPT !.expired = TRUE] \in Tokens /\ [old EXCEPT !.expired = TRUE].secret = old.secret
      BY DEF Tokens
    <3> QED BY <1>2, <3>1, <3>2
  <2> QED BY <2>1, <2>2
<1>4. DOMAIN token' \subseteq 1..(2 + changes'["token"])
  BY <1>1, <1>2, <1>3
<1>5. OneSecret'
  BY <1>3 DEF ApiInv, OneSecret
<1>6. TokenMoves
  BY DEF Revoke, Expire, TokenMoves, DataRest, hostVars, askVars
<1> QED BY <1>1, <1>3, <1>4, <1>5, <1>6, TokenMovesKeep

LEMMA ChangeSettingsKeeps ==
  ASSUME ApiInv, ChangeSettings
  PROVE  ApiInv'
<1>1. settings' \in [Fields -> Whose] /\ \A f \in Fields : settings'[f] \notin Conns
  <2>1. settings' = [f \in Fields |-> -1]
    BY DEF ChangeSettings, ApiInv, TypeOK
  <2>2. -1 \in Whose /\ -1 \notin Conns
    BY ApiAssumption DEF Whose, Conns
  <2> QED BY <2>1, <2>2
<1>2. UNCHANGED <<app, vault, token, document, records, server, conn, dialog, open, refused, said, disk, scope>>
  BY DEF ChangeSettings, DataRest, hostVars, askVars
<1>3. TypeOK'
  <2>1. changes' \in [{"token", "settings", "lock"} -> 0..MaxChanges] /\ changes'["token"] = changes["token"]
    BY ChangedIs DEF ChangeSettings, ApiInv
  <2> QED BY <1>1, <1>2, <2>1 DEF ApiInv, TypeOK
<1>4. OneQuestion' /\ OneSecret' /\ Once' /\ Written'
  BY <1>2 DEF ApiInv, OneQuestion, OneSecret, Once, Written, At
<1>5. Agreed' /\ Granted'
  BY <1>2 DEF ApiInv, Agreed, Granted, At, RouteOf
<1>6. Changers'
  <2>1. \A d \in Conns : MayWrite(d)' <=> MayWrite(d)
    BY <1>2 DEF MayWrite, At
  <2>2. \A i \in DOMAIN records : records[i].by \in Conns
    BY RecordsAre DEF ApiInv, TypeOK
  <2>3. (\A i \in DOMAIN records : MayWrite(records[i].by))'
    BY <1>2, <2>1, <2>2 DEF ApiInv, Changers
  <2>4. (\A f \in Fields : settings[f] \in Conns => MayWrite(settings[f]))'
    BY <1>1
  <2>5. (\A d \in Conns : \A f \in DOMAIN conn[d].seen : conn[d].seen[f] \in Conns => MayWrite(conn[d].seen[f]))'
    BY <1>2, <2>1 DEF ApiInv, Changers
  <2>6. \A d \in Conns : conn'[d].stage = "work" => conn'[d].seen \in [Fields -> Whose]
    BY <1>2 DEF ApiInv, Changers
  <2> QED BY <2>3, <2>4, <2>5, <2>6 DEF Changers
<1> QED BY <1>3, <1>4, <1>5, <1>6 DEF ApiInv

LEMMA EraseKeeps ==
  ASSUME ApiInv, Erase
  PROVE  ApiInv'
<1>1. token' = <<>> /\ records' = <<>> /\ DOMAIN token' = {} /\ DOMAIN records' = {}
  BY DEF Erase
<1>2. UNCHANGED <<app, settings, conn, dialog, open, refused, said, disk, scope>>
  BY DEF Erase, askVars
<1>3. TypeOK'
  <2>1. changes' \in [{"token", "settings", "lock"} -> 0..MaxChanges]
    BY ChangedIs DEF Erase, ApiInv
  <2>2. server' \in Servers
    BY ServersAre DEF Erase, Stopping, ApiInv
  <2>3. token' \in [DOMAIN token' -> [secret : Nat \ {0}, scope : {"READ", "WRITE"}, expired : BOOLEAN]]
    BY <1>1
  <2>4. records' \in Seq([by : Conns, uuid : Nat])
    BY <1>1
  <2>5. vault' \in {"none", "locked", "open"} /\ document' \in BOOLEAN
    BY DEF Erase
  <2> QED BY <1>1, <1>2, <2>1, <2>2, <2>3, <2>4, <2>5 DEF ApiInv, TypeOK
<1>4. OneQuestion' /\ Written'
  BY <1>2 DEF ApiInv, OneQuestion, Written, At
<1>5. OneSecret' /\ Once'
  BY <1>1 DEF OneSecret, Once
<1>6. Agreed' /\ Granted'
  BY <1>2 DEF ApiInv, Agreed, Granted, At, RouteOf
<1>7. Changers'
  BY <1>1, <1>2 DEF ApiInv, Changers, MayWrite, At
<1> QED BY <1>3, <1>4, <1>5, <1>6, <1>7 DEF ApiInv

LEMMA TheirFileKeeps ==
  ASSUME ApiInv, TheirFile
  PROVE  ApiInv'
<1>1. PICK p \in Paths : disk[p] = NoFile /\ disk' = [disk EXCEPT ![p] = [by |-> -1, whole |-> TRUE]]
  BY DEF TheirFile
<1> DEFINE file == [by |-> -1, whole |-> TRUE]
<1>2. file \in [by : Whose, whole : BOOLEAN] /\ file.by \notin Conns /\ NoFile.by \notin Conns /\ disk \in [Paths -> [by : Whose, whole : BOOLEAN]]
  <2>1. -1 \notin Conns /\ 0 \notin Conns
    BY ApiAssumption DEF Conns
  <2>2. disk \in [Paths -> [by : Whose, whole : BOOLEAN]]
    BY DEF ApiInv, TypeOK
  <2> QED BY <2>1, <2>2 DEF Whose, NoFile
<1> HIDE DEF file
<1>3. disk' \in [Paths -> [by : Whose, whole : BOOLEAN]] /\ \A q \in Paths : disk'[q] = IF q = p THEN file ELSE disk[q]
  BY <1>1, <1>2 DEF file
<1>4. UNCHANGED <<app, vault, token, settings, document, records, server, conn, dialog, open, refused, said, scope, changes>>
  BY DEF TheirFile, dataVars, hostVars, askVars, runVars
<1>5. TypeOK'
  BY <1>3, <1>4 DEF ApiInv, TypeOK
<1>6. OneQuestion' /\ OneSecret' /\ Once'
  BY <1>4 DEF ApiInv, OneQuestion, OneSecret, Once
<1>7. Agreed' /\ Granted'
  BY <1>4 DEF ApiInv, Agreed, Granted, At, RouteOf
<1>8. Written'
  <2>1. (\A q \in Paths, d \in Conns : disk[q].by = d => d \in said /\ conn[d].request.path = q)'
    BY <1>2, <1>3, <1>4 DEF ApiInv, Written
  <2>2. (\A d \in Conns : At(d, "fill") /\ conn[d].request.path \in Paths => disk[conn[d].request.path] = [by |-> d, whole |-> FALSE])'
    <3> SUFFICES ASSUME NEW d \in Conns, conn[d].stage = "fill", conn[d].request.path \in Paths
                 PROVE  disk'[conn[d].request.path] = [by |-> d, whole |-> FALSE]
      BY <1>4 DEF At
    <3>1. disk[conn[d].request.path] = [by |-> d, whole |-> FALSE]
      BY DEF ApiInv, Written, At
    <3>2. conn[d].request.path # p
      BY <1>1, <1>2, <3>1
    <3> QED BY <1>3, <3>1, <3>2
  <2> QED BY <2>1, <2>2 DEF Written
<1>9. Changers'
  BY <1>4, ChangersKept DEF MayWrite, At
<1> QED BY <1>5, <1>6, <1>7, <1>8, <1>9 DEF ApiInv

LEMMA LessIs == \A n \in Nat : Less(n) \in Nat
BY DEF Less

LEMMA TickKeeps ==
  ASSUME ApiInv, Tick
  PROVE  ApiInv'
<1>1. ASSUME NEW c \in Conns
      PROVE  conn'[c] \in Connections /\ Alike(c) /\ conn'[c].stage = conn[c].stage
  <2> DEFINE new == [conn[c] EXCEPT !.left = Less(@)]
  <2>1. conn[c] \in Connections /\ conn'[c] = IF c \in Running THEN new ELSE conn[c]
    BY DEF Tick, ApiInv, TypeOK
  <2>2. Less(conn[c].left) \in Nat
    <3>1. conn[c].left \in Nat
      BY <2>1 DEF Connections
    <3> QED BY <3>1, LessIs
  <2>3. /\ new \in Connections /\ new.stage = conn[c].stage /\ new.request = conn[c].request /\ new.grant = conn[c].grant
        /\ new.heard = conn[c].heard /\ new.seen = conn[c].seen
    BY <2>1, <2>2 DEF Connections
  <2> HIDE DEF new
  <2> QED BY <2>1, <2>3 DEF Alike
<1>2. conn' \in [Conns -> Connections]
  BY <1>1 DEF Tick
<1>3. refused' \in [Ids -> Nat]
  <2>1. \A id \in Ids : refused[id] \in Nat /\ Less(refused[id]) \in Nat
    BY LessIs DEF ApiInv, TypeOK
  <2> QED BY <2>1 DEF Tick
<1>4. RestIsKept /\ TypeOK'
  BY <1>2, <1>3 DEF Tick, ApiInv, TypeOK, RestIsKept, dataVars, hostVars, runVars
<1>5. Quiet
  BY <1>1 DEF Quiet
<1> QED BY <1>4, <1>5, QuietKeeps

-----------------------------------------------------------------------------
(* The theorems.                                                           *)
LEMMA ServerStepKeeps ==
  ASSUME ApiInv, NEW c \in Conns, ServerStep(c)
  PROVE  ApiInv'
<1>1. CASE ReadHead(c) \/ Handle(c) \/ Describe(c) \/ Ask(c) \/ Receive(c) \/ TimeOut(c)
  BY <1>1, ReadHeadKeeps, HandleKeeps, DescribeKeeps, AskKeeps, ReceiveKeeps, TimeOutKeeps
<1>2. CASE Begin(c) \/ GivenUp(c) \/ Look(c) \/ Change(c) \/ SaveSettings(c) \/ Reply(c)
  BY <1>2, BeginKeeps, GivenUpKeeps, LookKeeps, ChangeKeeps, SaveSettingsKeeps, ReplyKeeps
<1>3. CASE ReadForFile(c) \/ CreateFile(c) \/ FillFile(c) \/ Respond(c)
  BY <1>3, ReadForFileKeeps, CreateFileKeeps, FillFileKeeps, RespondKeeps
<1> QED BY <1>1, <1>2, <1>3 DEF ServerStep

LEMMA ClientKeeps ==
  ASSUME ApiInv, NEW c \in Conns, Client(c)
  PROVE  ApiInv'
<1>1. ASSUME c \in DOMAIN Requests[scope], NEW r \in Requests[scope][c], Connect(c, r)
      PROVE  ApiInv'
  <2> DEFINE of(s) == {Requests[s][d] : d \in DOMAIN Requests[s]}
             all == {UNION of(s) : s \in DOMAIN Requests}
  <2>1. scope \in DOMAIN Requests
    BY DEF ApiInv, TypeOK, Scopes
  <2>2. Requests[scope][c] \in of(scope) /\ UNION of(scope) \in all
    BY <1>1, <2>1
  <2>3. r \in UNION of(scope)
    BY <2>2
  <2>4. r \in UNION all
    <3> HIDE DEF of
    <3> QED BY <2>2, <2>3
  <2>5. r \in Sent
    BY <2>4 DEF Sent
  <2> QED BY <1>1, <2>5, ConnectKeeps
<1>2. CASE ReadBody(c) \/ ClientLeaves(c)
  BY <1>2, ReadBodyKeeps, ClientLeavesKeeps
<1> QED BY <1>1, <1>2 DEF Client

LEMMA StepKeeps ==
  ASSUME ApiInv, [Next]_vars
  PROVE  ApiInv'
<1>1. ASSUME NEW c \in Conns, ServerStep(c) \/ Client(c) \/ OutOfTime(c) \/ Deliver(c) \/ \E answer \in Answers : Close(c, answer)
      PROVE  ApiInv'
  BY <1>1, ServerStepKeeps, ClientKeeps, OutOfTimeKeeps, DeliverKeeps, CloseKeeps
<1>2. CASE Accept \/ Launched \/ LaunchFails \/ HasStopped \/ Tick
  BY <1>2, AcceptKeeps, HostKeeps, TickKeeps
<1>3. CASE TurnOn \/ TurnOff \/ Start \/ Ends \/ Lock \/ Unlock
  BY <1>3, HostKeeps, StartKeeps, EndsKeeps, WindowKeeps
<1>4. CASE DeleteDocument \/ TheirFile \/ Revoke
  BY <1>4, WindowKeeps, TheirFileKeeps, RevokeKeeps
<1>5. CASE CreateToken \/ Expire \/ ChangeSettings \/ Erase
  BY <1>5, CreateTokenKeeps, RevokeKeeps, ChangeSettingsKeeps, EraseKeeps
<1>6. CASE UNCHANGED vars
  <2>1. UNCHANGED <<app, vault, token, settings, document, records, server, conn, dialog, open, refused, said, disk, scope, changes>>
    BY <1>6 DEF vars
  <2>2. TypeOK' /\ RestIsKept
    BY <2>1 DEF ApiInv, TypeOK, RestIsKept
  <2>3. Quiet
    BY <2>1 DEF Quiet, Alike
  <2> QED BY <2>2, <2>3, QuietKeeps
<1> QED BY <1>1, <1>2, <1>3, <1>4, <1>5, <1>6 DEF Next

LEMMA InitKeeps == Init => ApiInv
<1> SUFFICES ASSUME Init PROVE ApiInv
  OBVIOUS
<1>1. Idle \in Connections /\ Idle.stage = "idle" /\ Idle.heard = "" /\ Idle.grant.scope = "" /\ Idle.seen = [f \in {} |-> 0]
  BY DEF Idle, Connections, Stages, NoGrant, NoRequest
<1>2. \A c \in Conns : conn[c] = Idle /\ dialog[c] = ""
  BY DEF Init
<1>3. 0 \notin Conns /\ NoFile.by = 0 /\ NoFile \in [by : Whose, whole : BOOLEAN]
  BY ApiAssumption DEF Conns, NoFile, Whose
<1>4. /\ DOMAIN token = {1, 2} /\ token[1].secret = 1 /\ token[2].secret = 2
      /\ token \in [DOMAIN token -> [secret : Nat \ {0}, scope : {"READ", "WRITE"}, expired : BOOLEAN]]
  <2> DEFINE Tokens == [secret : Nat \ {0}, scope : {"READ", "WRITE"}, expired : BOOLEAN]
             reads == [secret |-> 1, scope |-> "READ", expired |-> FALSE]
             writes == [secret |-> 2, scope |-> "WRITE", expired |-> FALSE]
  <2>1. token = <<reads, writes>>
    BY DEF Init
  <2>2. reads \in Tokens /\ writes \in Tokens /\ reads.secret = 1 /\ writes.secret = 2
    OBVIOUS
  <2> HIDE DEF Tokens, reads, writes
  <2>3. token \in Seq(Tokens) /\ Len(token) = 2 /\ token[1] = reads /\ token[2] = writes
    BY <2>1, <2>2
  <2>4. DOMAIN token = {1, 2}
    <3>1. DOMAIN token = 1..2
      BY <2>3
    <3> QED BY <3>1
  <2>5. token \in [DOMAIN token -> Tokens]
    BY <2>3
  <2> QED BY <2>2, <2>3, <2>4, <2>5 DEF Tokens
<1>5. TypeOK
  <2>1. DOMAIN token \subseteq 1..(2 + changes["token"]) /\ changes \in [{"token", "settings", "lock"} -> 0..MaxChanges]
    <3>1. changes = [kind \in {"token", "settings", "lock"} |-> 0] /\ MaxChanges \in Nat
      BY ApiAssumption DEF Init
    <3>2. changes["token"] = 0 /\ changes \in [{"token", "settings", "lock"} -> 0..MaxChanges]
      BY <3>1
    <3> QED BY <1>4, <3>2
  <2>2. server \in Servers
    <3>1. NoServer \in Servers
      BY DEF NoServer, Servers
    <3> QED BY <3>1 DEF Init, Servers
  <2>3. settings \in [Fields -> Whose] /\ records \in Seq([by : Conns, uuid : Nat]) /\ said \subseteq Conns
    <3>1. settings = [f \in Fields |-> 0] /\ 0 \in Whose
      BY DEF Init, Whose
    <3>2. records = <<>> /\ said = {}
      BY DEF Init
    <3> QED BY <3>1, <3>2
  <2>4. conn \in [Conns -> Connections] /\ dialog \in [Conns -> {"", "shown"} \cup Answers]
    BY <1>1 DEF Init
  <2>5. refused \in [Ids -> Nat] /\ disk \in [Paths -> [by : Whose, whole : BOOLEAN]]
    BY <1>3 DEF Init
  <2> QED BY <1>4, <2>1, <2>2, <2>3, <2>4, <2>5 DEF Init, TypeOK
<1>6. OneQuestion /\ OneSecret /\ Once
  <2>1. OneQuestion
    <3>1. open = FALSE
      BY DEF Init
    <3> QED BY <1>2, <3>1 DEF OneQuestion
  <2>2. OneSecret
    BY <1>4 DEF OneSecret
  <2>3. records = <<>> /\ DOMAIN records = {}
    <3>1. records = <<>>
      BY DEF Init
    <3>2. Len(records) = 0 /\ DOMAIN records = 1..Len(records)
      BY <3>1
    <3>3. 1..0 = {}
      OBVIOUS
    <3> QED BY <3>1, <3>2, <3>3
  <2>4. Once
    BY <2>3 DEF Once
  <2> QED BY <2>1, <2>2, <2>3, <2>4
<1>7. Agreed /\ Granted
  BY <1>1, <1>2 DEF Init, Agreed, Granted, At, Past
<1>8. Written
  BY <1>1, <1>2, <1>3 DEF Init, Written, At
<1>9. Changers
  <2>1. DOMAIN records = {}
    <3>1. records = <<>>
      BY DEF Init
    <3>2. Len(records) = 0 /\ DOMAIN records = 1..Len(records)
      BY <3>1
    <3>3. 1..0 = {}
      OBVIOUS
    <3> QED BY <3>2, <3>3
  <2>2. \A i \in DOMAIN records : MayWrite(records[i].by)
    BY <2>1
  <2>3. \A f \in Fields : settings[f] = 0
    BY DEF Init
  <2>4. \A c \in Conns : DOMAIN conn[c].seen = {} /\ conn[c].stage = "idle"
    BY <1>1, <1>2
  <2>5. \A c \in Conns : \A f \in DOMAIN conn[c].seen : conn[c].seen[f] \in Conns => MayWrite(conn[c].seen[f])
    BY <2>4
  <2>6. \A c \in Conns : conn[c].stage = "work" => conn[c].seen \in [Fields -> Whose]
    BY <2>4
  <2> QED BY <1>3, <2>2, <2>3, <2>5, <2>6 DEF Changers
<1> QED BY <1>5, <1>6, <1>7, <1>8, <1>9 DEF ApiInv

\* What is where, and where a yes, a grant and a change come from (api.rs, tokens.rs, api/prompt.rs, api/files.rs).
THEOREM ApiInvariant == Spec => []ApiInv
<1>1. ApiInv /\ [Next]_vars => ApiInv'
  BY StepKeeps
<1> QED BY <1>1, InitKeeps, PTL DEF Spec

\* The app thinks a question is open exactly while the one question is on screen (prompt.rs:46-60, 86-104).
THEOREM QuestionsAreShownTheorem == Spec => []QuestionsAreShown
<1>1. ApiInv => QuestionsAreShown
  <2> SUFFICES ASSUME ApiInv PROVE QuestionsAreShown
    OBVIOUS
  <2> DEFINE shown == {c \in Conns : dialog[c] = "shown"}
  <2>1. open <=> shown # {}
    BY DEF ApiInv, OneQuestion
  <2>2. \A c \in shown : shown = {c}
    BY DEF ApiInv, OneQuestion
  <2>3. shown = {} \/ \E c \in shown : shown = {c}
    BY <2>2
  <2> HIDE DEF shown
  <2>4. Cardinality(shown) <= 1
    <3>1. CASE shown = {}
      BY <3>1, FS_EmptySet
    <3>2. CASE \E c \in shown : shown = {c}
      <4>1. PICK c \in shown : shown = {c}
        BY <3>2
      <4>2. Cardinality({c}) = 1
        BY FS_Singleton
      <4>3. Cardinality(shown) = 1
        BY <4>1, <4>2
      <4> QED BY <4>3
    <3> QED BY <2>3, <3>1, <3>2
  <2> QED BY <2>1, <2>4 DEF QuestionsAreShown, shown
<1> QED BY <1>1, ApiInvariant, PTL

\* Records and settings are changed only for tokens that may write, and a transaction that is sent again is recorded once
\* (read.rs:1-2, tokens.rs:50-60, write.rs:13-14).
THEOREM OnceEachTheorem == Spec => []OnceEach
<1>1. ApiInv => OnceEach
  <2> SUFFICES ASSUME ApiInv PROVE OnceEach
    OBVIOUS
  <2>1. \A i \in DOMAIN records : conn[records[i].by].grant.scope = "WRITE"
    BY DEF ApiInv, Changers, MayWrite
  <2>2. \A f \in DOMAIN settings : settings[f] \in Conns => conn[settings[f]].grant.scope = "WRITE"
    BY DEF ApiInv, TypeOK, Changers, MayWrite
  <2> QED BY <2>1, <2>2 DEF ApiInv, Once, OnceEach
<1> QED BY <1>1, ApiInvariant, PTL

\* A file changes under nobody's hands: only the request that made it finishes it or takes it back.
LEMMA OnlyFinished ==
  ASSUME ApiInv, [Next]_vars, NEW p \in Paths, disk[p] # NoFile, disk'[p] # disk[p]
  PROVE  \E c \in Conns : Finishing(p, c)
<1>1. ASSUME NEW c \in Conns, ServerStep(c)
      PROVE  FillFile(c)
  <2>1. CASE CreateFile(c)
    BY <2>1 DEF CreateFile, MayCreate, ApiInv, TypeOK
  <2>2. CASE ReadHead(c) \/ Handle(c) \/ Describe(c) \/ Ask(c) \/ Receive(c) \/ TimeOut(c)
    BY <2>2 DEF ReadHead, Handle, Describe, Ask, Receive, TimeOut, Others
  <2>3. CASE Begin(c) \/ GivenUp(c) \/ Look(c) \/ Change(c) \/ SaveSettings(c) \/ Reply(c) \/ ReadForFile(c) \/ Respond(c)
    BY <2>3 DEF Begin, GivenUp, Look, Change, SaveSettings, Reply, ReadForFile, Respond, Others
  <2> QED BY <1>1, <2>1, <2>2, <2>3 DEF ServerStep
<1>2. ASSUME NEW c \in Conns, Client(c) \/ OutOfTime(c) \/ Deliver(c) \/ \E answer \in Answers : Close(c, answer)
      PROVE  FALSE
  BY <1>2 DEF Client, Connect, ReadBody, ClientLeaves, OutOfTime, Dropped, Deliver, Close, Others
<1>3. ~(Accept \/ Launched \/ LaunchFails \/ HasStopped \/ Tick \/ TurnOn \/ TurnOff \/ Start \/ Ends \/ Lock \/ Unlock)
  BY DEF Accept, Launched, LaunchFails, HasStopped, Tick, TurnOn, TurnOff, Start, Ends, Lock, Unlock, Others, HostRest, DataRest
<1>4. ~(DeleteDocument \/ Revoke \/ CreateToken \/ Expire \/ ChangeSettings \/ Erase)
  BY DEF DeleteDocument, Revoke, CreateToken, Expire, ChangeSettings, Erase, DataRest
<1>5. ~TheirFile
  BY DEF TheirFile, ApiInv, TypeOK
<1>6. ~UNCHANGED vars
  BY DEF vars
<1>7. PICK c \in Conns : FillFile(c)
  BY <1>1, <1>2, <1>3, <1>4, <1>5, <1>6 DEF Next
<1> QED BY <1>7, FillsItsOwn

\* A file was written only for a request the person said yes to, where they were shown, and one that is there is never replaced or
\* removed (prompt.rs:106-113, confirmed.rs:1-5, files.rs:51-80).
THEOREM OnlyAllowedTheorem == Spec => OnlyAllowed
<1>1. ApiInv => \A p \in Paths, c \in Conns : AllowedFile(p, c)
  BY DEF ApiInv, Written, AllowedFile
<1>2. ApiInv /\ [Next]_vars => [\A p \in Paths : disk[p] # NoFile /\ disk'[p] # disk[p] => \E c \in Conns : Finishing(p, c)]_vars
  BY OnlyFinished
<1> QED BY <1>1, <1>2, ApiInvariant, PTL DEF OnlyAllowed, Spec
===============================================================================
