------------------------------ MODULE SyncFlow ------------------------------
(***************************************************************************)
(* A sync between the desktop and its paired phone: the conversation of    *)
(* src-tauri/src/sync/flow.rs, with what engine.rs, stamp.rs, currency.rs  *)
(* and peers.rs do at each step, while people go on writing and the        *)
(* connection may break anywhere.                                          *)
(*                                                                         *)
(* The messages between the two are an encrypted stream over TCP: they     *)
(* arrive once and in order until it breaks. Each step below is one        *)
(* transaction of the database with the messages before and after it; no   *)
(* step holds the database while it waits for a message.                   *)
(*                                                                         *)
(* The ten tables of the code differ in what a row may do to another       *)
(* (SyncMerge). Here they are one table of independent rows, and the hash  *)
(* of a table is its list.                                                 *)
(***************************************************************************)
EXTENDS Registers, Sequences, FiniteSets

CONSTANTS
  Habits,        \* how a pair of devices may sync: sets of modes
  Leads,         \* by how many ms the wall clock of a device may be ahead
  MaxClockLead,  \* MAX_CLOCK_LEAD_MS, a day in the code
  MaxConflicts,  \* MAX_CONFLICTS, 200 in the code
  Concurrent,    \* whether people write, and time passes, while a sync runs
  MaxNow,        \* bound: the last moment
  MaxVersion,    \* bound: how many contents are ever written
  MaxChanges,    \* bound: how many changes of currency there are
  MaxSyncs       \* bound: how many syncs are started

ASSUME ItemsAssumption == Items \subseteq Nat /\ IsFiniteSet(Items)
ASSUME HabitsAssumption == Habits \subseteq SUBSET {"both", "to_desktop", "to_phone"}
ASSUME BoundsAssumption ==
  /\ Leads \subseteq Nat
  /\ {MaxClockLead, MaxConflicts, MaxChanges, MaxSyncs} \subseteq Nat
  /\ {MaxNow, MaxVersion} \subseteq Nat \ {0}
  /\ Concurrent \in BOOLEAN

Desktop == 1
Phone == 2
Devices == {Desktop, Phone}
Other(d) == IF d = Desktop THEN Phone ELSE Desktop

ASSUME IdsAssumption == Phone < LastDevice

VARIABLES
  now,          \* the true time in ms
  lead,         \* lead[d]: how far the wall clock of d is ahead
  clock,        \* clock[d]: sync_clock.last_ms and last_counter
  rows,         \* rows[d][i]: what d holds of row i
  changes,      \* changes[d]: the stamps of the rows of currency_changes, in order
  last,         \* last[d]: sync_peers.last_sync_at, a set of at most one time
  run,          \* run[d]: what d knows of the sync it is in
  wire,         \* wire[d]: the messages on their way to d
  nextVersion,  \* the next content anyone writes
  habit,        \* the modes this pair of devices uses
  against,      \* the contents a person decided against in the last review of their row
  syncs         \* how many syncs were started

vars == <<habit, now, lead, clock, rows, changes, last, run, wire, nextVersion, against, syncs>>
world == <<habit, now, lead, last, nextVersion, syncs>>

Wall(d) == now + lead[d]

(***************************************************************************)
(* A row: besides its stamp and its version, whether it is a deletion      *)
(* marker, how many changes of currency its amounts went through (unit),   *)
(* and which versions its writer had seen (over; no column of the code,    *)
(* only said to state the properties).                                     *)
(***************************************************************************)
Row ==
  [stamp : Stamp, version : 0..MaxVersion, deleted : BOOLEAN, unit : Nat, over : SUBSET (1..MaxVersion)]
Absent == [stamp |-> UNSET_STAMP, version |-> 0, deleted |-> FALSE, unit |-> 0, over |-> {}]
NoRows == [i \in Items |-> Absent]

Live(table, i) == Holds(table, i) /\ ~table[i].deleted

\* The `Digest`: of each row or marker its stamp, and whether it is a marker.
List(table) ==
  [i \in {j \in Items : Holds(table, j)} |-> [stamp |-> table[i].stamp, deleted |-> table[i].deleted]]

\* Mutant of ToSend: deletion markers are forgotten.
ToSendRowsOnly(mine, theirs) ==
  {i \in DOMAIN mine : ~mine[i].deleted
     /\ (i \notin DOMAIN theirs \/ Older(theirs[i].stamp, mine[i].stamp))}

\* `to_send` and rows_messages: as they are now, the rows the other side's list
\* lacks or has at an older stamp than this side's list.
ToSend(mine, theirs) ==
  {i \in DOMAIN mine : i \notin DOMAIN theirs \/ Older(theirs[i].stamp, mine[i].stamp)}

Only(table, items) == [i \in Items |-> IF i \in items THEN table[i] ELSE Absent]

\* Mutant of Conflicts: each side tests only its own change.
ConflictsOfMine(mine, theirs, since) ==
  IF since = {} THEN {}
  ELSE {i \in DOMAIN mine \cap DOMAIN theirs :
          /\ mine[i] # theirs[i]
          /\ ~(mine[i].deleted /\ theirs[i].deleted)
          /\ \A t \in since : mine[i].stamp.ms > t}

\* `conflicts`: the rows both sides changed after the later of their last syncs.
\* None when they never met (since is a set of at most two times).
Conflicts(mine, theirs, since) ==
  IF since = {} THEN {}
  ELSE {i \in DOMAIN mine \cap DOMAIN theirs :
          /\ mine[i] # theirs[i]
          /\ ~(mine[i].deleted /\ theirs[i].deleted)
          /\ \A t \in since : mine[i].stamp.ms > t /\ theirs[i].stamp.ms > t}

\* Mutant of Asked: one conflict too few is asked about.
AskedOneLess(conflicts) ==
  {i \in conflicts : Cardinality({j \in conflicts : j < i}) + 1 < MaxConflicts}

\* The first MAX_CONFLICTS of them: the others are left to the newer change.
Asked(conflicts) == {i \in conflicts : Cardinality({j \in conflicts : j < i}) < MaxConflicts}

Reviewer(mode) == IF mode = "to_phone" THEN Phone ELSE Desktop
Sends(d, mode) == mode = "both" \/ (mode = "to_desktop" <=> d = Phone)
Receives(d, mode) == Sends(Other(d), mode)

(***************************************************************************)
(* Where a device is in a sync, and what it keeps from step to step.       *)
(***************************************************************************)
NoHello == [ms |-> 0, changes |-> 0, since |-> {}, mode |-> "both"]
Resting ==
  [at |-> "rest", mode |-> "both", own |-> NoHello, theirs |-> NoHello, list |-> <<>>,
   reviewed |-> FALSE, asked |-> {}, shown |-> NoRows, seen |-> NoRows,
   out |-> NoRows, got |-> NoRows, differs |-> FALSE]

At(d, step) == run[d].at = step
Idle == \A d \in Devices : At(d, "rest")

\* The message each of these steps waits for.
WaitsFor ==
  [hello |-> "hello", learn |-> "currency", hashes |-> "hashes", lists |-> "list",
   versions |-> "rows", reviewed |-> "reviewed", rows |-> "rows", done |-> "done"]

Waiting(d) == run[d].at \in DOMAIN WaitsFor
Arrived(d) == Waiting(d) /\ wire[d] # <<>> /\ Head(wire[d]).kind = WaitsFor[run[d].at]
Arriving(d) == Head(wire[d]).body

\* d takes the message it waited for off the wire (or none), and sends messages,
\* which are lost if the other device is no longer there.
Talk(d, took, sent) ==
  wire' = [wire EXCEPT ![d] = IF took THEN Tail(@) ELSE @,
                       ![Other(d)] = IF At(Other(d), "rest") THEN @ ELSE @ \o sent]

\* d ends the sync: the connection is closed, what was on its way to d is lost.
Ends(d, took, sent) ==
  /\ run' = [run EXCEPT ![d] = Resting]
  /\ wire' = [wire EXCEPT ![d] = <<>>,
                          ![Other(d)] = IF At(Other(d), "rest") THEN @ ELSE @ \o sent]

Message(kind, body) == <<[kind |-> kind, body |-> body]>>

-----------------------------------------------------------------------------
(***************************************************************************)
(* Before and between syncs.                                               *)
(***************************************************************************)
\* Two devices that were just paired and hold nothing yet.
Init ==
  /\ habit \in Habits
  /\ now = 1
  /\ lead \in [Devices -> Leads]
  /\ clock = [d \in Devices |-> [ms |-> lead[d], counter |-> 0]]
  /\ rows = [d \in Devices |-> NoRows]
  /\ changes = [d \in Devices |-> <<>>]
  /\ last = [d \in Devices |-> {}]
  /\ run = [d \in Devices |-> Resting]
  /\ wire = [d \in Devices |-> <<>>]
  /\ nextVersion = 1
  /\ against = {}
  /\ syncs = 0

\* Two devices that met at time 0 and hold the same rows since, written by the phone.
FirstRow ==
  [stamp |-> StampAt([ms |-> 0, counter |-> 0], Phone), version |-> 1,
   deleted |-> FALSE, unit |-> 0, over |-> {}]

InitMet ==
  /\ habit \in Habits
  /\ now = 1
  /\ lead \in [Devices -> Leads]
  /\ clock = [d \in Devices |-> [ms |-> lead[d], counter |-> 0]]
  /\ rows = [d \in Devices |-> [i \in Items |-> FirstRow]]
  /\ changes = [d \in Devices |-> <<>>]
  /\ last = [d \in Devices |-> {lead[d]}]
  /\ run = [d \in Devices |-> Resting]
  /\ wire = [d \in Devices |-> <<>>]
  /\ nextVersion = 2
  /\ against = {}
  /\ syncs = 0

\* A plain pair only syncs both ways and keeps its currency. In the others one row
\* is written, a bound.
Plain == habit = {"both"}
Written == IF Plain THEN Items ELSE {i \in Items : \A j \in Items : i <= j}
Versions == IF Plain THEN MaxVersion ELSE MaxVersion - 1

\* Where nobody writes during a sync, nobody writes in the millisecond of one either.
MayWrite == Concurrent \/ (Idle /\ \A d \in Devices : \A t \in last[d] : Wall(d) > t)

Pass ==
  /\ now < MaxNow
  /\ Concurrent \/ Idle
  /\ now' = now + 1
  /\ UNCHANGED <<habit, lead, clock, rows, changes, last, run, wire, nextVersion, against, syncs>>

\* A change of row i on d: a new row, a new content, or a deletion. The trigger
\* ticks the clock and stamps it.
Edit(d, i) ==
  /\ MayWrite
  /\ nextVersion <= Versions
  /\ LET old == rows[d][i]
         ticked == Tick(clock[d], Wall(d))
     IN
     /\ \/ \A e \in Devices : ~Holds(rows[e], i)
        \/ Live(rows[d], i)
     /\ \E deleted \in {FALSE, Holds(rows[d], i)} :
          rows' = [rows EXCEPT ![d][i] =
            [stamp |-> StampAt(ticked, d), version |-> nextVersion, deleted |-> deleted,
             unit |-> IF Holds(rows[d], i) THEN old.unit ELSE Len(changes[d]),
             over |-> old.over \cup ({old.version} \ {0})]]
     /\ clock' = [clock EXCEPT ![d] = ticked]
  /\ nextVersion' = nextVersion + 1
  /\ UNCHANGED <<habit, now, lead, changes, last, run, wire, against, syncs>>

\* Every amount converted at the rates of so many changes of currency.
Converted(table, times) ==
  [i \in Items |-> IF Live(table, i) THEN [table[i] EXCEPT !.unit = @ + times] ELSE table[i]]

\* `currency::change`: the desktop gets another currency. No row gets a new stamp.
ChangeCurrency ==
  /\ MayWrite
  /\ ~Plain
  /\ Len(changes[Desktop]) < MaxChanges
  /\ LET ticked == Tick(clock[Desktop], Wall(Desktop)) IN
     /\ clock' = [clock EXCEPT ![Desktop] = ticked]
     /\ changes' = [changes EXCEPT ![Desktop] = Append(@, StampAt(ticked, Desktop))]
  /\ rows' = [rows EXCEPT ![Desktop] = Converted(@, 1)]
  /\ UNCHANGED <<habit, now, lead, last, run, wire, nextVersion, against, syncs>>

-----------------------------------------------------------------------------
(***************************************************************************)
(* A sync: the two hellos, the currency.                                   *)
(***************************************************************************)
Hello(d, mode) ==
  [ms |-> clock[d].ms, changes |-> Len(changes[d]), since |-> last[d], mode |-> mode]

\* The phone reached the desktop's window, which takes at least a millisecond,
\* and says hello.
Start(mode) ==
  /\ Idle
  /\ syncs < MaxSyncs /\ syncs' = syncs + 1
  /\ now < MaxNow /\ now' = now + 1
  /\ LET hello == Hello(Phone, "both") IN
     /\ run' = [d \in Devices |->
          [Resting EXCEPT !.at = "hello",
             !.mode = IF d = Desktop THEN mode ELSE "both",
             !.own = IF d = Phone THEN hello ELSE NoHello]]
     /\ wire' = [wire EXCEPT ![Desktop] = Message("hello", hello)]
  /\ UNCHANGED <<habit, lead, clock, rows, changes, last, nextVersion, against>>

\* `check_hello`: the other clock against the wall clock here.
ClockFarOff(d, theirs) ==
  theirs.ms > Wall(d) + MaxClockLead \/ theirs.ms + MaxClockLead < Wall(d)

\* Only the desktop changes the currency, so only the phone may be behind.
CurrencyAgrees(d, own, theirs) ==
  IF d = Desktop THEN own.changes >= theirs.changes ELSE own.changes <= theirs.changes

\* Mutant of AfterHello: the currency is left to the next sync.
AfterHelloAtOnce(d, own, theirs) == "compare"

\* Mutant of AfterHello: only the desktop sees that the currencies differ.
AfterHelloOneSided(d, own, theirs) ==
  IF d = Desktop /\ own.changes # theirs.changes THEN "currency" ELSE "compare"

AfterHello(d, own, theirs) ==
  IF own.changes = theirs.changes THEN "compare"
  ELSE IF d = Desktop THEN "currency" ELSE "learn"

TakeHello(d) ==
  /\ At(d, "hello") /\ Arrived(d)
  /\ LET theirs == Arriving(d)
         own == IF d = Desktop THEN Hello(d, run[d].mode) ELSE run[d].own
         answer == IF d = Desktop THEN Message("hello", own) ELSE <<>>
     IN
     IF ClockFarOff(d, theirs) \/ ~CurrencyAgrees(d, own, theirs)
     THEN Ends(d, TRUE, answer)
     ELSE /\ run' = [run EXCEPT ![d].at = AfterHello(d, own, theirs),
                                ![d].mode = IF d = Phone THEN theirs.mode ELSE @,
                                ![d].own = own, ![d].theirs = theirs]
          /\ Talk(d, TRUE, answer)
  /\ UNCHANGED <<world, clock, rows, changes, against>>

\* The desktop sends the changes the phone has not seen, as they are by now.
SendCurrency(d) ==
  /\ At(d, "currency")
  /\ Talk(d, FALSE, Message("currency",
       SubSeq(changes[d], run[d].theirs.changes + 1, Len(changes[d]))))
  /\ run' = [run EXCEPT ![d].at = "compare"]
  /\ UNCHANGED <<world, clock, rows, changes, against>>

\* `apply_currency`: every missing change in turn, every row here converted.
LearnCurrency(d) ==
  /\ At(d, "learn") /\ Arrived(d)
  /\ LET learnt == Arriving(d) IN
     IF \E n \in DOMAIN learnt : learnt[n].ms > Wall(d) + MaxClockLead
     THEN /\ Ends(d, TRUE, <<>>)
          /\ UNCHANGED <<clock, rows, changes>>
     ELSE /\ changes' = [changes EXCEPT ![d] = @ \o learnt]
          /\ rows' = [rows EXCEPT ![d] = Converted(@, Len(learnt))]
          /\ clock' = [clock EXCEPT ![d] = Observe(@, learnt[Len(learnt)])]
          /\ run' = [run EXCEPT ![d].at = "compare"]
          /\ Talk(d, TRUE, <<>>)
  /\ UNCHANGED <<world, against>>

-----------------------------------------------------------------------------
(***************************************************************************)
(* The lists, and the review of the conflicts.                             *)
(***************************************************************************)

\* `compare`: the list of this moment, and its hash to the other side.
Compare(d) ==
  /\ At(d, "compare")
  /\ run' = [run EXCEPT ![d].at = "hashes", ![d].list = List(rows[d])]
  /\ Talk(d, FALSE, Message("hashes", List(rows[d])))
  /\ UNCHANGED <<world, clock, rows, changes, against>>

\* Equal hashes end the sync of the rows; otherwise the desktop sends its list.
TakeHashes(d) ==
  /\ At(d, "hashes") /\ Arrived(d)
  /\ IF Arriving(d) = run[d].list
     THEN /\ run' = [run EXCEPT ![d].at = "touch"]
          /\ Talk(d, TRUE, <<>>)
     ELSE /\ run' = [run EXCEPT ![d].at = "lists"]
          /\ Talk(d, TRUE, IF d = Desktop THEN Message("list", run[d].list) ELSE <<>>)
  /\ UNCHANGED <<world, clock, rows, changes, against>>

\* The other list is here, and the phone answers with its own. If there are
\* conflicts and no review was made, the device that does not review sends its
\* versions of them; otherwise the rows to send are taken, and the desktop
\* sends them at once.
TakeLists(d) ==
  /\ At(d, "lists") /\ Arrived(d)
  /\ LET theirs == Arriving(d)
         mine == run[d].list
         since == run[d].own.since \cup run[d].theirs.since
         asked == IF run[d].reviewed THEN {} ELSE Asked(Conflicts(mine, theirs, since))
         out == IF Sends(d, run[d].mode) THEN Only(rows[d], ToSend(mine, theirs)) ELSE NoRows
         answer == IF d = Phone THEN Message("list", mine) ELSE <<>>
     IN
     IF asked # {}
     THEN IF d = Reviewer(run[d].mode)
          THEN /\ run' = [run EXCEPT ![d].at = "versions", ![d].asked = asked]
               /\ Talk(d, TRUE, answer)
          ELSE /\ run' = [run EXCEPT ![d].at = "reviewed"]
               /\ Talk(d, TRUE, answer \o Message("rows", Only(rows[d], asked)))
     ELSE /\ run' = [run EXCEPT ![d].at = "rows",
                                ![d].out = IF d = Phone THEN out ELSE NoRows]
          /\ Talk(d, TRUE, answer \o IF d = Desktop THEN Message("rows", out) ELSE <<>>)
  /\ UNCHANGED <<world, clock, rows, changes, against>>

\* The other versions are here, and the person is shown both.
TakeVersions(d) ==
  /\ At(d, "versions") /\ Arrived(d)
  /\ run' = [run EXCEPT ![d].at = "review", ![d].shown = Only(rows[d], run[d].asked),
                        ![d].seen = Arriving(d)]
  /\ Talk(d, TRUE, <<>>)
  /\ UNCHANGED <<world, clock, rows, changes, against>>

(***************************************************************************)
(* `decide`: the person keeps some of the versions here, which get fresh   *)
(* stamps one after the other, and takes the others', so that the ones     *)
(* here get the oldest stamp. Only what is still a row (or still a marker) *)
(* is found by the update.                                                 *)
(***************************************************************************)
Ticks(d) ==
  LET time[n \in 0..Cardinality(Items)] ==
        IF n = 0 THEN clock[d] ELSE Tick(time[n - 1], Wall(d))
  IN time

\* Mutant of Decided: the version that was kept gets no fresh stamp.
DecidedForTheirsOnly(d, i, kept) ==
  LET old == rows[d][i] IN
  IF i \notin run[d].asked \ kept \/ old.deleted # run[d].list[i].deleted THEN old
  ELSE [old EXCEPT !.stamp = UNSET_STAMP]

Decided(d, i, kept) ==
  LET old == rows[d][i]
      place == Cardinality({j \in kept : j <= i})
  IN
  IF i \notin run[d].asked \/ old.deleted # run[d].list[i].deleted THEN old
  ELSE [old EXCEPT !.stamp = IF i \in kept THEN StampAt(Ticks(d)[place], d) ELSE UNSET_STAMP]

Review(d) ==
  /\ At(d, "review")
  /\ \E kept \in SUBSET run[d].asked :
       /\ rows' = [rows EXCEPT ![d] = [i \in Items |-> Decided(d, i, kept)]]
       /\ clock' = [clock EXCEPT ![d] = Ticks(d)[Cardinality(kept)]]
       /\ LET given == run[d].asked \ kept
              mine(items) == {run[d].shown[i].version : i \in items}
              theirs(items) == {run[d].seen[i].version : i \in items}
          IN  against' = (against \ (mine(kept) \cup theirs(given))) \cup mine(given) \cup theirs(kept)
  /\ run' = [run EXCEPT ![d].at = "compare", ![d].reviewed = TRUE, ![d].asked = {},
                        ![d].shown = NoRows, ![d].seen = NoRows]
  /\ Talk(d, FALSE, Message("reviewed", {}))
  /\ UNCHANGED <<world, changes>>

TakeReviewed(d) ==
  /\ At(d, "reviewed") /\ Arrived(d)
  /\ run' = [run EXCEPT ![d].at = "compare", ![d].reviewed = TRUE]
  /\ Talk(d, TRUE, <<>>)
  /\ UNCHANGED <<world, clock, rows, changes, against>>

-----------------------------------------------------------------------------
(***************************************************************************)
(* The rows, and the end.                                                  *)
(***************************************************************************)

\* The other's rows are here. The phone sends its own before it applies them.
TakeRows(d) ==
  /\ At(d, "rows") /\ Arrived(d)
  /\ run' = [run EXCEPT ![d].at = "apply", ![d].got = Arriving(d), ![d].out = NoRows]
  /\ Talk(d, TRUE, IF d = Phone THEN Message("rows", run[d].out) ELSE <<>>)
  /\ UNCHANGED <<world, clock, rows, changes, against>>

\* A stamp of a clock that is too far ahead, or rows against the direction of the
\* sync, are refused.
Refused(d) ==
  IF Receives(d, run[d].mode)
  THEN \E i \in Items : Holds(run[d].got, i) /\ run[d].got[i].stamp.ms > Wall(d) + MaxClockLead
  ELSE run[d].got # NoRows

\* Mutant of Merged: the rows are taken without a look at what is here by now.
MergedUnseen(d) ==
  [i \in Items |-> IF Holds(run[d].got, i) THEN run[d].got[i] ELSE rows[d][i]]

Merged(d) ==
  IF Receives(d, run[d].mode)
  THEN [i \in Items |-> Newer(run[d].got[i], rows[d][i])]
  ELSE rows[d]

\* `apply`, and the hash of what is here now, which the desktop sends first.
Apply(d) ==
  /\ At(d, "apply")
  /\ IF Refused(d)
     THEN /\ Ends(d, FALSE, <<>>)
          /\ UNCHANGED <<clock, rows>>
     ELSE /\ rows' = [rows EXCEPT ![d] = Merged(d)]
          /\ \E time \in CatchUp(clock[d], Merged(d)) : clock' = [clock EXCEPT ![d] = time]
          /\ run' = [run EXCEPT ![d].at = "done", ![d].got = NoRows, ![d].list = List(Merged(d))]
          /\ Talk(d, FALSE, IF d = Desktop THEN Message("done", List(Merged(d))) ELSE <<>>)
  /\ UNCHANGED <<world, changes, against>>

TakeDone(d) ==
  /\ At(d, "done") /\ Arrived(d)
  /\ run' = [run EXCEPT ![d].at = "touch",
       ![d].differs = run[d].mode = "both" /\ Arriving(d) # run[d].list]
  /\ Talk(d, TRUE, IF d = Phone THEN Message("done", run[d].list) ELSE <<>>)
  /\ UNCHANGED <<world, clock, rows, changes, against>>

\* The files of the documents went after the rows, and the sync is noted with the
\* time of the wall clock here.
Touch(d) ==
  /\ At(d, "touch")
  /\ last' = [last EXCEPT ![d] = {Wall(d)}]
  /\ Ends(d, FALSE, <<>>)
  /\ UNCHANGED <<habit, now, lead, clock, rows, changes, nextVersion, against, syncs>>

(***************************************************************************)
(* A sync may end anywhere on either side: the person cancels it or lets a *)
(* review time out, the app is locked or ends, the network breaks.         *)
(***************************************************************************)
Fail(d) ==
  /\ ~At(d, "rest")
  /\ Ends(d, FALSE, <<>>)
  /\ UNCHANGED <<world, clock, rows, changes, against>>

\* Mutant of PeerGone: who waits for the person at the other device does not notice.
PeerGoneUnlessReviewing(d) ==
  /\ Waiting(d) /\ wire[d] = <<>> /\ At(Other(d), "rest")
  /\ ~At(d, "reviewed")
  /\ Ends(d, FALSE, <<>>)
  /\ UNCHANGED <<world, clock, rows, changes, against>>

\* The other side has gone: what it sent is read, and then the stream is at its end.
\* (The error message that says why it left, where there is one, ends this side
\* in the same way.)
PeerGone(d) ==
  /\ Waiting(d) /\ wire[d] = <<>> /\ At(Other(d), "rest")
  /\ Ends(d, FALSE, <<>>)
  /\ UNCHANGED <<world, clock, rows, changes, against>>

Step(d) ==
  \/ TakeHello(d) \/ SendCurrency(d) \/ LearnCurrency(d)
  \/ Compare(d) \/ TakeHashes(d) \/ TakeLists(d)
  \/ TakeVersions(d) \/ Review(d) \/ TakeReviewed(d)
  \/ TakeRows(d) \/ Apply(d) \/ TakeDone(d) \/ Touch(d)
  \/ PeerGone(d)

Next ==
  \/ Pass
  \/ ChangeCurrency
  \/ \E mode \in habit : Start(mode)
  \/ \E d \in Devices :
       \/ \E i \in Written : Edit(d, i)
       \/ Step(d)
       \/ Fail(d)

Spec == Init /\ [][Next]_vars
SpecMet == InitMet /\ [][Next]_vars

(***************************************************************************)
(* What the conflicts and the review rest on, and nothing in the code sees *)
(* to: the code tells an older change from a newer one, and a change after *)
(* the last sync from one before it, by stamps of two wall clocks that it  *)
(* allows to be a day apart. The two clocks may differ here, as long as    *)
(* they do not at these two steps.                                         *)
(***************************************************************************)
\* Who writes, stamps past what either side noted as its last sync.
WritesPastSyncs ==
  \A d \in Devices : nextVersion' # nextVersion /\ rows'[d] # rows[d] =>
    \A e \in Devices : \A t \in last[e] : Tick(clock[d], Wall(d)).ms > t

\* Who decides on conflicts, has a clock past the stamps of the versions shown.
DecidesPastSeen ==
  \A d \in Devices : At(d, "review") /\ run'[d].reviewed =>
    \A i \in run[d].asked : Older(run[d].seen[i].stamp, StampAt(Tick(clock[d], Wall(d)), d))

InTurn == WritesPastSyncs /\ DecidesPastSeen

\* A bound: clocks that are ahead by as much are as good as right ones, and only those
\* of a plain pair differ.
ClocksTried ==
  /\ \E d \in Devices : lead[d] = 0
  /\ ~Plain => lead[Desktop] = lead[Phone]

InitInTurn == InitMet /\ ClocksTried

\* The steps that are in turn; only these two can be out of it.
NextInTurn ==
  \/ Pass
  \/ ChangeCurrency
  \/ \E mode \in habit : Start(mode)
  \/ \E d \in Devices :
       \/ \E i \in Written : Edit(d, i) /\ WritesPastSyncs
       \/ Review(d) /\ DecidesPastSeen
       \/ TakeHello(d) \/ SendCurrency(d) \/ LearnCurrency(d)
       \/ Compare(d) \/ TakeHashes(d) \/ TakeLists(d) \/ TakeVersions(d) \/ TakeReviewed(d)
       \/ TakeRows(d) \/ Apply(d) \/ TakeDone(d) \/ Touch(d)
       \/ PeerGone(d)
       \/ Fail(d)

SpecInTurn == InitInTurn /\ [][NextInTurn]_vars
SpecDecidesPastSeen == InitMet /\ [][Next /\ DecidesPastSeen]_vars

\* Two devices whose clocks agree are always in turn.
AlwaysInTurn == [][InTurn]_vars

(***************************************************************************)
(* Fairness: the thread of a sync goes on as long as it can; a review ends *)
(* by an answer or by its time limit (service.rs: wait), which is a Fail.  *)
(* Nothing makes people write, start syncs or cancel them, and nothing     *)
(* breaks the connection.                                                  *)
(***************************************************************************)
GiveUp(d) == At(d, "review") /\ Fail(d)

FairSpec == Spec /\ \A d \in Devices : WF_vars(Step(d) \/ GiveUp(d))

-----------------------------------------------------------------------------
(***************************************************************************)
(* Safety.                                                                 *)
(***************************************************************************)
RunOK(r) ==
  /\ r.at \in DOMAIN WaitsFor \cup {"rest", "currency", "compare", "review", "apply", "touch"}
  /\ r.mode \in habit \cup {"both"}
  /\ DOMAIN r.list \subseteq Items
  /\ \A i \in DOMAIN r.list : r.list[i] \in [stamp : Stamp, deleted : BOOLEAN]
  /\ r.asked \in SUBSET Items
  /\ {r.shown, r.seen, r.out, r.got} \subseteq [Items -> Row]
  /\ {r.reviewed, r.differs} \subseteq BOOLEAN

TypeOK ==
  /\ now \in 0..MaxNow
  /\ clock \in [Devices -> Clock]
  /\ rows \in [Devices -> [Items -> Row]]
  /\ \A d \in Devices :
       /\ \A n \in DOMAIN changes[d] : changes[d][n] \in Stamp
       /\ Cardinality(last[d]) <= 1 /\ last[d] \subseteq Nat
       /\ RunOK(run[d])
       /\ wire[d] # <<>> => ~At(d, "rest")
  /\ against \in SUBSET (1..MaxVersion)

\* The two sides work out the same next step each on its own: no message finds
\* the other at a step it does not belong to, and they never both wait (no
\* Protocol error of flow.rs, and no sync that hangs until a time limit).
InStep ==
  /\ \A d \in Devices : Waiting(d) /\ wire[d] # <<>> => Arrived(d)
  /\ ~\A d \in Devices : Waiting(d) /\ wire[d] = <<>>

\* `changes_since` the last sync: the rows stamped here after it.
ChangesSince(d) ==
  {i \in Items : Holds(rows[d], i) /\ rows[d][i].stamp.device = d
                  /\ \A t \in last[d] : rows[d][i].stamp.ms > t}

\* Between syncs, what this device changed and the other has not got yet is among
\* the changes the app says the next sync has to send (peers.rs:60). After a sync
\* one way the count starts again, and what that sync left is not in it.
UnsentAreCounted ==
  Plain /\ Idle => \A d \in Devices :
    \A i \in ToSend(List(rows[d]), List(rows[Other(d)])) :
      rows[d][i].stamp.device = d => i \in ChangesSince(d)

\* A sync that got through on both sides and that nobody wrote into leaves the
\* two equal, in content and not only in the lists of stamps they compared, and
\* nobody is told that they differ (flow.rs:125); in one that goes one way, the
\* receiver is behind in nothing. What two devices do not agree on is counted.
EndsInAgreement ==
  /\ UnsentAreCounted
  /\ (\A d \in Devices : At(d, "touch")) =>
       /\ changes[Desktop] = changes[Phone]
       /\ \A d \in Devices : ~run[d].differs
       /\ \A d \in Devices : Receives(d, run[d].mode) =>
            \A i \in Items : Holds(rows[Other(d)], i) =>
              \/ rows[d][i] = rows[Other(d)][i]
              \/ Holds(rows[d], i) /\ Older(rows[Other(d)][i].stamp, rows[d][i].stamp)

\* A device that only sends gets through a sync as it was: no row of it takes
\* another content or another stamp unless somebody writes on it.
SenderStays(d) ==
  ~At(d, "rest") /\ ~Receives(d, run[d].mode) /\ nextVersion' = nextVersion =>
    \A i \in Items : rows'[d][i].stamp = rows[d][i].stamp /\ rows'[d][i].version = rows[d][i].version

\* Between devices that met before, a sync replaces a content only by one whose
\* writer had seen it, or after a person decided against it (or where both sides
\* deleted the row, or past the number of conflicts a person is asked about;
\* a sync one way replaces on purpose what the sender did not write, and leaves
\* the sender as it was): flow.rs:371-372, the reason the conflicts are asked at all.
NoSilentOverwrite ==
  [][\A d \in Devices :
       /\ SenderStays(d)
       /\ \A i \in Items :
            LET old == rows[d][i]
                new == rows'[d][i]
            IN
            /\ Plain /\ Holds(rows[d], i) /\ new.version # old.version
            /\ ~(old.deleted /\ new.deleted)
            /\ run[d].own.since \cup run[d].theirs.since # {}
            /\ Cardinality({j \in Items : j < i}) < MaxConflicts
            => old.version \in new.over \cup against]_vars

\* Every amount a device holds is in the currency it shows.
AmountsInCurrency ==
  \A d \in Devices, i \in Items : Live(rows[d], i) => rows[d][i].unit = Len(changes[d])

\* The version a person chose in a review is what both devices hold when the sync
\* that asked gets through (engine.rs:2389-2391): none holds a content that was
\* decided against. (In a sync one way the sender keeps its own, and an amount
\* converted afterwards is another content.)
ChosenVersionWins ==
  Plain /\ (\A d \in Devices : At(d, "touch") /\ run[d].reviewed) =>
    \A d \in Devices, i \in Items : rows[d][i].version \notin against

\* Two devices with right clocks are never too far apart (engine.rs:55).
RightClocksNeverRefused ==
  \A d \in Devices :
    At(d, "hello") /\ Arrived(d) /\ lead = [e \in Devices |-> 0] => ~ClockFarOff(d, Arriving(d))

(***************************************************************************)
(* Liveness.                                                               *)
(***************************************************************************)

\* Every sync ends on both sides, wherever it breaks: nobody waits for a device
\* that has gone, or for a message that will not be sent; and whatever is written
\* meanwhile, none ends because the two sides disagree on whose turn it is.
EverySyncEnds == []InStep /\ \A d \in Devices : ~At(d, "rest") ~> At(d, "rest")

-----------------------------------------------------------------------------
(***************************************************************************)
(* The conversation does with rows and clocks what SyncClock allows: each  *)
(* step is one of its steps or none. The rows on their way to a device are *)
(* those the other has taken out of its table for it, those on the wire,   *)
(* and those received and not yet applied.                                 *)
(***************************************************************************)
Bare(table) == [i \in Items |-> [stamp |-> table[i].stamp, version |-> table[i].version]]

OnTheWay(d) ==
  CASE At(d, "rest") -> NoRows
    [] run[d].got # NoRows -> run[d].got
    [] \E n \in DOMAIN wire[d] : wire[d][n].kind = "rows" ->
         wire[d][CHOOSE n \in DOMAIN wire[d] : wire[d][n].kind = "rows"].body
    [] OTHER -> run[Other(d)].out

SC == INSTANCE SyncClock WITH
  Devices <- Devices,
  MaxMs <- MaxNow + MaxVersion + Cardinality(Leads),
  FirstFree <- 3,
  device <- [d \in Devices |-> d],
  rows <- [d \in Devices |-> Bare(rows[d])],
  inbox <- [d \in Devices |-> Bare(OnTheWay(d))],
  backup <- Bare(NoRows),
  replaced <- {},
  nextDevice <- 3

ClockSpec == SC!Spec
=============================================================================
