----------------------------- MODULE SyncClock -----------------------------
(***************************************************************************)
(* The clock every shared row depends on: how a device stamps a change,    *)
(* takes over rows of another device, gives a row up in a conflict, is     *)
(* restored from a backup, is erased, and is started again.                *)
(*                                                                         *)
(* A row, a deletion marker and the shared part of the settings all obey   *)
(* one rule here, "the larger stamp wins the whole row", so each is a      *)
(* register: a stamp and the version of the content it stands for. What    *)
(* one row may do to another (merged categories, duplicates) is the        *)
(* subject of SyncMerge; how two devices talk is that of SyncFlow. Here    *)
(* any rows a device holds may travel to any other device, be lost on the  *)
(* way, or arrive after both devices changed, which covers every           *)
(* conversation the two can have.                                          *)
(*                                                                         *)
(* Every step is one database transaction of the code: the triggers of     *)
(* migrations/0008 run inside the change they stamp, and apply, decide and *)
(* replace_all each commit once. A restore is two (see ReplaceAll).        *)
(***************************************************************************)
EXTENDS Registers

CONSTANTS
  Devices,      \* the devices, 1 .. N
  MaxMs,        \* bound: no clock goes beyond this millisecond
  MaxVersion,   \* bound: how many contents are ever written
  FirstFree     \* the first device id that no device starts with

ASSUME MaxMsAssumption == MaxMs \in Nat
ASSUME MaxVersionAssumption == MaxVersion \in Nat
ASSUME DevicesAssumption ==
  FirstFree \in 1..LastDevice /\ Devices \subseteq 1..(FirstFree - 1)

VARIABLES
  clock,        \* clock[d]: sync_clock.last_ms and last_counter
  device,       \* device[d]: the part of sync_clock.device_id that stamps carry
  rows,         \* rows[d][i]: what d holds of row i
  inbox,        \* inbox[d][i]: the row messages on their way to d
  backup,       \* the backup file a restore reads, the rows of some device at some time
  replaced,     \* the devices between the two transactions of a restore
  nextDevice,   \* the next random device id
  nextVersion   \* the next content anyone writes

vars == <<clock, device, rows, inbox, backup, replaced, nextDevice, nextVersion>>

(***************************************************************************)
(* A row a device does not hold has version 0. Its stamp is never looked   *)
(* at. The stamp of a row that was given up is UNSET_STAMP as well, but    *)
(* that row has a version.                                                 *)
(***************************************************************************)
Row == [stamp : Stamp, version : 0..MaxVersion]
Absent == [stamp |-> UNSET_STAMP, version |-> 0]
NoRows == [i \in Items |-> Absent]

TypeOK ==
  /\ clock \in [Devices -> Clock]
  /\ device \in [Devices -> 1..(LastDevice - 1)]
  /\ rows \in [Devices -> [Items -> Row]]
  /\ inbox \in [Devices -> [Items -> Row]]
  /\ backup \in [Items -> Row]
  /\ replaced \in SUBSET Devices
  /\ nextDevice \in 1..LastDevice
  /\ nextVersion \in 1..(MaxVersion + 1)

\* A new database: an id of its own, and the wall clock as the first time.
Init ==
  /\ clock \in [Devices -> [ms : 0..MaxMs, counter : {0}]]
  /\ device = [d \in Devices |-> d]
  /\ rows = [d \in Devices |-> NoRows]
  /\ inbox = [d \in Devices |-> NoRows]
  /\ backup = NoRows
  /\ replaced = {}
  /\ nextDevice = FirstFree
  /\ nextVersion = 1

-----------------------------------------------------------------------------
(***************************************************************************)
(* A person, the API or a due recurring item writes row i: a new row, a    *)
(* new content or a deletion. The trigger ticks the clock and stamps the   *)
(* row, whatever the wall clock says at that moment.                       *)
(***************************************************************************)
Change(d, i) ==
  /\ d \notin replaced
  /\ nextVersion <= MaxVersion
  /\ \E now \in 0..MaxMs :
       LET ticked == Tick(clock[d], now) IN
       /\ ticked.ms <= MaxMs
       /\ clock' = [clock EXCEPT ![d] = ticked]
       /\ rows' = [rows EXCEPT ![d][i] =
            [stamp |-> StampAt(ticked, device[d]), version |-> nextVersion]]
  /\ nextVersion' = nextVersion + 1
  /\ UNCHANGED <<device, inbox, backup, replaced, nextDevice>>

\* Device `from` sends some of its rows to device `to`. What was on its way
\* before is gone: a device takes part in one conversation at a time.
Send(from, to) ==
  /\ from # to
  /\ {from, to} \cap replaced = {}
  /\ \E chosen \in SUBSET {i \in Items : Holds(rows[from], i)} :
       /\ chosen # {}
       /\ inbox' = [inbox EXCEPT ![to] =
            [i \in Items |-> IF i \in chosen THEN rows[from][i] ELSE Absent]]
  /\ UNCHANGED <<clock, device, rows, backup, replaced, nextDevice, nextVersion>>

\* The connection broke, the app was locked or closed: what was on its way is lost.
Lose(d) ==
  /\ inbox[d] # NoRows
  /\ inbox' = [inbox EXCEPT ![d] = NoRows]
  /\ UNCHANGED <<clock, device, rows, backup, replaced, nextDevice, nextVersion>>

\* `apply`: all of what arrived in one transaction, which ends with catch_up.
Apply(d) ==
  /\ d \notin replaced
  /\ inbox[d] # NoRows
  /\ LET merged == [i \in Items |-> Newer(inbox[d][i], rows[d][i])] IN
     /\ rows' = [rows EXCEPT ![d] = merged]
     /\ \E time \in CatchUp(clock[d], merged) : clock' = [clock EXCEPT ![d] = time]
  /\ inbox' = [inbox EXCEPT ![d] = NoRows]
  /\ UNCHANGED <<device, backup, replaced, nextDevice, nextVersion>>

(***************************************************************************)
(* `decide`, for one row of a conflict: the person keeps this device's     *)
(* version, which gets a fresh stamp, or the other's, and then this one    *)
(* gets the oldest stamp. Only stamps change.                              *)
(***************************************************************************)
Restamped(row, stamp) == [stamp |-> stamp, version |-> row.version]

KeepMine(d, i) ==
  /\ d \notin replaced
  /\ Holds(rows[d], i)
  /\ \E now \in 0..MaxMs :
       LET ticked == Tick(clock[d], now) IN
       /\ ticked.ms <= MaxMs
       /\ clock' = [clock EXCEPT ![d] = ticked]
       /\ rows' = [rows EXCEPT ![d][i] = Restamped(rows[d][i], StampAt(ticked, device[d]))]
  /\ UNCHANGED <<device, inbox, backup, replaced, nextDevice, nextVersion>>

TakeTheirs(d, i) ==
  /\ d \notin replaced
  /\ Holds(rows[d], i)
  /\ rows' = [rows EXCEPT ![d][i] = Restamped(rows[d][i], UNSET_STAMP)]
  /\ UNCHANGED <<clock, device, inbox, backup, replaced, nextDevice, nextVersion>>

\* The clock moves on without a row: a change of currency gets a stamp, or the
\* other device's is learnt; a choice finds that its row is gone by now.
MoveClock(d) ==
  /\ d \notin replaced
  /\ \E time \in [ms : 0..MaxMs, counter : 0..MaxCounter] :
       /\ AtMost(clock[d], time)
       /\ clock' = [clock EXCEPT ![d] = time]
  /\ UNCHANGED <<device, rows, inbox, backup, replaced, nextDevice, nextVersion>>

-----------------------------------------------------------------------------
\* A backup of device d is written to a file.
WriteBackup(d) ==
  /\ d \notin replaced
  /\ backup' = rows[d]
  /\ UNCHANGED <<clock, device, rows, inbox, replaced, nextDevice, nextVersion>>

(***************************************************************************)
(* A restore. `replace_all` swaps the rows in one transaction and leaves   *)
(* sync_clock alone; `after_restore` then gives the device a new id and    *)
(* lets the clock catch up. The state is held throughout, so nothing else  *)
(* of the app runs in between, but the app can end there: the next start   *)
(* catches up (Open) and keeps the old id.                                 *)
(***************************************************************************)
ReplaceAll(d) ==
  /\ d \notin replaced
  /\ rows' = [rows EXCEPT ![d] = backup]
  /\ replaced' = replaced \cup {d}
  /\ inbox' = [inbox EXCEPT ![d] = NoRows]
  /\ UNCHANGED <<clock, device, backup, nextDevice, nextVersion>>

AfterRestore(d) ==
  /\ d \in replaced
  /\ nextDevice < LastDevice
  /\ device' = [device EXCEPT ![d] = nextDevice]
  /\ nextDevice' = nextDevice + 1
  /\ \E time \in CatchUp(clock[d], rows[d]) : clock' = [clock EXCEPT ![d] = time]
  /\ replaced' = replaced \ {d}
  /\ UNCHANGED <<rows, inbox, backup, nextVersion>>

\* The app ends and starts again: what was on its way is lost, and the open
\* database lets the clock catch up.
Open(d) ==
  /\ inbox' = [inbox EXCEPT ![d] = NoRows]
  /\ \E time \in CatchUp(clock[d], rows[d]) : clock' = [clock EXCEPT ![d] = time]
  /\ replaced' = replaced \ {d}
  /\ UNCHANGED <<device, rows, backup, nextDevice, nextVersion>>

(***************************************************************************)
(* All data is erased (the person asked for it, or a phone saw too many    *)
(* wrong passphrases) and the app is set up again: a new database, with a  *)
(* new random id and the wall clock, which may be behind the old one.      *)
(***************************************************************************)
Erase(d) ==
  /\ d \notin replaced
  /\ nextDevice < LastDevice
  /\ device' = [device EXCEPT ![d] = nextDevice]
  /\ nextDevice' = nextDevice + 1
  /\ \E now \in 0..MaxMs : clock' = [clock EXCEPT ![d] = [ms |-> now, counter |-> 0]]
  /\ rows' = [rows EXCEPT ![d] = NoRows]
  /\ inbox' = [inbox EXCEPT ![d] = NoRows]
  /\ UNCHANGED <<backup, replaced, nextVersion>>

Next ==
  \E d \in Devices :
    \/ \E i \in Items : Change(d, i) \/ KeepMine(d, i) \/ TakeTheirs(d, i)
    \/ \E to \in Devices : Send(d, to)
    \/ Lose(d)
    \/ Apply(d)
    \/ MoveClock(d)
    \/ WriteBackup(d)
    \/ ReplaceAll(d)
    \/ AfterRestore(d)
    \/ Open(d)
    \/ Erase(d)

Spec == Init /\ [][Next]_vars

-----------------------------------------------------------------------------
(***************************************************************************)
(* Safety.                                                                 *)
(***************************************************************************)

\* The clock of a device is at or past every stamp it holds, so that its next
\* stamp is newer than all of them (migrations/0008_sync.sql:5-6, stamp.rs:124).
ClockCovers == \A d \in Devices \ replaced : Covers(clock[d], rows[d])

\* Every copy of row i: on a device, on the way to one, in the backup file.
Copies(i) == {rows[d][i] : d \in Devices} \cup {inbox[d][i] : d \in Devices} \cup {backup[i]}

\* A stamp names one content of a row, wherever copies of it went: over erased
\* devices, restores, lost messages and wall clocks that were set back. The
\* lists the devices compare hold stamps only, so two rows that differ under one
\* stamp would never be found. (A row given up in a conflict has no stamp of its
\* own until the other version arrives.)
StampNamesVersion ==
  \A i \in Items : \A a, b \in Copies(i) :
    a.version # 0 /\ b.version # 0 /\ a.stamp = b.stamp /\ a.stamp # UNSET_STAMP
      => a.version = b.version

(***************************************************************************)
(* Why a stamp names one content: no two devices have one id, no id of     *)
(* theirs will be given out again, and a device is past every stamp made   *)
(* under its id, wherever the copies are.                                  *)
(***************************************************************************)
DistinctIds ==
  /\ \A d \in Devices : device[d] < nextDevice
  /\ \A d, e \in Devices : device[d] = device[e] => d = e

Issued(c) ==
  c.version # 0 =>
    /\ c.version < nextVersion
    /\ c.stamp.device < nextDevice
    /\ \A d \in Devices : c.stamp.device = device[d] => AtMost(c.stamp, clock[d])

\* The inductive invariant: every copy is of a stamp that was given out, none
\* stands for two contents, and a device that is not in the middle of a restore
\* is past every stamp it holds, its own or not.
ClockInv ==
  /\ TypeOK
  /\ DistinctIds
  /\ \A i \in Items : \A c \in Copies(i) : Issued(c)
  /\ StampNamesVersion
  /\ ClockCovers

\* A content written now is newer than every row its writer holds, so the edit
\* of somebody who saw a version beats that version on every device, however
\* wrong the wall clocks are.
EditBeatsWhatWasSeen ==
  [][\A d \in Devices, i \in Items :
       rows'[d][i].version = nextVersion =>
         \A j \in Items : Holds(rows[d], j) => Older(rows[d][j].stamp, rows'[d][i].stamp)]_vars

\* Outside a restore and an erase, a device never drops a row for an older one
\* or for none: it keeps it, replaces it by a newer one, or gives up the stamp
\* (not the content) of a version the person decided against.
NothingGoesBack ==
  [][\A d \in Devices, i \in Items :
       Holds(rows[d], i) /\ d \notin replaced' /\ device'[d] = device[d] =>
         \/ rows'[d][i] = rows[d][i]
         \/ Older(rows[d][i].stamp, rows'[d][i].stamp)
         \/ rows'[d][i] = Restamped(rows[d][i], UNSET_STAMP)]_vars
=============================================================================
