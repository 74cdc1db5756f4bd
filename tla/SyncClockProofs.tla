-------------------------- MODULE SyncClockProofs --------------------------
(***************************************************************************)
(* Proofs about SyncClock, for any set of devices and rows, any counter    *)
(* width and any bounds.                                                   *)
(***************************************************************************)
EXTENDS SyncClock, TLAPS

USE MaxCounterAssumption, LastDeviceAssumption, MaxMsAssumption,
    MaxVersionAssumption, DevicesAssumption

-----------------------------------------------------------------------------
(***************************************************************************)
(* Lemmas about stamps.                                                    *)
(***************************************************************************)

\* A tick gives a time of the clock, strictly past the one it had.
LEMMA TickAdvances ==
  ASSUME NEW c \in Clock, NEW now \in Nat
  PROVE  Tick(c, now) \in Clock /\ Behind(c, Tick(c, now))
BY DEF Clock, Tick, StepOn, Behind

\* A stamp made at a time of the clock is a stamp.
LEMMA StampAtType ==
  ASSUME NEW c \in Clock, NEW d \in 0..LastDevice
  PROVE  /\ StampAt(c, d) \in Stamp
         /\ StampAt(c, d).ms = c.ms
         /\ StampAt(c, d).counter = c.counter
         /\ StampAt(c, d).device = d
BY DEF Clock, Stamp, StampAt

\* Observing never takes a clock back.
LEMMA ObserveAdvances ==
  ASSUME NEW c \in Clock, NEW s \in Stamp
  PROVE  Observe(c, s) \in Clock /\ AtMost(c, Observe(c, s))
BY DEF Clock, Stamp, Observe, AtMost, Behind

\* What was at or before a time is at or before every later time.
LEMMA AtMostTransitive ==
  ASSUME NEW s \in Stamp, NEW c \in Clock, NEW e \in Clock,
         AtMost(s, c), AtMost(c, e)
  PROVE  AtMost(s, e)
BY DEF Clock, Stamp, AtMost, Behind

\* A time past a clock that covers a stamp is strictly past the stamp.
LEMMA TickedIsNewer ==
  ASSUME NEW s \in Stamp, NEW c \in Clock, NEW e \in Clock,
         AtMost(s, c), Behind(c, e)
  PROVE  Behind(s, e)
BY DEF Clock, Stamp, AtMost, Behind

\* The oldest stamp is a stamp like any other.
LEMMA UnsetIsStamp == UNSET_STAMP \in Stamp
BY DEF Stamp, UNSET_STAMP, ZeroDevice

\* The clock after catch_up is a time, not before the old one, that covers the table.
LEMMA CatchUpCovers ==
  ASSUME NEW c \in Clock, NEW table \in [Items -> Row], NEW t \in CatchUp(c, table)
  PROVE  t \in Clock /\ AtMost(c, t) /\ Covers(t, table)
<1>1. Covers(t, table)
  BY DEF CatchUp
<1>2. CASE t = c
  BY <1>1, <1>2 DEF AtMost
<1>3. CASE \E i \in Items : t = Observe(c, table[i].stamp)
  <2>1. PICK i \in Items : t = Observe(c, table[i].stamp)
    BY <1>3
  <2>2. table[i].stamp \in Stamp
    BY DEF Row
  <2>. QED
    BY <1>1, <2>1, <2>2, ObserveAdvances
<1>. QED
  BY <1>2, <1>3 DEF CatchUp

-----------------------------------------------------------------------------
(***************************************************************************)
(* Type correctness.                                                       *)
(***************************************************************************)

\* Taking a row over or not gives a row.
LEMMA NewerType ==
  ASSUME NEW a \in Row, NEW b \in Row
  PROVE  Newer(a, b) \in {a, b}
BY DEF Newer

\* A row that is not held, and a table without rows.
LEMMA AbsentType == Absent \in Row /\ NoRows \in [Items -> Row]
BY UnsetIsStamp DEF Absent, Row, NoRows

\* The row a change writes.
LEMMA WrittenRow ==
  ASSUME TypeOK, NEW d \in Devices, NEW now \in Nat, NEW v \in 0..MaxVersion
  PROVE  [stamp |-> StampAt(Tick(clock[d], now), device[d]), version |-> v] \in Row
<1>1. Tick(clock[d], now) \in Clock /\ device[d] \in 0..LastDevice
  BY TickAdvances DEF TypeOK
<1>. QED
  BY <1>1, StampAtType DEF Row

\* Keeping one's own version in a conflict is writing that version again.
LEMMA KeepMineWrites ==
  ASSUME NEW d, NEW i, KeepMine(d, i)
  PROVE  \E now \in 0..MaxMs :
           /\ clock' = [clock EXCEPT ![d] = Tick(clock[d], now)]
           /\ rows' = [rows EXCEPT ![d][i] =
                [stamp |-> StampAt(Tick(clock[d], now), device[d]), version |-> rows[d][i].version]]
BY DEF KeepMine, Restamped

\* No step of any device takes a variable out of its range.
LEMMA TypeStep == TypeOK /\ [Next]_vars => TypeOK'
<1> SUFFICES ASSUME TypeOK, [Next]_vars PROVE TypeOK'
  OBVIOUS
<1>1. ASSUME NEW d \in Devices, NEW i \in Items, Change(d, i) PROVE TypeOK'
  <2>1. PICK now \in 0..MaxMs :
          /\ clock' = [clock EXCEPT ![d] = Tick(clock[d], now)]
          /\ rows' = [rows EXCEPT ![d][i] =
               [stamp |-> StampAt(Tick(clock[d], now), device[d]), version |-> nextVersion]]
    BY <1>1 DEF Change
  <2>2. Tick(clock[d], now) \in Clock
    BY TickAdvances DEF TypeOK
  <2>3. nextVersion \in 0..MaxVersion /\ nextVersion' \in 1..(MaxVersion + 1)
    BY <1>1 DEF Change, TypeOK
  <2>. QED
    BY <1>1, <2>1, <2>2, <2>3, WrittenRow DEF Change, TypeOK
<1>2. ASSUME NEW d \in Devices, NEW i \in Items, KeepMine(d, i) PROVE TypeOK'
  <2>1. PICK now \in 0..MaxMs :
          /\ clock' = [clock EXCEPT ![d] = Tick(clock[d], now)]
          /\ rows' = [rows EXCEPT ![d][i] =
               [stamp |-> StampAt(Tick(clock[d], now), device[d]), version |-> rows[d][i].version]]
    BY <1>2, KeepMineWrites
  <2>2. Tick(clock[d], now) \in Clock
    BY TickAdvances DEF TypeOK
  <2>3. rows[d][i].version \in 0..MaxVersion
    BY DEF TypeOK, Row
  <2>. QED
    BY <1>2, <2>1, <2>2, <2>3, WrittenRow DEF KeepMine, TypeOK
<1>3. ASSUME NEW d \in Devices, NEW i \in Items, TakeTheirs(d, i) PROVE TypeOK'
  <2>1. rows' = [rows EXCEPT ![d][i] = Restamped(rows[d][i], UNSET_STAMP)]
    BY <1>3 DEF TakeTheirs
  <2>2. Restamped(rows[d][i], UNSET_STAMP) \in Row
    BY UnsetIsStamp DEF TypeOK, Row, Restamped
  <2>. QED
    BY <1>3, <2>1, <2>2 DEF TakeTheirs, TypeOK
<1>4. ASSUME NEW d \in Devices, NEW to \in Devices, Send(d, to) PROVE TypeOK'
  BY <1>4, AbsentType DEF Send, TypeOK
<1>5. ASSUME NEW d \in Devices, Lose(d) PROVE TypeOK'
  BY <1>5, AbsentType DEF Lose, TypeOK
<1>6. ASSUME NEW d \in Devices, Apply(d) PROVE TypeOK'
  <2> DEFINE merged == [i \in Items |-> Newer(inbox[d][i], rows[d][i])]
  <2>1. merged \in [Items -> Row]
    BY NewerType DEF TypeOK
  <2>2. PICK t \in CatchUp(clock[d], merged) : clock' = [clock EXCEPT ![d] = t]
    BY <1>6 DEF Apply
  <2>3. t \in Clock
    BY <2>1, <2>2, CatchUpCovers DEF TypeOK
  <2>4. rows' = [rows EXCEPT ![d] = merged]
    BY <1>6 DEF Apply
  <2> HIDE DEF merged
  <2>. QED
    BY <1>6, <2>1, <2>2, <2>3, <2>4, AbsentType DEF Apply, TypeOK
<1>7. ASSUME NEW d \in Devices, WriteBackup(d) PROVE TypeOK'
  BY <1>7 DEF WriteBackup, TypeOK
<1>8. ASSUME NEW d \in Devices, ReplaceAll(d) PROVE TypeOK'
  BY <1>8, AbsentType DEF ReplaceAll, TypeOK
<1>9. ASSUME NEW d \in Devices, AfterRestore(d) PROVE TypeOK'
  <2>1. PICK t \in CatchUp(clock[d], rows[d]) : clock' = [clock EXCEPT ![d] = t]
    BY <1>9 DEF AfterRestore
  <2>2. t \in Clock
    BY <2>1, CatchUpCovers DEF TypeOK
  <2>. QED
    BY <1>9, <2>1, <2>2 DEF AfterRestore, TypeOK
<1>10. ASSUME NEW d \in Devices, Open(d) PROVE TypeOK'
  <2>1. PICK t \in CatchUp(clock[d], rows[d]) : clock' = [clock EXCEPT ![d] = t]
    BY <1>10 DEF Open
  <2>2. t \in Clock
    BY <2>1, CatchUpCovers DEF TypeOK
  <2>. QED
    BY <1>10, <2>1, <2>2, AbsentType DEF Open, TypeOK
<1>11. ASSUME NEW d \in Devices, Erase(d) PROVE TypeOK'
  BY <1>11, AbsentType DEF Erase, TypeOK, Clock
<1>12. ASSUME NEW d \in Devices, MoveClock(d) PROVE TypeOK'
  BY <1>12 DEF MoveClock, TypeOK, Clock
<1>13. CASE UNCHANGED vars
  BY <1>13 DEF vars, TypeOK
<1>. QED
  BY <1>1, <1>2, <1>3, <1>4, <1>5, <1>6, <1>7, <1>8, <1>9, <1>10, <1>11, <1>12, <1>13 DEF Next

\* Every reachable state has the types the model declares: no clock, stamp, id or
\* row leaves its range, whatever the width of the counter.
THEOREM TypeCorrect == Spec => []TypeOK
<1>1. Init => TypeOK
  BY AbsentType DEF Init, TypeOK, Clock
<1>. QED
  BY <1>1, TypeStep, PTL DEF Spec

-----------------------------------------------------------------------------
(***************************************************************************)
(* The inductive invariant. A step disturbs it in three ways only: clocks  *)
(* and ids move on (Advance), copies of rows are dropped, moved about or   *)
(* replaced by Absent, and at most one copy is new.                        *)
(***************************************************************************)

\* How a step may change what has been given out: a device keeps its id and its
\* clock does not go back, or it gets an id nobody had.
Advance ==
  /\ nextVersion <= nextVersion'
  /\ nextDevice <= nextDevice'
  /\ \A d \in Devices :
       \/ device'[d] = device[d] /\ AtMost(clock[d], clock'[d])
       \/ device'[d] = nextDevice /\ nextDevice < nextDevice'
  /\ \A d, e \in Devices : device'[d] = nextDevice /\ device'[e] = nextDevice => d = e

\* A row no other copy can be taken for.
Fresh(c) ==
  \/ c.version = 0
  \/ c.stamp = UNSET_STAMP
  \/ \A i \in Items : \A b \in Copies(i) : b.version # 0 => b.stamp # c.stamp

\* A copy of a row, wherever it is, is a row.
LEMMA CopiesAreRows ==
  ASSUME TypeOK, NEW i \in Items
  PROVE  Copies(i) \subseteq Row
BY DEF TypeOK, Copies

\* Ids stay apart when a device gets one that nobody had.
LEMMA IdsStayDistinct ==
  ASSUME ClockInv, TypeOK', Advance
  PROVE  DistinctIds'
BY DEF ClockInv, TypeOK, DistinctIds, Advance

\* What was given out stays given out.
LEMMA StillIssued ==
  ASSUME ClockInv, TypeOK', Advance, NEW c \in Row, Issued(c)
  PROVE  Issued(c)'
<1> SUFFICES ASSUME c.version # 0 PROVE Issued(c)'
  BY DEF Issued
<1>1. c.version < nextVersion' /\ c.stamp.device < nextDevice'
  BY DEF Issued, Advance, ClockInv, TypeOK, Row, Stamp
<1>2. ASSUME NEW d \in Devices, c.stamp.device = device'[d]
      PROVE  AtMost(c.stamp, clock'[d])
  <2>1. device'[d] = device[d] /\ AtMost(clock[d], clock'[d])
    BY <1>2 DEF Issued, Advance, ClockInv, TypeOK, Row, Stamp
  <2>2. AtMost(c.stamp, clock[d])
    BY <1>2, <2>1 DEF Issued
  <2>3. clock[d] \in Clock /\ clock'[d] \in Clock /\ c.stamp \in Stamp
    BY DEF ClockInv, TypeOK, Row
  <2>. QED
    BY <2>1, <2>2, <2>3, AtMostTransitive
<1>. QED
  BY <1>1, <1>2 DEF Issued

\* A step that makes one new copy, of a stamp of its own, keeps the invariant as
\* far as copies are concerned.
LEMMA OneNewCopy ==
  ASSUME ClockInv, TypeOK', Advance, ClockCovers',
         NEW new \in Row, Issued(new)', Fresh(new),
         \A i \in Items : Copies(i)' \subseteq Copies(i) \cup {Absent, new}
  PROVE  ClockInv'
<1>1. ASSUME NEW i \in Items, NEW c \in Copies(i)'
      PROVE  Issued(c)'
  <2>1. CASE c \in Copies(i)
    BY <2>1, CopiesAreRows, StillIssued DEF ClockInv
  <2>2. CASE c = Absent
    BY <2>2 DEF Absent, Issued
  <2>3. CASE c = new
    BY <2>3
  <2>. QED
    BY <1>1, <2>1, <2>2, <2>3
<1>2. ASSUME NEW i \in Items, NEW a \in Copies(i)', NEW b \in Copies(i)',
             a.version # 0, b.version # 0, a.stamp = b.stamp, a.stamp # UNSET_STAMP
      PROVE  a.version = b.version
  <2>1. a \in Copies(i) \cup {new} /\ b \in Copies(i) \cup {new}
    BY <1>2 DEF Absent
  <2>. QED
    BY <1>2, <2>1 DEF Fresh, ClockInv, StampNamesVersion
<1>3. StampNamesVersion'
  BY <1>2 DEF StampNamesVersion
<1>. QED
  BY <1>1, <1>3, IdsStayDistinct DEF ClockInv

\* The same for a step that only drops copies or moves them about.
LEMMA NoNewCopy ==
  ASSUME ClockInv, TypeOK', Advance, ClockCovers',
         \A i \in Items : Copies(i)' \subseteq Copies(i) \cup {Absent}
  PROVE  ClockInv'
<1>1. Absent \in Row /\ Issued(Absent)' /\ Fresh(Absent)
  BY AbsentType DEF Absent, Issued, Fresh
<1>. QED
  BY <1>1, OneNewCopy

-----------------------------------------------------------------------------
(***************************************************************************)
(* Every action preserves the invariant.                                   *)
(***************************************************************************)

\* A device's clock moves on and nothing else is given out but, perhaps, a version.
LEMMA ClockAdvances ==
  ASSUME ClockInv, TypeOK', NEW d \in Devices, NEW t \in Clock, AtMost(clock[d], t),
         clock' = [clock EXCEPT ![d] = t],
         device' = device, nextDevice' = nextDevice, nextVersion <= nextVersion'
  PROVE  Advance
<1>1. nextDevice \in Nat /\ nextDevice <= nextDevice'
  BY DEF ClockInv, TypeOK
<1>2. \A e \in Devices : device'[e] < nextDevice
  BY DEF ClockInv, DistinctIds
<1>3. \A e \in Devices : device[e] \in Nat
  BY DEF ClockInv, TypeOK
<1>4. ASSUME NEW e \in Devices PROVE AtMost(clock[e], clock'[e])
  BY DEF ClockInv, TypeOK, AtMost
<1>. QED
  BY <1>1, <1>2, <1>3, <1>4 DEF Advance

\* A step that gives nothing out.
LEMMA NothingAdvances ==
  ASSUME ClockInv, TypeOK', UNCHANGED <<clock, device, nextDevice, nextVersion>>
  PROVE  Advance
<1>1. nextDevice \in Nat /\ nextVersion \in Nat
  BY DEF ClockInv, TypeOK
<1>2. \A e \in Devices : device'[e] < nextDevice /\ device[e] \in Nat
  BY DEF ClockInv, DistinctIds, TypeOK
<1>3. ASSUME NEW e \in Devices PROVE AtMost(clock[e], clock'[e])
  BY DEF AtMost
<1>. QED
  BY <1>1, <1>2, <1>3 DEF Advance

\* A device gets the next id.
LEMMA DeviceAdvances ==
  ASSUME ClockInv, TypeOK', NEW d \in Devices,
         device' = [device EXCEPT ![d] = nextDevice], nextDevice' = nextDevice + 1,
         nextVersion' = nextVersion,
         \A e \in Devices \ {d} : clock'[e] = clock[e]
  PROVE  Advance
<1>1. nextDevice \in Nat /\ nextVersion \in Nat
  BY DEF ClockInv, TypeOK
<1>2. \A e \in Devices : device[e] < nextDevice /\ device[e] \in Nat
  BY DEF ClockInv, DistinctIds, TypeOK
<1>3. device'[d] = nextDevice /\ \A e \in Devices \ {d} : device'[e] = device[e]
  BY DEF ClockInv, TypeOK
<1>4. ASSUME NEW e \in Devices \ {d} PROVE AtMost(clock[e], clock'[e])
  BY DEF AtMost
<1>. QED
  BY <1>1, <1>2, <1>3, <1>4 DEF Advance

\* A row stamped at a tick of device d is new, given out, and covered.
LEMMA TickedRow ==
  ASSUME ClockInv, TypeOK', NEW d \in Devices \ replaced, NEW i \in Items, NEW now \in Nat,
         NEW v \in 1..MaxVersion, v < nextVersion',
         nextVersion <= nextVersion', device' = device, nextDevice' = nextDevice,
         replaced' = replaced, inbox' = inbox, backup' = backup,
         clock' = [clock EXCEPT ![d] = Tick(clock[d], now)],
         rows' = [rows EXCEPT ![d][i] =
           [stamp |-> StampAt(Tick(clock[d], now), device[d]), version |-> v]]
  PROVE  ClockInv'
<1> DEFINE ticked == Tick(clock[d], now)
<1>1. ticked \in Clock /\ Behind(clock[d], ticked) /\ AtMost(clock[d], ticked)
  BY TickAdvances DEF ClockInv, TypeOK, AtMost
<1>2. Advance
  BY <1>1, ClockAdvances
<1>3. PICK new \in Row :
        new = [stamp |-> StampAt(ticked, device[d]), version |-> v]
  <2>1. [stamp |-> StampAt(ticked, device[d]), version |-> v] \in Row
    BY WrittenRow DEF ClockInv
  <2>. QED
    BY <2>1
<1>4. /\ new.stamp \in Stamp /\ new.stamp.device = device[d]
      /\ new.stamp.ms = ticked.ms /\ new.stamp.counter = ticked.counter
  BY <1>1, <1>3, StampAtType DEF ClockInv, TypeOK
<1>5. Issued(new)'
  <2>1. ASSUME NEW e \in Devices, new.stamp.device = device'[e]
        PROVE  AtMost(new.stamp, clock'[e])
    BY <2>1, <1>4 DEF ClockInv, TypeOK, DistinctIds, AtMost
  <2>2. new.stamp.device < nextDevice'
    BY <1>4 DEF ClockInv, DistinctIds
  <2> HIDE DEF ticked
  <2>. QED
    BY <1>3, <2>1, <2>2 DEF Issued
<1>6. Fresh(new)
  <2>1. ASSUME NEW j \in Items, NEW c \in Copies(j), c.version # 0, c.stamp = new.stamp
        PROVE  FALSE
    <3>1. AtMost(new.stamp, clock[d])
      BY <2>1, <1>4 DEF ClockInv, Issued
    <3>2. clock[d] \in Clock
      BY DEF ClockInv, TypeOK
    <3>. QED
      BY <3>1, <3>2, <1>1, <1>4 DEF Clock, AtMost, Behind
  <2>. QED
    BY <2>1 DEF Fresh
<1>7. ClockCovers'
  <2> SUFFICES ASSUME NEW e \in Devices \ replaced, NEW j \in Items, Holds(rows'[e], j)
               PROVE  AtMost(rows'[e][j].stamp, clock'[e])
    BY DEF ClockCovers, Covers, Holds
  <2>1. CASE e # d
    BY <2>1 DEF ClockInv, TypeOK, ClockCovers, Covers, Holds
  <2>2. CASE e = d /\ j = i
    <3>1. rows'[e][j] = new /\ clock'[e] = ticked
      BY <1>3, <2>2 DEF ClockInv, TypeOK
    <3>. QED
      BY <3>1, <1>4 DEF AtMost
  <2>3. CASE e = d /\ j # i
    <3>1. rows'[e][j] = rows[d][j] /\ clock'[e] = ticked
      BY <2>3 DEF ClockInv, TypeOK
    <3>2. AtMost(rows[d][j].stamp, clock[d])
      BY <3>1 DEF ClockInv, ClockCovers, Covers, Holds
    <3>3. rows[d][j].stamp \in Stamp /\ clock[d] \in Clock
      BY DEF ClockInv, TypeOK, Row
    <3>. QED
      BY <3>1, <3>2, <3>3, <1>1, AtMostTransitive
  <2>. QED
    BY <2>1, <2>2, <2>3
<1>8. \A j \in Items : Copies(j)' \subseteq Copies(j) \cup {Absent, new}
  <2>1. rows' = [rows EXCEPT ![d][i] = new]
    BY <1>3
  <2>. QED
    BY <2>1 DEF Copies, ClockInv, TypeOK
<1>. QED
  BY <1>2, <1>3, <1>5, <1>6, <1>7, <1>8, OneNewCopy

\* A device whose clock caught up with its table, while the others kept theirs.
LEMMA CaughtUp ==
  ASSUME ClockInv, TypeOK', NEW d \in Devices, NEW table \in [Items -> Row],
         NEW t \in CatchUp(clock[d], table),
         rows' = [rows EXCEPT ![d] = table], clock' = [clock EXCEPT ![d] = t],
         replaced \subseteq replaced' \cup {d}
  PROVE  ClockCovers'
<1>1. Covers(t, table)
  BY CatchUpCovers DEF ClockInv, TypeOK
<1>2. ASSUME NEW e \in Devices \ replaced' PROVE Covers(clock'[e], rows'[e])
  <2>1. CASE e = d
    BY <1>1, <2>1 DEF ClockInv, TypeOK
  <2>2. CASE e # d
    <3>1. e \notin replaced /\ clock'[e] = clock[e] /\ rows'[e] = rows[e]
      BY <2>2 DEF ClockInv, TypeOK
    <3>. QED
      BY <3>1 DEF ClockInv, ClockCovers
  <2>. QED
    BY <2>1, <2>2
<1>. QED
  BY <1>2 DEF ClockCovers, Covers, Holds

\* Every step of every device preserves the invariant.
LEMMA ClockInvStep == ClockInv /\ [Next]_vars => ClockInv'
<1> SUFFICES ASSUME ClockInv, [Next]_vars PROVE ClockInv'
  OBVIOUS
<1>0. TypeOK /\ TypeOK'
  BY TypeStep DEF ClockInv
<1>1. ASSUME NEW d \in Devices, NEW i \in Items, Change(d, i) PROVE ClockInv'
  <2>1. PICK now \in 0..MaxMs :
          /\ clock' = [clock EXCEPT ![d] = Tick(clock[d], now)]
          /\ rows' = [rows EXCEPT ![d][i] =
               [stamp |-> StampAt(Tick(clock[d], now), device[d]), version |-> nextVersion]]
    BY <1>1 DEF Change
  <2>2. /\ nextVersion \in 1..MaxVersion /\ nextVersion' = nextVersion + 1 /\ d \notin replaced
        /\ UNCHANGED <<device, inbox, backup, replaced, nextDevice>>
    BY <1>0, <1>1 DEF Change, TypeOK
  <2>3. /\ now \in Nat /\ d \in Devices \ replaced
        /\ nextVersion < nextVersion' /\ nextVersion <= nextVersion'
    BY <2>2
  <2>. QED
    BY <1>0, <2>1, <2>2, <2>3, TickedRow
<1>2. ASSUME NEW d \in Devices, NEW i \in Items, KeepMine(d, i) PROVE ClockInv'
  <2>1. PICK now \in 0..MaxMs :
          /\ clock' = [clock EXCEPT ![d] = Tick(clock[d], now)]
          /\ rows' = [rows EXCEPT ![d][i] =
               [stamp |-> StampAt(Tick(clock[d], now), device[d]), version |-> rows[d][i].version]]
    BY <1>2, KeepMineWrites
  <2>4. rows[d][i] \in Copies(i) /\ rows[d][i].version # 0
    BY <1>2 DEF Copies, KeepMine, Holds
  <2>5. rows[d][i].version \in 1..MaxVersion /\ rows[d][i].version < nextVersion
    BY <1>0, <2>4 DEF ClockInv, Issued, TypeOK, Row
  <2>6. /\ nextVersion \in Nat /\ d \notin replaced
        /\ UNCHANGED <<device, inbox, backup, replaced, nextDevice, nextVersion>>
    BY <1>0, <1>2 DEF KeepMine, TypeOK
  <2>7. now \in Nat /\ nextVersion <= nextVersion' /\ d \in Devices \ replaced
    BY <2>6
  <2>8. rows[d][i].version < nextVersion'
    BY <2>5, <2>6
  <2>. QED
    BY <1>0, <2>1, <2>5, <2>6, <2>7, <2>8, TickedRow
<1>3. ASSUME NEW d \in Devices, NEW i \in Items, TakeTheirs(d, i) PROVE ClockInv'
  <2>1. PICK new \in Row : new = [stamp |-> UNSET_STAMP, version |-> rows[d][i].version]
    <3>1. [stamp |-> UNSET_STAMP, version |-> rows[d][i].version] \in Row
      BY <1>0, UnsetIsStamp DEF TypeOK, Row
    <3>. QED
      BY <3>1
  <2>2. rows' = [rows EXCEPT ![d][i] = new]
    BY <1>3, <2>1 DEF TakeTheirs, Restamped
  <2>3. UNCHANGED <<clock, device, inbox, backup, replaced, nextDevice, nextVersion>>
    BY <1>3 DEF TakeTheirs
  <2>4. Advance
    BY <1>0, <2>3, NothingAdvances
  <2>5. Issued(new)'
    <3>1. rows[d][i] \in Copies(i) /\ rows[d][i].version # 0
      BY <1>3 DEF Copies, TakeTheirs, Holds
    <3>2. new.version < nextVersion'
      BY <2>1, <2>3, <3>1 DEF ClockInv, Issued
    <3>3. new.stamp.device = 0
      BY <2>1 DEF UNSET_STAMP, ZeroDevice
    <3>4. nextDevice' > 0 /\ \A e \in Devices : device'[e] # 0
      BY <1>0, <2>3 DEF TypeOK
    <3>. QED
      BY <3>2, <3>3, <3>4 DEF Issued
  <2>6. ClockCovers'
    <3> SUFFICES ASSUME NEW e \in Devices \ replaced, NEW j \in Items, Holds(rows'[e], j)
                 PROVE  AtMost(rows'[e][j].stamp, clock'[e])
      BY <2>3 DEF ClockCovers, Covers, Holds
    <3>1. CASE e = d /\ j = i
      BY <1>0, <2>1, <2>2, <2>3, <3>1 DEF TypeOK, Clock, AtMost, Behind, UNSET_STAMP
    <3>2. CASE e # d \/ j # i
      BY <1>0, <2>2, <2>3, <3>2 DEF TypeOK, ClockInv, ClockCovers, Covers, Holds
    <3>. QED
      BY <3>1, <3>2
  <2>7. \A j \in Items : Copies(j)' \subseteq Copies(j) \cup {Absent, new}
    BY <1>0, <2>2, <2>3 DEF Copies, TypeOK
  <2>. QED
    BY <1>0, <2>1, <2>4, <2>5, <2>6, <2>7, OneNewCopy DEF Fresh
<1>4. ASSUME NEW d \in Devices, NEW to \in Devices, Send(d, to) PROVE ClockInv'
  <2>1. Advance
    BY <1>0, <1>4, NothingAdvances DEF Send
  <2>2. ClockCovers'
    BY <1>4 DEF Send, ClockInv, ClockCovers
  <2>3. PICK chosen \in SUBSET Items : inbox' = [inbox EXCEPT ![to] =
          [i \in Items |-> IF i \in chosen THEN rows[d][i] ELSE Absent]]
    BY <1>4 DEF Send
  <2>4. \A i \in Items : Copies(i)' \subseteq Copies(i) \cup {Absent}
    BY <1>0, <1>4, <2>3 DEF Send, Copies, TypeOK
  <2>. QED
    BY <1>0, <2>1, <2>2, <2>4, NoNewCopy
<1>5. ASSUME NEW d \in Devices, Lose(d) PROVE ClockInv'
  <2>1. Advance
    BY <1>0, <1>5, NothingAdvances DEF Lose
  <2>2. ClockCovers'
    BY <1>5 DEF Lose, ClockInv, ClockCovers
  <2>3. \A i \in Items : Copies(i)' \subseteq Copies(i) \cup {Absent}
    BY <1>0, <1>5 DEF Lose, Copies, TypeOK, NoRows
  <2>. QED
    BY <1>0, <2>1, <2>2, <2>3, NoNewCopy
<1>6. ASSUME NEW d \in Devices, Apply(d) PROVE ClockInv'
  <2>1. PICK merged \in [Items -> Row] :
          /\ merged = [i \in Items |-> Newer(inbox[d][i], rows[d][i])]
          /\ rows' = [rows EXCEPT ![d] = merged]
          /\ \E t \in CatchUp(clock[d], merged) : clock' = [clock EXCEPT ![d] = t]
    <3>1. [i \in Items |-> Newer(inbox[d][i], rows[d][i])] \in [Items -> Row]
      BY <1>0, NewerType DEF TypeOK
    <3>. QED
      BY <1>6, <3>1 DEF Apply
  <2>2. PICK t \in CatchUp(clock[d], merged) : clock' = [clock EXCEPT ![d] = t]
    BY <2>1
  <2>3. t \in Clock /\ AtMost(clock[d], t)
    BY <1>0, CatchUpCovers DEF TypeOK
  <2>4. nextVersion <= nextVersion'
    BY <1>0, <1>6 DEF TypeOK, Apply
  <2>5. Advance
    BY <1>0, <1>6, <2>2, <2>3, <2>4, ClockAdvances DEF Apply
  <2>6. ClockCovers'
    BY <1>0, <1>6, <2>1, <2>2, CaughtUp DEF Apply
  <2>7. \A i \in Items : merged[i] \in {inbox[d][i], rows[d][i]}
    BY <2>1 DEF Newer
  <2>8. inbox' = [inbox EXCEPT ![d] = NoRows] /\ backup' = backup
    BY <1>6 DEF Apply
  <2>9. \A i \in Items : Copies(i)' \subseteq Copies(i) \cup {Absent}
    BY <1>0, <2>1, <2>7, <2>8 DEF Copies, TypeOK, NoRows
  <2>. QED
    BY <1>0, <2>5, <2>6, <2>9, NoNewCopy
<1>7. ASSUME NEW d \in Devices, WriteBackup(d) PROVE ClockInv'
  <2>1. Advance
    BY <1>0, <1>7, NothingAdvances DEF WriteBackup
  <2>2. ClockCovers'
    BY <1>7 DEF WriteBackup, ClockInv, ClockCovers
  <2>3. \A i \in Items : Copies(i)' \subseteq Copies(i) \cup {Absent}
    BY <1>0, <1>7 DEF WriteBackup, Copies, TypeOK
  <2>. QED
    BY <1>0, <2>1, <2>2, <2>3, NoNewCopy
<1>8. ASSUME NEW d \in Devices, ReplaceAll(d) PROVE ClockInv'
  <2>1. Advance
    BY <1>0, <1>8, NothingAdvances DEF ReplaceAll
  <2>2. ClockCovers'
    BY <1>0, <1>8 DEF ReplaceAll, ClockInv, ClockCovers, TypeOK
  <2>3. \A i \in Items : Copies(i)' \subseteq Copies(i) \cup {Absent}
    BY <1>0, <1>8 DEF ReplaceAll, Copies, TypeOK, NoRows
  <2>. QED
    BY <1>0, <2>1, <2>2, <2>3, NoNewCopy
<1>9. ASSUME NEW d \in Devices, AfterRestore(d) PROVE ClockInv'
  <2>1. PICK t \in CatchUp(clock[d], rows[d]) : clock' = [clock EXCEPT ![d] = t]
    BY <1>9 DEF AfterRestore
  <2>2. /\ device' = [device EXCEPT ![d] = nextDevice] /\ nextDevice' = nextDevice + 1
        /\ replaced' = replaced \ {d} /\ UNCHANGED <<rows, inbox, backup, nextVersion>>
    BY <1>9 DEF AfterRestore
  <2>3. Advance
    BY <1>0, <2>1, <2>2, DeviceAdvances DEF TypeOK
  <2>4. rows[d] \in [Items -> Row] /\ rows' = [rows EXCEPT ![d] = rows[d]]
    BY <1>0, <2>2 DEF TypeOK
  <2>5. ClockCovers'
    BY <1>0, <2>1, <2>2, <2>4, CaughtUp
  <2>6. \A i \in Items : Copies(i)' \subseteq Copies(i) \cup {Absent}
    BY <2>2 DEF Copies
  <2>. QED
    BY <1>0, <2>3, <2>5, <2>6, NoNewCopy
<1>10. ASSUME NEW d \in Devices, Open(d) PROVE ClockInv'
  <2>1. PICK t \in CatchUp(clock[d], rows[d]) : clock' = [clock EXCEPT ![d] = t]
    BY <1>10 DEF Open
  <2>2. /\ inbox' = [inbox EXCEPT ![d] = NoRows] /\ replaced' = replaced \ {d}
        /\ UNCHANGED <<device, rows, backup, nextDevice, nextVersion>>
    BY <1>10 DEF Open
  <2>3. /\ rows[d] \in [Items -> Row] /\ rows' = [rows EXCEPT ![d] = rows[d]]
        /\ nextVersion <= nextVersion'
    BY <1>0, <2>2 DEF TypeOK
  <2>4. t \in Clock /\ AtMost(clock[d], t)
    BY <1>0, <2>1, <2>3, CatchUpCovers DEF TypeOK
  <2>5. Advance
    BY <1>0, <2>1, <2>2, <2>3, <2>4, ClockAdvances
  <2>6. ClockCovers'
    BY <1>0, <2>1, <2>2, <2>3, CaughtUp
  <2>7. \A i \in Items : Copies(i)' \subseteq Copies(i) \cup {Absent}
    BY <1>0, <2>2 DEF Copies, TypeOK, NoRows
  <2>. QED
    BY <1>0, <2>5, <2>6, <2>7, NoNewCopy
<1>11. ASSUME NEW d \in Devices, Erase(d) PROVE ClockInv'
  <2>1. PICK now \in 0..MaxMs : clock' = [clock EXCEPT ![d] = [ms |-> now, counter |-> 0]]
    BY <1>11 DEF Erase
  <2>2. /\ device' = [device EXCEPT ![d] = nextDevice] /\ nextDevice' = nextDevice + 1
        /\ rows' = [rows EXCEPT ![d] = NoRows] /\ inbox' = [inbox EXCEPT ![d] = NoRows]
        /\ UNCHANGED <<backup, replaced, nextVersion>>
    BY <1>11 DEF Erase
  <2>3. Advance
    BY <1>0, <2>1, <2>2, DeviceAdvances DEF TypeOK
  <2>4. ClockCovers'
    BY <1>0, <2>1, <2>2 DEF ClockInv, ClockCovers, Covers, Holds, NoRows, Absent, TypeOK
  <2>5. \A i \in Items : Copies(i)' \subseteq Copies(i) \cup {Absent}
    BY <1>0, <2>2 DEF Copies, TypeOK, NoRows
  <2>. QED
    BY <1>0, <2>3, <2>4, <2>5, NoNewCopy
<1>12. ASSUME NEW d \in Devices, MoveClock(d) PROVE ClockInv'
  <2>1. PICK t \in Clock : AtMost(clock[d], t) /\ clock' = [clock EXCEPT ![d] = t]
    <3>1. [ms : 0..MaxMs, counter : 0..MaxCounter] \subseteq Clock
      BY DEF Clock
    <3>2. PICK t \in [ms : 0..MaxMs, counter : 0..MaxCounter] :
            AtMost(clock[d], t) /\ clock' = [clock EXCEPT ![d] = t]
      BY <1>12 DEF MoveClock
    <3> QED
      BY <3>1, <3>2
  <2>2. UNCHANGED <<device, rows, inbox, backup, replaced, nextDevice, nextVersion>>
    BY <1>12 DEF MoveClock
  <2>3. nextVersion <= nextVersion'
    BY <1>0, <2>2 DEF TypeOK
  <2>4. Advance
    BY <1>0, <2>1, <2>2, <2>3, ClockAdvances
  <2>5. ClockCovers'
    <3> SUFFICES ASSUME NEW e \in Devices \ replaced, NEW j \in Items, Holds(rows[e], j)
                 PROVE  AtMost(rows[e][j].stamp, clock'[e])
      BY <2>2 DEF ClockCovers, Covers, Holds
    <3>1. AtMost(rows[e][j].stamp, clock[e]) /\ rows[e][j].stamp \in Stamp /\ clock[e] \in Clock
      BY DEF ClockInv, TypeOK, Row, ClockCovers, Covers
    <3>2. AtMost(clock[e], clock'[e]) /\ clock'[e] \in Clock
      BY <1>0, <2>1 DEF TypeOK, AtMost
    <3>. QED
      BY <3>1, <3>2, AtMostTransitive
  <2>6. \A i \in Items : Copies(i)' \subseteq Copies(i) \cup {Absent}
    BY <2>2 DEF Copies
  <2>. QED
    BY <1>0, <2>4, <2>5, <2>6, NoNewCopy
<1>13. CASE UNCHANGED vars
  BY <1>13 DEF vars, ClockInv, TypeOK, DistinctIds, Issued, Copies, StampNamesVersion, ClockCovers
<1>. QED
  BY <1>1, <1>2, <1>3, <1>4, <1>5, <1>6, <1>7, <1>8, <1>9, <1>10, <1>11, <1>12, <1>13 DEF Next

-----------------------------------------------------------------------------
(***************************************************************************)
(* What follows from it.                                                   *)
(***************************************************************************)

\* New databases satisfy the invariant: they hold no copy of anything.
LEMMA ClockInvInit == Init => ClockInv
<1> SUFFICES ASSUME Init PROVE ClockInv
  OBVIOUS
<1>1. TypeOK
  BY AbsentType DEF Init, TypeOK, Clock
<1>2. DistinctIds
  BY DEF Init, DistinctIds
<1>3. \A i \in Items : \A c \in Copies(i) : c.version = 0
  BY DEF Init, Copies, NoRows, Absent
<1>4. ClockCovers
  BY DEF Init, ClockCovers, Covers, Holds, NoRows, Absent
<1>. QED
  BY <1>1, <1>2, <1>3, <1>4 DEF ClockInv, Issued, StampNamesVersion

\* The inductive invariant holds in every reachable state: ids are never shared,
\* every stamp was given out by a clock that is past it, and names one content.
THEOREM ClockInvariant == Spec => []ClockInv
BY ClockInvInit, ClockInvStep, PTL DEF Spec

\* The clock of a device that is not in the middle of a restore is at or past
\* every stamp it holds: what the triggers' tick and every catch_up are for.
THEOREM ClockCoversTheorem == Spec => []ClockCovers
<1>1. ClockInv => ClockCovers
  BY DEF ClockInv
<1>. QED
  BY <1>1, ClockInvariant, PTL

\* Two rows under one stamp are the same row, however copies of them travelled:
\* what comparing lists of stamps instead of rows rests on.
THEOREM StampNamesVersionTheorem == Spec => []StampNamesVersion
<1>1. ClockInv => StampNamesVersion
  BY DEF ClockInv
<1>. QED
  BY <1>1, ClockInvariant, PTL

\* Contents there are now were written before: none is the next one.
LEMMA OldVersions ==
  ASSUME ClockInv, NEW i \in Items, NEW c \in Copies(i) \cup {Absent}
  PROVE  c.version # nextVersion
<1>1. CASE c \in Copies(i)
  BY <1>1, CopiesAreRows DEF ClockInv, Issued, TypeOK, Row
<1>2. CASE c = Absent
  BY <1>2 DEF ClockInv, TypeOK, Absent
<1>. QED
  BY <1>1, <1>2

\* Only writing a change makes a new content.
LEMMA OnlyChangeWrites ==
  ASSUME ClockInv, [Next]_vars, NEW d \in Devices, NEW i \in Items,
         rows'[d][i].version = nextVersion
  PROVE  Change(d, i)
<1>0. TypeOK /\ TypeOK'
  BY TypeStep DEF ClockInv
<1>1. ASSUME rows'[d][i].version \in {c.version : c \in Copies(i) \cup {Absent}}
      PROVE  FALSE
  BY <1>1, OldVersions
<1>2. \A e \in Devices : rows[e][i] \in Copies(i) /\ inbox[e][i] \in Copies(i)
  BY DEF Copies
<1>3. ASSUME NEW e \in Devices, NEW j \in Items, Change(e, j) PROVE Change(d, i)
  <2>1. CASE e = d /\ j = i
    BY <1>3, <2>1
  <2>2. CASE e # d \/ j # i
    <3>1. rows'[d][i] = rows[d][i]
      BY <1>0, <1>3, <2>2 DEF Change, TypeOK
    <3>. QED
      BY <1>1, <1>2, <3>1
  <2>. QED
    BY <2>1, <2>2
<1>4. ASSUME NEW e \in Devices, NEW j \in Items, NEW s,
             rows' = [rows EXCEPT ![e][j] = Restamped(rows[e][j], s)]
      PROVE  FALSE
  <2>1. rows'[d][i].version = rows[d][i].version
    BY <1>0, <1>4 DEF TypeOK, Restamped
  <2>. QED
    BY <1>1, <1>2, <2>1
<1>5. ASSUME NEW e \in Devices, NEW j \in Items, KeepMine(e, j) PROVE FALSE
  BY <1>4, <1>5 DEF KeepMine
<1>6. ASSUME NEW e \in Devices, NEW j \in Items, TakeTheirs(e, j) PROVE FALSE
  BY <1>4, <1>6 DEF TakeTheirs
<1>7. ASSUME rows' = rows PROVE FALSE
  BY <1>1, <1>2, <1>7
<1>8. ASSUME NEW e \in Devices, Apply(e) PROVE FALSE
  <2>1. rows' = [rows EXCEPT ![e] = [j \in Items |-> Newer(inbox[e][j], rows[e][j])]]
    BY <1>8 DEF Apply
  <2>2. rows'[d][i] \in {rows[d][i], inbox[d][i]}
    BY <1>0, <2>1 DEF TypeOK, Newer
  <2>. QED
    BY <1>1, <1>2, <2>2
<1>9. ASSUME NEW e \in Devices, ReplaceAll(e) PROVE FALSE
  <2>1. rows'[d][i] \in {rows[d][i], backup[i]}
    BY <1>0, <1>9 DEF ReplaceAll, TypeOK
  <2>2. backup[i] \in Copies(i)
    BY DEF Copies
  <2>. QED
    BY <1>1, <1>2, <2>1, <2>2
<1>10. ASSUME NEW e \in Devices, Erase(e) PROVE FALSE
  <2>1. rows'[d][i] \in {rows[d][i], Absent}
    BY <1>0, <1>10 DEF Erase, TypeOK, NoRows
  <2>. QED
    BY <1>1, <1>2, <2>1
<1>11. CASE UNCHANGED vars
  BY <1>7, <1>11 DEF vars
<1>. QED
  BY <1>3, <1>5, <1>6, <1>7, <1>8, <1>9, <1>10, <1>11
     DEF Next, Send, Lose, MoveClock, WriteBackup, AfterRestore, Open

\* An edit is newer than every row its writer holds, whatever the wall clocks say.
THEOREM EditBeatsWhatWasSeenTheorem == Spec => EditBeatsWhatWasSeen
<1>1. ClockInv /\ [Next]_vars =>
        [\A d \in Devices, i \in Items :
           rows'[d][i].version = nextVersion =>
             \A j \in Items : Holds(rows[d], j) => Older(rows[d][j].stamp, rows'[d][i].stamp)]_vars
  <2> SUFFICES ASSUME ClockInv, [Next]_vars, NEW d \in Devices, NEW i \in Items,
                      rows'[d][i].version = nextVersion,
                      NEW j \in Items, Holds(rows[d], j)
               PROVE  Older(rows[d][j].stamp, rows'[d][i].stamp)
    OBVIOUS
  <2>1. Change(d, i)
    BY OnlyChangeWrites
  <2>2. PICK now \in 0..MaxMs :
          rows' = [rows EXCEPT ![d][i] =
            [stamp |-> StampAt(Tick(clock[d], now), device[d]), version |-> nextVersion]]
    BY <2>1 DEF Change
  <2>3. clock[d] \in Clock /\ rows[d][j].stamp \in Stamp /\ device[d] \in 0..LastDevice
    BY DEF ClockInv, TypeOK, Row
  <2>4. AtMost(rows[d][j].stamp, clock[d])
    BY <2>1 DEF Change, ClockInv, ClockCovers, Covers
  <2>5. Tick(clock[d], now) \in Clock /\ Behind(clock[d], Tick(clock[d], now))
    BY <2>3, TickAdvances
  <2>6. Behind(rows[d][j].stamp, Tick(clock[d], now))
    BY <2>3, <2>4, <2>5, TickedIsNewer
  <2>7. rows'[d][i].stamp = StampAt(Tick(clock[d], now), device[d])
    BY <2>2 DEF ClockInv, TypeOK
  <2>. QED
    BY <2>3, <2>5, <2>6, <2>7, StampAtType DEF Behind, Older
<1>. QED
  BY <1>1, ClockInvariant, PTL DEF Spec, EditBeatsWhatWasSeen

\* What may become of a row a device holds, outside a restore and an erase.
KeptOrReplaced(old, new) ==
  \/ new = old
  \/ Older(old.stamp, new.stamp)
  \/ new = Restamped(old, UNSET_STAMP)

\* What a step that is neither a restore nor an erase may do to a row.
LEMMA RowsNeverGoBack ==
  ASSUME ClockInv, [Next]_vars, NEW d \in Devices, NEW i \in Items,
         Holds(rows[d], i), d \notin replaced', device'[d] = device[d]
  PROVE  KeptOrReplaced(rows[d][i], rows'[d][i])
<1>0. TypeOK /\ TypeOK'
  BY TypeStep DEF ClockInv
<1>1. ASSUME rows'[d][i] = rows[d][i] PROVE KeptOrReplaced(rows[d][i], rows'[d][i])
  BY <1>1 DEF KeptOrReplaced
<1>2. ASSUME NEW e \in Devices, NEW j \in Items, NEW now \in Nat, NEW v \in Nat, e \notin replaced,
             rows' = [rows EXCEPT ![e][j] =
               [stamp |-> StampAt(Tick(clock[e], now), device[e]), version |-> v]]
      PROVE  KeptOrReplaced(rows[d][i], rows'[d][i])
  <2>1. CASE e = d /\ j = i
    <3>1. clock[d] \in Clock /\ rows[d][i].stamp \in Stamp /\ device[d] \in 0..LastDevice
      BY <1>0 DEF TypeOK, Row
    <3>2. AtMost(rows[d][i].stamp, clock[d])
      BY <1>2, <2>1 DEF ClockInv, ClockCovers, Covers
    <3>3. Tick(clock[d], now) \in Clock /\ Behind(clock[d], Tick(clock[d], now))
      BY <3>1, TickAdvances
    <3>4. Behind(rows[d][i].stamp, Tick(clock[d], now))
      BY <3>1, <3>2, <3>3, TickedIsNewer
    <3>5. rows'[d][i].stamp = StampAt(Tick(clock[d], now), device[d])
      BY <1>0, <1>2, <2>1 DEF TypeOK
    <3>6. Older(rows[d][i].stamp, rows'[d][i].stamp)
      BY <3>1, <3>3, <3>4, <3>5, StampAtType DEF Behind, Older
    <3>. QED
      BY <3>6 DEF KeptOrReplaced
  <2>2. CASE e # d \/ j # i
    <3>1. rows'[d][i] = rows[d][i]
      BY <1>0, <1>2, <2>2 DEF TypeOK
    <3>. QED
      BY <1>1, <3>1
  <2>. QED
    BY <2>1, <2>2
<1>3. ASSUME NEW e \in Devices, NEW j \in Items, Change(e, j)
      PROVE  KeptOrReplaced(rows[d][i], rows'[d][i])
  <2>1. PICK now \in 0..MaxMs : rows' = [rows EXCEPT ![e][j] =
          [stamp |-> StampAt(Tick(clock[e], now), device[e]), version |-> nextVersion]]
    BY <1>3 DEF Change
  <2>2. now \in Nat /\ nextVersion \in Nat /\ e \notin replaced
    BY <1>0, <1>3 DEF Change, TypeOK
  <2>. QED
    BY <1>2, <2>1, <2>2
<1>4. ASSUME NEW e \in Devices, NEW j \in Items, KeepMine(e, j)
      PROVE  KeptOrReplaced(rows[d][i], rows'[d][i])
  <2>1. PICK now \in 0..MaxMs : rows' = [rows EXCEPT ![e][j] =
          [stamp |-> StampAt(Tick(clock[e], now), device[e]), version |-> rows[e][j].version]]
    BY <1>4, KeepMineWrites
  <2>2. now \in Nat /\ rows[e][j].version \in Nat /\ e \notin replaced
    BY <1>0, <1>4 DEF KeepMine, TypeOK, Row
  <2>. QED
    BY <1>2, <2>1, <2>2
<1>5. ASSUME NEW e \in Devices, NEW j \in Items, TakeTheirs(e, j)
      PROVE  KeptOrReplaced(rows[d][i], rows'[d][i])
  BY <1>0, <1>5 DEF TakeTheirs, TypeOK, KeptOrReplaced
<1>6. ASSUME NEW e \in Devices, Apply(e) PROVE KeptOrReplaced(rows[d][i], rows'[d][i])
  <2>1. rows' = [rows EXCEPT ![e] = [j \in Items |-> Newer(inbox[e][j], rows[e][j])]]
    BY <1>6 DEF Apply
  <2>2. rows'[d][i] = rows[d][i] \/ rows'[d][i] = Newer(inbox[d][i], rows[d][i])
    BY <1>0, <2>1 DEF TypeOK
  <2>. QED
    BY <2>2 DEF KeptOrReplaced, Newer, Holds
<1>7. ASSUME NEW e \in Devices, ReplaceAll(e) PROVE KeptOrReplaced(rows[d][i], rows'[d][i])
  <2>1. e # d /\ rows'[d][i] = rows[d][i]
    BY <1>0, <1>7 DEF ReplaceAll, TypeOK
  <2>. QED
    BY <1>1, <2>1
<1>8. ASSUME NEW e \in Devices, Erase(e) PROVE KeptOrReplaced(rows[d][i], rows'[d][i])
  <2>1. device' = [device EXCEPT ![e] = nextDevice] /\ rows' = [rows EXCEPT ![e] = NoRows]
    BY <1>8 DEF Erase
  <2>2. device[d] # nextDevice
    BY <1>0 DEF ClockInv, DistinctIds, TypeOK
  <2>3. e # d
    BY <1>0, <2>1, <2>2 DEF TypeOK
  <2>. QED
    BY <1>0, <1>1, <2>1, <2>3 DEF TypeOK
<1>9. ASSUME rows' = rows PROVE KeptOrReplaced(rows[d][i], rows'[d][i])
  BY <1>1, <1>9
<1>10. CASE UNCHANGED vars
  BY <1>9, <1>10 DEF vars
<1>. QED
  BY <1>3, <1>4, <1>5, <1>6, <1>7, <1>8, <1>9, <1>10
     DEF Next, Send, Lose, MoveClock, WriteBackup, AfterRestore, Open

\* A device never replaces a row by an older one.
THEOREM NothingGoesBackTheorem == Spec => NothingGoesBack
<1>1. ClockInv /\ [Next]_vars =>
        [\A d \in Devices, i \in Items :
           Holds(rows[d], i) /\ d \notin replaced' /\ device'[d] = device[d] =>
             \/ rows'[d][i] = rows[d][i]
             \/ Older(rows[d][i].stamp, rows'[d][i].stamp)
             \/ rows'[d][i] = Restamped(rows[d][i], UNSET_STAMP)]_vars
  BY RowsNeverGoBack DEF KeptOrReplaced
<1>. QED
  BY <1>1, ClockInvariant, PTL DEF Spec, NothingGoesBack
=============================================================================
