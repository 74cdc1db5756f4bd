------------------------------ MODULE Backups ------------------------------
(***************************************************************************)
(* Backups of a vault, made by the person or on a schedule, and restoring  *)
(* one: backup.rs, schedule.rs and the two entrances of vault.rs           *)
(* (restore_backup, create_from_backup), beside the documents they copy.   *)
(*                                                                         *)
(* A backup is one stream: the rows, a record for each file, and the end.  *)
(* Reading one goes wrong at the start (a wrong passphrase, a file damaged *)
(* there), or at a record that is damaged or cut; a chunk that opens is    *)
(* what was written (module Sealing).                                      *)
(***************************************************************************)
EXTENDS Library

CONSTANTS
  Keep,      \* KEEP: scheduled backups kept in the folder
  Every,     \* every_days, in the units of this clock; a failed run is tried again after 1
  MaxNow,    \* bound: the clock of the machine
  MaxMade    \* bound: how many backups the person makes

ASSUME KeepAssumption == Keep \in Nat \ {0}
ASSUME EveryAssumption == Every \in Nat \ {0}
ASSUME MaxNowAssumption == MaxNow \in Nat

VARIABLES
  isSetUp,   \* there is a database
  folder,    \* folder[n]: the backup under the name n
  job,       \* job[w]: the backup that is being written by w
  schedule,  \* the row of backup_schedule
  now,
  made

vars == <<documentVars, isSetUp, folder, job, schedule, now, made>>
backupVars == <<isSetUp, folder, job, schedule, now, made>>

\* The person has a backup made, or sets a schedule up, and a timer looks whether one is due.
Writers == {"person", "timer"}

\* A name is the time in it; the person's own file has a name that is no time.
ByHand == MaxNow + 1
Names == 0..ByHand

NoJob == [at |-> "rest"]
NoSchedule == [there |-> FALSE, last |-> 0, ok |-> FALSE, documents |-> FALSE]

\* Where reading this file goes wrong: nowhere, at its start, or at the record of a document (0: at the end).
Fine == LastDoc + 1
AtStart == LastDoc + 2
Spots == 0..AtStart

\* A file of another device's: what was in it when it got there.
Foreign ==
  {[rows |-> << >>, files |-> {}, steady |-> {}, bad |-> Fine],
   [rows |-> [d \in {1} |-> {}], files |-> {1}, steady |-> {1}, bad |-> Fine],
   [rows |-> [d \in {1} |-> {}], files |-> {}, steady |-> {}, bad |-> Fine]}

Init ==
  /\ InitLibrary
  /\ isSetUp \in IF "restore" \in scope THEN BOOLEAN ELSE {TRUE}
  /\ isSetUp = unlocked
  /\ folder = << >>
  /\ job = [w \in Writers |-> NoJob]
  /\ schedule = NoSchedule
  /\ now = 0 /\ made = 0

-----------------------------------------------------------------------------
(***************************************************************************)
(* Writing. The rows are read in one transaction, each file under a hold   *)
(* of its own, into a temporary file.                                      *)
(***************************************************************************)
WholeDocs == {d \in DOMAIN rows : files[d] = Whole}

\* `dump`.
\* Two that are written in the same second would share the temporary file; here none are.
Starts(w, why, name, documents) ==
  /\ job[w] = NoJob /\ CanHold
  /\ \A v \in Writers : job[v] # NoJob => job[v].name # name
  /\ job' = [job EXCEPT ![w] =
       [at |-> "files", why |-> why, name |-> name, rows |-> rows, documents |-> documents,
        left |-> IF documents THEN DOMAIN rows ELSE {}, files |-> {},
        steady |-> IF documents THEN WholeDocs ELSE {}, began |-> now]]

\* Documents that stop being whole while a backup is written are not held against it.
Steady(r, f) ==
  [w \in Writers |-> IF job[w] = NoJob THEN NoJob
    ELSE [job[w] EXCEPT !.steady = {d \in @ : d \notin job[w].left \/ (d \in DOMAIN r /\ f[d] = Whole)}]]

CreateBackup(documents) ==
  /\ "backup" \in scope /\ made < MaxMade /\ made' = made + 1
  /\ Starts("person", "hand", ByHand, documents)
  /\ UNCHANGED <<documentVars, isSetUp, folder, schedule, now>>

\* `start` makes the first backup before anything is saved.
StartSchedule(documents) ==
  /\ "schedule" \in scope /\ made < MaxMade /\ made' = made + 1
  /\ Starts("person", "start", now, documents)
  /\ UNCHANGED <<documentVars, isSetUp, folder, schedule, now>>

StopSchedule ==
  /\ schedule.there /\ CanHold
  /\ schedule' = NoSchedule
  /\ UNCHANGED <<documentVars, isSetUp, folder, job, now, made>>

Due == schedule.there /\ now >= schedule.last + (IF schedule.ok THEN Every ELSE 1)

RunIfDue ==
  /\ Due
  /\ Starts("timer", "due", now, schedule.documents)
  /\ UNCHANGED <<documentVars, isSetUp, folder, schedule, now, made>>

\* VaultFiles: a file that is not there, or not what its row says, is left out.
WriteFile(w) ==
  /\ job[w].at = "files" /\ job[w].left # {} /\ CanHold
  /\ LET d == Min(job[w].left) IN
     job' = [job EXCEPT ![w].left = @ \ {d}, ![w].files = IF files[d] = Whole THEN @ \cup {d} ELSE @]
  /\ UNCHANGED <<documentVars, isSetUp, folder, schedule, now, made>>

Gone(w) == job' = [job EXCEPT ![w] = NoJob]

\* Mutant of StoppedByLock: files of a locked vault count as missing.
MissingWhenLocked(w) ==
  /\ job[w].at = "files" /\ job[w].left # {} /\ ~unlocked
  /\ job' = [job EXCEPT ![w].left = {}]
  /\ UNCHANGED <<documentVars, isSetUp, folder, schedule, now, made>>

\* A vault that has locked stops the backup, and the disk may: the temporary file goes.
\* A run of the schedule that failed is noted, but not one that only met a lock.
StoppedByLock(w) ==
  /\ job[w].at = "files" /\ job[w].left # {} /\ ~unlocked
  /\ Gone(w)
  /\ UNCHANGED <<documentVars, isSetUp, folder, schedule, now, made>>

WriteFails(w) ==
  /\ job[w].at = "files" /\ Fault
  /\ job' = [job EXCEPT ![w] = IF job[w].why = "due" THEN [@ EXCEPT !.at = "failed"] ELSE NoJob]
  /\ UNCHANGED <<scope, onDisk, lockState, holding, inMemory, isSetUp, folder, schedule, now, made>>

\* Whole and flushed, it gets its name.
Rename(w) ==
  /\ job[w].at = "files" /\ job[w].left = {}
  /\ folder' = Put(folder, job[w].name,
       [rows |-> job[w].rows, files |-> job[w].files, steady |-> job[w].steady, bad |-> Fine])
  /\ job' = [job EXCEPT ![w] = IF job[w].why = "hand" THEN NoJob ELSE [@ EXCEPT !.at = "prune"]]
  /\ UNCHANGED <<documentVars, isSetUp, schedule, now, made>>

\* Only scheduled backups are ever deleted, the oldest by name.
Scheduled == DOMAIN folder \ {ByHand}
Newest == {n \in Scheduled : Cardinality({m \in Scheduled : m > n}) < Keep}

Prune(w) ==
  /\ job[w].at = "prune"
  /\ folder' = Restrict(folder, Newest \cup (DOMAIN folder \cap {ByHand}))
  /\ job' = [job EXCEPT ![w].at = "noted"]
  /\ UNCHANGED <<documentVars, isSetUp, schedule, now, made>>

\* Mutant of Note: only the first backup of a schedule is noted.
NoteOnlyFirst(w) ==
  /\ job[w].at \in {"noted", "failed"} /\ (unlocked => CanHold)
  /\ schedule' =
       IF unlocked /\ job[w].why = "start"
       THEN [there |-> TRUE, last |-> job[w].began, ok |-> TRUE, documents |-> job[w].documents]
       ELSE schedule
  /\ Gone(w)
  /\ UNCHANGED <<documentVars, isSetUp, folder, now, made>>

\* The row of the schedule is written under a hold of its own: `start` makes it,
\* `record` changes it if it is still there. Locked by now, nothing is noted.
Note(w) ==
  /\ job[w].at \in {"noted", "failed"} /\ (unlocked => CanHold)
  /\ \/ /\ unlocked /\ job[w].why = "start"
        /\ schedule' = [there |-> TRUE, last |-> job[w].began, ok |-> TRUE, documents |-> job[w].documents]
     \/ /\ unlocked /\ job[w].why # "start" /\ schedule.there
        /\ schedule' = [there |-> TRUE, last |-> job[w].began, ok |-> job[w].at = "noted", documents |-> schedule.documents]
     \/ (unlocked => job[w].why # "start" /\ ~schedule.there) /\ UNCHANGED schedule
  /\ Gone(w)
  /\ UNCHANGED <<documentVars, isSetUp, folder, now, made>>

-----------------------------------------------------------------------------
(***************************************************************************)
(* Restoring. The files are sealed into the folder first, one by one to    *)
(* the end of the stream, then the rows are replaced in one transaction;   *)
(* the state is held for both (replace_with).                              *)
(***************************************************************************)

\* `Backup::open` and `prepare`, before the state is taken: a wrong passphrase or a start that is
\* damaged ends it here. What is read of the rows stays as it was read.
Restore(n) ==
  /\ "restore" \in scope /\ n \in DOMAIN folder /\ folder[n].bad # AtStart
  /\ CanHold
  /\ holding' = [op |-> "restore", from |-> folder[n], left |-> folder[n].files, first |-> FALSE]
  /\ UNCHANGED <<scope, onDisk, lockState, inMemory, faults, isSetUp, folder, job, schedule, now, made>>

\* The first run from a backup: keys, a database and a configuration are made (module Vault).
CreateFromBackup(b) ==
  /\ "restore" \in scope /\ ~isSetUp /\ holding = Free
  /\ isSetUp' = TRUE /\ unlocked' = TRUE
  /\ born' = [d \in DOMAIN b.rows |-> Min(Contents)]
  /\ holding' = [op |-> "restore", from |-> b, left |-> b.files, first |-> TRUE]
  /\ UNCHANGED <<scope, rows, files, temp, part, lost, slips, untidy, clearing, inMemory, faults, folder, job, schedule, now, made>>

\* A file is taken from its first byte, whatever an earlier transfer left of it.
FileArrives ==
  /\ holding.op = "restore" /\ holding.left # {}
  /\ LET d == Min(holding.left) IN
     /\ d \notin part /\ holding.from.bad # d
     /\ part' = part \cup {d}
     /\ UNCHANGED <<scope, born, rows, files, temp, lockState, holding, inMemory, lost, slips, faults, backupVars>>

FileFinishes ==
  /\ holding.op = "restore" /\ holding.left # {}
  /\ LET d == Min(holding.left) IN
     /\ d \in part
     /\ part' = part \ {d}
     /\ files' = [files EXCEPT ![d] = Whole]
     /\ lost' = lost \ {d}
     /\ holding' = [holding EXCEPT !.left = @ \ {d}]
  /\ UNCHANGED <<scope, born, rows, temp, lockState, inMemory, slips, faults, backupVars>>

RowsReplaced(b) ==
  /\ rows' = b.rows
  /\ lost' = {d \in DOMAIN b.rows : files[d] # Whole}
  /\ holding' = Free /\ untidy' = TRUE
  /\ UNCHANGED <<scope, born, files, temp, part, unlocked, clearing, inMemory, slips, faults, backupVars>>

\* Mutant of RowsGo: the rows are replaced as soon as they are read.
RowsGoFirst ==
  /\ holding.op = "restore" /\ DOMAIN rows # DOMAIN holding.from.rows
  /\ rows' = holding.from.rows
  /\ lost' = {d \in DOMAIN holding.from.rows : files[d] # Whole}
  /\ holding' = IF holding.left = {} THEN Free ELSE holding
  /\ untidy' = TRUE
  /\ UNCHANGED <<scope, born, files, temp, part, unlocked, clearing, inMemory, slips, faults, backupVars>>

RowsGo ==
  /\ holding.op = "restore" /\ holding.left = {} /\ holding.from.bad = Fine
  /\ RowsReplaced(holding.from)

\* A record that is damaged or cut, or a step that fails: the rows stay, or, at a
\* first run, nothing stays.
Refuses ==
  /\ holding' = Free
  /\ IF holding.first
     THEN /\ isSetUp' = FALSE /\ unlocked' = FALSE
          /\ born' = << >> /\ files' = [d \in Docs |-> None] /\ part' = {} /\ temp' = {}
          /\ UNCHANGED untidy
     ELSE /\ untidy' = TRUE
          /\ part' = part \ holding.left
          /\ UNCHANGED <<isSetUp, unlocked, born, files, temp>>
  /\ UNCHANGED <<scope, rows, clearing, inMemory, lost, slips, folder, job, schedule, now, made>>

RestoreRefuses ==
  /\ holding.op = "restore"
  /\ \/ holding.left = {} /\ holding.from.bad = 0
     \/ holding.left # {} /\ holding.from.bad = Min(holding.left)
  /\ UNCHANGED faults
  /\ Refuses

RestoreFails ==
  /\ holding.op = "restore" /\ Fault
  /\ Refuses

\* A file of a backup is damaged, or cut, where it lies.
BackupDamaged(n) ==
  /\ "restore" \in scope /\ n \in DOMAIN folder /\ folder[n].bad = Fine /\ Fault
  /\ \E spot \in folder[n].files \cup {0, AtStart} : folder' = [folder EXCEPT ![n].bad = spot]
  /\ UNCHANGED <<scope, onDisk, lockState, holding, inMemory, isSetUp, job, schedule, now, made>>

-----------------------------------------------------------------------------
\* A check every few minutes is soon enough: time passes when nothing is due, or nothing can be done about it.
Tick ==
  /\ "schedule" \in scope /\ now < MaxNow
  /\ now' = now + 1
  /\ UNCHANGED <<documentVars, isSetUp, folder, job, schedule, made>>

\* What the documents do; a backup that is being written goes with the app.
LibraryMoves ==
  /\ isSetUp /\ LibraryNext
  /\ job' = Steady(rows', files')
  /\ UNCHANGED <<isSetUp, folder, schedule, now, made>>

AppGoes ==
  /\ isSetUp /\ AppEnds
  /\ job' = [w \in Writers |-> NoJob]
  /\ UNCHANGED <<isSetUp, folder, schedule, now, made>>

JobStep(w) == WriteFile(w) \/ StoppedByLock(w) \/ Rename(w) \/ Prune(w) \/ Note(w)

Next ==
  \/ LibraryMoves \/ AppGoes \/ Tick
  \/ \E documents \in BOOLEAN : CreateBackup(documents) \/ StartSchedule(documents)
  \/ StopSchedule \/ RunIfDue
  \/ \E w \in Writers : WriteFile(w) \/ StoppedByLock(w) \/ WriteFails(w) \/ Rename(w) \/ Prune(w) \/ Note(w)
  \/ \E n \in Names : Restore(n) \/ BackupDamaged(n)
  \/ \E b \in Foreign : CreateFromBackup(b)
  \/ FileArrives \/ FileFinishes \/ RowsGo \/ RestoreRefuses \/ RestoreFails

Spec == Init /\ [][Next]_vars

(***************************************************************************)
(* Fairness: the timer goes on, and so does a backup that is being written *)
(* and whatever call holds the state.                                      *)
(***************************************************************************)
CallGoesOn ==
  \/ LibraryMoves /\ holding # Free
  \/ FileArrives \/ FileFinishes \/ RowsGo \/ RestoreRefuses

FairSpec ==
  /\ Spec
  /\ WF_vars(RunIfDue) /\ WF_vars(CallGoesOn)
  /\ \A w \in Writers : WF_vars(JobStep(w))

-----------------------------------------------------------------------------
Copies == [rows : Tables, files : SUBSET Docs, steady : SUBSET Docs, bad : Spots]
RestoreCalls == [op : {"restore"}, from : Copies, left : SUBSET Docs, first : BOOLEAN]
Jobs ==
  [at : {"files", "prune", "noted", "failed"}, why : {"hand", "start", "due"}, name : Names, rows : Tables,
   documents : BOOLEAN, left : SUBSET Docs, files : SUBSET Docs, steady : SUBSET Docs, began : 0..MaxNow]
Schedules == [there : BOOLEAN, last : 0..MaxNow, ok : BOOLEAN, documents : BOOLEAN]

TypeOK ==
  /\ LibraryTypeOK
  /\ holding \in {Free} \cup AddCalls \cup DeleteCalls \cup RestoreCalls
  /\ isSetUp \in BOOLEAN
  /\ DOMAIN folder \subseteq Names /\ \A n \in DOMAIN folder : folder[n] \in Copies
  /\ job \in [Writers -> {NoJob} \cup Jobs]
  /\ schedule \in Schedules /\ now \in 0..MaxNow

\* A restore changes the rows to those of a backup that was read to its end, with every
\* file of it in place, or not at all (vault.rs:475-477).
RestoreIsWhole ==
  [][holding.op = "restore" /\ rows' # rows =>
       /\ rows' = holding.from.rows
       /\ holding.from.bad = Fine
       /\ \A d \in holding.from.files : files'[d] = Whole]_vars

\* A backup under its real name has the file of every document that was there, whole,
\* from the moment the rows were read until it was its turn: nothing that is done in
\* between, and no lock, makes a backup that silently lacks one (backup.rs:440).
BackupIsTrue == \A n \in DOMAIN folder : folder[n].steady \subseteq folder[n].files

\* While the app is unlocked no backup stays due, whether it can be written or not:
\* it is tried, and not again before its time (schedule.rs:144).
DueIsTried == []<>(~Due \/ ~unlocked)
=============================================================================
