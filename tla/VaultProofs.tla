----------------------------- MODULE VaultProofs -----------------------------
(***************************************************************************)
(* Proofs about the vault: its type invariant, that nobody is locked out,  *)
(* and that tries are counted. What makes the invariant inductive is which *)
(* commands run beside each other, that the copy of the configuration a    *)
(* command works with is the one on disk as long as it works with it, and  *)
(* what stands on disk at each step of making, recovering and erasing.     *)
(***************************************************************************)
EXTENDS Vault, TLAPS

Creates == {"secret", "config", "db", "settings"}
Recovers == {"fresh", "rewrap", "recovered"}
Tries == {"count", "try", "right"}

\* A command of the window that nothing runs beside.
Alone(w) == work[w].at \in Creates \cup Recovers \cup {"show"} \/ (At(w, "replace") /\ work[w].backup)

\* Which commands run beside each other.
Beside ==
  /\ \A w \in Threads : At(w, "rest") => work[w] = Rest
  /\ \A w, v \in Threads : w # v =>
       /\ Alone(w) => At(v, "rest")
       /\ At(w, "replace") => work[v].at \in {"rest", "erase"}
       /\ At(w, "erase") => work[v].at \in {"rest", "guard", "replace"}

\* Who holds the guard; one that erased the vault after too many tries keeps it, so that nobody who waits looks at what is left.
Guarded ==
  /\ \A w \in Threads : work[w].at \in Tries => guard = w
  /\ \A w \in Threads : guard = w => work[w].at \in Tries \cup {"erase"}
  /\ \A w, v \in Threads : w # v /\ At(w, "erase") /\ At(v, "guard") => guard = w

\* What a configuration says that is there.
ConfigSays ==
  /\ ConfigThere => config.everyday.by[1] # 0
  /\ config.limit > 0 => config.pass /\ kind = "phone"
  /\ config.recovery.by[2] = NoPass

\* A command that works with a copy of the configuration works with what is on disk.
Copied ==
  /\ \A w \in Threads : work[w].at \in Tries \cup {"fresh", "rewrap"} => work[w].copy = config /\ ConfigThere
  /\ \A w \in Threads : At(w, "try") /\ Counting(w) => config.failed > 0

\* The vault is open only when it is whole, and closed as long as it is made, opened or erased.
Opened ==
  /\ open => DbThere /\ ConfigThere
  /\ \A w \in Threads : work[w].at \in Creates \cup Recovers \cup Tries \cup {"erase"} => ~open

\* What stands on disk while a vault is made,
Made ==
  \A w \in Threads : work[w].at \in Creates =>
    /\ made > 0 /\ "recovery" \in bent /\ word = {work[w].pass} /\ wrong = 0 /\ broken = 0
    /\ kind = "phone" => work[w].pass # NoPass
    /\ DbThere <=> At(w, "settings")
    /\ work[w].at \in {"config", "db", "settings"} => secret = made
    /\ work[w].at \in {"db", "settings"} =>
         /\ config.everyday = Wrap(Kek(made, work[w].pass), made)
         /\ config.recovery = Wrap(RecoveryKek(made), made)
         /\ config.failed = 0 /\ ConfigThere

\* while it is recovered,
Recovering ==
  \A w \in Threads :
    /\ work[w].at \in Recovers => DbThere /\ ConfigThere
    /\ At(w, "fresh") => made < MaxMade
    /\ work[w].at \in {"fresh", "rewrap"} /\ kind = "phone" => work[w].pass # NoPass
    /\ At(w, "rewrap") => secret # 0

\* and while it is erased: the database is tried first.
Erased ==
  \A w \in Threads :
    /\ At(w, "erase") <=> work[w].left # <<>>
    /\ work[w].left \in {<<"config", "secret">>, <<"secret">>} => ~DbThere \/ "left" \in bent

\* An unlocking that waits or tries finds the database, unless something could not be removed.
Waited ==
  \A w \in Threads :
    /\ At(w, "guard") =>
         \/ DbThere \/ ~ConfigThere \/ "left" \in bent
         \/ \E v \in Threads : At(v, "erase") /\ work[v].left # <<"secret">>
    /\ work[w].at \in Tries => DbThere \/ "left" \in bent

\* The copies of the database key that are on disk, of a database that is there.
Keys ==
  DbThere /\ "left" \notin bent =>
    /\ ConfigThere
    /\ config.everyday.key = db.key /\ config.recovery.key = db.key
    /\ "secret" \notin bent => \E p \in word : config.everyday.by = Kek(secret, p)
    /\ "recovery" \notin bent => config.recovery.by = RecoveryKek(hand)

\* The count on disk is that of the wrong tries, the broken ones and the one that is made: of a vault that can be tried, exactly.
Pending == IF \E w \in Threads : Unfinished(w) THEN 1 ELSE 0
CanBeTried == DbThere \/ \E w \in Threads : work[w].at \in Tries \cup {"guard"}
Counted ==
  config.limit > 0 =>
    /\ wrong + broken + Pending <= config.failed
    /\ CanBeTried => config.failed = wrong + broken + Pending

VaultInv ==
  TypeOK /\ Beside /\ Guarded /\ ConfigSays /\ Copied /\ Opened /\ Made /\ Recovering /\ Erased /\ Waited /\ Keys /\ Counted
\* What a thread becomes, its stage apart.
Keeps(w) ==
  /\ work'[w].pass = work[w].pass /\ work'[w].copy = work[w].copy
  /\ work'[w].backup = work[w].backup /\ work'[w].left = work[w].left

\* Only thread w does something.
Only(w) == work' \in [Threads -> Works] /\ \A v \in Threads \ {w} : work'[v] = work[v]

LEMMA RestIs ==
  /\ Rest \in Works /\ NoConfig \in Configs /\ NoCopy \in Wrapped
  /\ Rest.at = "rest" /\ Rest.pass = NoPass /\ Rest.copy = NoConfig /\ Rest.backup = FALSE /\ Rest.left = <<>>
  /\ NoConfig.everyday = NoCopy /\ NoConfig.recovery = NoCopy /\ NoConfig.failed = 0 /\ NoConfig.limit = 0
  /\ NoCopy.by[1] = 0 /\ NoCopy.by[2] = NoPass
<1>1. NoCopy \in Wrapped /\ NoCopy.by[1] = 0 /\ NoCopy.by[2] = NoPass
  BY VaultBoundsAssumption DEF NoCopy, Wrap, Kek, NoPass, Wrapped, Typed
<1>2. NoConfig \in Configs
  BY <1>1 DEF NoConfig, Configs
<1> QED BY <1>1, <1>2 DEF Rest, NoConfig, Works, Steps, Lefts, Typed, NoPass

LEMMA Becomes ==
  ASSUME work \in [Threads -> Works], NEW w \in Threads, NEW new \in Works, work' = [work EXCEPT ![w] = new]
  PROVE  Only(w) /\ work'[w] = new
BY DEF Only

LEMMA Goes ==
  ASSUME work \in [Threads -> Works], NEW w \in Threads, NEW step \in Steps, Go(w, step)
  PROVE  Only(w) /\ Keeps(w) /\ work'[w].at = step
<1> DEFINE new == [work[w] EXCEPT !.at = step]
<1>1. work[w] \in Works
  OBVIOUS
<1>2. work' = [work EXCEPT ![w] = new]
  BY DEF Go
<1>3. /\ new \in Works /\ new.at = step /\ new.pass = work[w].pass /\ new.copy = work[w].copy
      /\ new.backup = work[w].backup /\ new.left = work[w].left
  BY <1>1 DEF Works
<1> HIDE DEF new
<1> QED BY <1>2, <1>3, Becomes DEF Keeps

LEMMA Ends ==
  ASSUME work \in [Threads -> Works], NEW w \in Threads, Done(w)
  PROVE  Only(w) /\ work'[w] = Rest
BY RestIs, Becomes DEF Done

LEMMA Erases ==
  ASSUME work \in [Threads -> Works], NEW w \in Threads, Erase(w)
  PROVE  Only(w) /\ work'[w].at = "erase" /\ work'[w].left = Everything /\ work'[w].backup = FALSE
<1> DEFINE new == [Rest EXCEPT !.at = "erase", !.left = Everything]
<1>1. new \in Works /\ new.at = "erase" /\ new.left = Everything /\ new.backup = FALSE
  BY RestIs DEF Works, Steps, Lefts
<1>2. work' = [work EXCEPT ![w] = new]
  BY DEF Erase
<1> HIDE DEF new
<1> QED BY <1>1, <1>2, Becomes

LEMMA LeftsAre ==
  /\ Everything # <<>> /\ <<"config", "secret">> # <<>> /\ <<"secret">> # <<>>
  /\ Everything # <<"config", "secret">> /\ Everything # <<"secret">> /\ <<"config", "secret">> # <<"secret">>
  /\ Head(Everything) = "db" /\ Tail(Everything) = <<"config", "secret">> /\ Len(Everything) = 3
  /\ Head(<<"config", "secret">>) = "config" /\ Tail(<<"config", "secret">>) = <<"secret">> /\ Len(<<"config", "secret">>) = 2
  /\ Head(<<"secret">>) = "secret" /\ Len(<<"secret">>) = 1
BY DEF Everything

LEMMA BoundsAre ==
  /\ MaxMade \in Nat /\ MaxUnlocks \in Nat /\ MaxFaults \in Nat
  /\ 0 \in 0..MaxMade /\ 0 \in 0..MaxUnlocks /\ 0 \in 0..MaxFaults
BY VaultBoundsAssumption

-----------------------------------------------------------------------------
(* Making a vault: nothing runs beside it, and what it wrote is what it made. *)
LEMMA KeepSecretKeeps ==
  ASSUME VaultInv, NEW w \in Threads, KeepSecret(w), UNCHANGED <<kind, guard, kept, tried, asked, bent, made, faults>>
  PROVE  VaultInv'
<1>1. Only(w) /\ Keeps(w) /\ At(w, "secret") /\ work'[w].at = "config"
  BY Goes DEF VaultInv, TypeOK, Steps, KeepSecret, At
<1>2. TypeOK'
  BY <1>1 DEF VaultInv, TypeOK, Only, Keeps, KeepSecret, kept, tried
<1>3. Beside'
  BY <1>1 DEF VaultInv, TypeOK, Only, Keeps, Beside, At, Alone, Creates, Recovers, KeepSecret, kept, tried
<1>4. Guarded'
  BY <1>1 DEF VaultInv, TypeOK, Only, Keeps, Guarded, At, Tries, Threads, KeepSecret, kept, tried
<1>5. ConfigSays'
  BY <1>1 DEF VaultInv, TypeOK, Only, Keeps, ConfigSays, ConfigThere, KeepSecret, kept, tried
<1>6. Copied'
  BY <1>1 DEF VaultInv, TypeOK, Only, Keeps, Copied, At, Tries, ConfigThere, Counting, KeepSecret, kept, tried
<1>7. Opened'
  BY <1>1 DEF VaultInv, TypeOK, Only, Keeps, Opened, At, Creates, Recovers, Tries, DbThere, ConfigThere, Made, KeepSecret, kept,
     tried
<1>8. Made'
  BY <1>1 DEF VaultInv, TypeOK, Only, Keeps, Made, Creates, At, ConfigThere, DbThere, Beside, Alone, Recovers, KeepSecret, kept,
     tried
<1>9. Recovering'
  BY <1>1 DEF VaultInv, TypeOK, Only, Keeps, Recovering, At, Recovers, ConfigThere, DbThere, Beside, Alone, Creates, KeepSecret,
     kept, tried
<1>10. Erased'
  BY <1>1, LeftsAre DEF VaultInv, TypeOK, Only, Keeps, Erased, At, DbThere, KeepSecret, kept, tried
<1>11. Waited'
  BY <1>1 DEF VaultInv, TypeOK, Only, Keeps, Waited, At, DbThere, ConfigThere, Tries, KeepSecret, kept, tried
<1>12. Keys'
  BY <1>1 DEF VaultInv, TypeOK, Only, Keeps, Keys, DbThere, ConfigThere, Made, Creates, At, KeepSecret, kept, tried
<1>13. Counted'
  BY <1>1 DEF VaultInv, TypeOK, Only, Keeps, Counted, Configs, Pending, CanBeTried, Unfinished, Counting, DbThere, Tries, At,
     KeepSecret, kept, tried
<1> QED BY <1>2, <1>3, <1>4, <1>5, <1>6, <1>7, <1>8, <1>9, <1>10, <1>11, <1>12, <1>13 DEF VaultInv

LEMMA WriteConfigKeeps ==
  ASSUME VaultInv, NEW w \in Threads, WriteConfig(w), UNCHANGED <<kind, guard, kept, tried, asked, bent, made, faults>>
  PROVE  VaultInv'
<1>1. Only(w) /\ Keeps(w) /\ At(w, "config") /\ work'[w].at = "db"
  BY Goes DEF VaultInv, TypeOK, Steps, WriteConfig, At
<1>2. ~DbThere /\ ~open /\ made > 0 /\ secret = made /\ wrong = 0 /\ broken = 0 /\ (kind = "phone" => work[w].pass # NoPass)
  BY <1>1 DEF VaultInv, Made, Opened, Creates, At
<1>3. /\ config' \in Configs /\ (work[w].pass # NoPass => config'.pass = TRUE) /\ config'.everyday = Wrap(Kek(made, work[w].pass), made)
      /\ config'.recovery = Wrap(RecoveryKek(made), made) /\ config'.failed = 0 /\ config'.limit = (IF kind = "phone" THEN Limit ELSE 0)
  BY <1>2, LimitAssumption DEF WriteConfig, VaultInv, TypeOK, Configs, Works, Wrapped, Wrap, Kek, RecoveryKek, NoPass, Typed
<1>4. ConfigThere' /\ config'.everyday.by[1] # 0 /\ config'.recovery.by[2] = NoPass
  BY <1>2, <1>3, RestIs DEF ConfigThere, Wrap, Kek, RecoveryKek
<1>5. \A v \in Threads : v # w => At(v, "rest") /\ work'[v] = work[v]
  BY <1>1 DEF VaultInv, Beside, Alone, Creates, Recovers, At, Only
<1>6. db' = db /\ secret' = secret /\ open' = open /\ idle' = idle /\ UNCHANGED <<kind, guard, kept, tried, asked, bent, made, faults>>
  BY DEF WriteConfig
<1>7. TypeOK'
  BY <1>1, <1>2, <1>3, <1>4, <1>5, <1>6 DEF VaultInv, TypeOK, Only, Keeps, kept, tried
<1>8. Beside'
  BY <1>1, <1>2, <1>3, <1>4, <1>5, <1>6 DEF VaultInv, TypeOK, Only, Keeps, Beside, At, Alone, Creates, Recovers, kept, tried
<1>9. Guarded'
  BY <1>1, <1>2, <1>3, <1>4, <1>5, <1>6 DEF VaultInv, TypeOK, Only, Keeps, Guarded, At, Tries, Threads, kept, tried
<1>10. ConfigSays'
  BY <1>1, <1>2, <1>3, <1>4, <1>5, <1>6 DEF VaultInv, TypeOK, Only, Keeps, ConfigSays, ConfigThere, kept, tried
<1>11. Copied'
  BY <1>1, <1>2, <1>3, <1>4, <1>5, <1>6 DEF VaultInv, TypeOK, Only, Keeps, Copied, At, Tries, ConfigThere, Counting, kept, tried
<1>12. Opened'
  BY <1>1, <1>2, <1>3, <1>4, <1>5, <1>6 DEF VaultInv, TypeOK, Only, Keeps, Opened, At, Creates, Recovers, Tries, DbThere,
     ConfigThere, kept, tried
<1>13. Made'
  BY <1>1, <1>2, <1>3, <1>4, <1>5, <1>6 DEF VaultInv, TypeOK, Only, Keeps, Made, Creates, At, ConfigThere, DbThere, kept, tried
<1>14. Recovering'
  BY <1>1, <1>2, <1>3, <1>4, <1>5, <1>6 DEF VaultInv, TypeOK, Only, Keeps, Recovering, At, Recovers, ConfigThere, DbThere, kept,
     tried
<1>15. Erased'
  BY <1>1, <1>2, <1>3, <1>4, <1>5, <1>6, LeftsAre DEF VaultInv, TypeOK, Only, Keeps, Erased, At, DbThere, kept, tried
<1>16. Waited'
  BY <1>1, <1>2, <1>3, <1>4, <1>5, <1>6 DEF VaultInv, TypeOK, Only, Keeps, Waited, At, DbThere, ConfigThere, Tries, kept, tried
<1>17. Keys'
  BY <1>1, <1>2, <1>3, <1>4, <1>5, <1>6 DEF VaultInv, TypeOK, Only, Keeps, Keys, DbThere, ConfigThere, kept, tried
<1>18. Counted'
  BY <1>1, <1>2, <1>3, <1>4, <1>5, <1>6 DEF VaultInv, TypeOK, Only, Keeps, Counted, Configs, Pending, CanBeTried, Unfinished,
     Counting, DbThere, Tries, At, kept, tried
<1> QED BY <1>7, <1>8, <1>9, <1>10, <1>11, <1>12, <1>13, <1>14, <1>15, <1>16, <1>17, <1>18 DEF VaultInv

LEMMA MakeDbKeeps ==
  ASSUME VaultInv, NEW w \in Threads, MakeDb(w), UNCHANGED <<kind, guard, kept, tried, asked, bent, made, faults>>
  PROVE  VaultInv'
<1>1. Only(w) /\ Keeps(w) /\ At(w, "db") /\ work'[w].at = "settings"
  BY Goes DEF VaultInv, TypeOK, Steps, MakeDb, At
<1>2. /\ ~DbThere /\ ~open /\ made > 0 /\ secret = made /\ wrong = 0 /\ broken = 0 /\ config.failed = 0 /\ ConfigThere
      /\ config.everyday = Wrap(Kek(made, work[w].pass), made) /\ config.recovery = Wrap(RecoveryKek(made), made)
      /\ "recovery" \in bent /\ work[w].pass \in word
  BY <1>1 DEF VaultInv, Made, Opened, Creates, At
<1>3. \A v \in Threads : v # w => At(v, "rest") /\ work'[v] = work[v]
  BY <1>1 DEF VaultInv, Beside, Alone, Creates, Recovers, At, Only
<1>4. db' \in [key : 0..MaxMade, rows : {"none", "bare", "empty", "own", "copy"}] /\ db'.key = made /\ DbThere'
  BY DEF MakeDb, VaultInv, TypeOK, DbThere
<1>5. TypeOK'
  BY <1>1, <1>2, <1>3, <1>4 DEF VaultInv, TypeOK, Only, Keeps, MakeDb, kept, tried
<1>6. Beside'
  BY <1>1, <1>2, <1>3, <1>4 DEF VaultInv, TypeOK, Only, Keeps, Beside, At, Alone, Creates, Recovers, MakeDb, kept, tried
<1>7. Guarded'
  BY <1>1, <1>2, <1>3, <1>4 DEF VaultInv, TypeOK, Only, Keeps, Guarded, At, Tries, Threads, MakeDb, kept, tried
<1>8. ConfigSays'
  BY <1>1, <1>2, <1>3, <1>4 DEF VaultInv, TypeOK, Only, Keeps, ConfigSays, ConfigThere, MakeDb, kept, tried
<1>9. Copied'
  BY <1>1, <1>2, <1>3, <1>4 DEF VaultInv, TypeOK, Only, Keeps, Copied, At, Tries, ConfigThere, Counting, MakeDb, kept, tried
<1>10. Opened'
  BY <1>1, <1>2, <1>3, <1>4 DEF VaultInv, TypeOK, Only, Keeps, Opened, At, Creates, Recovers, Tries, DbThere, ConfigThere,
     MakeDb, kept, tried
<1>11. Made'
  BY <1>1, <1>2, <1>3, <1>4 DEF VaultInv, TypeOK, Only, Keeps, Made, Creates, At, ConfigThere, DbThere, MakeDb, kept, tried
<1>12. Recovering'
  BY <1>1, <1>2, <1>3, <1>4 DEF VaultInv, TypeOK, Only, Keeps, Recovering, At, Recovers, ConfigThere, DbThere, MakeDb, kept,
     tried
<1>13. Erased'
  BY <1>1, <1>2, <1>3, <1>4, LeftsAre DEF VaultInv, TypeOK, Only, Keeps, Erased, At, DbThere, MakeDb, kept, tried
<1>14. Waited'
  BY <1>1, <1>2, <1>3, <1>4 DEF VaultInv, TypeOK, Only, Keeps, Waited, At, DbThere, ConfigThere, Tries, MakeDb, kept, tried
<1>15. Keys'
  BY <1>1, <1>2, <1>3, <1>4 DEF VaultInv, TypeOK, Only, Keeps, Keys, DbThere, ConfigThere, Wrap, Kek, RecoveryKek, MakeDb, kept,
     tried
<1>16. Counted'
  BY <1>1, <1>2, <1>3, <1>4 DEF VaultInv, TypeOK, Only, Keeps, Counted, Configs, Pending, CanBeTried, Unfinished, Counting,
     DbThere, Tries, At, MakeDb, kept, tried
<1> QED BY <1>5, <1>6, <1>7, <1>8, <1>9, <1>10, <1>11, <1>12, <1>13, <1>14, <1>15, <1>16 DEF VaultInv

LEMMA WriteSettingsKeeps ==
  ASSUME VaultInv, NEW w \in Threads, WriteSettings(w), UNCHANGED <<kind, guard, kept, tried, asked, bent, made, faults>>
  PROVE  VaultInv'
<1>1. Only(w) /\ Keeps(w) /\ At(w, "settings") /\ work'[w].at \in {"show", "replace"} /\ (work'[w].at = "replace" => work[w].backup)
  BY Goes DEF VaultInv, TypeOK, Steps, WriteSettings, At, Works
<1>2. DbThere /\ ConfigThere /\ work[w].left = <<>>
  BY <1>1 DEF VaultInv, Made, Erased, Creates, At
<1>3. \A v \in Threads : v # w => At(v, "rest") /\ work'[v] = work[v]
  BY <1>1 DEF VaultInv, Beside, Alone, Creates, Recovers, At, Only
<1>4. db' \in [key : 0..MaxMade, rows : {"none", "bare", "empty", "own", "copy"}] /\ db'.key = db.key /\ DbThere'
  BY DEF WriteSettings, VaultInv, TypeOK, DbThere
<1>5. open' = TRUE /\ idle' = FALSE /\ config' = config /\ secret' = secret /\ UNCHANGED <<kind, guard, kept, tried, asked, bent, made, faults>>
  BY DEF WriteSettings
<1>6. TypeOK'
  BY <1>1, <1>2, <1>3, <1>4, <1>5 DEF VaultInv, TypeOK, Only, Keeps, kept, tried
<1>7. Beside'
  BY <1>1, <1>2, <1>3, <1>4, <1>5 DEF VaultInv, TypeOK, Only, Keeps, Beside, At, Alone, Creates, Recovers, kept, tried
<1>8. Guarded'
  BY <1>1, <1>2, <1>3, <1>4, <1>5 DEF VaultInv, TypeOK, Only, Keeps, Guarded, At, Tries, Threads, kept, tried
<1>9. ConfigSays'
  BY <1>1, <1>2, <1>3, <1>4, <1>5 DEF VaultInv, TypeOK, Only, Keeps, ConfigSays, ConfigThere, kept, tried
<1>10. Copied'
  BY <1>1, <1>2, <1>3, <1>4, <1>5 DEF VaultInv, TypeOK, Only, Keeps, Copied, At, Tries, ConfigThere, Counting, kept, tried
<1>11. Opened'
  BY <1>1, <1>2, <1>3, <1>4, <1>5 DEF VaultInv, TypeOK, Only, Keeps, Opened, At, Creates, Recovers, Tries, DbThere, ConfigThere,
     kept, tried
<1>12. Made'
  BY <1>1, <1>2, <1>3, <1>4, <1>5 DEF VaultInv, TypeOK, Only, Keeps, Made, Creates, At, ConfigThere, DbThere, kept, tried
<1>13. Recovering'
  BY <1>1, <1>2, <1>3, <1>4, <1>5 DEF VaultInv, TypeOK, Only, Keeps, Recovering, At, Recovers, ConfigThere, DbThere, kept, tried
<1>14. Erased'
  BY <1>1, <1>2, <1>3, <1>4, <1>5, LeftsAre DEF VaultInv, TypeOK, Only, Keeps, Erased, At, DbThere, kept, tried
<1>15. Waited'
  BY <1>1, <1>2, <1>3, <1>4, <1>5 DEF VaultInv, TypeOK, Only, Keeps, Waited, At, DbThere, ConfigThere, Tries, kept, tried
<1>16. Keys'
  BY <1>1, <1>2, <1>3, <1>4, <1>5 DEF VaultInv, TypeOK, Only, Keeps, Keys, DbThere, ConfigThere, kept, tried
<1>17. Counted'
  BY <1>1, <1>2, <1>3, <1>4, <1>5 DEF VaultInv, TypeOK, Only, Keeps, Counted, Configs, Pending, CanBeTried, Unfinished,
     Counting, DbThere, Tries, At, kept, tried
<1> QED BY <1>6, <1>7, <1>8, <1>9, <1>10, <1>11, <1>12, <1>13, <1>14, <1>15, <1>16, <1>17 DEF VaultInv

LEMMA ShowKeeps ==
  ASSUME VaultInv, NEW w \in Threads, Show(w)
  PROVE  VaultInv'
<1>1. Only(w) /\ At(w, "show") /\ work'[w] = Rest
  BY Ends DEF VaultInv, TypeOK, Show
<1>2. \A v \in Threads : v # w => At(v, "rest") /\ work'[v] = work[v]
  BY <1>1 DEF VaultInv, Beside, Alone, Creates, Recovers, At, Only
<1>3. hand' = config.recovery.by[1] /\ hand' \in 0..MaxMade /\ config.recovery.by = RecoveryKek(hand')
  BY DEF Show, VaultInv, TypeOK, ConfigSays, Configs, Wrapped, RecoveryKek, NoPass
<1>4. TypeOK'
  BY <1>1, <1>2, <1>3 DEF VaultInv, TypeOK, Only, Keeps, Show
<1>5. Beside'
  BY <1>1, <1>2, <1>3, RestIs DEF VaultInv, TypeOK, Only, Keeps, Beside, At, Alone, Creates, Recovers, Show
<1>6. Guarded'
  BY <1>1, <1>2, <1>3, RestIs DEF VaultInv, TypeOK, Only, Keeps, Guarded, At, Tries, Threads, Show
<1>7. ConfigSays'
  BY <1>1, <1>2, <1>3 DEF VaultInv, TypeOK, Only, Keeps, ConfigSays, ConfigThere, Show
<1>8. Copied'
  BY <1>1, <1>2, <1>3, RestIs DEF VaultInv, TypeOK, Only, Keeps, Copied, At, Tries, ConfigThere, Counting, Show
<1>9. Opened'
  BY <1>1, <1>2, <1>3, RestIs DEF VaultInv, TypeOK, Only, Keeps, Opened, At, Creates, Recovers, Tries, DbThere, ConfigThere,
     Show
<1>10. Made'
  BY <1>1, <1>2, <1>3, RestIs DEF VaultInv, TypeOK, Only, Keeps, Made, Creates, At, ConfigThere, DbThere, Show
<1>11. Recovering'
  BY <1>1, <1>2, <1>3, RestIs DEF VaultInv, TypeOK, Only, Keeps, Recovering, At, Recovers, ConfigThere, DbThere, Show
<1>12. Erased'
  BY <1>1, <1>2, <1>3, RestIs, LeftsAre DEF VaultInv, TypeOK, Only, Keeps, Erased, At, DbThere, Show
<1>13. Waited'
  BY <1>1, <1>2, <1>3, RestIs DEF VaultInv, TypeOK, Only, Keeps, Waited, At, DbThere, ConfigThere, Tries, Show
<1>14. Keys'
  BY <1>1, <1>2, <1>3 DEF VaultInv, TypeOK, Only, Keeps, Keys, DbThere, ConfigThere, Show
<1>15. Counted'
  BY <1>1, <1>2, <1>3, RestIs DEF VaultInv, TypeOK, Only, Keeps, Counted, Configs, Pending, CanBeTried, Unfinished, Counting,
     DbThere, Tries, At, Show
<1> QED BY <1>4, <1>5, <1>6, <1>7, <1>8, <1>9, <1>10, <1>11, <1>12, <1>13, <1>14, <1>15 DEF VaultInv

-----------------------------------------------------------------------------
(* Replacing the rows of an open vault, whose key stays. *)
LEMMA RestoreKeeps ==
  ASSUME VaultInv, NEW w \in Threads, Restore(w)
  PROVE  VaultInv'
<1>1. Only(w) /\ Keeps(w) /\ work'[w].at = "replace"
  BY Goes DEF VaultInv, TypeOK, Steps, Restore
<1>2. work[w].backup = FALSE /\ work[w].left = <<>> /\ open /\ \A v \in Threads : At(v, "rest") /\ work[v].left = <<>>
  BY RestIs DEF VaultInv, Beside, Restore, Waits
<1>3. TypeOK'
  BY <1>1, <1>2 DEF VaultInv, TypeOK, Only, Keeps, Restore, kept, tried
<1>4. Beside'
  BY <1>1, <1>2 DEF VaultInv, TypeOK, Only, Keeps, Beside, At, Alone, Creates, Recovers, Restore, kept, tried
<1>5. Guarded'
  BY <1>1, <1>2 DEF VaultInv, TypeOK, Only, Keeps, Guarded, At, Tries, Threads, Restore, kept, tried
<1>6. ConfigSays'
  BY <1>1, <1>2 DEF VaultInv, TypeOK, Only, Keeps, ConfigSays, ConfigThere, Restore, kept, tried
<1>7. Copied'
  BY <1>1, <1>2 DEF VaultInv, TypeOK, Only, Keeps, Copied, At, Tries, ConfigThere, Counting, Restore, kept, tried
<1>8. Opened'
  BY <1>1, <1>2 DEF VaultInv, TypeOK, Only, Keeps, Opened, At, Creates, Recovers, Tries, DbThere, ConfigThere, Restore, kept,
     tried
<1>9. Made'
  BY <1>1, <1>2 DEF VaultInv, TypeOK, Only, Keeps, Made, Creates, At, ConfigThere, DbThere, Restore, kept, tried
<1>10. Recovering'
  BY <1>1, <1>2 DEF VaultInv, TypeOK, Only, Keeps, Recovering, At, Recovers, ConfigThere, DbThere, Restore, kept, tried
<1>11. Erased'
  BY <1>1, <1>2, LeftsAre DEF VaultInv, TypeOK, Only, Keeps, Erased, At, DbThere, Restore, kept, tried
<1>12. Waited'
  BY <1>1, <1>2 DEF VaultInv, TypeOK, Only, Keeps, Waited, At, DbThere, ConfigThere, Tries, Restore, kept, tried
<1>13. Keys'
  BY <1>1, <1>2 DEF VaultInv, TypeOK, Only, Keeps, Keys, DbThere, ConfigThere, Restore, kept, tried
<1>14. Counted'
  BY <1>1, <1>2 DEF VaultInv, TypeOK, Only, Keeps, Counted, Configs, Pending, CanBeTried, Unfinished, Counting, DbThere, Tries,
     At, Restore, kept, tried
<1> QED BY <1>3, <1>4, <1>5, <1>6, <1>7, <1>8, <1>9, <1>10, <1>11, <1>12, <1>13, <1>14 DEF VaultInv

LEMMA ReplaceKeeps ==
  ASSUME VaultInv, NEW w \in Threads, Replace(w)
  PROVE  VaultInv'
<1>1. /\ Only(w) /\ At(w, "replace") /\ open
      /\ \/ Keeps(w) /\ work'[w].at = "show" /\ work[w].backup
         \/ work'[w] = Rest
  BY Goes, Ends DEF VaultInv, TypeOK, Replace, Steps
<1>2. db' \in [key : 0..MaxMade, rows : {"none", "bare", "empty", "own", "copy"}] /\ db'.key = db.key /\ DbThere' /\ DbThere
  BY <1>1 DEF Replace, VaultInv, TypeOK, Opened, DbThere
<1>3. idle' \in BOOLEAN /\ UNCHANGED <<kind, config, secret, open, guard, kept, tried, asked, bent, made, faults>>
  BY DEF Replace, VaultInv, TypeOK
<1>4. \A v \in Threads : v # w => work'[v] = work[v] /\ work[v].at \in {"rest", "erase"} /\ (work[w].backup => At(v, "rest"))
  BY <1>1 DEF VaultInv, Beside, Alone, At, Only
<1>5. TypeOK'
  BY <1>1, <1>2, <1>3, <1>4 DEF VaultInv, TypeOK, Only, Keeps, kept, tried
<1>6. Beside'
  BY <1>1, <1>2, <1>3, <1>4, RestIs DEF VaultInv, TypeOK, Only, Keeps, Beside, At, Alone, Creates, Recovers, kept, tried
<1>7. Guarded'
  BY <1>1, <1>2, <1>3, <1>4, RestIs DEF VaultInv, TypeOK, Only, Keeps, Guarded, At, Tries, Threads, kept, tried
<1>8. ConfigSays'
  BY <1>1, <1>2, <1>3, <1>4 DEF VaultInv, TypeOK, Only, Keeps, ConfigSays, ConfigThere, kept, tried
<1>9. Copied'
  BY <1>1, <1>2, <1>3, <1>4, RestIs DEF VaultInv, TypeOK, Only, Keeps, Copied, At, Tries, ConfigThere, Counting, kept, tried
<1>10. Opened'
  BY <1>1, <1>2, <1>3, <1>4, RestIs DEF VaultInv, TypeOK, Only, Keeps, Opened, At, Creates, Recovers, Tries, DbThere,
     ConfigThere, kept, tried
<1>11. Made'
  BY <1>1, <1>2, <1>3, <1>4, RestIs DEF VaultInv, TypeOK, Only, Keeps, Made, Creates, At, ConfigThere, DbThere, kept, tried
<1>12. Recovering'
  BY <1>1, <1>2, <1>3, <1>4, RestIs DEF VaultInv, TypeOK, Only, Keeps, Recovering, At, Recovers, ConfigThere, DbThere, kept,
     tried
<1>13. Erased'
  BY <1>1, <1>2, <1>3, <1>4, RestIs, LeftsAre DEF VaultInv, TypeOK, Only, Keeps, Erased, At, DbThere, kept, tried
<1>14. Waited'
  BY <1>1, <1>2, <1>3, <1>4, RestIs DEF VaultInv, TypeOK, Only, Keeps, Waited, At, DbThere, ConfigThere, Tries, kept, tried
<1>15. Keys'
  BY <1>1, <1>2, <1>3, <1>4 DEF VaultInv, TypeOK, Only, Keeps, Keys, DbThere, ConfigThere, kept, tried
<1>16. Counted'
  BY <1>1, <1>2, <1>3, <1>4, RestIs DEF VaultInv, TypeOK, Only, Keeps, Counted, Configs, Pending, CanBeTried, Unfinished,
     Counting, DbThere, Tries, At, kept, tried
<1> QED BY <1>5, <1>6, <1>7, <1>8, <1>9, <1>10, <1>11, <1>12, <1>13, <1>14, <1>15, <1>16 DEF VaultInv

LEMMA ReplaceFailsKeeps ==
  ASSUME VaultInv, NEW w \in Threads, ReplaceFails(w)
  PROVE  VaultInv'
<1>1. /\ Only(w) /\ At(w, "replace")
      /\ \/ work[w].backup /\ work'[w].at = "erase" /\ work'[w].left = Everything /\ work'[w].backup = FALSE /\ open' = FALSE
         \/ work'[w] = Rest /\ open' = open
  BY Erases, Ends DEF VaultInv, TypeOK, ReplaceFails
<1>2. faults' \in 0..MaxFaults /\ UNCHANGED <<kind, db, config, secret, idle, guard, kept, tried, asked, bent, made>>
  BY VaultBoundsAssumption DEF ReplaceFails, VaultInv, TypeOK
<1>3. \A v \in Threads : v # w => work'[v] = work[v] /\ work[v].at \in {"rest", "erase"} /\ (work[w].backup => At(v, "rest"))
  BY <1>1 DEF VaultInv, Beside, Alone, At, Only
<1>4. TypeOK'
  BY <1>1, <1>2, <1>3 DEF VaultInv, TypeOK, Only, Keeps, kept, tried
<1>5. Beside'
  BY <1>1, <1>2, <1>3, RestIs, LeftsAre DEF VaultInv, TypeOK, Only, Keeps, Beside, At, Alone, Creates, Recovers, kept, tried
<1>6. Guarded'
  BY <1>1, <1>2, <1>3, RestIs, LeftsAre DEF VaultInv, TypeOK, Only, Keeps, Guarded, At, Tries, Threads, kept, tried
<1>7. ConfigSays'
  BY <1>1, <1>2, <1>3 DEF VaultInv, TypeOK, Only, Keeps, ConfigSays, ConfigThere, kept, tried
<1>8. Copied'
  BY <1>1, <1>2, <1>3, RestIs, LeftsAre DEF VaultInv, TypeOK, Only, Keeps, Copied, At, Tries, ConfigThere, Counting, kept, tried
<1>9. Opened'
  BY <1>1, <1>2, <1>3, RestIs, LeftsAre DEF VaultInv, TypeOK, Only, Keeps, Opened, At, Creates, Recovers, Tries, DbThere,
     ConfigThere, kept, tried
<1>10. Made'
  BY <1>1, <1>2, <1>3, RestIs, LeftsAre DEF VaultInv, TypeOK, Only, Keeps, Made, Creates, At, ConfigThere, DbThere, kept, tried
<1>11. Recovering'
  BY <1>1, <1>2, <1>3, RestIs, LeftsAre DEF VaultInv, TypeOK, Only, Keeps, Recovering, At, Recovers, ConfigThere, DbThere, kept,
     tried
<1>12. Erased'
  BY <1>1, <1>2, <1>3, RestIs, LeftsAre DEF VaultInv, TypeOK, Only, Keeps, Erased, At, DbThere, kept, tried
<1>13. Waited'
  BY <1>1, <1>2, <1>3, RestIs, LeftsAre DEF VaultInv, TypeOK, Only, Keeps, Waited, At, DbThere, ConfigThere, Tries, kept, tried
<1>14. Keys'
  BY <1>1, <1>2, <1>3 DEF VaultInv, TypeOK, Only, Keeps, Keys, DbThere, ConfigThere, kept, tried
<1>15. Counted'
  BY <1>1, <1>2, <1>3, RestIs, LeftsAre DEF VaultInv, TypeOK, Only, Keeps, Counted, Configs, Pending, CanBeTried, Unfinished,
     Counting, DbThere, Tries, At, kept, tried
<1> QED BY <1>4, <1>5, <1>6, <1>7, <1>8, <1>9, <1>10, <1>11, <1>12, <1>13, <1>14, <1>15 DEF VaultInv

-----------------------------------------------------------------------------
(* Unlocking: whoever holds the guard works with the configuration on disk. *)
LEMMA UnlockKeeps ==
  ASSUME VaultInv, NEW w \in Threads, NEW p \in Typed, Unlock(w, p)
  PROVE  VaultInv'
<1>1. Only(w) /\ work'[w].at = "guard" /\ work'[w].backup = FALSE /\ work'[w].left = <<>> /\ At(w, "rest")
  BY RestIs, Becomes DEF VaultInv, TypeOK, Unlock, Works, Steps
<1>2. \A v \in Threads : v # w => work'[v] = work[v] /\ work[v].at \in {"rest", "guard", "count", "try", "right"}
  BY <1>1 DEF Unlock, Only
<1>3. work[w].left = <<>> /\ DbThere /\ unlocks' \in 0..MaxUnlocks /\ guard # w
  BY <1>1, RestIs, VaultBoundsAssumption DEF VaultInv, TypeOK, Beside, Unlock, Guarded, At, Tries
<1>4. UNCHANGED <<kind, db, config, secret, open, idle, guard, kept, wrong, broken, asked, bent, made, faults>>
  BY DEF Unlock
<1>5. TypeOK'
  BY <1>1, <1>2, <1>3, <1>4 DEF VaultInv, TypeOK, Only, Keeps, kept
<1>6. Beside'
  BY <1>1, <1>2, <1>3, <1>4 DEF VaultInv, TypeOK, Only, Keeps, Beside, At, Alone, Creates, Recovers, kept
<1>7. Guarded'
  BY <1>1, <1>2, <1>3, <1>4 DEF VaultInv, TypeOK, Only, Keeps, Guarded, At, Tries, Threads, kept
<1>8. ConfigSays'
  BY <1>1, <1>2, <1>3, <1>4 DEF VaultInv, TypeOK, Only, Keeps, ConfigSays, ConfigThere, kept
<1>9. Copied'
  BY <1>1, <1>2, <1>3, <1>4 DEF VaultInv, TypeOK, Only, Keeps, Copied, At, Tries, ConfigThere, Counting, kept
<1>10. Opened'
  BY <1>1, <1>2, <1>3, <1>4 DEF VaultInv, TypeOK, Only, Keeps, Opened, At, Creates, Recovers, Tries, DbThere, ConfigThere, kept
<1>11. Made'
  BY <1>1, <1>2, <1>3, <1>4 DEF VaultInv, TypeOK, Only, Keeps, Made, Creates, At, ConfigThere, DbThere, kept
<1>12. Recovering'
  BY <1>1, <1>2, <1>3, <1>4 DEF VaultInv, TypeOK, Only, Keeps, Recovering, At, Recovers, ConfigThere, DbThere, kept
<1>13. Erased'
  BY <1>1, <1>2, <1>3, <1>4, LeftsAre DEF VaultInv, TypeOK, Only, Keeps, Erased, At, DbThere, kept
<1>14. Waited'
  BY <1>1, <1>2, <1>3, <1>4 DEF VaultInv, TypeOK, Only, Keeps, Waited, At, DbThere, ConfigThere, Tries, kept
<1>15. Keys'
  BY <1>1, <1>2, <1>3, <1>4 DEF VaultInv, TypeOK, Only, Keeps, Keys, DbThere, ConfigThere, kept
<1>16. Counted'
  BY <1>1, <1>2, <1>3, <1>4 DEF VaultInv, TypeOK, Only, Keeps, Counted, Configs, Pending, CanBeTried, Unfinished, Counting,
     DbThere, Tries, At, kept
<1> QED BY <1>5, <1>6, <1>7, <1>8, <1>9, <1>10, <1>11, <1>12, <1>13, <1>14, <1>15, <1>16 DEF VaultInv

LEMMA TakeGuardKeeps ==
  ASSUME VaultInv, NEW w \in Threads, TakeGuard(w)
  PROVE  VaultInv'
<1>1. /\ Only(w) /\ At(w, "guard") /\ guard = 0
      /\ \/ work'[w] = Rest /\ guard' = 0
         \/ /\ work'[w].at = "count" /\ work'[w].copy = config /\ work'[w].backup = work[w].backup /\ work'[w].left = work[w].left
            /\ guard' = w /\ ~open /\ ConfigThere
  <2> DEFINE new == [work[w] EXCEPT !.at = "count", !.copy = config]
  <2>1. new \in Works /\ new.at = "count" /\ new.copy = config /\ new.backup = work[w].backup /\ new.left = work[w].left
    BY DEF VaultInv, TypeOK, Works, Steps
  <2>2. \/ Done(w) /\ guard' = guard
        \/ work' = [work EXCEPT ![w] = new] /\ guard' = w /\ ~open /\ ConfigThere
    BY DEF TakeGuard
  <2> HIDE DEF new
  <2> QED BY <2>1, <2>2, Becomes, Ends DEF VaultInv, TypeOK, TakeGuard
<1>2. UNCHANGED <<kind, db, config, secret, open, idle, kept, tried, asked, bent, made, faults>>
  BY DEF TakeGuard
<1>3. \A v \in Threads : v # w => work'[v] = work[v] /\ work[v].at \in {"rest", "guard"}
  BY <1>1 DEF VaultInv, Beside, Alone, Creates, Recovers, Guarded, Tries, At, Only, TypeOK, Steps, Works, Threads
<1>4. TypeOK'
  BY <1>1, <1>2, <1>3 DEF VaultInv, TypeOK, Only, Keeps, kept, tried
<1>5. Beside'
  BY <1>1, <1>2, <1>3, RestIs DEF VaultInv, TypeOK, Only, Keeps, Beside, At, Alone, Creates, Recovers, kept, tried
<1>6. Guarded'
  BY <1>1, <1>2, <1>3, RestIs DEF VaultInv, TypeOK, Only, Keeps, Guarded, At, Tries, Threads, kept, tried
<1>7. ConfigSays'
  BY <1>1, <1>2, <1>3 DEF VaultInv, TypeOK, Only, Keeps, ConfigSays, ConfigThere, kept, tried
<1>8. Copied'
  BY <1>1, <1>2, <1>3, RestIs DEF VaultInv, TypeOK, Only, Keeps, Copied, At, Tries, ConfigThere, Counting, kept, tried
<1>9. Opened'
  BY <1>1, <1>2, <1>3, RestIs DEF VaultInv, TypeOK, Only, Keeps, Opened, At, Creates, Recovers, Tries, DbThere, ConfigThere,
     kept, tried
<1>10. Made'
  BY <1>1, <1>2, <1>3, RestIs DEF VaultInv, TypeOK, Only, Keeps, Made, Creates, At, ConfigThere, DbThere, kept, tried
<1>11. Recovering'
  BY <1>1, <1>2, <1>3, RestIs DEF VaultInv, TypeOK, Only, Keeps, Recovering, At, Recovers, ConfigThere, DbThere, kept, tried
<1>12. Erased'
  BY <1>1, <1>2, <1>3, RestIs, LeftsAre DEF VaultInv, TypeOK, Only, Keeps, Erased, At, DbThere, kept, tried
<1>13. Waited'
  BY <1>1, <1>2, <1>3, RestIs DEF VaultInv, TypeOK, Only, Keeps, Waited, At, DbThere, ConfigThere, Tries, kept, tried
<1>14. Keys'
  BY <1>1, <1>2, <1>3 DEF VaultInv, TypeOK, Only, Keeps, Keys, DbThere, ConfigThere, kept, tried
<1>15. Counted'
  BY <1>1, <1>2, <1>3, RestIs DEF VaultInv, TypeOK, Only, Keeps, Counted, Configs, Pending, CanBeTried, Unfinished, Counting,
     DbThere, Tries, At, kept, tried
<1> QED BY <1>4, <1>5, <1>6, <1>7, <1>8, <1>9, <1>10, <1>11, <1>12, <1>13, <1>14, <1>15 DEF VaultInv

LEMMA CountKeeps ==
  ASSUME VaultInv, NEW w \in Threads, Count(w)
  PROVE  VaultInv'
<1>1. /\ Only(w) /\ At(w, "count") /\ work'[w].at = "try" /\ work'[w].copy = config' /\ work'[w].backup = work[w].backup /\ work'[w].left = work[w].left
  <2>1. work[w].copy \in Configs /\ work[w].copy = config
    BY DEF VaultInv, TypeOK, Works, Copied, Tries, Count, At
  <2> DEFINE counted == IF Counting(w) THEN [work[w].copy EXCEPT !.failed = @ + 1] ELSE work[w].copy
  <2>2. counted \in Configs
    BY <2>1 DEF Configs
  <2> DEFINE new == [work[w] EXCEPT !.at = "try", !.copy = counted]
  <2>3. new \in Works /\ new.at = "try" /\ new.copy = counted /\ new.backup = work[w].backup /\ new.left = work[w].left
    BY <2>2 DEF VaultInv, TypeOK, Works, Steps
  <2>4. work' = [work EXCEPT ![w] = new] /\ config' = counted
    BY <2>1 DEF Count
  <2> HIDE DEF new
  <2> QED BY <2>3, <2>4, Becomes DEF VaultInv, TypeOK, Count
<1>2. /\ config' \in Configs /\ config'.pass = config.pass /\ config'.everyday = config.everyday /\ config'.recovery = config.recovery
      /\ config'.limit = config.limit /\ config'.failed = config.failed + (IF Counting(w) THEN 1 ELSE 0)
  <2>1. work[w].copy \in Configs /\ work[w].copy = config
    BY DEF VaultInv, TypeOK, Works, Copied, Tries, Count, At
  <2> DEFINE counted == [config EXCEPT !.failed = @ + 1]
  <2>2. /\ counted \in Configs /\ counted.pass = config.pass /\ counted.everyday = config.everyday /\ counted.recovery = config.recovery
        /\ counted.limit = config.limit /\ counted.failed = config.failed + 1
    BY <2>1 DEF Configs
  <2>3. config' = IF Counting(w) THEN counted ELSE config
    BY <2>1 DEF Count
  <2> HIDE DEF counted
  <2> QED BY <2>1, <2>2, <2>3 DEF Configs
<1>3. UNCHANGED <<kind, db, secret, open, idle, guard, kept, tried, asked, bent, made, faults>>
  BY DEF Count
<1>4. work[w].copy = config /\ ConfigThere /\ ConfigThere' /\ ~open /\ guard = w
  BY <1>1, <1>2, RestIs DEF VaultInv, Copied, ConfigSays, Opened, Guarded, Tries, At, ConfigThere
<1>5. \A v \in Threads : v # w => work'[v] = work[v] /\ work[v].at \in {"rest", "guard"}
  BY <1>1, <1>4 DEF VaultInv, Beside, Alone, Creates, Recovers, Guarded, Tries, At, Only, TypeOK, Steps, Works, Threads
<1>6. TypeOK'
  BY <1>1, <1>2, <1>3, <1>4, <1>5 DEF VaultInv, TypeOK, Only, Keeps, kept, tried
<1>7. Beside'
  BY <1>1, <1>2, <1>3, <1>4, <1>5 DEF VaultInv, TypeOK, Only, Keeps, Beside, At, Alone, Creates, Recovers, kept, tried
<1>8. Guarded'
  BY <1>1, <1>2, <1>3, <1>4, <1>5 DEF VaultInv, TypeOK, Only, Keeps, Guarded, At, Tries, Threads, kept, tried
<1>9. ConfigSays'
  BY <1>1, <1>2, <1>3, <1>4, <1>5 DEF VaultInv, TypeOK, Only, Keeps, ConfigSays, ConfigThere, kept, tried
<1>10. Copied'
  BY <1>1, <1>2, <1>3, <1>4, <1>5 DEF VaultInv, TypeOK, Only, Keeps, Copied, At, Tries, ConfigThere, Counting, Configs, kept,
     tried
<1>11. Opened'
  BY <1>1, <1>2, <1>3, <1>4, <1>5 DEF VaultInv, TypeOK, Only, Keeps, Opened, At, Creates, Recovers, Tries, DbThere, ConfigThere,
     kept, tried
<1>12. Made'
  BY <1>1, <1>2, <1>3, <1>4, <1>5 DEF VaultInv, TypeOK, Only, Keeps, Made, Creates, At, ConfigThere, DbThere, kept, tried
<1>13. Recovering'
  BY <1>1, <1>2, <1>3, <1>4, <1>5 DEF VaultInv, TypeOK, Only, Keeps, Recovering, At, Recovers, ConfigThere, DbThere, kept, tried
<1>14. Erased'
  BY <1>1, <1>2, <1>3, <1>4, <1>5, LeftsAre DEF VaultInv, TypeOK, Only, Keeps, Erased, At, DbThere, kept, tried
<1>15. Waited'
  BY <1>1, <1>2, <1>3, <1>4, <1>5 DEF VaultInv, TypeOK, Only, Keeps, Waited, At, DbThere, ConfigThere, Tries, kept, tried
<1>16. Keys'
  BY <1>1, <1>2, <1>3, <1>4, <1>5 DEF VaultInv, TypeOK, Only, Keeps, Keys, DbThere, ConfigThere, kept, tried
<1>17. Counted'
  <2>1. Pending = 0 /\ CanBeTried
    BY <1>1, <1>5 DEF Pending, Unfinished, CanBeTried, Tries, At
  <2>2. Pending' = IF Counting(w) THEN 1 ELSE 0
    BY <1>1, <1>2, <1>4, <1>5 DEF Pending, Unfinished, Counting, VaultInv, TypeOK, Configs
  <2>3. config.limit > 0 => Counting(w)
    BY <1>4 DEF VaultInv, ConfigSays, Counting
  <2> QED BY <1>2, <1>3, <2>1, <2>2, <2>3 DEF VaultInv, TypeOK, Configs, Counted, tried
<1> QED BY <1>6, <1>7, <1>8, <1>9, <1>10, <1>11, <1>12, <1>13, <1>14, <1>15, <1>16, <1>17 DEF VaultInv

LEMMA TryRightKeeps ==
  ASSUME VaultInv, NEW w \in Threads, TryRight(w)
  PROVE  VaultInv'
<1>1. /\ Only(w) /\ Keeps(w) /\ At(w, "try") /\ work'[w].at = "right"
  BY Goes DEF VaultInv, TypeOK, Steps, TryRight, At
<1>2. UNCHANGED <<kind, db, config, secret, open, idle, guard, kept, tried, asked, bent, made, faults>>
  BY DEF TryRight
<1>3. TypeOK'
  BY <1>1, <1>2 DEF VaultInv, TypeOK, Only, Keeps, kept, tried
<1>4. Beside'
  BY <1>1, <1>2 DEF VaultInv, TypeOK, Only, Keeps, Beside, At, Alone, Creates, Recovers, kept, tried
<1>5. Guarded'
  BY <1>1, <1>2 DEF VaultInv, TypeOK, Only, Keeps, Guarded, At, Tries, Threads, kept, tried
<1>6. ConfigSays'
  BY <1>1, <1>2 DEF VaultInv, TypeOK, Only, Keeps, ConfigSays, ConfigThere, kept, tried
<1>7. Copied'
  BY <1>1, <1>2 DEF VaultInv, TypeOK, Only, Keeps, Copied, At, Tries, ConfigThere, Counting, kept, tried
<1>8. Opened'
  BY <1>1, <1>2 DEF VaultInv, TypeOK, Only, Keeps, Opened, At, Creates, Recovers, Tries, DbThere, ConfigThere, kept, tried
<1>9. Made'
  BY <1>1, <1>2 DEF VaultInv, TypeOK, Only, Keeps, Made, Creates, At, ConfigThere, DbThere, kept, tried
<1>10. Recovering'
  BY <1>1, <1>2 DEF VaultInv, TypeOK, Only, Keeps, Recovering, At, Recovers, ConfigThere, DbThere, kept, tried
<1>11. Erased'
  BY <1>1, <1>2, LeftsAre DEF VaultInv, TypeOK, Only, Keeps, Erased, At, DbThere, kept, tried
<1>12. Waited'
  BY <1>1, <1>2 DEF VaultInv, TypeOK, Only, Keeps, Waited, At, DbThere, ConfigThere, Tries, kept, tried
<1>13. Keys'
  BY <1>1, <1>2 DEF VaultInv, TypeOK, Only, Keeps, Keys, DbThere, ConfigThere, kept, tried
<1>14. Counted'
  BY <1>1, <1>2 DEF VaultInv, TypeOK, Only, Keeps, Counted, Configs, Pending, CanBeTried, Unfinished, Counting, DbThere, Tries,
     At, kept, tried
<1> QED BY <1>3, <1>4, <1>5, <1>6, <1>7, <1>8, <1>9, <1>10, <1>11, <1>12, <1>13, <1>14 DEF VaultInv

LEMMA TryWrongKeeps ==
  ASSUME VaultInv, NEW w \in Threads, TryWrong(w)
  PROVE  VaultInv'
<1>1. /\ Only(w) /\ At(w, "try")
      /\ \/ work'[w] = Rest /\ guard' = 0 /\ asked' = asked
         \/ work'[w].at = "erase" /\ work'[w].left = Everything /\ work'[w].backup = FALSE /\ guard' = guard /\ asked' = "tries"
  BY Erases, Ends DEF VaultInv, TypeOK, TryWrong
<1>2. wrong' = wrong + 1 /\ UNCHANGED <<kind, db, config, secret, open, idle, kept, broken, bent, made, unlocks, faults>>
  BY DEF TryWrong
<1>3. work[w].copy = config /\ ConfigThere /\ ~open /\ guard = w /\ (Counting(w) => config.failed > 0)
  BY <1>1 DEF VaultInv, Copied, Opened, Guarded, Tries, At
<1>4. \A v \in Threads : v # w => work'[v] = work[v] /\ work[v].at \in {"rest", "guard"}
  BY <1>1, <1>3 DEF VaultInv, Beside, Alone, Creates, Recovers, Guarded, Tries, At, Only, TypeOK, Steps, Works, Threads
<1>5. TypeOK'
  BY <1>1, <1>2, <1>3, <1>4 DEF VaultInv, TypeOK, Only, Keeps, kept, tried
<1>6. Beside'
  BY <1>1, <1>2, <1>3, <1>4, RestIs, LeftsAre DEF VaultInv, TypeOK, Only, Keeps, Beside, At, Alone, Creates, Recovers, kept,
     tried
<1>7. Guarded'
  BY <1>1, <1>2, <1>3, <1>4, RestIs, LeftsAre DEF VaultInv, TypeOK, Only, Keeps, Guarded, At, Tries, Threads, kept, tried
<1>8. ConfigSays'
  BY <1>1, <1>2, <1>3, <1>4 DEF VaultInv, TypeOK, Only, Keeps, ConfigSays, ConfigThere, kept, tried
<1>9. Copied'
  BY <1>1, <1>2, <1>3, <1>4, RestIs, LeftsAre DEF VaultInv, TypeOK, Only, Keeps, Copied, At, Tries, ConfigThere, Counting, kept,
     tried
<1>10. Opened'
  BY <1>1, <1>2, <1>3, <1>4, RestIs, LeftsAre DEF VaultInv, TypeOK, Only, Keeps, Opened, At, Creates, Recovers, Tries, DbThere,
     ConfigThere, kept, tried
<1>11. Made'
  BY <1>1, <1>2, <1>3, <1>4, RestIs, LeftsAre DEF VaultInv, TypeOK, Only, Keeps, Made, Creates, At, ConfigThere, DbThere, kept,
     tried
<1>12. Recovering'
  BY <1>1, <1>2, <1>3, <1>4, RestIs, LeftsAre DEF VaultInv, TypeOK, Only, Keeps, Recovering, At, Recovers, ConfigThere, DbThere,
     kept, tried
<1>13. Erased'
  BY <1>1, <1>2, <1>3, <1>4, RestIs, LeftsAre DEF VaultInv, TypeOK, Only, Keeps, Erased, At, DbThere, kept, tried
<1>14. Waited'
  BY <1>1, <1>2, <1>3, <1>4, RestIs, LeftsAre DEF VaultInv, TypeOK, Only, Keeps, Waited, At, DbThere, ConfigThere, Tries, kept,
     tried
<1>15. Keys'
  BY <1>1, <1>2, <1>3, <1>4 DEF VaultInv, TypeOK, Only, Keeps, Keys, DbThere, ConfigThere, kept, tried
<1>16. Counted'
  <2>1. Pending = (IF Counting(w) THEN 1 ELSE 0) /\ CanBeTried
    BY <1>1, <1>3, <1>4 DEF Pending, Unfinished, CanBeTried, Tries, At, Counting, VaultInv, TypeOK, Configs
  <2>2. Pending' = 0
    BY <1>1, <1>4, RestIs DEF Pending, Unfinished
  <2>3. config.limit > 0 => Counting(w)
    BY <1>3 DEF VaultInv, ConfigSays, Counting
  <2> QED BY <1>2, <2>1, <2>2, <2>3 DEF VaultInv, TypeOK, Configs, Counted
<1> QED BY <1>5, <1>6, <1>7, <1>8, <1>9, <1>10, <1>11, <1>12, <1>13, <1>14, <1>15, <1>16 DEF VaultInv

LEMMA TryFailsKeeps ==
  ASSUME VaultInv, NEW w \in Threads, TryFails(w)
  PROVE  VaultInv'
<1>1. Only(w) /\ At(w, "try") /\ work'[w] = Rest /\ guard' = 0
  BY Ends DEF VaultInv, TypeOK, TryFails
<1>2. faults' \in 0..MaxFaults /\ UNCHANGED <<kind, db, secret, open, idle, kept, tried, asked, bent, made>>
  BY VaultBoundsAssumption DEF TryFails, VaultInv, TypeOK
<1>3. /\ config' \in Configs /\ config'.pass = config.pass /\ config'.everyday = config.everyday /\ config'.recovery = config.recovery
      /\ config'.limit = config.limit /\ config'.failed = config.failed - (IF Counting(w) THEN 1 ELSE 0)
  <2>1. config \in Configs /\ work[w].copy = config /\ (Counting(w) => config.failed > 0)
    BY <1>1 DEF VaultInv, TypeOK, Copied, Tries, At
  <2> DEFINE counted == [config EXCEPT !.failed = IF @ = 0 THEN 0 ELSE @ - 1]
  <2>2. Counting(w) =>
          /\ counted \in Configs /\ counted.pass = config.pass /\ counted.everyday = config.everyday
          /\ counted.recovery = config.recovery /\ counted.limit = config.limit /\ counted.failed = config.failed - 1
    BY <2>1 DEF Configs
  <2>3. config' = IF Counting(w) THEN counted ELSE config
    BY <2>1 DEF TryFails
  <2> HIDE DEF counted
  <2> QED BY <2>1, <2>2, <2>3 DEF Configs
<1>4. work[w].copy = config /\ ConfigThere /\ ConfigThere' /\ ~open /\ guard = w /\ (Counting(w) => config.failed > 0)
  BY <1>1, <1>3, RestIs DEF VaultInv, Copied, ConfigSays, Opened, Guarded, Tries, At, ConfigThere
<1>5. \A v \in Threads : v # w => work'[v] = work[v] /\ work[v].at \in {"rest", "guard"}
  BY <1>1, <1>4 DEF VaultInv, Beside, Alone, Creates, Recovers, Guarded, Tries, At, Only, TypeOK, Steps, Works, Threads
<1>6. TypeOK'
  BY <1>1, <1>2, <1>3, <1>4, <1>5 DEF VaultInv, TypeOK, Only, Keeps, kept, tried
<1>7. Beside'
  BY <1>1, <1>2, <1>3, <1>4, <1>5, RestIs DEF VaultInv, TypeOK, Only, Keeps, Beside, At, Alone, Creates, Recovers, kept, tried
<1>8. Guarded'
  BY <1>1, <1>2, <1>3, <1>4, <1>5, RestIs DEF VaultInv, TypeOK, Only, Keeps, Guarded, At, Tries, Threads, kept, tried
<1>9. ConfigSays'
  BY <1>1, <1>2, <1>3, <1>4, <1>5 DEF VaultInv, TypeOK, Only, Keeps, ConfigSays, ConfigThere, kept, tried
<1>10. Copied'
  BY <1>1, <1>2, <1>3, <1>4, <1>5, RestIs DEF VaultInv, TypeOK, Only, Keeps, Copied, At, Tries, ConfigThere, Counting, kept,
     tried
<1>11. Opened'
  BY <1>1, <1>2, <1>3, <1>4, <1>5, RestIs DEF VaultInv, TypeOK, Only, Keeps, Opened, At, Creates, Recovers, Tries, DbThere,
     ConfigThere, kept, tried
<1>12. Made'
  BY <1>1, <1>2, <1>3, <1>4, <1>5, RestIs DEF VaultInv, TypeOK, Only, Keeps, Made, Creates, At, ConfigThere, DbThere, kept,
     tried
<1>13. Recovering'
  BY <1>1, <1>2, <1>3, <1>4, <1>5, RestIs DEF VaultInv, TypeOK, Only, Keeps, Recovering, At, Recovers, ConfigThere, DbThere,
     kept, tried
<1>14. Erased'
  BY <1>1, <1>2, <1>3, <1>4, <1>5, RestIs, LeftsAre DEF VaultInv, TypeOK, Only, Keeps, Erased, At, DbThere, kept, tried
<1>15. Waited'
  BY <1>1, <1>2, <1>3, <1>4, <1>5, RestIs DEF VaultInv, TypeOK, Only, Keeps, Waited, At, DbThere, ConfigThere, Tries, kept,
     tried
<1>16. Keys'
  BY <1>1, <1>2, <1>3, <1>4, <1>5 DEF VaultInv, TypeOK, Only, Keeps, Keys, DbThere, ConfigThere, kept, tried
<1>17. Counted'
  <2>1. Pending = (IF Counting(w) THEN 1 ELSE 0) /\ CanBeTried
    BY <1>1, <1>4, <1>5 DEF Pending, Unfinished, CanBeTried, Tries, At, Counting, VaultInv, TypeOK, Configs
  <2>2. Pending' = 0
    BY <1>1, <1>5, RestIs DEF Pending, Unfinished
  <2> QED BY <1>2, <1>3, <2>1, <2>2 DEF VaultInv, TypeOK, Configs, Counted, tried
<1> QED BY <1>6, <1>7, <1>8, <1>9, <1>10, <1>11, <1>12, <1>13, <1>14, <1>15, <1>16, <1>17 DEF VaultInv

LEMMA OpenRightKeeps ==
  ASSUME VaultInv, NEW w \in Threads, OpenRight(w)
  PROVE  VaultInv'
<1>1. Only(w) /\ At(w, "right") /\ wrong' = 0 /\ broken' = 0 /\ UNCHANGED <<kind, secret, kept, asked, bent, made, unlocks, faults>>
  <2> DEFINE new == [work[w] EXCEPT !.copy = [work[w].copy EXCEPT !.failed = 0]]
  <2>1. new \in Works
    BY DEF VaultInv, TypeOK, Works, Configs
  <2>2. work' = [work EXCEPT ![w] = new] \/ Done(w)
    BY DEF OpenRight
  <2> HIDE DEF new
  <2> QED BY <2>1, <2>2, Becomes, Ends DEF VaultInv, TypeOK, OpenRight
<1>2. work[w].copy = config /\ config \in Configs /\ ConfigThere /\ ~open /\ guard = w /\ (DbThere \/ "left" \in bent)
  BY <1>1 DEF VaultInv, TypeOK, Copied, Opened, Guarded, Waited, Tries, At
<1>3. \A v \in Threads : v # w => work'[v] = work[v] /\ work[v].at \in {"rest", "guard"}
  BY <1>1, <1>2 DEF VaultInv, Beside, Alone, Creates, Recovers, Guarded, Tries, At, Only, TypeOK, Steps, Works, Threads
<1>4. \/ /\ config' \in Configs /\ config'.pass = config.pass /\ config'.everyday = config.everyday /\ config'.recovery = config.recovery
         /\ config'.limit = config.limit /\ config'.failed = 0
         /\ work'[w].at = "right" /\ work'[w].copy = config' /\ work'[w].backup = work[w].backup /\ work'[w].left = work[w].left
         /\ UNCHANGED <<db, open, idle, guard>>
      \/ /\ ~Unfinished(w) /\ config' = config /\ open' = TRUE /\ idle' = FALSE /\ guard' = 0 /\ work'[w] = Rest
         /\ db' \in [key : 0..MaxMade, rows : {"none", "bare", "empty", "own", "copy"}] /\ DbThere' /\ (DbThere => db' = db)
  <2>1. CASE Unfinished(w)
    <3> DEFINE cleared == [config EXCEPT !.failed = 0]
    <3>1. /\ cleared \in Configs /\ cleared.pass = config.pass /\ cleared.everyday = config.everyday
          /\ cleared.recovery = config.recovery /\ cleared.limit = config.limit /\ cleared.failed = 0
      BY <1>2 DEF Configs
    <3> DEFINE new == [work[w] EXCEPT !.copy = cleared]
    <3>2. /\ new \in Works /\ new.at = "right" /\ new.copy = cleared /\ new.backup = work[w].backup /\ new.left = work[w].left
      BY <1>1, <3>1 DEF VaultInv, TypeOK, Works, At
    <3>3. work' = [work EXCEPT ![w] = new] /\ config' = cleared /\ UNCHANGED <<db, open, idle, guard>>
      BY <1>2, <2>1 DEF OpenRight, Unfinished
    <3> HIDE DEF cleared, new
    <3> QED BY <3>1, <3>2, <3>3, Becomes DEF VaultInv, TypeOK
  <2>2. CASE ~Unfinished(w)
    <3>1. /\ Done(w) /\ config' = config /\ open' = TRUE /\ idle' = FALSE /\ guard' = 0
          /\ db' = IF DbThere THEN db ELSE [key |-> config.everyday.key, rows |-> "bare"]
      BY <1>1, <1>2, <2>2 DEF OpenRight, Unfinished, At
    <3>2. config.everyday.key \in 0..MaxMade
      BY <1>2 DEF Configs, Wrapped
    <3> QED BY <2>2, <3>1, <3>2, Ends DEF VaultInv, TypeOK, DbThere
  <2> QED BY <2>1, <2>2
<1>5. ConfigThere' /\ (DbThere' \/ "left" \in bent) /\ (DbThere => DbThere')
  BY <1>2, <1>4, RestIs DEF VaultInv, ConfigSays, ConfigThere, DbThere
<1>6. TypeOK'
  BY <1>1, <1>2, <1>3, <1>4, <1>5 DEF VaultInv, TypeOK, Only, Keeps, kept
<1>7. Beside'
  BY <1>1, <1>2, <1>3, <1>4, <1>5, RestIs DEF VaultInv, TypeOK, Only, Keeps, Beside, At, Alone, Creates, Recovers, kept
<1>8. Guarded'
  BY <1>1, <1>2, <1>3, <1>4, <1>5, RestIs DEF VaultInv, TypeOK, Only, Keeps, Guarded, At, Tries, Threads, kept
<1>9. ConfigSays'
  BY <1>1, <1>2, <1>3, <1>4, <1>5 DEF VaultInv, TypeOK, Only, Keeps, ConfigSays, ConfigThere, kept
<1>10. Copied'
  BY <1>1, <1>2, <1>3, <1>4, <1>5, RestIs DEF VaultInv, TypeOK, Only, Keeps, Copied, At, Tries, ConfigThere, Counting, kept
<1>11. Opened'
  BY <1>1, <1>2, <1>3, <1>4, <1>5, RestIs DEF VaultInv, TypeOK, Only, Keeps, Opened, At, Creates, Recovers, Tries, DbThere,
     ConfigThere, kept
<1>12. Made'
  BY <1>1, <1>2, <1>3, <1>4, <1>5, RestIs DEF VaultInv, TypeOK, Only, Keeps, Made, Creates, At, ConfigThere, DbThere, kept
<1>13. Recovering'
  BY <1>1, <1>2, <1>3, <1>4, <1>5, RestIs DEF VaultInv, TypeOK, Only, Keeps, Recovering, At, Recovers, ConfigThere, DbThere,
     kept
<1>14. Erased'
  BY <1>1, <1>2, <1>3, <1>4, <1>5, RestIs, LeftsAre DEF VaultInv, TypeOK, Only, Keeps, Erased, At, DbThere, kept
<1>15. Waited'
  BY <1>1, <1>2, <1>3, <1>4, <1>5, RestIs DEF VaultInv, TypeOK, Only, Keeps, Waited, At, DbThere, ConfigThere, Tries, kept
<1>16. Keys'
  BY <1>1, <1>2, <1>3, <1>4, <1>5 DEF VaultInv, TypeOK, Only, Keeps, Keys, DbThere, ConfigThere, kept
<1>17. Counted'
  <2>1. Pending = (IF Unfinished(w) THEN 1 ELSE 0) /\ CanBeTried
    BY <1>1, <1>3 DEF Pending, Unfinished, CanBeTried, Tries, At
  <2>2. Pending' = 0
    BY <1>1, <1>3, <1>4, RestIs DEF Pending, Unfinished
  <2>3. CASE Unfinished(w)
    <3>1. config'.failed = 0
      BY <2>3, <1>4
    <3> QED BY <1>1, <2>2, <3>1 DEF Counted
  <2>4. CASE ~Unfinished(w)
    <3>1. config.limit > 0 => config.failed = 0
      BY <1>1, <1>2, <2>4 DEF VaultInv, ConfigSays, Unfinished, Counting, At
    <3>2. config' = config \/ config'.failed = 0
      BY <1>4
    <3> QED BY <1>1, <2>2, <3>1, <3>2 DEF Counted
  <2> QED BY <2>3, <2>4
<1> QED BY <1>6, <1>7, <1>8, <1>9, <1>10, <1>11, <1>12, <1>13, <1>14, <1>15, <1>16, <1>17 DEF VaultInv

-----------------------------------------------------------------------------
(* Recovering: the copy under the recovery key is the one that stays. *)
LEMMA RecoverKeeps ==
  ASSUME VaultInv, NEW w \in Threads, NEW p \in Typed, Recover(w, p)
  PROVE  VaultInv'
<1>1. /\ Only(w) /\ work'[w].at = "fresh" /\ work'[w].pass = p /\ work'[w].copy = config /\ work'[w].backup = FALSE /\ work'[w].left = <<>>
  <2> DEFINE new == [Rest EXCEPT !.at = "fresh", !.pass = p, !.copy = config]
  <2>1. new \in Works /\ new.at = "fresh" /\ new.pass = p /\ new.copy = config /\ new.backup = FALSE /\ new.left = <<>>
    BY RestIs DEF VaultInv, TypeOK, Works, Steps
  <2>2. work' = [work EXCEPT ![w] = new]
    BY DEF Recover
  <2> HIDE DEF new
  <2> QED BY <2>1, <2>2, Becomes DEF VaultInv, TypeOK
<1>2. /\ \A v \in Threads : At(v, "rest") /\ work[v].left = <<>>
      /\ ~open /\ DbThere /\ ConfigThere /\ made < MaxMade /\ unlocks' \in 0..MaxUnlocks /\ word \subseteq word' /\ word' \subseteq Typed
      /\ (kind = "phone" => p # NoPass)
  BY RestIs, VaultBoundsAssumption DEF VaultInv, TypeOK, Beside, Recover, Waits, SetUp
<1>3. UNCHANGED <<kind, db, config, secret, open, idle, guard, hand, wrong, broken, asked, bent, made, faults>>
  BY DEF Recover
<1>4. TypeOK'
  BY <1>1, <1>2, <1>3 DEF VaultInv, TypeOK, Only, Keeps
<1>5. Beside'
  BY <1>1, <1>2, <1>3 DEF VaultInv, TypeOK, Only, Keeps, Beside, At, Alone, Creates, Recovers
<1>6. Guarded'
  BY <1>1, <1>2, <1>3 DEF VaultInv, TypeOK, Only, Keeps, Guarded, At, Tries, Threads
<1>7. ConfigSays'
  BY <1>1, <1>2, <1>3 DEF VaultInv, TypeOK, Only, Keeps, ConfigSays, ConfigThere
<1>8. Copied'
  BY <1>1, <1>2, <1>3 DEF VaultInv, TypeOK, Only, Keeps, Copied, At, Tries, ConfigThere, Counting
<1>9. Opened'
  BY <1>1, <1>2, <1>3 DEF VaultInv, TypeOK, Only, Keeps, Opened, At, Creates, Recovers, Tries, DbThere, ConfigThere
<1>10. Made'
  BY <1>1, <1>2, <1>3 DEF VaultInv, TypeOK, Only, Keeps, Made, Creates, At, ConfigThere, DbThere
<1>11. Recovering'
  BY <1>1, <1>2, <1>3 DEF VaultInv, TypeOK, Only, Keeps, Recovering, At, Recovers, ConfigThere, DbThere
<1>12. Erased'
  BY <1>1, <1>2, <1>3, LeftsAre DEF VaultInv, TypeOK, Only, Keeps, Erased, At, DbThere
<1>13. Waited'
  BY <1>1, <1>2, <1>3 DEF VaultInv, TypeOK, Only, Keeps, Waited, At, DbThere, ConfigThere, Tries
<1>14. Keys'
  BY <1>1, <1>2, <1>3 DEF VaultInv, TypeOK, Only, Keeps, Keys, DbThere, ConfigThere
<1>15. Counted'
  BY <1>1, <1>2, <1>3 DEF VaultInv, TypeOK, Only, Keeps, Counted, Configs, Pending, CanBeTried, Unfinished, Counting, DbThere,
     Tries, At
<1> QED BY <1>4, <1>5, <1>6, <1>7, <1>8, <1>9, <1>10, <1>11, <1>12, <1>13, <1>14, <1>15 DEF VaultInv

LEMMA FreshSecretKeeps ==
  ASSUME VaultInv, NEW w \in Threads, FreshSecret(w)
  PROVE  VaultInv'
<1>1. Only(w) /\ Keeps(w) /\ At(w, "fresh") /\ work'[w].at = "rewrap"
  BY Goes DEF VaultInv, TypeOK, Steps, FreshSecret, At
<1>2. /\ \A v \in Threads : v # w => At(v, "rest") /\ work'[v] = work[v]
      /\ ~open /\ DbThere /\ ConfigThere /\ made < MaxMade
  BY <1>1 DEF VaultInv, Beside, Alone, Creates, Recovers, Recovering, Opened, At, Only
<1>3. secret' \in 0..MaxMade /\ made' \in 0..MaxMade /\ secret' # 0 /\ (secret # 0 => secret' = secret)
  BY <1>2, VaultBoundsAssumption DEF FreshSecret, VaultInv, TypeOK
<1>4. UNCHANGED <<kind, db, config, open, idle, guard, kept, tried, asked, bent, faults>>
  BY DEF FreshSecret
<1>5. TypeOK'
  BY <1>1, <1>2, <1>3, <1>4 DEF VaultInv, TypeOK, Only, Keeps, kept, tried
<1>6. Beside'
  BY <1>1, <1>2, <1>3, <1>4 DEF VaultInv, TypeOK, Only, Keeps, Beside, At, Alone, Creates, Recovers, kept, tried
<1>7. Guarded'
  BY <1>1, <1>2, <1>3, <1>4 DEF VaultInv, TypeOK, Only, Keeps, Guarded, At, Tries, Threads, kept, tried
<1>8. ConfigSays'
  BY <1>1, <1>2, <1>3, <1>4 DEF VaultInv, TypeOK, Only, Keeps, ConfigSays, ConfigThere, kept, tried
<1>9. Copied'
  BY <1>1, <1>2, <1>3, <1>4 DEF VaultInv, TypeOK, Only, Keeps, Copied, At, Tries, ConfigThere, Counting, kept, tried
<1>10. Opened'
  BY <1>1, <1>2, <1>3, <1>4 DEF VaultInv, TypeOK, Only, Keeps, Opened, At, Creates, Recovers, Tries, DbThere, ConfigThere, kept,
     tried
<1>11. Made'
  BY <1>1, <1>2, <1>3, <1>4 DEF VaultInv, TypeOK, Only, Keeps, Made, Creates, At, ConfigThere, DbThere, kept, tried
<1>12. Recovering'
  BY <1>1, <1>2, <1>3, <1>4 DEF VaultInv, TypeOK, Only, Keeps, Recovering, At, Recovers, ConfigThere, DbThere, kept, tried
<1>13. Erased'
  BY <1>1, <1>2, <1>3, <1>4, LeftsAre DEF VaultInv, TypeOK, Only, Keeps, Erased, At, DbThere, kept, tried
<1>14. Waited'
  BY <1>1, <1>2, <1>3, <1>4 DEF VaultInv, TypeOK, Only, Keeps, Waited, At, DbThere, ConfigThere, Tries, kept, tried
<1>15. Keys'
  <2>1. "left" \notin bent => ConfigThere /\ config.everyday.by[1] # 0
    BY <1>2 DEF VaultInv, ConfigSays
  <2>2. "left" \notin bent /\ "secret" \notin bent => secret' = secret
    BY <1>2, <1>3, <2>1 DEF VaultInv, Keys, Kek
  <2> QED BY <1>4, <2>2 DEF VaultInv, Keys, DbThere, ConfigThere, kept
<1>16. Counted'
  BY <1>1, <1>2, <1>3, <1>4 DEF VaultInv, TypeOK, Only, Keeps, Counted, Configs, Pending, CanBeTried, Unfinished, Counting,
     DbThere, Tries, At, kept, tried
<1> QED BY <1>5, <1>6, <1>7, <1>8, <1>9, <1>10, <1>11, <1>12, <1>13, <1>14, <1>15, <1>16 DEF VaultInv

LEMMA RewrapKeeps ==
  ASSUME VaultInv, NEW w \in Threads, Rewrap(w)
  PROVE  VaultInv'
<1>1. Only(w) /\ Keeps(w) /\ At(w, "rewrap") /\ work'[w].at = "recovered"
  BY Goes DEF VaultInv, TypeOK, Steps, Rewrap, At
<1>2. /\ \A v \in Threads : v # w => At(v, "rest") /\ work'[v] = work[v]
      /\ ~open /\ DbThere /\ ConfigThere /\ secret # 0 /\ work[w].copy = config
  BY <1>1 DEF VaultInv, Beside, Alone, Creates, Recovers, Recovering, Opened, Copied, At, Only
<1>3. kind = "phone" => work[w].pass # NoPass
  BY <1>1, <1>2 DEF VaultInv, Recovering, At
<1>4. /\ config' \in Configs /\ config'.everyday = Wrap(Kek(secret, work[w].pass), config.everyday.key) /\ config'.recovery = config.recovery
      /\ config'.limit = config.limit /\ config'.failed = 0 /\ (work[w].pass # NoPass => config'.pass = TRUE)
  <2>1. config \in Configs /\ work[w] \in Works /\ secret \in 0..MaxMade
    BY DEF VaultInv, TypeOK
  <2> DEFINE copy == Wrap(Kek(secret, work[w].pass), config.everyday.key)
  <2>2. copy \in Wrapped
    BY <2>1 DEF Wrap, Kek, Wrapped, Configs, Works
  <2> DEFINE fresh == [config EXCEPT !.pass = work[w].pass # NoPass, !.failed = 0, !.everyday = copy]
  <2>3. config' = fresh
    BY <1>2 DEF Rewrap
  <2> HIDE DEF copy
  <2>4. /\ fresh \in Configs /\ fresh.everyday = copy /\ fresh.recovery = config.recovery /\ fresh.limit = config.limit
        /\ fresh.failed = 0 /\ (work[w].pass # NoPass => fresh.pass = TRUE)
    BY <2>1, <2>2 DEF Configs
  <2> HIDE DEF fresh
  <2> QED BY <2>3, <2>4 DEF copy
<1>5. ConfigThere' /\ config'.everyday.by[1] # 0
  BY <1>2, <1>4, RestIs DEF ConfigThere, Wrap, Kek
<1>6. word' = {work[w].pass} /\ word' \subseteq Typed /\ wrong' = 0 /\ broken' = 0 /\ bent' = bent \ {"secret"}
  BY DEF Rewrap, VaultInv, TypeOK, Works
<1>7. UNCHANGED <<kind, db, secret, open, idle, guard, hand, asked, made, unlocks, faults>>
  BY DEF Rewrap
<1>8. TypeOK'
  BY <1>1, <1>2, <1>3, <1>4, <1>5, <1>6, <1>7 DEF VaultInv, TypeOK, Only, Keeps
<1>9. Beside'
  BY <1>1, <1>2, <1>3, <1>4, <1>5, <1>6, <1>7 DEF VaultInv, TypeOK, Only, Keeps, Beside, At, Alone, Creates, Recovers
<1>10. Guarded'
  BY <1>1, <1>2, <1>3, <1>4, <1>5, <1>6, <1>7 DEF VaultInv, TypeOK, Only, Keeps, Guarded, At, Tries, Threads
<1>11. ConfigSays'
  BY <1>1, <1>2, <1>3, <1>4, <1>5, <1>6, <1>7 DEF VaultInv, TypeOK, Only, Keeps, ConfigSays, ConfigThere
<1>12. Copied'
  BY <1>1, <1>2, <1>3, <1>4, <1>5, <1>6, <1>7 DEF VaultInv, TypeOK, Only, Keeps, Copied, At, Tries, ConfigThere, Counting
<1>13. Opened'
  BY <1>1, <1>2, <1>3, <1>4, <1>5, <1>6, <1>7 DEF VaultInv, TypeOK, Only, Keeps, Opened, At, Creates, Recovers, Tries, DbThere,
     ConfigThere
<1>14. Made'
  BY <1>1, <1>2, <1>3, <1>4, <1>5, <1>6, <1>7 DEF VaultInv, TypeOK, Only, Keeps, Made, Creates, At, ConfigThere, DbThere
<1>15. Recovering'
  BY <1>1, <1>2, <1>3, <1>4, <1>5, <1>6, <1>7 DEF VaultInv, TypeOK, Only, Keeps, Recovering, At, Recovers, ConfigThere, DbThere
<1>16. Erased'
  BY <1>1, <1>2, <1>3, <1>4, <1>5, <1>6, <1>7, LeftsAre DEF VaultInv, TypeOK, Only, Keeps, Erased, At, DbThere
<1>17. Waited'
  BY <1>1, <1>2, <1>3, <1>4, <1>5, <1>6, <1>7 DEF VaultInv, TypeOK, Only, Keeps, Waited, At, DbThere, ConfigThere, Tries
<1>18. Keys'
  BY <1>1, <1>2, <1>3, <1>4, <1>5, <1>6, <1>7 DEF VaultInv, TypeOK, Only, Keeps, Keys, DbThere, ConfigThere, Wrap, Kek
<1>19. Counted'
  BY <1>1, <1>2, <1>3, <1>4, <1>5, <1>6, <1>7 DEF VaultInv, TypeOK, Only, Keeps, Counted, Configs, Pending, CanBeTried,
     Unfinished, Counting, DbThere, Tries, At
<1> QED BY <1>8, <1>9, <1>10, <1>11, <1>12, <1>13, <1>14, <1>15, <1>16, <1>17, <1>18, <1>19 DEF VaultInv

LEMMA RecoveredKeeps ==
  ASSUME VaultInv, NEW w \in Threads, Recovered(w)
  PROVE  VaultInv'
<1>1. Only(w) /\ At(w, "recovered") /\ work'[w] = Rest
  BY Ends DEF VaultInv, TypeOK, Recovered
<1>2. /\ \A v \in Threads : v # w => At(v, "rest") /\ work'[v] = work[v]
      /\ DbThere /\ ConfigThere
  BY <1>1 DEF VaultInv, Beside, Alone, Creates, Recovers, Recovering, At, Only
<1>3. open' = TRUE /\ idle' = FALSE /\ UNCHANGED <<kind, db, config, secret, guard, kept, tried, asked, bent, made, faults>>
  BY DEF Recovered
<1>4. TypeOK'
  BY <1>1, <1>2, <1>3 DEF VaultInv, TypeOK, Only, Keeps, kept, tried
<1>5. Beside'
  BY <1>1, <1>2, <1>3, RestIs DEF VaultInv, TypeOK, Only, Keeps, Beside, At, Alone, Creates, Recovers, kept, tried
<1>6. Guarded'
  BY <1>1, <1>2, <1>3, RestIs DEF VaultInv, TypeOK, Only, Keeps, Guarded, At, Tries, Threads, kept, tried
<1>7. ConfigSays'
  BY <1>1, <1>2, <1>3 DEF VaultInv, TypeOK, Only, Keeps, ConfigSays, ConfigThere, kept, tried
<1>8. Copied'
  BY <1>1, <1>2, <1>3, RestIs DEF VaultInv, TypeOK, Only, Keeps, Copied, At, Tries, ConfigThere, Counting, kept, tried
<1>9. Opened'
  BY <1>1, <1>2, <1>3, RestIs DEF VaultInv, TypeOK, Only, Keeps, Opened, At, Creates, Recovers, Tries, DbThere, ConfigThere,
     kept, tried
<1>10. Made'
  BY <1>1, <1>2, <1>3, RestIs DEF VaultInv, TypeOK, Only, Keeps, Made, Creates, At, ConfigThere, DbThere, kept, tried
<1>11. Recovering'
  BY <1>1, <1>2, <1>3, RestIs DEF VaultInv, TypeOK, Only, Keeps, Recovering, At, Recovers, ConfigThere, DbThere, kept, tried
<1>12. Erased'
  BY <1>1, <1>2, <1>3, RestIs, LeftsAre DEF VaultInv, TypeOK, Only, Keeps, Erased, At, DbThere, kept, tried
<1>13. Waited'
  BY <1>1, <1>2, <1>3, RestIs DEF VaultInv, TypeOK, Only, Keeps, Waited, At, DbThere, ConfigThere, Tries, kept, tried
<1>14. Keys'
  BY <1>1, <1>2, <1>3 DEF VaultInv, TypeOK, Only, Keeps, Keys, DbThere, ConfigThere, kept, tried
<1>15. Counted'
  BY <1>1, <1>2, <1>3, RestIs DEF VaultInv, TypeOK, Only, Keeps, Counted, Configs, Pending, CanBeTried, Unfinished, Counting,
     DbThere, Tries, At, kept, tried
<1> QED BY <1>4, <1>5, <1>6, <1>7, <1>8, <1>9, <1>10, <1>11, <1>12, <1>13, <1>14, <1>15 DEF VaultInv

LEMMA NewRecoveryKeyKeeps ==
  ASSUME VaultInv, NEW w \in Threads, NewRecoveryKey(w)
  PROVE  VaultInv'
<1>1. Only(w) /\ Keeps(w) /\ work'[w].at = "show"
  BY Goes DEF VaultInv, TypeOK, Steps, NewRecoveryKey
<1>2. /\ \A v \in Threads : At(v, "rest") /\ work[v].left = <<>>
      /\ open /\ DbThere /\ ConfigThere /\ made' = made + 1 /\ made' \in 0..MaxMade
  BY RestIs, VaultBoundsAssumption DEF VaultInv, TypeOK, Beside, Opened, NewRecoveryKey, Waits
<1>3. /\ config' \in Configs /\ config'.everyday = config.everyday /\ config'.recovery.by[2] = NoPass /\ config'.recovery.key = config.everyday.key
      /\ config'.limit = config.limit /\ config'.failed = config.failed /\ config'.pass = config.pass
  <2> DEFINE copy == Wrap(RecoveryKek(made + 1), config.everyday.key)
  <2>1. copy \in Wrapped /\ copy.by[2] = NoPass /\ copy.key = config.everyday.key
    BY <1>2 DEF VaultInv, TypeOK, Wrap, RecoveryKek, Wrapped, Configs, Typed, NoPass
  <2> DEFINE fresh == [config EXCEPT !.recovery = copy]
  <2>2. config' = fresh
    BY DEF NewRecoveryKey
  <2> HIDE DEF copy
  <2>3. /\ fresh \in Configs /\ fresh.everyday = config.everyday /\ fresh.recovery = copy
        /\ fresh.limit = config.limit /\ fresh.failed = config.failed /\ fresh.pass = config.pass
    BY <2>1 DEF VaultInv, TypeOK, Configs
  <2> HIDE DEF fresh
  <2> QED BY <2>1, <2>2, <2>3
<1>4. ConfigThere'
  BY <1>2, <1>3, RestIs DEF VaultInv, ConfigSays, ConfigThere
<1>5. bent' = bent \cup {"recovery"} /\ UNCHANGED <<kind, db, secret, open, idle, guard, kept, tried, asked, faults>>
  BY DEF NewRecoveryKey
<1>6. TypeOK'
  BY <1>1, <1>2, <1>3, <1>4, <1>5 DEF VaultInv, TypeOK, Only, Keeps, kept, tried
<1>7. Beside'
  BY <1>1, <1>2, <1>3, <1>4, <1>5 DEF VaultInv, TypeOK, Only, Keeps, Beside, At, Alone, Creates, Recovers, kept, tried
<1>8. Guarded'
  BY <1>1, <1>2, <1>3, <1>4, <1>5 DEF VaultInv, TypeOK, Only, Keeps, Guarded, At, Tries, Threads, kept, tried
<1>9. ConfigSays'
  BY <1>1, <1>2, <1>3, <1>4, <1>5 DEF VaultInv, TypeOK, Only, Keeps, ConfigSays, ConfigThere, kept, tried
<1>10. Copied'
  BY <1>1, <1>2, <1>3, <1>4, <1>5 DEF VaultInv, TypeOK, Only, Keeps, Copied, At, Tries, ConfigThere, Counting, kept, tried
<1>11. Opened'
  BY <1>1, <1>2, <1>3, <1>4, <1>5 DEF VaultInv, TypeOK, Only, Keeps, Opened, At, Creates, Recovers, Tries, DbThere, ConfigThere,
     kept, tried
<1>12. Made'
  BY <1>1, <1>2, <1>3, <1>4, <1>5 DEF VaultInv, TypeOK, Only, Keeps, Made, Creates, At, ConfigThere, DbThere, kept, tried
<1>13. Recovering'
  BY <1>1, <1>2, <1>3, <1>4, <1>5 DEF VaultInv, TypeOK, Only, Keeps, Recovering, At, Recovers, ConfigThere, DbThere, kept, tried
<1>14. Erased'
  BY <1>1, <1>2, <1>3, <1>4, <1>5, LeftsAre DEF VaultInv, TypeOK, Only, Keeps, Erased, At, DbThere, kept, tried
<1>15. Waited'
  BY <1>1, <1>2, <1>3, <1>4, <1>5 DEF VaultInv, TypeOK, Only, Keeps, Waited, At, DbThere, ConfigThere, Tries, kept, tried
<1>16. Keys'
  BY <1>1, <1>2, <1>3, <1>4, <1>5 DEF VaultInv, TypeOK, Only, Keeps, Keys, DbThere, ConfigThere, kept, tried
<1>17. Counted'
  BY <1>1, <1>2, <1>3, <1>4, <1>5 DEF VaultInv, TypeOK, Only, Keeps, Counted, Configs, Pending, CanBeTried, Unfinished,
     Counting, DbThere, Tries, At, kept, tried
<1> QED BY <1>6, <1>7, <1>8, <1>9, <1>10, <1>11, <1>12, <1>13, <1>14, <1>15, <1>16, <1>17 DEF VaultInv

-----------------------------------------------------------------------------
(* An open vault, and closing it. *)
LEMMA UseKeeps ==
  ASSUME VaultInv, Use
  PROVE  VaultInv'
<1>1. /\ \A v \in Threads : At(v, "rest") /\ work[v].left = <<>>
      /\ DbThere
  BY RestIs DEF VaultInv, Beside, Opened, Use, Waits
<1>2. db' \in [key : 0..MaxMade, rows : {"none", "bare", "empty", "own", "copy"}] /\ db'.key = db.key /\ DbThere'
  BY DEF Use, VaultInv, TypeOK, DbThere
<1>3. work' = work /\ idle' = FALSE /\ UNCHANGED <<kind, config, secret, open, work, guard, kept, tried, asked, bent, made, faults>>
  BY DEF Use
<1>4. TypeOK'
  BY <1>1, <1>2, <1>3 DEF VaultInv, TypeOK, kept, tried
<1>5. Beside'
  BY <1>1, <1>2, <1>3 DEF VaultInv, TypeOK, Beside, At, Alone, Creates, Recovers, kept, tried
<1>6. Guarded'
  BY <1>1, <1>2, <1>3 DEF VaultInv, TypeOK, Guarded, At, Tries, Threads, kept, tried
<1>7. ConfigSays'
  BY <1>1, <1>2, <1>3 DEF VaultInv, TypeOK, ConfigSays, ConfigThere, kept, tried
<1>8. Copied'
  BY <1>1, <1>2, <1>3 DEF VaultInv, TypeOK, Copied, At, Tries, ConfigThere, Counting, kept, tried
<1>9. Opened'
  BY <1>1, <1>2, <1>3 DEF VaultInv, TypeOK, Opened, At, Creates, Recovers, Tries, DbThere, ConfigThere, kept, tried
<1>10. Made'
  BY <1>1, <1>2, <1>3 DEF VaultInv, TypeOK, Made, Creates, At, ConfigThere, DbThere, kept, tried
<1>11. Recovering'
  BY <1>1, <1>2, <1>3 DEF VaultInv, TypeOK, Recovering, At, Recovers, ConfigThere, DbThere, kept, tried
<1>12. Erased'
  BY <1>1, <1>2, <1>3, LeftsAre DEF VaultInv, TypeOK, Erased, At, DbThere, kept, tried
<1>13. Waited'
  BY <1>1, <1>2, <1>3 DEF VaultInv, TypeOK, Waited, At, DbThere, ConfigThere, Tries, kept, tried
<1>14. Keys'
  BY <1>1, <1>2, <1>3 DEF VaultInv, TypeOK, Keys, DbThere, ConfigThere, kept, tried
<1>15. Counted'
  BY <1>1, <1>2, <1>3 DEF VaultInv, TypeOK, Counted, Configs, Pending, CanBeTried, Unfinished, Counting, DbThere, Tries, At,
     kept, tried
<1> QED BY <1>4, <1>5, <1>6, <1>7, <1>8, <1>9, <1>10, <1>11, <1>12, <1>13, <1>14, <1>15 DEF VaultInv

LEMMA SaveLockPrefsKeeps ==
  ASSUME VaultInv, SaveLockPrefs
  PROVE  VaultInv'
<1>1. /\ \A v \in Threads : At(v, "rest") /\ work[v].left = <<>>
      /\ open /\ DbThere /\ ConfigThere
  BY RestIs DEF VaultInv, Beside, Opened, SaveLockPrefs, Waits
<1>2. /\ config' \in Configs /\ config'.pass = config.pass /\ config'.everyday = config.everyday /\ config'.recovery = config.recovery
      /\ config'.limit = config.limit /\ config'.failed = config.failed
  BY DEF SaveLockPrefs, VaultInv, TypeOK, Configs
<1>3. ConfigThere'
  BY <1>1, <1>2, RestIs DEF VaultInv, ConfigSays, ConfigThere
<1>4. work' = work /\ UNCHANGED <<kind, db, secret, open, idle, work, guard, kept, tried, asked, bent, made, faults>>
  BY DEF SaveLockPrefs
<1>5. TypeOK'
  BY <1>1, <1>2, <1>3, <1>4 DEF VaultInv, TypeOK, kept, tried
<1>6. Beside'
  BY <1>1, <1>2, <1>3, <1>4 DEF VaultInv, TypeOK, Beside, At, Alone, Creates, Recovers, kept, tried
<1>7. Guarded'
  BY <1>1, <1>2, <1>3, <1>4 DEF VaultInv, TypeOK, Guarded, At, Tries, Threads, kept, tried
<1>8. ConfigSays'
  BY <1>1, <1>2, <1>3, <1>4 DEF VaultInv, TypeOK, ConfigSays, ConfigThere, kept, tried
<1>9. Copied'
  BY <1>1, <1>2, <1>3, <1>4 DEF VaultInv, TypeOK, Copied, At, Tries, ConfigThere, Counting, kept, tried
<1>10. Opened'
  BY <1>1, <1>2, <1>3, <1>4 DEF VaultInv, TypeOK, Opened, At, Creates, Recovers, Tries, DbThere, ConfigThere, kept, tried
<1>11. Made'
  BY <1>1, <1>2, <1>3, <1>4 DEF VaultInv, TypeOK, Made, Creates, At, ConfigThere, DbThere, kept, tried
<1>12. Recovering'
  BY <1>1, <1>2, <1>3, <1>4 DEF VaultInv, TypeOK, Recovering, At, Recovers, ConfigThere, DbThere, kept, tried
<1>13. Erased'
  BY <1>1, <1>2, <1>3, <1>4, LeftsAre DEF VaultInv, TypeOK, Erased, At, DbThere, kept, tried
<1>14. Waited'
  BY <1>1, <1>2, <1>3, <1>4 DEF VaultInv, TypeOK, Waited, At, DbThere, ConfigThere, Tries, kept, tried
<1>15. Keys'
  BY <1>1, <1>2, <1>3, <1>4 DEF VaultInv, TypeOK, Keys, DbThere, ConfigThere, kept, tried
<1>16. Counted'
  BY <1>1, <1>2, <1>3, <1>4 DEF VaultInv, TypeOK, Counted, Configs, Pending, CanBeTried, Unfinished, Counting, DbThere, Tries,
     At, kept, tried
<1> QED BY <1>5, <1>6, <1>7, <1>8, <1>9, <1>10, <1>11, <1>12, <1>13, <1>14, <1>15, <1>16 DEF VaultInv

LEMMA LockKeeps ==
  ASSUME VaultInv, Lock
  PROVE  VaultInv'
<1>1. work' = work /\ open' = FALSE /\ UNCHANGED <<kind, db, config, secret, idle, guard, kept, tried, asked, bent, made, faults>>
  BY DEF Lock
<1>2. TypeOK'
  BY <1>1 DEF VaultInv, TypeOK, kept, tried
<1>3. Beside'
  BY <1>1 DEF VaultInv, TypeOK, Beside, At, Alone, Creates, Recovers, kept, tried
<1>4. Guarded'
  BY <1>1 DEF VaultInv, TypeOK, Guarded, At, Tries, Threads, kept, tried
<1>5. ConfigSays'
  BY <1>1 DEF VaultInv, TypeOK, ConfigSays, ConfigThere, kept, tried
<1>6. Copied'
  BY <1>1 DEF VaultInv, TypeOK, Copied, At, Tries, ConfigThere, Counting, kept, tried
<1>7. Opened'
  BY <1>1 DEF VaultInv, TypeOK, Opened, At, Creates, Recovers, Tries, DbThere, ConfigThere, kept, tried
<1>8. Made'
  BY <1>1 DEF VaultInv, TypeOK, Made, Creates, At, ConfigThere, DbThere, kept, tried
<1>9. Recovering'
  BY <1>1 DEF VaultInv, TypeOK, Recovering, At, Recovers, ConfigThere, DbThere, kept, tried
<1>10. Erased'
  BY <1>1, LeftsAre DEF VaultInv, TypeOK, Erased, At, DbThere, kept, tried
<1>11. Waited'
  BY <1>1 DEF VaultInv, TypeOK, Waited, At, DbThere, ConfigThere, Tries, kept, tried
<1>12. Keys'
  BY <1>1 DEF VaultInv, TypeOK, Keys, DbThere, ConfigThere, kept, tried
<1>13. Counted'
  BY <1>1 DEF VaultInv, TypeOK, Counted, Configs, Pending, CanBeTried, Unfinished, Counting, DbThere, Tries, At, kept, tried
<1> QED BY <1>2, <1>3, <1>4, <1>5, <1>6, <1>7, <1>8, <1>9, <1>10, <1>11, <1>12, <1>13 DEF VaultInv

LEMMA TimePassesKeeps ==
  ASSUME VaultInv, TimePasses
  PROVE  VaultInv'
<1>1. work' = work /\ idle' = TRUE /\ UNCHANGED <<kind, db, config, secret, open, guard, kept, tried, asked, bent, made, faults>>
  BY DEF TimePasses
<1>2. TypeOK'
  BY <1>1 DEF VaultInv, TypeOK, kept, tried
<1>3. Beside'
  BY <1>1 DEF VaultInv, TypeOK, Beside, At, Alone, Creates, Recovers, kept, tried
<1>4. Guarded'
  BY <1>1 DEF VaultInv, TypeOK, Guarded, At, Tries, Threads, kept, tried
<1>5. ConfigSays'
  BY <1>1 DEF VaultInv, TypeOK, ConfigSays, ConfigThere, kept, tried
<1>6. Copied'
  BY <1>1 DEF VaultInv, TypeOK, Copied, At, Tries, ConfigThere, Counting, kept, tried
<1>7. Opened'
  BY <1>1 DEF VaultInv, TypeOK, Opened, At, Creates, Recovers, Tries, DbThere, ConfigThere, kept, tried
<1>8. Made'
  BY <1>1 DEF VaultInv, TypeOK, Made, Creates, At, ConfigThere, DbThere, kept, tried
<1>9. Recovering'
  BY <1>1 DEF VaultInv, TypeOK, Recovering, At, Recovers, ConfigThere, DbThere, kept, tried
<1>10. Erased'
  BY <1>1, LeftsAre DEF VaultInv, TypeOK, Erased, At, DbThere, kept, tried
<1>11. Waited'
  BY <1>1 DEF VaultInv, TypeOK, Waited, At, DbThere, ConfigThere, Tries, kept, tried
<1>12. Keys'
  BY <1>1 DEF VaultInv, TypeOK, Keys, DbThere, ConfigThere, kept, tried
<1>13. Counted'
  BY <1>1 DEF VaultInv, TypeOK, Counted, Configs, Pending, CanBeTried, Unfinished, Counting, DbThere, Tries, At, kept, tried
<1> QED BY <1>2, <1>3, <1>4, <1>5, <1>6, <1>7, <1>8, <1>9, <1>10, <1>11, <1>12, <1>13 DEF VaultInv

LEMMA LockIfIdleKeeps ==
  ASSUME VaultInv, LockIfIdle
  PROVE  VaultInv'
<1>1. work' = work /\ open' = FALSE /\ UNCHANGED <<kind, db, config, secret, idle, guard, kept, tried, asked, bent, made, faults>>
  BY DEF LockIfIdle
<1>2. TypeOK'
  BY <1>1 DEF VaultInv, TypeOK, kept, tried
<1>3. Beside'
  BY <1>1 DEF VaultInv, TypeOK, Beside, At, Alone, Creates, Recovers, kept, tried
<1>4. Guarded'
  BY <1>1 DEF VaultInv, TypeOK, Guarded, At, Tries, Threads, kept, tried
<1>5. ConfigSays'
  BY <1>1 DEF VaultInv, TypeOK, ConfigSays, ConfigThere, kept, tried
<1>6. Copied'
  BY <1>1 DEF VaultInv, TypeOK, Copied, At, Tries, ConfigThere, Counting, kept, tried
<1>7. Opened'
  BY <1>1 DEF VaultInv, TypeOK, Opened, At, Creates, Recovers, Tries, DbThere, ConfigThere, kept, tried
<1>8. Made'
  BY <1>1 DEF VaultInv, TypeOK, Made, Creates, At, ConfigThere, DbThere, kept, tried
<1>9. Recovering'
  BY <1>1 DEF VaultInv, TypeOK, Recovering, At, Recovers, ConfigThere, DbThere, kept, tried
<1>10. Erased'
  BY <1>1, LeftsAre DEF VaultInv, TypeOK, Erased, At, DbThere, kept, tried
<1>11. Waited'
  BY <1>1 DEF VaultInv, TypeOK, Waited, At, DbThere, ConfigThere, Tries, kept, tried
<1>12. Keys'
  BY <1>1 DEF VaultInv, TypeOK, Keys, DbThere, ConfigThere, kept, tried
<1>13. Counted'
  BY <1>1 DEF VaultInv, TypeOK, Counted, Configs, Pending, CanBeTried, Unfinished, Counting, DbThere, Tries, At, kept, tried
<1> QED BY <1>2, <1>3, <1>4, <1>5, <1>6, <1>7, <1>8, <1>9, <1>10, <1>11, <1>12, <1>13 DEF VaultInv

LEMMA LoseSecretKeeps ==
  ASSUME VaultInv, LoseSecret
  PROVE  VaultInv'
<1>1. /\ \A v \in Threads : At(v, "rest") /\ work[v].left = <<>>
      /\ faults' \in 0..MaxFaults
  BY RestIs, VaultBoundsAssumption DEF VaultInv, TypeOK, Beside, LoseSecret, Waits
<1>2. work' = work /\ secret' = 0 /\ bent' = bent \cup {"secret"} /\ UNCHANGED <<kind, db, config, open, idle, guard, kept, tried, asked, made>>
  BY DEF LoseSecret
<1>3. TypeOK'
  BY <1>1, <1>2, VaultBoundsAssumption DEF VaultInv, TypeOK, kept, tried
<1>4. Beside'
  BY <1>1, <1>2 DEF VaultInv, TypeOK, Beside, At, Alone, Creates, Recovers, kept, tried
<1>5. Guarded'
  BY <1>1, <1>2 DEF VaultInv, TypeOK, Guarded, At, Tries, Threads, kept, tried
<1>6. ConfigSays'
  BY <1>1, <1>2 DEF VaultInv, TypeOK, ConfigSays, ConfigThere, kept, tried
<1>7. Copied'
  BY <1>1, <1>2 DEF VaultInv, TypeOK, Copied, At, Tries, ConfigThere, Counting, kept, tried
<1>8. Opened'
  BY <1>1, <1>2 DEF VaultInv, TypeOK, Opened, At, Creates, Recovers, Tries, DbThere, ConfigThere, kept, tried
<1>9. Made'
  BY <1>1, <1>2 DEF VaultInv, TypeOK, Made, Creates, At, ConfigThere, DbThere, kept, tried
<1>10. Recovering'
  BY <1>1, <1>2 DEF VaultInv, TypeOK, Recovering, At, Recovers, ConfigThere, DbThere, kept, tried
<1>11. Erased'
  BY <1>1, <1>2, LeftsAre DEF VaultInv, TypeOK, Erased, At, DbThere, kept, tried
<1>12. Waited'
  BY <1>1, <1>2 DEF VaultInv, TypeOK, Waited, At, DbThere, ConfigThere, Tries, kept, tried
<1>13. Keys'
  BY <1>1, <1>2 DEF VaultInv, TypeOK, Keys, DbThere, ConfigThere, kept, tried
<1>14. Counted'
  BY <1>1, <1>2 DEF VaultInv, TypeOK, Counted, Configs, Pending, CanBeTried, Unfinished, Counting, DbThere, Tries, At, kept,
     tried
<1> QED BY <1>3, <1>4, <1>5, <1>6, <1>7, <1>8, <1>9, <1>10, <1>11, <1>12, <1>13, <1>14 DEF VaultInv

-----------------------------------------------------------------------------
(* Erasing, and what goes wrong. *)
LEMMA WipeKeeps ==
  ASSUME VaultInv, NEW w \in Threads, Wipe(w)
  PROVE  VaultInv'
<1>1. Only(w) /\ work'[w].at = "erase" /\ work'[w].left = Everything /\ work'[w].backup = FALSE /\ At(w, "rest")
  BY Erases DEF VaultInv, TypeOK, Wipe
<1>2. /\ DbThere /\ open' = FALSE /\ asked' = "person"
      /\ UNCHANGED <<kind, db, config, secret, idle, guard, kept, tried, bent, made, faults>>
  BY DEF Wipe, SetUp
<1>3. \A v \in Threads : work[v].at \in {"rest", "replace"} /\ ~work[v].backup /\ (v # w => work'[v] = work[v])
  BY <1>1 DEF Wipe, Only
<1>4. TypeOK'
  BY <1>1, <1>2, <1>3 DEF VaultInv, TypeOK, Only, Keeps, kept, tried
<1>5. Beside'
  BY <1>1, <1>2, <1>3, RestIs, LeftsAre DEF VaultInv, TypeOK, Only, Keeps, Beside, At, Alone, Creates, Recovers, kept, tried
<1>6. Guarded'
  BY <1>1, <1>2, <1>3, RestIs, LeftsAre DEF VaultInv, TypeOK, Only, Keeps, Guarded, At, Tries, Threads, kept, tried
<1>7. ConfigSays'
  BY <1>1, <1>2, <1>3 DEF VaultInv, TypeOK, Only, Keeps, ConfigSays, ConfigThere, kept, tried
<1>8. Copied'
  BY <1>1, <1>2, <1>3, RestIs, LeftsAre DEF VaultInv, TypeOK, Only, Keeps, Copied, At, Tries, ConfigThere, Counting, kept, tried
<1>9. Opened'
  BY <1>1, <1>2, <1>3, RestIs, LeftsAre DEF VaultInv, TypeOK, Only, Keeps, Opened, At, Creates, Recovers, Tries, DbThere,
     ConfigThere, kept, tried
<1>10. Made'
  BY <1>1, <1>2, <1>3, RestIs, LeftsAre DEF VaultInv, TypeOK, Only, Keeps, Made, Creates, At, ConfigThere, DbThere, kept, tried
<1>11. Recovering'
  BY <1>1, <1>2, <1>3, RestIs, LeftsAre DEF VaultInv, TypeOK, Only, Keeps, Recovering, At, Recovers, ConfigThere, DbThere, kept,
     tried
<1>12. Erased'
  BY <1>1, <1>2, <1>3, RestIs, LeftsAre DEF VaultInv, TypeOK, Only, Keeps, Erased, At, DbThere, kept, tried
<1>13. Waited'
  BY <1>1, <1>2, <1>3, RestIs, LeftsAre DEF VaultInv, TypeOK, Only, Keeps, Waited, At, DbThere, ConfigThere, Tries, kept, tried
<1>14. Keys'
  BY <1>1, <1>2, <1>3 DEF VaultInv, TypeOK, Only, Keeps, Keys, DbThere, ConfigThere, kept, tried
<1>15. Counted'
  BY <1>1, <1>2, <1>3, RestIs, LeftsAre DEF VaultInv, TypeOK, Only, Keeps, Counted, Configs, Pending, CanBeTried, Unfinished,
     Counting, DbThere, Tries, At, kept, tried
<1> QED BY <1>4, <1>5, <1>6, <1>7, <1>8, <1>9, <1>10, <1>11, <1>12, <1>13, <1>14, <1>15 DEF VaultInv

LEMMA RemoveStepKeeps ==
  ASSUME VaultInv, NEW w \in Threads, NEW works \in BOOLEAN, RemoveStep(w, works)
  PROVE  VaultInv'
<1>1. /\ At(w, "erase") /\ ~open /\ work[w].left \in {<<"secret">>, <<"config", "secret">>, Everything}
      /\ \A v \in Threads : v # w => work[v].at \in {"rest", "guard", "replace"} /\ ~Alone(v)
  BY DEF RemoveStep, VaultInv, TypeOK, Works, Lefts, Erased, Opened, Beside, Alone, At
<1>2. /\ Only(w)
      /\ \/ work[w].left = <<"secret">> /\ work'[w] = Rest /\ guard' = (IF guard = w THEN 0 ELSE guard)
         \/ /\ work[w].left = <<"config", "secret">> /\ work'[w].left = <<"secret">>
            /\ work'[w].at = "erase" /\ work'[w].backup = work[w].backup /\ guard' = guard
         \/ /\ work[w].left = Everything /\ work'[w].left = <<"config", "secret">>
            /\ work'[w].at = "erase" /\ work'[w].backup = work[w].backup /\ guard' = guard
  <2>1. CASE work[w].left = <<"secret">>
    BY <2>1, LeftsAre, Ends DEF RemoveStep, VaultInv, TypeOK
  <2>2. CASE work[w].left # <<"secret">>
    <3> DEFINE rest == Tail(work[w].left)
    <3> DEFINE new == [work[w] EXCEPT !.left = rest]
    <3>0. rest \in Lefts /\ Len(work[w].left) # 1
      <4>1. CASE work[w].left = Everything
        BY <4>1, LeftsAre DEF Lefts
      <4>2. CASE work[w].left = <<"config", "secret">>
        BY <4>2, LeftsAre DEF Lefts
      <4> QED BY <1>1, <2>2, <4>1, <4>2
    <3> HIDE DEF rest
    <3>1. new \in Works /\ new.at = "erase" /\ new.backup = work[w].backup /\ new.left = rest
      BY <1>1, <3>0 DEF VaultInv, TypeOK, Works, At
    <3>2. work' = [work EXCEPT ![w] = new] /\ guard' = guard
      BY <3>0 DEF RemoveStep, rest
    <3> HIDE DEF new
    <3> QED BY <1>1, <2>2, <3>1, <3>2, LeftsAre, Becomes DEF VaultInv, TypeOK, rest
  <2> QED BY <2>1, <2>2
<1>3. /\ db' = (IF works /\ work[w].left = Everything THEN NoDb ELSE db)
      /\ config' = (IF works /\ work[w].left = <<"config", "secret">> THEN NoConfig ELSE config)
      /\ secret' \in {0, secret} /\ (secret' # secret => work[w].left = <<"secret">>)
      /\ bent' = (IF works THEN bent ELSE bent \cup {"left"}) /\ faults' \in 0..MaxFaults
      /\ UNCHANGED <<kind, open, idle, kept, tried, asked, made>>
  BY <1>1, LeftsAre, VaultBoundsAssumption DEF RemoveStep, VaultInv, TypeOK
<1>4. NoDb \in [key : 0..MaxMade, rows : {"none", "bare", "empty", "own", "copy"}] /\ NoDb.rows = "none"
  BY VaultBoundsAssumption DEF NoDb
<1>5. TypeOK'
  BY <1>1, <1>2, <1>3, <1>4, RestIs, LeftsAre, VaultBoundsAssumption DEF VaultInv, TypeOK, Only, Keeps, kept, tried
<1>6. Beside'
  BY <1>1, <1>2, <1>3, <1>4, RestIs, LeftsAre DEF VaultInv, TypeOK, Only, Keeps, Beside, At, Alone, Creates, Recovers, kept,
     tried
<1>7. Guarded'
  BY <1>1, <1>2, <1>3, <1>4, RestIs, LeftsAre DEF VaultInv, TypeOK, Only, Keeps, Guarded, At, Tries, Threads, kept, tried
<1>8. ConfigSays'
  BY <1>1, <1>2, <1>3, <1>4, RestIs, LeftsAre DEF VaultInv, TypeOK, Only, Keeps, ConfigSays, ConfigThere, kept, tried
<1>9. Copied'
  BY <1>1, <1>2, <1>3, <1>4, RestIs, LeftsAre DEF VaultInv, TypeOK, Only, Keeps, Copied, At, Tries, ConfigThere, Counting, kept,
     tried
<1>10. Opened'
  BY <1>1, <1>2, <1>3, <1>4, RestIs, LeftsAre DEF VaultInv, TypeOK, Only, Keeps, Opened, At, Creates, Recovers, Tries, DbThere,
     ConfigThere, kept, tried
<1>11. Made'
  BY <1>1, <1>2, <1>3, <1>4, RestIs, LeftsAre DEF VaultInv, TypeOK, Only, Keeps, Made, Creates, At, ConfigThere, DbThere, kept,
     tried
<1>12. Recovering'
  BY <1>1, <1>2, <1>3, <1>4, RestIs, LeftsAre DEF VaultInv, TypeOK, Only, Keeps, Recovering, At, Recovers, ConfigThere, DbThere,
     kept, tried
<1>13. Erased'
  BY <1>1, <1>2, <1>3, <1>4, RestIs, LeftsAre DEF VaultInv, TypeOK, Only, Keeps, Erased, At, DbThere, kept, tried
<1>14. Waited'
  BY <1>1, <1>2, <1>3, <1>4, RestIs, LeftsAre DEF VaultInv, TypeOK, Only, Keeps, Waited, At, DbThere, ConfigThere, Tries, kept,
     tried
<1>15. Keys'
  <2>1. ~(DbThere' /\ "left" \notin bent')
    BY <1>1, <1>3, <1>4 DEF VaultInv, Erased, DbThere
  <2> QED BY <2>1 DEF Keys
<1>16. Counted'
  <2>1. Pending = 0 /\ Pending' = 0
    BY <1>1, <1>2, RestIs DEF Pending, Unfinished, Only, At
  <2>2. CanBeTried' => CanBeTried
    BY <1>1, <1>2, <1>3, <1>4, RestIs DEF CanBeTried, Only, At, DbThere, Tries
  <2>3. config' = config \/ ~(config'.limit > 0)
    BY <1>3, RestIs
  <2> QED BY <1>3, <2>1, <2>2, <2>3 DEF VaultInv, Counted, tried
<1> QED BY <1>5, <1>6, <1>7, <1>8, <1>9, <1>10, <1>11, <1>12, <1>13, <1>14, <1>15, <1>16 DEF VaultInv

LEMMA StepFailsKeeps ==
  ASSUME VaultInv, NEW w \in Threads, StepFails(w)
  PROVE  VaultInv'
<1>1. /\ Only(w)
      /\ faults' \in 0..MaxFaults
      /\ UNCHANGED <<kind, db, config, secret, open, idle, kept, wrong, unlocks, asked, bent, made>>
  <2>1. Only(w)
    BY Erases, Ends DEF StepFails, VaultInv, TypeOK
  <2> QED BY <2>1, VaultBoundsAssumption DEF StepFails, VaultInv, TypeOK
<1>2. \/ /\ work[w].at \in {"secret", "config", "db", "settings"} /\ UNCHANGED <<guard, broken>>
         /\ work'[w].at = "erase" /\ work'[w].left = Everything /\ work'[w].backup = FALSE
      \/ work[w].at \in {"fresh", "rewrap"} /\ work'[w] = Rest /\ UNCHANGED <<guard, broken>>
      \/ /\ work[w].at \in Tries /\ work'[w] = Rest /\ guard' = 0
         /\ broken' = broken + (IF Unfinished(w) THEN 1 ELSE 0)
  BY Erases, Ends DEF StepFails, VaultInv, TypeOK, Tries
<1>3. \A v \in Threads : v # w =>
        /\ work'[v] = work[v]
        /\ work[w].at \notin Tries => At(v, "rest")
        /\ work[w].at \in Tries => work[v].at \in {"rest", "guard"} /\ guard = w
  BY <1>1, <1>2 DEF VaultInv, Beside, Alone, Creates, Recovers, Guarded, Tries, At, Only, TypeOK, Steps, Works, Threads
<1>4. TypeOK'
  BY <1>1, <1>2, <1>3 DEF VaultInv, TypeOK, Only, Keeps, kept
<1>5. Beside'
  BY <1>1, <1>2, <1>3, RestIs, LeftsAre DEF VaultInv, TypeOK, Only, Keeps, Beside, At, Alone, Creates, Recovers, kept
<1>6. Guarded'
  BY <1>1, <1>2, <1>3, RestIs, LeftsAre DEF VaultInv, TypeOK, Only, Keeps, Guarded, At, Tries, Threads, kept
<1>7. ConfigSays'
  BY <1>1, <1>2, <1>3 DEF VaultInv, TypeOK, Only, Keeps, ConfigSays, ConfigThere, kept
<1>8. Copied'
  BY <1>1, <1>2, <1>3, RestIs, LeftsAre DEF VaultInv, TypeOK, Only, Keeps, Copied, At, Tries, ConfigThere, Counting, kept
<1>9. Opened'
  BY <1>1, <1>2, <1>3, RestIs, LeftsAre DEF VaultInv, TypeOK, Only, Keeps, Opened, At, Creates, Recovers, Tries, DbThere,
     ConfigThere, kept
<1>10. Made'
  BY <1>1, <1>2, <1>3, RestIs, LeftsAre DEF VaultInv, TypeOK, Only, Keeps, Made, Creates, At, ConfigThere, DbThere, kept
<1>11. Recovering'
  BY <1>1, <1>2, <1>3, RestIs, LeftsAre DEF VaultInv, TypeOK, Only, Keeps, Recovering, At, Recovers, ConfigThere, DbThere, kept
<1>12. Erased'
  BY <1>1, <1>2, <1>3, RestIs, LeftsAre DEF VaultInv, Erased, At, DbThere, Tries
<1>13. Waited'
  BY <1>1, <1>2, <1>3, RestIs, LeftsAre DEF VaultInv, TypeOK, Only, Keeps, Waited, At, DbThere, ConfigThere, Tries, kept
<1>14. Keys'
  BY <1>1, <1>2, <1>3 DEF VaultInv, TypeOK, Only, Keeps, Keys, DbThere, ConfigThere, kept
<1>15. Counted'
  <2>1. Pending = IF Unfinished(w) THEN 1 ELSE 0
    BY <1>2, <1>3 DEF Pending, Unfinished, At, Tries
  <2>2. /\ Pending' = 0
        /\ broken' = broken + Pending
    <3>1. \A v \in Threads : work'[v].at \notin {"try", "right"}
      BY <1>2, <1>3, RestIs DEF At, Tries
    <3>2. broken \in Nat /\ (work[w].at \notin Tries => ~Unfinished(w))
      BY DEF Unfinished, Tries, VaultInv, TypeOK
    <3>3. work[w].at \in Tries \/ broken' = broken
      BY <1>2
    <3>4. broken' = broken + Pending
      BY <1>2, <2>1, <3>2, <3>3 DEF Tries
    <3> QED BY <3>1, <3>4 DEF Pending, Unfinished
  <2>3. CanBeTried' => CanBeTried
    BY <1>1, <1>2, <1>3, RestIs DEF CanBeTried, DbThere, Tries
  <2> QED BY <1>1, <2>1, <2>2, <2>3 DEF VaultInv, TypeOK, Configs, Counted
<1> QED BY <1>4, <1>5, <1>6, <1>7, <1>8, <1>9, <1>10, <1>11, <1>12, <1>13, <1>14, <1>15 DEF VaultInv

LEMMA AppEndsKeeps ==
  ASSUME VaultInv, AppEnds
  PROVE  VaultInv'
<1>1. work' \in [Threads -> Works] /\ \A v \in Threads : work'[v] = Rest
  BY RestIs DEF AppEnds
<1>2. /\ open' = FALSE /\ idle' = FALSE /\ broken' = broken + Pending /\ guard' = 0
      /\ faults' \in 0..MaxFaults /\ UNCHANGED <<kind, db, config, secret, kept, wrong, asked, bent, made, unlocks>>
  BY VaultBoundsAssumption DEF AppEnds, Pending, VaultInv, TypeOK
<1>3. TypeOK'
  <2>1. Pending \in {0, 1}
    BY DEF Pending
  <2>2. broken' \in Nat
    BY <1>2, <2>1 DEF VaultInv, TypeOK
  <2> QED BY <1>1, <1>2, <2>2 DEF VaultInv, TypeOK, kept
<1>4. Beside'
  BY <1>1, <1>2, RestIs, LeftsAre DEF VaultInv, TypeOK, Beside, At, Alone, Creates, Recovers, kept
<1>5. Guarded'
  BY <1>1, <1>2, RestIs, LeftsAre DEF VaultInv, TypeOK, Guarded, At, Tries, Threads, kept
<1>6. ConfigSays'
  BY <1>1, <1>2 DEF VaultInv, TypeOK, ConfigSays, ConfigThere, kept
<1>7. Copied'
  BY <1>1, <1>2, RestIs, LeftsAre DEF VaultInv, TypeOK, Copied, At, Tries, ConfigThere, Counting, kept
<1>8. Opened'
  BY <1>1, <1>2, RestIs, LeftsAre DEF VaultInv, TypeOK, Opened, At, Creates, Recovers, Tries, DbThere, ConfigThere, kept
<1>9. Made'
  BY <1>1, <1>2, RestIs, LeftsAre DEF VaultInv, TypeOK, Made, Creates, At, ConfigThere, DbThere, kept
<1>10. Recovering'
  BY <1>1, <1>2, RestIs, LeftsAre DEF VaultInv, TypeOK, Recovering, At, Recovers, ConfigThere, DbThere, kept
<1>11. Erased'
  BY <1>1, <1>2, RestIs, LeftsAre DEF VaultInv, TypeOK, Erased, At, DbThere, kept
<1>12. Waited'
  BY <1>1, <1>2, RestIs, LeftsAre DEF VaultInv, TypeOK, Waited, At, DbThere, ConfigThere, Tries, kept
<1>13. Keys'
  BY <1>1, <1>2 DEF VaultInv, TypeOK, Keys, DbThere, ConfigThere, kept
<1>14. Counted'
  BY <1>1, <1>2, RestIs, LeftsAre DEF VaultInv, TypeOK, Counted, Configs, Pending, CanBeTried, Unfinished, Counting, DbThere,
     Tries, At, kept
<1> QED BY <1>3, <1>4, <1>5, <1>6, <1>7, <1>8, <1>9, <1>10, <1>11, <1>12, <1>13, <1>14 DEF VaultInv

-----------------------------------------------------------------------------
(* The whole specification. *)
LEMMA CreateKeeps ==
  ASSUME VaultInv, NEW w \in Threads, NEW p \in Typed, NEW b \in BOOLEAN, Create(w, p, b)
  PROVE  VaultInv'
<1>1. Only(w) /\ work'[w].at = "secret" /\ work'[w].pass = p /\ work'[w].left = <<>>
  <2> DEFINE new == [Rest EXCEPT !.at = "secret", !.pass = p, !.backup = b]
  <2>1. new \in Works /\ new.at = "secret" /\ new.pass = p /\ new.left = <<>>
    BY RestIs DEF Works, Steps
  <2>2. work' = [work EXCEPT ![w] = new]
    BY DEF Create
  <2> HIDE DEF new
  <2> QED BY <2>1, <2>2, Becomes DEF VaultInv, TypeOK
<1>2. /\ \A v \in Threads : At(v, "rest") /\ work[v].left = <<>>
      /\ ~open /\ ~DbThere /\ (kind = "phone" => p # NoPass) /\ made' = made + 1 /\ made' \in 0..MaxMade /\ made' > 0
  BY RestIs, VaultBoundsAssumption DEF VaultInv, TypeOK, Beside, Create, Waits
<1>3. /\ word' = {p} /\ bent' = {"recovery"} /\ asked' = "nobody" /\ wrong' = 0 /\ broken' = 0
      /\ UNCHANGED <<kind, db, config, secret, open, idle, guard, hand, unlocks, faults>>
  BY DEF Create
<1>4. TypeOK'
  BY <1>1, <1>2, <1>3 DEF VaultInv, TypeOK, Only, Keeps
<1>5. Beside'
  BY <1>1, <1>2, <1>3 DEF VaultInv, TypeOK, Only, Keeps, Beside, At, Alone, Creates, Recovers
<1>6. Guarded'
  BY <1>1, <1>2, <1>3 DEF VaultInv, TypeOK, Only, Keeps, Guarded, At, Tries, Threads
<1>7. ConfigSays'
  BY <1>1, <1>2, <1>3 DEF VaultInv, TypeOK, Only, Keeps, ConfigSays, ConfigThere
<1>8. Copied'
  BY <1>1, <1>2, <1>3 DEF VaultInv, TypeOK, Only, Keeps, Copied, At, Tries, ConfigThere, Counting
<1>9. Opened'
  BY <1>1, <1>2, <1>3 DEF VaultInv, TypeOK, Only, Keeps, Opened, At, Creates, Recovers, Tries, DbThere, ConfigThere
<1>10. Made'
  BY <1>1, <1>2, <1>3 DEF VaultInv, TypeOK, Only, Keeps, Made, Creates, At, ConfigThere, DbThere
<1>11. Recovering'
  BY <1>1, <1>2, <1>3 DEF VaultInv, TypeOK, Only, Keeps, Recovering, At, Recovers, ConfigThere, DbThere
<1>12. Erased'
  BY <1>1, <1>2, <1>3, LeftsAre DEF VaultInv, TypeOK, Only, Keeps, Erased, At, DbThere
<1>13. Waited'
  BY <1>1, <1>2, <1>3 DEF VaultInv, TypeOK, Only, Keeps, Waited, At, DbThere, ConfigThere, Tries
<1>14. Keys'
  BY <1>1, <1>2, <1>3 DEF VaultInv, TypeOK, Only, Keeps, Keys, DbThere, ConfigThere
<1>15. Counted'
  <2>1. Pending' = 0 /\ ~CanBeTried'
    BY <1>1, <1>2, <1>3 DEF Pending, Unfinished, CanBeTried, Tries, At, Only, DbThere
  <2> QED BY <1>3, <2>1 DEF VaultInv, TypeOK, Configs, Counted
<1> QED BY <1>4, <1>5, <1>6, <1>7, <1>8, <1>9, <1>10, <1>11, <1>12, <1>13, <1>14, <1>15 DEF VaultInv

LEMMA VaultStarts ==
  ASSUME Init
  PROVE  VaultInv
<1>1. /\ work \in [Threads -> Works] /\ \A v \in Threads : work[v] = Rest /\ At(v, "rest") /\ work[v].left = <<>>
  BY RestIs DEF Init, At
<1>2. NoDb \in [key : 0..MaxMade, rows : {"none", "bare", "empty", "own", "copy"}] /\ ~DbThere /\ ~ConfigThere
  BY VaultBoundsAssumption DEF NoDb, Init, DbThere, ConfigThere
<1>3. TypeOK
  BY <1>1, <1>2, RestIs, BoundsAre DEF Init, TypeOK
<1>4. Beside /\ Guarded
  BY <1>1, RestIs DEF Init, Beside, Guarded, Alone, Creates, Recovers, Tries, At, Threads
<1>5. ConfigSays /\ Copied /\ Opened
  BY <1>1, <1>2, RestIs DEF Init, ConfigSays, Copied, Opened, Creates, Recovers, Tries, At
<1>6. Made /\ Recovering /\ Erased /\ Waited
  BY <1>1, <1>2, RestIs, LeftsAre DEF Init, Made, Recovering, Erased, Waited, Creates, Recovers, Tries, At
<1>7. Keys /\ Counted
  BY <1>1, <1>2, RestIs DEF Init, Keys, Counted
<1> QED BY <1>3, <1>4, <1>5, <1>6, <1>7 DEF VaultInv

LEMMA VaultSteps ==
  ASSUME VaultInv, [Next]_vars
  PROVE  VaultInv'
<1>1. ASSUME NEW w \in Threads, Step(w)
      PROVE  VaultInv'
  <2>1. CASE Creating(w)
    BY <2>1, KeepSecretKeeps, WriteConfigKeeps, MakeDbKeeps, WriteSettingsKeeps DEF Creating
  <2>2. CASE RemoveStep(w, TRUE)
    BY <2>2, RemoveStepKeeps
  <2> QED BY <1>1, <2>1, <2>2, ShowKeeps, ReplaceKeeps, ReplaceFailsKeeps, TakeGuardKeeps, CountKeeps, TryRightKeeps,
             TryWrongKeeps,
             TryFailsKeeps, OpenRightKeeps, FreshSecretKeeps, RewrapKeeps, RecoveredKeeps DEF Step
<1>2. ASSUME NEW w \in Threads, Person(w)
      PROVE  VaultInv'
  BY <1>2, CreateKeeps, UnlockKeeps, RecoverKeeps, RestoreKeeps, NewRecoveryKeyKeeps, WipeKeeps DEF Person
<1>3. ASSUME NEW w \in Threads, RemoveStep(w, FALSE)
      PROVE  VaultInv'
  BY <1>3, RemoveStepKeeps
<1>4. CASE UNCHANGED vars
  <2> USE <1>4 DEF vars, tried, kept
  <2>1. TypeOK' /\ Beside' /\ Guarded' /\ ConfigSays' /\ Copied' /\ Opened'
    BY DEF VaultInv, TypeOK, Beside, Guarded, ConfigSays, Copied, Opened, Alone, Counting, At, DbThere, ConfigThere
  <2>2. Made' /\ Recovering' /\ Erased' /\ Waited' /\ Keys' /\ Counted'
    BY DEF VaultInv, Made, Recovering, Erased, Waited, Keys, Counted, Pending, CanBeTried, Unfinished, Counting, At, DbThere,
       ConfigThere
  <2> QED BY <2>1, <2>2 DEF VaultInv
<1> QED BY <1>1, <1>2, <1>3, <1>4, StepFailsKeeps, UseKeeps, SaveLockPrefsKeeps, LockKeeps, TimePassesKeeps, LockIfIdleKeeps,
           LoseSecretKeeps, AppEndsKeeps DEF Next

\* What is on disk, on which thread each command is and how far: the vault's variables keep their types, whatever fails or ends when.
THEOREM VaultInvariant == Spec => [](TypeOK /\ VaultInv)
<1>1. VaultInv => TypeOK /\ VaultInv
  BY DEF VaultInv
<1> QED BY <1>1, VaultStarts, VaultSteps, PTL DEF Spec

\* Nobody is locked out (vault.rs:271-325, 409-453, 719-743): at whatever step making, recovering or erasing a vault fails or the app
\* ends, a database that stands on disk has the configuration with its key, and the passphrase and the recovery key still open it.
THEOREM NeverLockedOutTheorem == Spec => []NeverLockedOut
<1>1. VaultInv => NeverLockedOut
  BY DEF VaultInv, Keys, NeverLockedOut, NeverStuck, Opens
<1> QED BY <1>1, VaultInvariant, PTL

\* The count of a device that erases itself (vault.rs:347-386): wrong passphrases are on disk however tries are broken off or asked for
\* twice at once, and it erases itself only after as many tries as its limit.
THEOREM TriesCountedTheorem == Spec => TriesCounted
<1>1. VaultInv => (ConfigThere /\ config.limit > 0 => wrong <= config.failed)
  <2>1. Pending \in {0, 1}
    BY DEF Pending
  <2> QED BY <2>1 DEF VaultInv, TypeOK, Configs, Counted
<1>2. VaultInv /\ [Next]_vars => [asked # "tries" /\ asked' = "tries" => wrong' + broken' >= Limit]_vars
  <2> SUFFICES ASSUME VaultInv, Next, asked # "tries", asked' = "tries"
               PROVE  wrong' + broken' >= Limit
    BY DEF vars
  <2>1. PICK w \in Threads : TryWrong(w)
    <3>1. ASSUME NEW w \in Threads, Step(w)
          PROVE  TryWrong(w) \/ asked' = asked
      BY <3>1 DEF Step, Creating, Show, Replace, ReplaceFails, TakeGuard, Count, TryRight, TryFails, OpenRight, FreshSecret,
         Rewrap,
                  Recovered, RemoveStep
    <3>2. ASSUME NEW w \in Threads, Person(w)
          PROVE  asked' # "tries"
      BY <3>2 DEF Person, Create, Unlock, Recover, Restore, NewRecoveryKey, Wipe
    <3>3. ASSUME NEW w \in Threads, StepFails(w) \/ RemoveStep(w, FALSE)
          PROVE  asked' = asked
      BY <3>3 DEF StepFails, RemoveStep
    <3>4. Use \/ SaveLockPrefs \/ Lock \/ TimePasses \/ LockIfIdle \/ LoseSecret \/ AppEnds => asked' = asked
      BY DEF Use, SaveLockPrefs, Lock, TimePasses, LockIfIdle, LoseSecret, AppEnds
    <3> QED BY <3>1, <3>2, <3>3, <3>4 DEF Next
  <2>2. Counting(w) /\ work[w].copy.failed >= work[w].copy.limit /\ wrong' = wrong + 1 /\ broken' = broken /\ At(w, "try")
    BY <2>1 DEF TryWrong
  <2>3. work[w].copy = config /\ guard = w /\ config.limit = Limit
    BY <2>2 DEF VaultInv, Copied, Guarded, Tries, At, TypeOK, Configs, Counting
  <2>4. Pending \in {0, 1} /\ CanBeTried /\ config.limit > 0
    BY <2>2, <2>3 DEF Pending, CanBeTried, Tries, At, Counting
  <2>5. config.failed = wrong + broken + Pending
    BY <2>4 DEF VaultInv, Counted
  <2> QED BY <2>2, <2>3, <2>4, <2>5, LimitAssumption DEF VaultInv, TypeOK, Configs
<1> QED BY <1>1, <1>2, VaultInvariant, PTL DEF Spec, TriesCounted
=============================================================================
