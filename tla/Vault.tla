------------------------------- MODULE Vault -------------------------------
(***************************************************************************)
(* The vault of one device: src-tauri/src/vault.rs with keys.rs, the       *)
(* commands of the window that open and close it (commands.rs), and the    *)
(* threads and window events that lock it (lib.rs).                        *)
(*                                                                         *)
(* On disk are the database, the configuration (vault.json, written whole  *)
(* through a temporary file) and the secret (a keychain entry, or a file   *)
(* on the phone). The database key is nowhere as it is: the configuration  *)
(* has it wrapped twice, for the secret with the passphrase and for the    *)
(* recovery key. A key, a secret or a recovery key is here a number that   *)
(* is used once. Every step that leaves something on disk is a step of its *)
(* own, so that the app may end, or the vault be locked, between any two.  *)
(*                                                                         *)
(* The screens wait for the answer of a command that opens the vault       *)
(* before they offer another one, except that unlocking may be asked for   *)
(* twice, and that a phone may be erased while it is unlocked: the second  *)
(* is in SpecHurried only. The commands that rewrite the configuration of  *)
(* an open vault run on the thread of the window, one after the other.     *)
(***************************************************************************)
EXTENDS Naturals, Sequences

CONSTANTS
  Kinds,       \* Policy::DESKTOP is "desktop", Policy::PHONE "phone"
  Limit,       \* erase_after_failures of the phone
  MaxMade,     \* bound: how many keys are ever made
  MaxUnlocks,  \* bound: how often unlocking is tried
  MaxFaults    \* bound: how often a step fails, the secret is lost or the app ends

ASSUME KindsAssumption == Kinds \subseteq {"desktop", "phone"}
ASSUME LimitAssumption == Limit \in Nat \ {0}
ASSUME VaultBoundsAssumption == {MaxMade, MaxUnlocks, MaxFaults} \subseteq Nat

VARIABLES
  kind,      \* what kind of device this is
  db,        \* meowny.db: the key it opens with, and what rows it holds
  config,    \* vault.json
  secret,    \* the secret in the keychain, 0 when there is none
  open,      \* State::conn is there
  idle,      \* the idle limit has passed since last_activity
  work,      \* work[w]: the command that runs on thread w
  guard,     \* the thread that holds unlock_guard, 0 when none does
  hand,      \* the recovery key the person was shown last
  word,      \* the passphrases the person may have chosen last
  wrong,     \* wrong passphrases tried since the count was last cleared
  broken,    \* tries that were broken off with their count on disk, since then
  asked,     \* who asked for erasing: nobody, the "person", or too many wrong "tries"
  bent,      \* "secret" when it is lost, "recovery" when that key is not shown yet, "left" when something could not be removed
  made, unlocks, faults

vars == <<kind, db, config, secret, open, idle, work, guard, hand, word, wrong, broken, asked, bent, made, unlocks, faults>>
tried == <<wrong, broken, unlocks>>
kept == <<hand, word>>

Threads == {1, 2}
NoPass == 0
Passphrases == {1, 2}
Typed == {NoPass} \cup Passphrases

NoDb == [key |-> 0, rows |-> "none"]

\* The database key, encrypted under a key made of the secret and the passphrase, or of the recovery key.
Kek(s, p) == <<s, p>>
RecoveryKek(r) == <<r, NoPass>>
Wrap(kek, key) == [by |-> kek, key |-> key]
Opens(copy, kek) == copy.by = kek

NoCopy == Wrap(Kek(0, NoPass), 0)
NoConfig ==
  [pass |-> FALSE, everyday |-> NoCopy, recovery |-> NoCopy, failed |-> 0, limit |-> 0, idles |-> FALSE]
Rest == [at |-> "rest", pass |-> NoPass, copy |-> NoConfig, backup |-> FALSE, left |-> <<>>]

DbThere == db.rows # "none"
ConfigThere == config # NoConfig

\* `status`, without the connection.
SetUp == DbThere /\ ConfigThere

Init ==
  /\ kind \in Kinds
  /\ db = NoDb /\ config = NoConfig /\ secret = 0
  /\ open = FALSE /\ idle = FALSE
  /\ work = [w \in Threads |-> Rest] /\ guard = 0
  /\ hand = 0 /\ word = {} /\ wrong = 0 /\ broken = 0 /\ asked = "nobody" /\ bent = {}
  /\ made = 0 /\ unlocks = 0 /\ faults = 0

At(w, step) == work[w].at = step
Go(w, step) == work' = [work EXCEPT ![w].at = step]
Done(w) == work' = [work EXCEPT ![w] = Rest]

\* What `remove_everything` removes, in its order.
Everything == <<"db", "config", "secret">>
Erase(w) == work' = [work EXCEPT ![w] = [Rest EXCEPT !.at = "erase", !.left = Everything]]

\* A command runs on a thread that is free.
Free(w) == w = IF At(1, "rest") THEN 1 ELSE 2

\* The screens offer a command that opens or makes the vault only while no other one runs: their buttons are disabled.
Waits == \A w \in Threads : At(w, "rest")

(***************************************************************************)
(* create, and create_from_backup, which makes an empty vault first.       *)
(***************************************************************************)
Create(w, p, fromBackup) ==
  /\ Free(w) /\ Waits /\ ~open
  /\ ~DbThere
  /\ kind = "phone" => p # NoPass
  /\ made < MaxMade
  /\ work' = [work EXCEPT ![w] = [Rest EXCEPT !.at = "secret", !.pass = p, !.backup = fromBackup]]
  /\ made' = made + 1
  /\ word' = {p} /\ bent' = {"recovery"}
  /\ asked' = "nobody" /\ wrong' = 0 /\ broken' = 0
  /\ UNCHANGED <<kind, db, config, secret, open, idle, guard, hand, unlocks, faults>>

\* create_inner, and the steps that leave something on disk: the secret,
KeepSecret(w) ==
  /\ At(w, "secret")
  /\ secret' = made
  /\ Go(w, "config")
  /\ UNCHANGED <<db, config, open, idle>>

\* the configuration,
WriteConfig(w) ==
  /\ At(w, "config")
  /\ config' = [pass |-> work[w].pass # NoPass, everyday |-> Wrap(Kek(secret, work[w].pass), made),
                recovery |-> Wrap(RecoveryKek(made), made), failed |-> 0, limit |-> IF kind = "phone" THEN Limit ELSE 0, idles |-> TRUE]
  /\ Go(w, "db")
  /\ UNCHANGED <<db, secret, open, idle>>

\* the database with its tables,
MakeDb(w) ==
  /\ At(w, "db")
  /\ db' = [key |-> made, rows |-> "bare"]
  /\ Go(w, "settings")
  /\ UNCHANGED <<config, secret, open, idle>>

\* and the settings row.
WriteSettings(w) ==
  /\ At(w, "settings")
  /\ db' = [db EXCEPT !.rows = "empty"]
  /\ open' = TRUE /\ idle' = FALSE
  /\ Go(w, IF work[w].backup THEN "replace" ELSE "show")
  /\ UNCHANGED <<config, secret>>

Creating(w) ==
  /\ KeepSecret(w) \/ WriteConfig(w) \/ MakeDb(w) \/ WriteSettings(w)
  /\ UNCHANGED <<kind, guard, kept, tried, asked, bent, made, faults>>

\* The recovery key reaches the person, the only time it is shown.
Show(w) ==
  /\ At(w, "show")
  /\ hand' = config.recovery.by[1]
  /\ bent' = bent \ {"recovery"}
  /\ Done(w)
  /\ UNCHANGED <<kind, db, config, secret, open, idle, guard, word, wrong, broken, asked, made, unlocks, faults>>

(***************************************************************************)
(* restore_backup, and the second half of create_from_backup. The rows are *)
(* replaced in one transaction while the state is held.                    *)
(***************************************************************************)
Restore(w) ==
  /\ Free(w) /\ Waits /\ open
  /\ Go(w, "replace")
  /\ UNCHANGED <<kind, db, config, secret, open, idle, guard, kept, tried, asked, bent, made, faults>>

Replace(w) ==
  /\ At(w, "replace") /\ open
  /\ db' = [db EXCEPT !.rows = "copy"]
  /\ idle' = (work[w].backup /\ idle)
  /\ IF work[w].backup THEN Go(w, "show") ELSE Done(w)
  /\ UNCHANGED <<kind, config, secret, open, guard, kept, tried, asked, bent, made, faults>>

\* The backup does not open or is cut, or the vault was locked meanwhile. What `create` made is removed.
ReplaceFails(w) ==
  /\ At(w, "replace")
  /\ IF open THEN faults < MaxFaults /\ faults' = faults + 1 ELSE UNCHANGED faults
  /\ IF work[w].backup THEN Erase(w) /\ open' = FALSE ELSE Done(w) /\ UNCHANGED open
  /\ UNCHANGED <<kind, db, config, secret, idle, guard, kept, tried, asked, bent, made>>

(***************************************************************************)
(* unlock.                                                                 *)
(***************************************************************************)
Unlock(w, p) ==
  /\ Free(w) /\ At(w, "rest")
  /\ \A v \in Threads \ {w} : work[v].at \in {"rest", "guard", "count", "try", "right"}
  /\ ~open /\ DbThere
  /\ unlocks < MaxUnlocks
  /\ work' = [work EXCEPT ![w] = [Rest EXCEPT !.at = "guard", !.pass = p]]
  /\ unlocks' = unlocks + 1
  /\ UNCHANGED <<kind, db, config, secret, open, idle, guard, kept, wrong, broken, asked, bent, made, faults>>

\* Mutant: unlocking does not wait for another unlocking.
TakeGuardAtOnce(w) ==
  /\ At(w, "guard")
  /\ IF open \/ ~ConfigThere \/ (config.pass /\ work[w].pass = NoPass)
       THEN Done(w) /\ UNCHANGED guard
       ELSE /\ work' = [work EXCEPT ![w].at = "count", ![w].copy = config]
            /\ guard' = w
  /\ UNCHANGED <<kind, db, config, secret, open, idle, kept, tried, asked, bent, made, faults>>

\* The guard is taken; the state is looked at once more, and the configuration read.
TakeGuard(w) ==
  /\ At(w, "guard") /\ guard = 0
  /\ IF open \/ ~ConfigThere \/ (config.pass /\ work[w].pass = NoPass)
       THEN Done(w) /\ UNCHANGED guard
       ELSE /\ work' = [work EXCEPT ![w].at = "count", ![w].copy = config]
            /\ guard' = w
  /\ UNCHANGED <<kind, db, config, secret, open, idle, kept, tried, asked, bent, made, faults>>

\* A vault that erases itself counts the try before it makes it.
Counting(w) == work[w].copy.limit > 0 /\ work[w].copy.pass

Count(w) ==
  /\ At(w, "count")
  /\ LET counted == IF Counting(w) THEN [work[w].copy EXCEPT !.failed = @ + 1] ELSE work[w].copy
     IN  /\ config' = IF Counting(w) THEN counted ELSE config
         /\ work' = [work EXCEPT ![w].at = "try", ![w].copy = counted]
  /\ UNCHANGED <<kind, db, secret, open, idle, guard, kept, tried, asked, bent, made, faults>>

\* `everyday_key`. A passphrase typed for a vault that has none is left out.
Fits(w) == LET copy == work[w].copy IN Opens(copy.everyday, Kek(secret, IF copy.pass THEN work[w].pass ELSE NoPass))

TryRight(w) ==
  /\ At(w, "try") /\ secret # 0
  /\ Fits(w)
  /\ Go(w, "right")
  /\ UNCHANGED <<kind, db, config, secret, open, idle, guard, kept, tried, asked, bent, made, faults>>

TryWrong(w) ==
  /\ At(w, "try") /\ secret # 0
  /\ ~Fits(w)
  /\ wrong' = wrong + 1
  /\ guard' = IF Counting(w) /\ work[w].copy.failed >= work[w].copy.limit THEN guard ELSE 0
  /\ IF Counting(w) /\ work[w].copy.failed >= work[w].copy.limit
       THEN Erase(w) /\ asked' = "tries"
       ELSE Done(w) /\ UNCHANGED asked
  /\ UNCHANGED <<kind, db, config, secret, open, idle, kept, broken, bent, made, unlocks, faults>>

\* The keychain has no secret, or cannot be asked: this was no guess, and the count is taken back.
TryFails(w) ==
  /\ At(w, "try")
  /\ IF secret = 0 THEN UNCHANGED faults ELSE faults < MaxFaults /\ faults' = faults + 1
  /\ config' = IF Counting(w) THEN [work[w].copy EXCEPT !.failed = IF @ = 0 THEN 0 ELSE @ - 1] ELSE config
  /\ guard' = 0
  /\ Done(w)
  /\ UNCHANGED <<kind, db, secret, open, idle, kept, tried, asked, bent, made>>

\* The try of this thread that is on disk and not cleared or taken back.
Unfinished(w) == work[w].at \in {"try", "right"} /\ Counting(w) /\ work[w].copy.failed # 0

\* The count is cleared, and the database opened; one that was removed while this unlocking waited is made anew, empty.
OpenRight(w) ==
  /\ At(w, "right")
  /\ IF Counting(w) /\ work[w].copy.failed # 0
       THEN /\ config' = [work[w].copy EXCEPT !.failed = 0]
            /\ work' = [work EXCEPT ![w].copy.failed = 0]
            /\ UNCHANGED <<db, open, idle, guard>>
       ELSE /\ db' = IF DbThere THEN db ELSE [key |-> work[w].copy.everyday.key, rows |-> "bare"]
            /\ open' = TRUE /\ idle' = FALSE
            /\ guard' = 0
            /\ Done(w)
            /\ UNCHANGED config
  /\ wrong' = 0 /\ broken' = 0
  /\ UNCHANGED <<kind, secret, kept, asked, bent, made, unlocks, faults>>

(***************************************************************************)
(* recover: the recovery key opens the other copy; then a new passphrase.  *)
(***************************************************************************)
Recover(w, p) ==
  /\ Free(w) /\ Waits /\ ~open /\ SetUp
  /\ kind = "phone" => p # NoPass
  /\ hand # 0 /\ Opens(config.recovery, RecoveryKek(hand)) /\ config.recovery.key = db.key
  /\ unlocks < MaxUnlocks /\ made < MaxMade
  /\ work' = [work EXCEPT ![w] = [Rest EXCEPT !.at = "fresh", !.pass = p, !.copy = config]]
  /\ unlocks' = unlocks + 1
  /\ word' = word \cup {p}
  /\ UNCHANGED <<kind, db, config, secret, open, idle, guard, hand, wrong, broken, asked, bent, made, faults>>

\* Mutant: a recovery makes a new secret also when there is one.
FreshSecretAlways(w) ==
  /\ At(w, "fresh")
  /\ made' = made + 1 /\ secret' = made + 1
  /\ Go(w, "rewrap")
  /\ UNCHANGED <<kind, db, config, open, idle, guard, kept, tried, asked, bent, faults>>

\* The secret that is there, or a fresh one.
FreshSecret(w) ==
  /\ At(w, "fresh")
  /\ IF secret = 0 THEN made' = made + 1 /\ secret' = made + 1 ELSE UNCHANGED <<made, secret>>
  /\ Go(w, "rewrap")
  /\ UNCHANGED <<kind, db, config, open, idle, guard, kept, tried, asked, bent, faults>>

Rewrap(w) ==
  /\ At(w, "rewrap")
  /\ config' = [work[w].copy EXCEPT !.pass = work[w].pass # NoPass, !.failed = 0,
                                        !.everyday = Wrap(Kek(secret, work[w].pass), @.key)]
  /\ word' = {work[w].pass}
  /\ wrong' = 0 /\ broken' = 0
  /\ bent' = bent \ {"secret"}
  /\ Go(w, "recovered")
  /\ UNCHANGED <<kind, db, secret, open, idle, guard, hand, asked, made, unlocks, faults>>

Recovered(w) ==
  /\ At(w, "recovered")
  /\ open' = TRUE /\ idle' = FALSE
  /\ Done(w)
  /\ UNCHANGED <<kind, db, config, secret, guard, kept, tried, asked, bent, made, faults>>

(***************************************************************************)
(* What the window does with an open vault.                                *)
(***************************************************************************)
\* with_conn: the person's own rows; touch.
Use ==
  /\ open /\ Waits
  /\ db' = [db EXCEPT !.rows = "own"]
  /\ idle' = FALSE
  /\ UNCHANGED <<kind, config, secret, open, work, guard, kept, tried, asked, bent, made, faults>>

\* new_recovery_key, with the passphrase once more: the old key stops working before the new one is shown.
NewRecoveryKey(w) ==
  /\ Free(w) /\ open /\ Waits /\ made < MaxMade
  /\ secret # 0 /\ \E p \in Typed : Opens(config.everyday, Kek(secret, p))
  /\ config' = [config EXCEPT !.recovery = Wrap(RecoveryKek(made + 1), config.everyday.key)]
  /\ made' = made + 1
  /\ bent' = bent \cup {"recovery"}
  /\ Go(w, "show")
  /\ UNCHANGED <<kind, db, secret, open, idle, guard, kept, tried, asked, faults>>

\* save_lock_prefs; 0 seconds means never.
SaveLockPrefs ==
  /\ open /\ Waits
  /\ config' = [config EXCEPT !.idles = ~@]
  /\ UNCHANGED <<kind, db, secret, open, idle, work, guard, kept, tried, asked, bent, made, faults>>

\* lock_vault, and the window closed or minimised. Whatever runs goes on and finds the vault closed.
Lock ==
  /\ open
  /\ open' = FALSE
  /\ UNCHANGED <<kind, db, config, secret, idle, work, guard, kept, tried, asked, bent, made, faults>>

TimePasses ==
  /\ open /\ ~idle
  /\ idle' = TRUE
  /\ UNCHANGED <<kind, db, config, secret, open, work, guard, kept, tried, asked, bent, made, faults>>

\* The thread that looks every 5 seconds.
LockIfIdle ==
  /\ ConfigThere /\ config.idles
  /\ open /\ idle
  /\ open' = FALSE
  /\ UNCHANGED <<kind, db, config, secret, idle, work, guard, kept, tried, asked, bent, made, faults>>

\* wipe: the settings of an open vault, or the phone's "forgot my passphrase".
Wipe(w) ==
  /\ Free(w) /\ At(w, "rest")
  /\ \A v \in Threads : work[v].at \in {"rest", "replace"} /\ ~work[v].backup
  /\ SetUp /\ (open \/ kind = "phone")
  /\ open' = FALSE /\ asked' = "person"
  /\ Erase(w)
  /\ UNCHANGED <<kind, db, config, secret, idle, guard, kept, tried, bent, made, faults>>

\* Mutant: a vault that erased itself holds on to the guard of unlocking.
RemoveStepHoldsGuard(w, works) ==
  /\ At(w, "erase")
  /\ LET part == Head(work[w].left)
     IN  /\ db' = IF works /\ part = "db" THEN NoDb ELSE db
         /\ config' = IF works /\ part = "config" THEN NoConfig ELSE config
         /\ secret' = IF works /\ part = "secret" THEN 0 ELSE secret
         /\ bent' = IF works THEN bent ELSE bent \cup {"left"}
  /\ IF works THEN UNCHANGED faults ELSE faults < MaxFaults /\ faults' = faults + 1
  /\ IF Len(work[w].left) = 1 THEN Done(w) ELSE work' = [work EXCEPT ![w].left = Tail(@)]
  /\ UNCHANGED <<kind, open, idle, guard, kept, tried, asked, made>>

\* remove_everything, one thing after the other. One that cannot be removed stays, and the rest is tried all the same.
RemoveStep(w, works) ==
  /\ At(w, "erase")
  /\ LET part == Head(work[w].left)
     IN  /\ db' = IF works /\ part = "db" THEN NoDb ELSE db
         /\ config' = IF works /\ part = "config" THEN NoConfig ELSE config
         /\ secret' = IF works /\ part = "secret" THEN 0 ELSE secret
         /\ bent' = IF works THEN bent ELSE bent \cup {"left"}
  /\ IF works THEN UNCHANGED faults ELSE faults < MaxFaults /\ faults' = faults + 1
  /\ IF Len(work[w].left) = 1
       THEN Done(w) /\ guard' = (IF guard = w THEN 0 ELSE guard)
       ELSE work' = [work EXCEPT ![w].left = Tail(@)] /\ UNCHANGED guard
  /\ UNCHANGED <<kind, open, idle, kept, tried, asked, made>>

(***************************************************************************)
(* What goes wrong: a step of a command fails, the secret is lost from the *)
(* keychain, the app ends (and starts again, closed).                      *)
(***************************************************************************)
StepFails(w) ==
  /\ faults < MaxFaults
  /\ \/ work[w].at \in {"secret", "config", "db", "settings"} /\ Erase(w) /\ UNCHANGED <<guard, broken>>
     \/ work[w].at \in {"fresh", "rewrap"} /\ Done(w) /\ UNCHANGED <<guard, broken>>
     \/ /\ work[w].at \in {"count", "try", "right"} /\ Done(w)
        /\ guard' = 0
        /\ broken' = broken + (IF Unfinished(w) THEN 1 ELSE 0)
  /\ faults' = faults + 1
  /\ UNCHANGED <<kind, db, config, secret, open, idle, kept, wrong, unlocks, asked, bent, made>>

LoseSecret ==
  /\ faults < MaxFaults /\ secret # 0 /\ Waits
  /\ secret' = 0
  /\ bent' = bent \cup {"secret"}
  /\ faults' = faults + 1
  /\ UNCHANGED <<kind, db, config, open, idle, work, guard, kept, tried, asked, made>>

AppEnds ==
  /\ faults < MaxFaults
  /\ open' = FALSE /\ idle' = FALSE
  /\ broken' = broken + (IF \E w \in Threads : Unfinished(w) THEN 1 ELSE 0)
  /\ work' = [w \in Threads |-> Rest] /\ guard' = 0
  /\ faults' = faults + 1
  /\ UNCHANGED <<kind, db, config, secret, kept, wrong, asked, bent, made, unlocks>>

Step(w) ==
  \/ Creating(w) \/ Show(w)
  \/ Replace(w) \/ ReplaceFails(w)
  \/ TakeGuard(w) \/ Count(w) \/ TryRight(w) \/ TryWrong(w) \/ TryFails(w) \/ OpenRight(w)
  \/ FreshSecret(w) \/ Rewrap(w) \/ Recovered(w)
  \/ RemoveStep(w, TRUE)

Person(w) ==
  \/ \E p \in Typed, b \in BOOLEAN : Create(w, p, b)
  \/ \E p \in Typed : Unlock(w, p)
  \/ \E p \in Typed : Recover(w, p)
  \/ Restore(w) \/ NewRecoveryKey(w) \/ Wipe(w)

Next ==
  \/ \E w \in Threads : Step(w) \/ Person(w) \/ StepFails(w) \/ RemoveStep(w, FALSE)
  \/ Use \/ SaveLockPrefs \/ Lock \/ TimePasses \/ LockIfIdle
  \/ LoseSecret \/ AppEnds

\* A command that was started goes on, and the idle thread keeps looking.
Spec ==
  /\ Init /\ [][Next]_vars
  /\ \A w \in Threads : WF_vars(Step(w))
  /\ WF_vars(LockIfIdle)

(***************************************************************************)
(* The button that erases a phone is not disabled: a person who is quick   *)
(* enough, or whose phone takes long over the passphrase, erases it while  *)
(* it is unlocked. Nothing keeps the two apart, and NeverLockedOut does    *)
(* not hold: an unlocking that has found the key makes an empty database   *)
(* where the old one was, and then the configuration goes.                 *)
(***************************************************************************)
WipeHurried(w) ==
  /\ Free(w) /\ At(w, "rest") /\ kind = "phone"
  /\ \E v \in Threads : work[v].at \in {"guard", "count", "try", "right"}
  /\ SetUp
  /\ open' = FALSE /\ asked' = "person"
  /\ Erase(w)
  /\ UNCHANGED <<kind, db, config, secret, idle, guard, kept, tried, bent, made, faults>>

SpecHurried == Init /\ [][Next \/ \E w \in Threads : WipeHurried(w)]_vars

(***************************************************************************)
(* Properties.                                                             *)
(***************************************************************************)
Steps == {"rest", "secret", "config", "db", "settings", "show", "replace", "guard", "count", "try", "right",
          "fresh", "rewrap", "recovered", "erase"}
Wrapped == [by : (0..MaxMade) \X Typed, key : 0..MaxMade]
Configs ==
  [pass : BOOLEAN, everyday : Wrapped, recovery : Wrapped, failed : Nat, limit : {0, Limit}, idles : BOOLEAN]

\* What is left to remove: the end of `Everything`.
Lefts == {<<>>, <<"secret">>, <<"config", "secret">>, Everything}
Works == [at : Steps, pass : Typed, copy : Configs, backup : BOOLEAN, left : Lefts]

TypeOK ==
  /\ kind \in Kinds
  /\ db \in [key : 0..MaxMade, rows : {"none", "bare", "empty", "own", "copy"}]
  /\ config \in Configs
  /\ secret \in 0..MaxMade
  /\ open \in BOOLEAN /\ idle \in BOOLEAN
  /\ work \in [Threads -> Works]
  /\ guard \in {0} \cup Threads
  /\ hand \in 0..MaxMade /\ word \subseteq Typed
  /\ wrong \in Nat /\ broken \in Nat
  /\ asked \in {"nobody", "person", "tries"} /\ bent \subseteq {"secret", "recovery", "left"}
  /\ made \in 0..MaxMade /\ unlocks \in 0..MaxUnlocks /\ faults \in 0..MaxFaults

Erasing == \E w \in Threads : At(w, "erase")

\* A database that stands on disk always has the configuration with its key beside it: `status` says "not set up" without one, and
\* `create` refuses because of the database. Only a file that could not be removed leaves it so.
NeverStuck == DbThere => (ConfigThere /\ config.everyday.key = db.key /\ config.recovery.key = db.key) \/ "left" \in bent

\* Nobody is locked out of their data by a step of setting up, recovering or erasing that failed or was not reached: the database
\* has its configuration, and unless the keychain lost the secret a passphrase the person chose opens it, and so does the
\* recovery key that was shown last, once a key was shown at all.
NeverLockedOut ==
  /\ NeverStuck
  /\ DbThere /\ ConfigThere /\ ~Erasing /\ "left" \notin bent =>
       /\ "secret" \notin bent => \E p \in word : Opens(config.everyday, Kek(secret, p))
       /\ "recovery" \notin bent => Opens(config.recovery, RecoveryKek(hand))

\* On a device that erases itself every wrong passphrase since the count was last cleared is on disk, however often the app ends
\* in the middle of a try or unlocking is asked for twice at once; and it erases itself only after that many tries, broken ones counted.
TriesCounted ==
  /\ [](ConfigThere /\ config.limit > 0 => wrong <= config.failed)
  /\ [][asked # "tries" /\ asked' = "tries" => wrong' + broken' >= Limit]_vars

\* Every command of the window ends, and an open vault nobody uses is closed while the idle lock is on.
Settles == []<>(Waits /\ ~(open /\ idle /\ ConfigThere /\ config.idles))
=============================================================================
