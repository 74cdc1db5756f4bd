# Formal specification of meowNY

meowNY is a personal finance program in two copies: a desktop app and a phone
app (the same Rust backend under Tauri, `src/src-tauri/src`), each with its own
encrypted SQLite database. The two are paired once and from then on compare and
exchange their rows over the local network. A command line client and a REST API
talk to the desktop app.

This directory holds TLA+ models of its backend, the TLC runs that check them on
small instances, and proofs checked by TLAPS. Paths below are relative to
`src/src-tauri/src` unless they start with `src/`.

## 1. The system

| Component | State it keeps | Operations | What makes it correct |
|---|---|---|---|
| Stamps, hybrid clock (`sync/stamp.rs`, migration 0008) | `sync_clock`: last_ms, last_counter, device_id; a stamp on every shared row | tick (in triggers), observe, catch_up, after_restore | a stamp names one content for ever; what a person writes is newer than what that person saw |
| Sync engine (`sync/engine.rs`) | ten shared tables, deletion markers, currency changes | digest, to_send, conflicts, decide, apply, apply_currency, check_hello | two devices that exchanged their rows hold the same; nothing older replaces anything newer; conflicts are asked |
| Conversation (`sync/flow.rs`) | the step each side is at | pair_as_*, sync_as_*, exchange, compare, review_conflicts | the two sides stay in step; a sync ends on both; a direction is kept to |
| Paired devices (`sync/peers.rs`) | `sync_peers` with the time of the last sync | add, touch, remove, changes_since | what was not sent is counted |
| Sync service (`sync/service.rs`) | one shared status: running, question, choices, cancel flag | start_*, enter_code, decide, cancel, acknowledge, scan | one run at a time; an answer belongs to the question that was asked; cancel ends the run |
| Files in a sync (`sync/files.rs`) | files of documents, unfinished transfers, keep-on-phone flags | have / need / file / stored, drop_stored | the phone lets go of a file only if the desktop holds it whole |
| Network (`sync/net.rs`, `crypto.rs`, `wire.rs`, `qr.rs`) | a window, keys of a connection | open, accept, handshake, frames | cryptographic |
| Vault (`vault.rs`, `keys.rs`, `recovery_file.rs`) | the configuration file (wrapped keys, failed attempts, preferences), the open database or none | create, unlock, recover, new_recovery_key, lock, lock_if_idle, restore, create_from_backup, wipe | a try is counted before it is made; a vault that exists can be opened with what the person holds |
| Backup (`backup.rs`, `backup/stream.rs`) | a file of all rows and documents | write, read, prepare, commit, merge | a restore is all or nothing and does not harm a later sync |
| Scheduled backups (`schedule.rs`) | next date, retention, last result | run_if_due | one file per due time; the newest ten stay |
| Recurring items (`recurring.rs`) | schedule, next_due, payments, skips | create, update, pay, skip, set_active, end, dues | no occurrence is passed over that is still open, none is paid twice |
| Categories, budgets, transactions | rows; a series of limits per category | create, update, delete, delete in a span, reorder | the months outside the span keep their budgets; no call takes a month further over its total |
| Debts (`debts/`) | friends, parts of bills, loans and repayments, templates, codes | split, edit, lend, settle, accept a code, remind | parts never pass the bill, the same on every device; statements and history agree with the balance |
| Figures, exports, reports (`stats.rs`, `export.rs`, `report.rs`) | none | the charts, an export with its preview, a report | every screen and file shows the same figures; a narrowed file shows nothing of the rest |
| Documents (`documents/`) | rows and sealed files, an upload, dropped files, plain copies for the viewer | add, delete, attach, upload, drop, open, check the folder | no row without its file, no file without its row after a check; nothing stays in the clear after a lock |
| Command API (`api.rs`, `api/`, `tokens.rs`) | the listener and its port file, tokens, at most one question to the person, refusals | turn on and off, a request from its connection to its answer, ask, allow, refuse | one question at a time, on screen exactly while the app thinks so; a file only for a yes; a slot is always given back |
| Window commands, formatting, CLI, UI | none of their own | | adapters and pure functions |

How they interact: every change of data, whoever makes it (window, API, a due
recurring item, a sync), is a transaction on the one database of the device,
behind `Vault::with_conn`. Triggers of migration 0008 stamp the row inside that
transaction. A sync runs on a thread of its own, which takes the database for one
step at a time and lets it go while it waits for the other device, so people and
the API write between its steps. The person answers a review through the service's
shared state. Locking closes the database under a running sync. A restore, an
erase and a setup from a backup replace the database under a device that the
other one knows.

The command API runs a thread per connection beside the window's own: they meet in
the vault's lock, in the one question to the person, and in files outside the app.

What is hard here: rows chosen from a list that is stale when they are sent;
clocks that are wrong, set back or quiet; stamps that must not repeat over
restores and erases; two sides that decide separately what comes next; a break
after one side applied; times of the last sync that are taken at its end; rows that
collide once two devices exchange them; an app that ends between two files that must
agree; answers that come after their question; checks that read what somebody else is
about to change. The hazards are listed with their lines in `PROJECT.json`.

## 2. Modules

    Stamps            the clock's arithmetic and the order of stamps
      Registers       rows as registers, catch_up, "the larger stamp wins"
        SyncClock     any devices, any rows: every step that gives or moves stamps
          MCSyncClock     TLC instance
          SyncClockProofs theorems and proofs
        SyncFlow      desktop and phone, message by message; implements SyncClock
          SyncFlowInvariants  the inductive invariants, in layers
            SyncFlowProofs    theorems and proofs
      SyncMerge       what a device does with the rows it gets: every table, with merges
    SyncService       pairing and syncing as the screens see it: windows, codes, threads
      MCSyncService       TLC instance
      SyncServiceProofs   theorems and proofs
    SyncFiles         the files of documents: folders, requests, pieces, what the phone lets go of
      MCSyncFiles         TLC instance
      SyncFilesProofs     theorems and proofs: no file is lost, files go one way,
                          the two sides stay in step
    Recurring         one recurring item
      RecurringProofs     theorems and proofs
    Vault             setting up, opening, recovering, locking and erasing
      VaultProofs         theorems and proofs
    Library           documents and the folder of their files
      Backups         backups by hand and on a schedule, and restores, beside Library
        BackupsProofs     theorems and proofs of both
    Splits            sharing a bill
      Ledger          transactions, friends, loans, codes, reminders
        Books         categories and budgets
          Statistics  the figures of the charts
            Exports   what an export, its preview and a report hold
              MCBooks     TLC instance
    Routes            the route table of the command API
      Api             listener, tokens, requests, the question to the person
        MCApi             TLC instance
        ApiProofs         theorems and proofs

SyncFlow is shown to implement SyncClock (`ClockSpec`). The other modules of the sync
divide it between them: SyncFlow has the order of messages with the simplest of rows,
SyncMerge all the tables in the simplest of syncs, SyncFiles the files that follow,
SyncService the devices that find and leave each other. Library and Backups, and the
five modules from Splits to Exports, are one state machine each, in layers.

### Stamps and Registers

A stamp is the text `{ms:013}-{counter:04x}-{device}`, compared as text. All
three parts have a fixed width, so the order is the lexicographic order of three
numbers, and that is what the model has. `ms` is unbounded in the model (thirteen
digits last until the year 2286; wrapping there is not modelled), the counter
runs to `MaxCounter` and carries into the milliseconds as in the code. `derive`,
`after` and `moved` (stamps the engine works out from others) are those SyncMerge uses. Device ids are random in the code, 32 bits of them in a
stamp; the model gives out numbers that were never given out before. That two
random ids agree is therefore not modelled.

### SyncClock

| Model | Code |
|---|---|
| `Change` | any write of a shared row: the triggers `*_sync_*` of `0008_sync.sql`, `tick` |
| `Send`, `Lose` | `Outgoing::rows_messages`, and a connection that breaks |
| `Apply` | `Applier::apply` as far as one row goes, ending with `catch_up` |
| `KeepMine`, `TakeTheirs` | `engine::decide` |
| `MoveClock` | the clock moved without a row: `currency::change`, `apply_currency` |
| `WriteBackup`, `ReplaceAll`, `AfterRestore` | `backup.rs` and `stamp::after_restore`: two transactions |
| `Open` | `db.rs`: opening a database catches up |
| `Erase` | `vault::wipe` and a new setup |

Any device may send any of its rows to any other at any time, and what is on the
way is delivered, replaced by something later, or lost. That is more than the two
apps do, so what holds here holds for every conversation they can have; SyncFlow
shows that its steps are among these. A device in `replaced` is between the two
transactions of a restore. The code holds the database's lock there, so nothing
but the end of the app comes in between.

### SyncFlow

Each step of `flow.rs` between two waits is one action; its message, if it takes
or sends one, is part of it. `run[d].at` names the step:

    hello -> (currency | learn) -> compare -> hashes -> lists
      -> (versions -> review | reviewed) -> compare ...      (once)
      -> rows -> apply -> done -> touch -> rest

`TakeHello` is check_hello, `SendCurrency` and `LearnCurrency` are the two sides of
settle_currency, `Compare` .. `TakeLists` compare and exchange_steps, `TakeVersions`,
`Review`, `TakeReviewed` review_conflicts and decide, `TakeRows`, `Apply`, `TakeDone`
the rest of the exchange, `Touch` peers::touch. `Fail` is everything that ends one
side: cancel, lock, time limit, network. `PeerGone` is how the other side notices.
The wall clock of a device is the true time plus a constant lead.

The code lets the two wall clocks be up to a day apart, and two of its promises rest on them all the
same. `DecidesPastSeen` and `WritesPastSyncs` are the two steps at which they do: a decision is stamped by the
clock of who decides, which must be past the versions shown, and a change made after a sync must be stamped
after the time that either device noted for it. `InTurn` is both. They are conditions on single
steps, not on the clocks: these may differ by any amount wherever else it does not matter. Two clocks that agree are
always in turn (`AlwaysInTurn`, checked by `SyncFlowInTurn.cfg`). `flow` takes the steps that are in turn (`SpecInTurn`). What happens to devices that are not in turn is
in section 5, 2 and 3.

Two ghosts are kept for the properties and decide nothing: `over` in a row (the
versions its writer had seen) and `against` (the contents a person decided
against). Abstracted: the hash of a table is its list (no collisions); ten tables
are one table of independent rows (SyncMerge has them all); the files go between done and touch without a
step; in InitMet the two devices start as after a first sync.

`Concurrent = FALSE` keeps people from writing while a sync runs and in the
millisecond it ends; the properties that need it are listed under limits. `Habits`
are the directions the devices of a behaviour use: those that sync in other directions
than both ways have one row (`Plain`).

### Recurring

One recurring item, since items do not touch one another. A schedule (start, unit,
count) is the set of days it falls on: `due_date` makes the days, and everything
else only asks which days they are. `First(...)` stands for the walks
`first_on_or_after` and `next_after`. `paid` are the due dates of the transactions
linked to the item. `Advanced` is `advance`, the part that `PayNext` and `SkipNext`
share; `LaterOccurrence` is the check of a date that was given. A next date after
the year 9999 is refused by the table's CHECK (the text of such a date sorts before
every other), so `Advanced` is empty there; the branch of `advance` for dates off
chrono's calendar is never reached. The item a sync brings, and `check_recurring`,
are in SyncMerge.

### SyncFiles

What follows the rows in a sync (`sync/files.rs`), with the folder of each device
(`documents/store.rs`) and what people do to documents meanwhile (`documents/library.rs`).

| Model | Code |
|---|---|
| `rows`, `file`, `part` | the row as far as files depend on it; the `.mnd` file (whole, or damaged: it does not open); the whole chunks of a `.part` file |
| `run[d]`, `wire[d]` | the locals of `phase`; the messages on their way to d |
| `Start`, `StartAndBreak` | the rows of a sync (SyncFlow) in one step: on both devices, or on one |
| `Begin`, `TakeHave`, `TakeNeed` | steps 1 and 2 of `phase`: `have_list`, `wanted`, `cost`, the budget |
| `Serve`, `TakeSkip`, `TakeFile`, `TakePiece` | step 3: `serve`, `answer`; `fetch` with `begin_incoming`, `Incoming::write`, `finish` |
| `Served`, `Fetched` | who serves and fetches first, and that a sync to the desktop ends here |
| `Confirm`, `TakeStored` | step 4: `confirmed`, `holds_whole`; `drop_stored` |
| `Add`, `AddAgain`, `Update`, `Delete`, `Tidy` | `library::add`, `update`, `delete`, `check` |
| `Break`, `PeerGone`, `Damage` | lock, cancel, network; the other side noticing; a file that no longer opens |

A row that changed on both sides may end as either: which one is SyncFlow's subject. A
piece of the model is a sealed chunk; the code's messages are smaller than its
chunks, and what does not fill a chunk is lost when a transfer stops. A list in several
messages is one message. A device sends a file in one step, since it holds the bytes
in memory from then on; it is received piece by piece, with everything else in between.
A disk that fails is the choice `works` of a step, and uses up the bound of faults.

Two ghosts decide nothing: `gone` (documents a person deleted) and `hurt` (documents
whose last good copy was damaged, or whose copy on the desktop was damaged after the
desktop had looked at it in this sync and before the phone acted on that).

### SyncMerge

| Model | Code |
|---|---|
| `dev[d].rows`, `gone`, `clock` | the tables, `sync_deleted`, `sync_clock` |
| `NameNew` .. `LinkStep` | what a person does, with the triggers that stamp it |
| `Lists`, `Outgoing` | the rows and markers that go, from lists made before |
| `NamedRows`, `BudgetMoves`, `PlainRow`, `DocumentRow`, `LinkRow`, `Markers`, `SettleBudgets`, `CheckRecurring`, `CaughtUp` | the steps of `Applier::apply`, in its order |
| `Repoint`, `Merged`, `StepAside`, `Freed`, `Kept` | merging a name, moving what hangs on the loser, freeing a key, keeping one of two twins |
| `Sync`, `SyncBreaks` | a sync that both devices finish, and one that only one applies |

Every table is a set of ids and every row one record, a field a table does not have
being 0. The ghosts `facts`, `removed` and `met` say what was entered, what a person
deleted, and how many syncs both devices have finished since the last edit. Left out: the table of settings
(one row that nothing refers to, as in SyncClock), amounts and what `splits::check` and the checks of a
bill under an income refuse about them (Splits and Ledger have the rules of parts). The two devices
never edit in one millisecond with one counter and one id, see Stamps.

### SyncService

| Model | Code |
|---|---|
| `thread`, `status`, `cancel`, `answer` | the run, `Shared::status`, the flag, `typed` and `choices` |
| `window`, `backlog`, `link` | the listener of `net.rs`, connections waiting at it, the one channel |
| `StartPairing`, `StartSync`, `Scan`, `Type`, `Decide`, `Cancel`, `Acknowledge`, `RemoveDevice` | the commands of the screens |
| `OpenWindow`, `Accept`, `Dial`, `Greet`, `TurnedAway` | opening, the limits of connections and bad first messages, which secrets open one |
| `Hello` .. `StorePhone`, `MeetDesktop` .. `StoreDesktop` | `pair_as_desktop` and `pair_as_phone`, step by step |
| `Review` .. `ApplyBack`, `Done` | a sync, with or without a review |
| `Stops` | what ends a run between two messages: cancel, lock, a limit of time, a channel that is down |
| `Lock`, `LockCancels` | the vault is closed first, and the sync cancelled after |

Ciphers are taken for what they promise: a first message opens for the secrets it was
made with and no others. That a start finds no address, port or random number, and that the reply to a first message cannot
be written although the phone is there, are among the breaks of the network (`"break"`), one of the scopes. Words, reasons of failures, the direction of a sync and
reviews on the phone are left out.

### Vault

| Model | Code |
|---|---|
| `db`, `config`, `secret` | the three files (or the keychain entry) |
| `work[w]`, `guard` | the command that runs on each of two threads, `unlock_guard` |
| `Create` .. `Show` | `create` and `create_from_backup`, one step for each thing left on disk |
| `Unlock`, `TakeGuard`, `Count`, `TryRight`, `TryWrong`, `TryFails`, `OpenRight` | `unlock`: counted on disk, tried, reset or erased |
| `Recover` .. `Recovered`, `NewRecoveryKey` | new secret, new wrapping, in their order |
| `Restore`, `Replace`, `SaveLockPrefs`, `Lock`, `LockIfIdle` | as named |
| `Wipe`, `RemoveStep` | `remove_everything`, one thing after the other |
| `StepFails`, `LoseSecret`, `AppEnds` | a step that fails at any place, the keychain, a crash |
| `Waits` | the buttons of the lock screen that are disabled while a command runs (`src/ui/src/vault/LockScreen.tsx`) |
| `WipeHurried` | erasing a phone while it is unlocked, which no button prevents; in `SpecHurried` only, see section 5, 13 |

Keys, secrets and recovery keys are numbers used once, so a wrapped key opens for its own
pair only. `hand`, `word`, `wrong` and `broken` say what the person was shown and chose
and how often they tried; `bent` notes what was lost outside the program.

### Library and Backups

| Model | Code |
|---|---|
| `rows`, `files`, `temp`, `part` | rows of documents; the folder: `.mnd`, `.tmp`, `.part` |
| `holding` | the call that holds the state: only the end of the app comes between its steps |
| `Adds` .. `AddCommits`, `AddFails` | `add`: the file first, the row after |
| `DeleteRow`, `DeleteFile`, `Link`, `Unlink`, `Check` | `delete`, attachments, the check of the folder after an unlock |
| `UploadAsked` .. `UploadFinishes`, `Drop`, `AddDropped`, `OpenCopy` | the one slot of an upload and the pages that send; drops; copies for the viewer |
| `Lock`, `AfterLock`, `AppEnds` | closing, and what is cleared after |
| `Starts`, `WriteFile`, `Rename`, `Prune`, `Note` | a backup: rows in one transaction, each file under a hold of its own, then its name, the oldest, the record |
| `RunIfDue`, `StartSchedule`, `StopSchedule` | `schedule.rs` |
| `Restore`, `CreateFromBackup`, `FileArrives` .. `RowsGo`, `RestoreRefuses` | a restore: files beside the folder, then the rows and the files at once |

A backup of the model knows which documents were there, whole, from the moment its rows were
read until their turn came (`steady`): those must be in it.

### Splits, Ledger, Books, Statistics, Exports

| Module | Code |
|---|---|
| Splits | `allocate`, the ways to type a split, `Rescale`, the order in which parts are written (`debts/splits.rs`) |
| Ledger | `transactions.rs`; `people.rs`, `ledger.rs`, `codes.rs`, `history.rs`, `summary.rs`, `reminders.rs` of `debts/`; templates of a recurring item |
| Books | `categories.rs`, `budgets.rs`: `SetBudget` over a span with `BoundaryMonths`, `DeleteSpan` with `Pinned` rows, overview and history |
| Statistics | `stats.rs` |
| Exports | `export.rs`, `export/debts.rs`, `report.rs`: which rows go into a file, its preview, a report |

A day is a month, since everything here that depends on the month depends on the
order of days only. A call that is refused is no step; one that a check of the database
stops on the way sets `stopped`, which must never happen. `last` remembers the last
change of a budget. Statistics and Exports add no steps: they say what every screen and file shows of a
state, by the query of its own that each has in the code, and the properties compare them.

### Routes and Api

| Model | Code |
|---|---|
| `AllRoutes` | the table of routes with scope, arguments, whether the person is asked |
| `Connect`, `Accept`, `ReadHead`, `ReadBody`, `OutOfTime` | the listener, its slots and times (`api.rs`, `api/http.rs`) |
| `Refusal` | every check before a request is carried out, in the code's order |
| `Ask`, `Close`, `Deliver`, `Receive`, `TimeOut` | `api/prompt.rs`: the dialog and its answer on threads of their own |
| `CreateFile`, `FillFile` | `api/files.rs`, a confirmed route's file |
| `Change`, `SaveSettings` | a change of records; settings read and saved in two steps |
| `TurnOn` .. `HasStopped`, `Start`, `Ends` | the host, its port file, the app |

What the routes change is in the other modules; here a change leaves a mark of who made
it. A limit of time is what is left of it.

## 3. Runs

| Run | Instance | Shows |
|---|---|---|
| `clock` | 2 devices, one more id for a restore or erase and one after it, 1 row, 2 contents, clock to 2 ms, counter always full | a stamp names one content; an edit beats what its writer saw |
| `flow` | both ways with 2 rows and 4 versions, with wall clocks that agree or of which either is ahead, in turn; every direction with 1 row and clocks that agree; 2 syncs, 1 change of currency, limit of 1 conflict, breaks everywhere | the devices agree at the end, what is not sent is counted, amounts are in the currency shown, the chosen version wins, nothing is overwritten unasked, a sender is not changed |
| `flow_ends` | 1 row, 2 syncs from empty devices with a review in the second, people write during it | the sides stay in step, every sync ends on both, SyncFlow implements SyncClock |
| `recurring` | 7 days, four schedules, every end date | the list of dues is what can be paid; nothing open is passed over, nothing settled comes due again |
| `files` | 2 documents of 1 and 2 chunks, a budget of 2, every direction, 3 changes by people, 1 fault | no file is lost, the budget is kept, the sides stay in step, a sender's files are not changed, files end where they belong |
| `vault` | desktop and phone, 2 of every key, 3 tries of unlocking with a limit of 2, 2 faults | nobody is locked out, every try is counted and only tries erase, every command ends and the idle lock locks |
| `merge` | 11 kinds of edits, 2 or 3 rows of each table, 3 edits, 2 syncs, in three kinds 1 of them cut | nothing an honest device sends is refused, devices end equal, the tables are whole, nothing vanishes |
| `backups` | 2 documents of 2 and 3 pieces, 8 groups of what happens together, 2 backups that stay, one due every 2 days, 1 fault | the folder matches the rows and nothing stays in the clear, a backup is complete, a restore is whole, what is due is tried |
| `service` | a phone and two desktops, 2 codes, 2 tries, 2 connections, 1 fault or act of a person of one kind at a time | secrets only after the digits, stored on both, a phone knows the desktop whose rows it holds, every run ends |
| `books` | 5 groups of calls, 2 or 3 calls, 4 months, 2 bills, friends and entries | bills hold, are the same everywhere, screens and files agree, budgets apply, only the span changes, no month is taken further over, an export shows nothing of the rest |
| `api` | 4 groups, 3 connections with 2 slots, every time limit 1, 2 launches, 1 change by the window | a question is open exactly while shown, a transaction is recorded once, files only for a yes and none replaced, every connection and stop ends |
| `merge_refused` | names of categories, 2 edits, one sync cut | violation, see limits |

`FolderMatchesRows` includes that nothing stays in the clear (`PlainGoesWithTheLock`) and that one
page sends at a time (`OneSender`); `EndsInAgreement` of SyncFlow includes `UnsentAreCounted`, of
SyncMerge `NextRepairs`; `NoSilentOverwrite` includes `SenderStays`; `EverySyncEnds` and `InStep` of the sync
modules include what their runs show of the two sides staying in step and of the budget.

The type invariants of SyncClock, SyncFlow, Recurring, SyncFiles, Vault, Backups, SyncService and
Api are proved (section 4).

**Bounds.** The properties of the clock speak of two copies of one row, so
one row and the fewest contents that can differ (two) suffice to break them, and
the mutants show that they do; a full counter makes every tick carry; two new ids
allow a restore followed by an erase. In SyncFlow a conflict needs a shared
version and one edit on each side: three contents. A second sync is needed for
what the first leaves behind (the time of the last sync, half an exchange). Two rows with
a limit of one conflict are the least that reach past the limit. `MaxNow` gives
every sync a millisecond of its own and the edits before it another, and a lead of one (`Leads`) is as long
as such a sync: what one device writes just after it is stamped before or after what the other noted, and a decision before or
after the version it is about. The proofs take any leads. `ClocksTried` keeps out of `flow` that both are ahead, which is as good as none,
and a lead beside the directions where nothing is asked. Seven days hold
daily, two-daily and irregular schedules with at least two occurrences past the end,
enough for an item to stop, be resumed and be moved from one schedule to another.

In SyncFiles two documents of different size are the least for which the order of
requests and a budget that fits only one of them matter; a file of two chunks can stop half way. Three
changes are enough for a document that is added, changed on one device and deleted on the
other, or switched between kept and not kept during a sync.

In Vault two keys are a set-up and a second one over it or a recovery; three tries with a
limit of two reach the limit with one try that was not finished; two faults let one step
fail while another is being repaired. In SyncMerge a collision takes one edit on each device, and
a third one something that hangs on the row that loses; ids leave room for one new row of a table
on each device besides the shared one. The kinds of edits that can meet (same table, or one
refers to the other) are the eleven scopes; the kinds that cannot meet are not combined. A
second sync shows what the first left different, a cut one what half an exchange does.

In Backups two backups that stay and a third show pruning; two documents let one be deleted or lost while
the other is copied. In SyncService two codes are a window and an older one of it or of another
desktop; two slots and a queue of two let a stray connection come before the phone. In
Books three calls make a bill, share it and change it, or two calls meet series
of budgets that start with rows in one month or in two; months go one past `LastMonth` where a rule speaks of later ones.
In Api three connections are one more than the slots, and two requests ask for one path.

Every property has a mutant: a change of one mapped definition, of the kind a
slip in the code would be, under which TLC finds the property violated.

**Fairness.** `FairSpec` of SyncFlow has weak fairness of each side's own steps and of giving up a
review. The first is the thread of the sync, which runs until it waits; the second
is the time limit of `service.rs` (`wait`). Nothing is assumed of people: they
need not write, start a sync or answer. Nothing is assumed of the network except
that a side that waits for one that is gone notices (a closed TCP stream, or the
read time limit of `net.rs`).

`FairSpec` of SyncFiles has weak fairness of each side's steps, for the same reason, and
strong fairness of starting a sync both ways. The second is an assumption about people:
that they go on syncing. `FilesEndInPlace` says what they get by it: whatever is
added, changed, deleted or interrupted, once that stops the files end where they
belong although a sync moves only what its budget holds. It is stated for folders
without damaged files, see the damaged file in section 5.

Vault: a command that was started goes on (its thread), and the idle thread keeps looking
(`lib.rs`). Backups: the timer of the schedule, a backup being written, and the call that holds the state.
SyncService: each thread, whose waits all have a limit of time, and the command that cancels the sync
after the lock. Api: threads go on, time passes, and a dialog's answer once given is delivered; a person need
not answer, a client need not send or read.

## 4. Proofs

`SyncClockProofs` proves for every number of devices, rows, contents and bounds:

- `TypeCorrect`: `TypeOK`.
- `ClockInvariant`: `ClockInv`, the inductive invariant.
- `ClockCoversTheorem`, `StampNamesVersionTheorem`: the two safety invariants. The first is part of the
  second's argument and is in no run.
- `EditBeatsWhatWasSeenTheorem`, `NothingGoesBackTheorem`: the two action properties; the second is proved only.

That a stamp names one content is not inductive: a device could repeat a stamp of
which only a copy elsewhere remains, in a backup, on the way, on another device.
`ClockInv` adds why it cannot. Ids are distinct and below the next one
(`DistinctIds`), and of every copy anywhere, the device that has the id in its stamp
is at or past that stamp (`Issued`). A tick is strictly past the clock, so a new stamp differs from all copies.
A restore takes rows back in time and an erase the clock, but both take a new id,
under which nothing was stamped yet. The lemmas about ticks, `Observe`, `CatchUp` and `Newer` come
first, then one theorem step per action. The assumptions are those of the modules:
bounds are natural numbers and the devices start with ids below `FirstFree`.

The new id is what makes a restore safe, not the clock: the proof covers the app
ending between the two transactions of a restore (`Open` of a device in `replaced`),
where the device keeps its id and the rows are older than its clock.

`RecurringProofs` proves for any calendar and schedules: `ItemTypeCorrect`,
`SkipsAheadTheorem`, `DueCanBeSettledTheorem` and `OneAtATimeTheorem`. The invariant is
`TypeOK /\ SkipsAhead`: that the item is on an occurrence of its schedule is what the
list of dues needs to agree with the check of a payment, and that skips lie ahead is
what lets `advance` forget the older ones. `OneAtATime` is an action property over it.

`SyncFilesProofs` proves for any documents, sizes, budget, changes and failures:

- `FilesInvariant`: `FilesInv`, the inductive invariant.
- `NoFileLostTheorem`: `NoFileLost`.
- `FilesOneWayTheorem`: the action property `FilesOneWay`.

That a file is somewhere is not inductive: the phone removes its copy because of a message
the desktop sent some steps ago, and the desktop sends it because of what it received some
steps before that. `FilesInv` adds what links them. What the desktop received in this sync,
and what a `stored` on its way names, is `Safe`: the desktop can open it, or the
document was deleted or its file lost to a disk. A device that is receiving a file knows
its document (`TakesKnown`), so a piece never revives a file without a row. A row that
changed exists, only a deleted document has a marker, and a file without a row is one
of a deleted document (`RowsInv`), so neither `Tidy` nor a row that comes with a sync
takes a file that is needed. `TypeInv` types the requests and the messages. The proof has one lemma for each step.
`SafeKeeps` is shared by the steps that change files.
That a request has a newest document, which `Newest` chooses, needs a greatest element of a finite
set; it is proved from the library's fact that an injection of a finite set into itself
is onto, since induction is out of reach.

`FilesOneWay` needs a second invariant: a request is empty unless files may come this
way, and no device waits for `stored` in a sync to the desktop (`Asks`). Every
step leaves a device going on in the same direction or out of the sync (`Goes`).
Both use only `DocsAssumption`, that there are as many sizes as documents.

The second half of `SyncFilesProofs` proves, for the same constants:

- `StepInvariant`: `StepInv`, the inductive invariant of two devices in step.
- `InStepTheorem`: `InStep`, with `WithinBudget`.
- `TypeOKTheorem`: `TypeOK`.

`InStep` speaks of the first message on each wire; to stay true it needs all of them.
`StepInv` says what a wire may hold. Its messages are first the pieces missing of the file that is
arriving (`Pending`), then one answer for each document still open, from the newest on
without a gap (`Way`), each file with as many pieces as its receiver misses (`Answer`), and
at the end perhaps `stored`. What is open and has no answer on its way, the other device is still to be
asked for or has still to serve, in the same order and from the same chunk (`Owes`). So the
message a device finds is the one it waits for, and who waits with nothing on its way
has asked the other for something: not both can. `Together` says how far the two are from each
other, with the one overlap the code has: the desktop may find the phone's answers behind the request
it has not read yet (`Ahead`).

For the budget, `Shared` adds up what each device has sent and may still be made to send. The phone makes
its share from the rows it has when the request comes, and rows change meanwhile: the sum
counts the desktop's side whole, and of the phone's side only what is live there (`Alive`). A
document the phone knows may be deleted there, which lowers its sum, and does not come back in a sync.
That is why `Shared` keeps the lists and requests to documents the phone knows (`Known`): a document
added under way could not enter the sum later. The sums themselves (`Cost`, `Wanted`) are recursive functions
over the documents. Facts about them are proved by the oldest document they would not
hold of (`OneIsOldest`, `SumLess`, `SumOneMore`, `WantedFits`), and that the function exists by joining
its beginnings (`SomethingFollows`), since the library's induction cannot be used.

The proof has one lemma for each action. What the sender and the receiver do to a
wire is in lemmas of its own: `WayReplies` and `WayStored` for an answer added at the end, `WayTail` and
`OwesTail` for the first message taken. `QuietKeepsStep` covers whatever leaves the wires alone.
`DocsAssumption` and `BoundsAssumption` are all it assumes. `FilesEndInPlace` is model-checked only.

`SyncFlowProofs` proves of both specifications (devices just paired, devices that met), for any rows,
clocks, limits and bounds:

- `FlowTypes`: the types, `TypeInv`.
- `FlowStaysInStep`: `InStep`, also while people write.
- `FlowKeepsCurrency`: `AmountsInCurrency`, where nobody writes during a sync.
- `FlowEndsInAgreement`: `EndsInAgreement`, where nobody writes during a sync.
- `FlowChosenVersionWins`: `ChosenVersionWins`, where besides `DecidesPastSeen` holds of every step.
- `FlowNoSilentOverwrite`: `NoSilentOverwrite`, where besides `InTurn` does.

The last four have `~Concurrent` as a hypothesis, as their run has; section 5 shows what happens otherwise. Nothing is assumed of
how the wall clocks stand to each other, nor of the counter: it may carry into the milliseconds at any tick.
The last two say of the two steps that compare stamps of one device with times of the other what those steps need, and both
are false without it (section 5, 2 and 3). That two clocks that agree are always in turn is model-checked and
not proved: it needs that a counter does not run full within one millisecond.

The invariants are in `SyncFlowInvariants`. Each part rests on the one before it. `InStep` looks at the first message only. `StepInv` says
what each wire holds as a whole: `Script`, from the step of its reader on, and `Together`, how far the
two devices are from each other while they greet (`Calling`, `Greeting`, `Learning`), compare, list, review and
exchange. It also keeps what they must have in common for that (`Met`: the hellos each has seen; the lists
each knows of the other), since they work out the next step separately from it: both ask about the same
conflicts because both have the same two lists. `MoneyInv` follows the changes of currency: those the phone
has not seen are what the desktop sends it (`Unseen`, `Fits`), and who is past the point where they are
settled agrees with the other on the list of changes (`Past`), so the rows on the wire have amounts in the
currency of their reader.

`RowsInv` is what makes two tables equal after an exchange. `SoundRows` says of two copies of a row that their
stamps are behind the clocks of those who gave them and hold them, that equal stamps are of one change (`Alike`, which is what
equal hashes stand for), and that who gave its version up in a review (`UNSET_STAMP`) knows the other has one with
a real stamp. `CountedRows` keeps the rows a device stamped after its last sync, or that the other is
ahead of. `Timely` has the wall clocks. `RunsTrue` and `MsgsTrue` say for every step what the list, the
rows to send and the rows on the wire have to do with the two tables as they are now: a list is that
of the table as it stands, what the receiver still
lacks is in `out`, on the wire or in `got` (`Due`, `HasAll`). A row moves in one of few ways, `RowGoes`: not at all
but for its amount (`Alike`), by a fresh stamp (`Restamped`), given up (`Given`) or taken from the other
(`Taken`); the lemma for each part says what such a move leaves standing (`NextKeeps`, `NextMoney`, `NextTruth`). Which
rows a device sends is from both lists, and what it takes goes through `Newer`, so the lemmas about
`ToSend`, `Merged` and the ticks of `decide` come before; the recursive function of the ticks is handled by its
least index (`OneIsLeast`).

`LineInv` follows the contents themselves, between devices that only sync both ways. Stamps alone cannot say that
nothing is overwritten unseen: a broken sync leaves a decision made on one device and not on the other, and the
next sync starts from there. So `Descends` says of two copies of a row that one content is one change; that
a content decided against is the older of the two, and its rival was not decided against; and that what is newer, and
what is still `Open` (neither writer had seen the other's, nobody decided), was written after the last sync, so that
`conflicts` finds it. `Strangers` keeps the contents of different rows apart, since `against` is one set.
A decision stamps by the clock of the device that keeps its version, and must come out newer than the other's: that is
where `DecidesPastSeen` is used, and `WritesPastSyncs` where a change must come out after the last sync. What
rests on the second is in the invariant only if `late` is TRUE, so one proof serves both theorems. `Cleared` is the aim:
none of the rows there is always a question about (`Early`) is open. `RunLine` and `MsgLine` say when it holds:
from the message `reviewed` on, in a second round, and wherever rows are exchanged; and that what the
reviewer was shown is what both tables hold. From this `NothingUnseen` and `ChosenWins` follow.

All these invariants were checked with TLC on the configuration of `flow` first.
The assumptions are that the rows and the bounds are natural numbers, finitely many rows and at least one moment
and one version, and that both devices' ids are below `LastDevice`. `EverySyncEnds` is liveness, and stays with TLC, as
does the refinement of SyncClock (`ClockSpec`) and what happens while people write during a sync.

`VaultProofs` proves for both kinds of device, any number of keys, tries and failures and any limit:

- `VaultInvariant`: `TypeOK` and `VaultInv`, the inductive invariant.
- `NeverLockedOutTheorem`: `NeverLockedOut`, with `NeverStuck`.
- `TriesCountedTheorem`: `TriesCounted`, an invariant and an action property.

That the configuration on disk opens the database on disk is not inductive: between the steps of a
setup or a recovery only part of it has been written, so the invariant says for each place a command can be at
what stands there already (`Made`, `Recovering`, `Erased`). A command works on a copy of the
configuration that it read earlier; `Copied` says that the copy is what is on disk, which needs
that the two threads are never both in the middle of something that writes (`Beside`, `Guarded`).
The one that holds the guard and erases keeps it, or the next in line would look at half a vault.
`Counted` is equality where the vault can still be tried: `config.failed` is the wrong tries, the
broken ones and the one under way. A try that is counted on disk and whose clearing is broken off stays counted,
right or wrong: so an erasure may follow fewer wrong passphrases in a row than `Limit`, and the property
counts both kinds since the count was last cleared.

`BackupsProofs` proves for Library and Backups together, for any documents, contents, pages, schedule and failures:

- `BackupsInvariant`: `TypeOK` and `BackupsInv`, the inductive invariant.
- `FolderMatchesRowsTheorem`, `BackupIsTrueTheorem`: the two invariants of the run.
- `RestoreIsWholeTheorem`: the action property `RestoreIsWhole`.

`CallOK` says of each call that holds the state how far it is: a restore has in place all files of the backup but
those that are `left`, an added file has its name before its row, a deleted row goes before its file. `Clean`
adds whose the files are that no row names once the folder was checked. `JobHolds` is the heart of the
backups: what was steady and had its turn is in the file, what was steady and waits for its turn is still whole
in the folder, so every step that takes a file away must also take it from `steady` of each backup under way.
`OneSender` needs who sends what (`UploadInv`): the page that began what is in the slot has sent all that is
there, or the other page broke in, and then only that one can go on, since the first has fallen behind by a length that no
push of its own matches. That argument needs files that are not empty, which the code refuses
(`upload.rs:39`, `library.rs:301`); `ContentsAssumption` says so. The scope of a behaviour, which the runs use to take one group of
steps at a time, is a constant: the theorems hold for all groups at once.

`SyncServiceProofs` proves for any number of phones, desktops, codes and troubles of every kind together:

- `ServiceInvariant`: `ServiceInv`, the inductive invariant, with `TypeOK`.
- `SecretsAreConfirmedTheorem`, `StoredTogetherTheorem`, `KnowsItsDesktopTheorem`: the three invariants of the run.

A desktop stores a secret because of what a phone sent, so the invariant reads the channel: an `accept` is there only for
digits that were typed right (`Agreed`), a second hello only when the phone has stored
(`Greeted`; `Greeting`: before the first one the desktop has heard nothing), rows only from a desktop that has (`Given`).
`DesktopHas` and `PhoneHas` say how far each side of a pairing is. Windows have numbers of their own (`Numbered`), so what a late
message says cannot be about a later window. A sync is opened with a secret of an earlier pairing:
`Opening`, `Rightful` and `Met` follow it from the list of a device through the first message and the queue to the channel.
With more than one phone and desktop `KnowsItsDesktop` has to say which desktop rows were taken from (`took`):
a phone that was paired with two and forgets one keeps the rows of that one.

`ApiProofs` proves for any routes, connections, tokens, paths, times and slots:

- `ApiInvariant`: `ApiInv`, the inductive invariant, with `TypeOK`.
- `QuestionsAreShownTheorem`, `OnceEachTheorem`: the two invariants of the run.
- `OnlyAllowedTheorem`: `OnlyAllowed`, an invariant and an action property.

`Agreed` follows a yes from the dialog, over the thread that delivers it, to the request that waits, and on to the file:
one that comes after the time-out reaches nobody. `Granted` and `Changers` carry the scope
of a token from the check of a request to what it saves several steps later, with what it saw of the settings
(`seen`). `RequestsAssumption` says what requests there are: routes of the table with a path or a uuid
where the route has one.

Not provable here and left to TLC: liveness (`FilesEndInPlace`, `Settles`, `DueIsTried`, `RunsEnd`,
`EverythingEnds`, `EverySyncEnds`) and ENABLED; what recursive operators compute (SyncMerge and the layers over Splits use
folds and sums over rows, which need induction over data; only functions over the documents `1..LastDoc`
and the ticks of a review yield to the least element). Of SyncFlow, that it
implements SyncClock is model-checked: a review moves several rows and ticks in one step, which are several steps there, and
the bound of that module's clock is one of the instance.

## 5. Limits of the program that the models show

Checked as a run that must fail:

1. **A name that waits is forgotten** (`merge_refused`). Both devices make a category of one name; the sync
   merges one into the other, and ends after one device has applied. In the next one the loser refers
   to a category that itself waits for the end of the rows (`engine.rs:1075`), and is refused as a
   broken reference, as in every sync after it while the rows stay as they are.

Shown by configurations that a reader can run; each ends in a violation:

2. **A chosen version can lose** (`SyncFlowChosenBehind.cfg`). `decide` stamps the version
   a person kept by this device's clock, which has not observed the other
   version's stamp. With the other clock ahead (less than a day, which check_hello
   allows), the kept version stays older and both devices end with the other one.
   `ChosenVersionWins` holds whenever the clock of who decides is past the versions shown.
3. **A change stamped before a sync that it followed** (`SyncFlowEarlyChange.cfg`). The threshold of conflicts is the later of two
   times taken from two wall clocks (`flow.rs:371`, `467`). What a device whose clock is behind writes soon after a sync has a stamp
   before the time the other noted for that sync: no conflict is found, and one of two contents is replaced
   unasked. `NoSilentOverwrite` holds where changes are stamped past both last syncs.
4. **A change of currency during a sync** (`SyncFlowCurrency.cfg`) on the desktop leaves rows on
   the phone converted once too often or too rarely; equal stamps hide it from
   every later sync. `AmountsInCurrency` holds when the currency changes between syncs.
5. **A quiet device looks like a wrong clock** (`SyncFlowQuietClock.cfg`). The hello carries
   the time of the last change, not the wall clock.
6. **A changed schedule may land on a paid day** (`RecurringNext.cfg`). `update` does not
   look at the payments; paying the next occurrence is then refused until it is
   skipped or a sync moves the item on.
7. **A document without its file** (`SyncFilesLost.cfg`). Deleting a document on the desktop
   removes its file at once. If the phone, which does not keep the file, changed the
   document after that, the next sync brings the row back on the desktop, and no
   device has the file. Adding the file again restores it.
8. **A payment without its item** (`SyncMergeApart.cfg`). A payment whose recurring item is deleted on the
   receiving device is stored without the link and under the sender's stamp (`engine.rs:1490`): the devices
   differ and no later sync sees it. It takes a sync that only one of them applied.
9. **A pairing that broke off** (`SyncServiceTurnedAway.cfg`) after the phone took over the desktop's currency
   (`flow.rs:606`, stored before the desktop at 618) leaves a phone without a desktop that is not empty: later pairings refuse it.
10. **A phone paired twice** (`SyncServiceFirstOnly.cfg`), first with an empty desktop and then with another one,
   always uses the first one's secret (`flow.rs:489`) and cannot sync with the second.
11. **A setting that was left out** (`ApiLeftOut.cfg`, with MCApi). `settings.set` reads the settings and saves
   them whole (`api/write.rs:56`, `vault.rs:638`): a change made in between is undone, although `write.rs:13` says
   that what is left out stays.
12. **An export with dates only shows the balance** (`BooksExportDates.cfg`, with MCBooks). `export/debts.rs:144` keeps the balance
   after each line unless the export is narrowed, and dates do not count as narrowing (`export.rs:171`), so
   the lines before the first day show in it, against `debts.rs:139`.
13. **A phone erased while it is unlocked** (`VaultHurried.cfg`). `wipe` does not take the guard that `unlock` holds, and the
   screen that erases (`src/ui/src/vault/PhoneScreens.tsx:112`) can be reached and used while the one that unlocks is busy. An unlock
   that has found the key then opens the database after `wipe` removed it, which makes an empty one, while the configuration
   goes: what is left is set up and cannot be opened. Erasing once more repairs it. `NeverLockedOut` holds where the two do not overlap.

Seen with the same models, and part of what the properties assume or leave aside:

- Syncs. `NoSilentOverwrite` needs nobody writing during a sync: the time of the last sync is that
  of its end, so a row written during it counts as exchanged.
- A row written during a sync makes the final hashes of a sync both ways differ
  ("This should never be", `flow.rs:125`); the next sync repairs it.
- After a sync to the phone, earlier unsent changes of the phone are no longer counted
  (`flow.rs:504`, `peers.rs:62`); the next sync both ways still sends them.
- Merging. Which of two entries or friends that say the same is kept may take a second sync to agree
  (`engine.rs:1608-1650`); `Doubles` names them.
- Pairing. A connection of somebody else may hold the window for three seconds while the answer the phone
  waits for times out (`net.rs:254`); trying again works.
- When an item stops at its end date, a skip or a payment on the first day past the
  end is not looked at; after the end is moved and the item resumed, that day may
  be due again or, if it was paid, be stuck as in 6.
- A restore is two transactions (`backup.rs:287`), although its comment (`backup.rs:286`)
  speaks of one transaction; when the app ends between them the device keeps its old id and
  its paired devices.
- A damaged file on the phone is listed as held, asked for by the desktop in every sync
  and skipped every time. It takes its part of the budget (`files.rs:130-148`), so an
  older good file that does not fit beside it never comes. Adding the same file again does
  not replace a damaged one (`library.rs:317` looks at the name only).
- A document deleted on the receiving device between its request and the answer ends
  the whole sync with a protocol error (`files.rs:406-408`), after its rows were applied,
  and not as `interrupted`. The next sync carries on. `InStep` is stated for everything else.
- Backups. Two scheduled backups that start in one second share the temporary file (`backup.rs:434`). Pruning goes by
  the names, so a clock that was set back makes it remove the newest. The record of a run may land on a schedule that was
  replaced meanwhile (`schedule.rs:144-154`). A crash leaves a `.tmp` file that nothing removes.
- Documents. Two uploads that overlap and have equal length can mix, if both pages belong to the person.
- API. After a time-out the dialog may close before its "no" is recorded, so the same token may ask once more
  (`api/prompt.rs:99-110`). Ids of tokens are used again (`0007:11`), so a "no" to a deleted token
  refuses the next one for thirty seconds. Bodies that are too large are answered before the token is looked at
  on some routes (`api.rs:370`). A crash between making and filling a file leaves the empty one. A change that was saved may be
  answered "locked". A payment of a recurring item sent again without its due date pays the next occurrence.
- Figures. The trend of a category that was deleted from a month on shows a budget where rows of later months
  remain; the budget screen shows none (`stats.rs:1-3`). A category deleted in all months is listed again when a payment of
  it is moved to an earlier one (`categories.rs:241`).
- Codes. A code keeps its id when its bill changes (`debts/codes.rs:123`), and the codes of a bill and of the recurring item it
  came from may both be accepted (`codes.rs:143`).

## 6. Plan

The modules of section 2 are the plan of this project; what is left:

1. Amounts over a change of currency with their rounding (`currency.rs`), as an algorithm of its own.

## 7. Not modelled

Frames and ciphers (their guarantees are cryptographic; Vault and SyncService take them for what they
promise), parsing and limits of messages and of the QR code (`wire.rs`, `qr.rs`), the layout of files and texts
(CSV, JSON, Excel, PDF, amounts and dates as text), the arithmetic of exchange rates, the tables
and triggers of the migrations other than those of syncing, the commands of the window that only hand their arguments
on, the CLI and the UI. `PROJECT.json` lists each with its reason.

## Running

    tlc -workers 2 -config SyncFlow.cfg SyncFlow
    tlc -workers 2 -config Api.cfg MCApi
    tlapm SyncClockProofs.tla

Configurations of section 5 and `SyncFlowInTurn.cfg` are not runs of `PROJECT.json`: `SyncFlowChosenBehind`, `SyncFlowEarlyChange`,
`SyncFlowCurrency` and `SyncFlowQuietClock` are run with SyncFlow, `VaultHurried` with Vault.
A configuration is run with the module of its name, or with the MC module that extends it
(`MCSyncFiles`, `MCSyncService`, `MCBooks`, `MCApi`; `MCSyncClock.cfg` has its own).
