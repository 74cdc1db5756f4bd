----------------------------- MODULE SyncMerge -----------------------------
(***************************************************************************)
(* What a device does with the rows and markers of the other one: the      *)
(* Applier of src-tauri/src/sync/engine.rs, with the steps of a person     *)
(* that make the rows meet (categories.rs, budgets.rs, transactions.rs,    *)
(* recurring.rs, debts/, documents/) and the triggers that stamp them.     *)
(*                                                                         *)
(* Every table but the settings, whose one row is that of SyncClock, is    *)
(* one set of ids, and every row one record; a field that a table does not *)
(* have is 0. Amounts are left out, and with them the refusals of          *)
(* splits::check and of a bill under an income: a bill is one row, which   *)
(* its device checked, and friends who become one add their parts. Two     *)
(* devices have met and hold the same rows; both edit, and sync in both    *)
(* directions, at once as sync/run.rs does. Which messages carry the rows  *)
(* is the matter of SyncFlow; here a sync takes both lists, and applies    *)
(* what follows from them on one device or on both.                        *)
(***************************************************************************)
EXTENDS Stamps, Sequences, FiniteSets, Functions, SequencesExt, TLC

CONSTANTS
  Categories, People, Items, Budgets, Transactions, Entries, Documents, Links,  \* the ids of each table
  Scopes,    \* which steps are taken: one of these sets of names
  LastDue,   \* the end date of a recurring item
  MaxEdits,  \* bound: how many edits both devices make
  MaxSyncs,  \* bound: how many syncs there are
  MaxBreaks  \* bound: how many of them end before one device has applied

Tables == <<Categories, People, Items, Budgets, Transactions, Entries, Documents, Links>>
Ids == UNION ToSet(Tables)

ASSUME IdsAssumption ==
  /\ Ids \subseteq Nat \ {0}
  /\ \A i, j \in 1..Len(Tables) : i # j => Tables[i] \cap Tables[j] = {}

Devices == {1, 2}
Names == {1, 2}

VARIABLES
  dev,      \* dev[d]: the rows, the deletion markers (sync_deleted) and the clock of a device
  scope,    \* what this run edits
  facts,    \* every row ever made, as it was made
  removed,  \* the rows a person deleted
  met,      \* how many syncs both devices applied since the last edit
  refused,  \* a device refused what an honest one sent
  now, edits, syncs, breaks

vars == <<dev, scope, facts, removed, met, refused, now, edits, syncs, breaks>>

(***************************************************************************)
(* Rows.                                                                   *)
(*   name  what a person calls it, or how much a budget is (0: nothing)    *)
(*   ref   its category, friend or document; 0 for a global budget         *)
(*   via   the recurring item of a payment, the expense of an entry, what  *)
(*         a link hangs on; 0 when there is none                           *)
(*   day   the month of a budget, the occurrence a payment is for, the     *)
(*         next due date of an item                                        *)
(*   key   client_uuid, origin_id                                          *)
(*   who   the parts of a bill, the weights of a template                  *)
(*   off   deleted_at, archived, not is_active                             *)
(*   into  merged_into                                                     *)
(*   skip  skipped_dates                                                   *)
(*   at    updated_at                                                      *)
(***************************************************************************)
Nobody == [p \in People |-> 0]
Blank ==
  [name |-> 1, ref |-> 0, via |-> 0, day |-> 0, key |-> 0, who |-> Nobody, off |-> FALSE, into |-> 0,
   skip |-> {}, at |-> 0, stamp |-> UNSET_STAMP]

Here(s, i) == i \in DOMAIN s.rows
Gone(s, i) == i \in DOMAIN s.gone
Put(s, i, r) == [s EXCEPT !.rows = (i :> r) @@ @]
Of(s, table) == DOMAIN s.rows \cap table
InOrder(ids) == SetToSortSeq(ids, <)
Refuse(s) == [s EXCEPT !.ok = FALSE]

\* The larger stamp wins, and on a tie the lower id.
Beats(stamp, i, other, j) == Older(other, stamp) \/ (stamp = other /\ i < j)

\* DELETE FROM, with what the foreign keys do: links go along, a payment and an entry lose what they hang on.
Without(s, i) ==
  LET kept == {j \in DOMAIN s.rows \ {i} : ~(j \in Links /\ i \in {s.rows[j].ref, s.rows[j].via})}
  IN  [s EXCEPT !.rows = [j \in kept |-> IF @[j].via = i THEN [@[j] EXCEPT !.via = 0] ELSE @[j]]]

\* unlink_entries, and the same for the payments of an item: they take the stamp of the deletion, unless theirs is newer.
Unlinked(s, i, stamp) ==
  [s EXCEPT !.rows = [j \in DOMAIN @ |->
     IF j \notin Links /\ @[j].via = i /\ Older(@[j].stamp, stamp) THEN [@[j] EXCEPT !.stamp = stamp] ELSE @[j]]]

\* put_marker
Marked(s, i, stamp) ==
  IF Gone(s, i) /\ ~Older(s.gone[i], stamp) THEN s ELSE [s EXCEPT !.gone = (i :> stamp) @@ @]

\* remove_marker
Unmarked(s, i) == [s EXCEPT !.gone = Restrict(@, DOMAIN @ \ {i})]

\* Mutant: a merge is not followed.
StandHere(s, i) == IF Here(s, i) /\ s.rows[i].into = 0 THEN i ELSE 0

\* category, person: what a category or a friend is after the merges, 0 when it is not known.
Stand(s, i) ==
  LET end[j \in Ids, hops \in 0..8] ==
        IF hops = 0 \/ ~Here(s, j) THEN 0
        ELSE IF s.rows[j].into = 0 THEN j ELSE end[s.rows[j].into, hops - 1]
  IN  end[i, 8]

\* loser_marker: one step after the stamp of the loser, or the deletion that came along.
LoserMarker(s, i, stamp) ==
  IF i \in DOMAIN s.batch /\ Older(stamp, s.batch[i]) THEN s.batch[i] ELSE After(stamp)

(***************************************************************************)
(* Categories and friends.                                                 *)
(***************************************************************************)
Active(r) == ~r.off /\ r.into = 0
Table(i) == CHOOSE t \in ToSet(Tables) : i \in t

\* rival_of, person_rival: who holds the name.
Rivals(s, i, r) == {j \in Of(s, Table(i)) \ {i} : ~s.rows[j].off /\ s.rows[j].name = r.name}

MovedRow(r) == [r EXCEPT !.stamp = Moved(@), !.at = r.stamp.ms]

\* Mutant: the part of the loser replaces that of the winner.
RepointOver(s, i, j) ==
  [s EXCEPT !.rows = [k \in DOMAIN @ |->
     IF k \notin Budgets \cup Links /\ @[k].ref = i THEN MovedRow([@[k] EXCEPT !.ref = j])
     ELSE IF i \in People /\ @[k].who[i] # 0
     THEN MovedRow([@[k] EXCEPT !.who = [p \in People |-> IF p = j THEN @[i] ELSE IF p = i THEN 0 ELSE @[p]]]) ELSE @[k]],
     !.away = IF i \in Categories THEN Append(@, i) ELSE @]

\* Mutant: the parts of bills stay behind.
RepointRows(s, i, j) ==
  [s EXCEPT !.rows = [k \in DOMAIN @ |->
       IF k \notin Budgets \cup Links /\ @[k].ref = i THEN MovedRow([@[k] EXCEPT !.ref = j]) ELSE @[k]],
     !.away = IF i \in Categories THEN Append(@, i) ELSE @]

\* repoint, repoint_person: what belonged to i belongs to j. Budgets wait for settle_budgets.
Repoint(s, i, j) ==
  LET ofBill(r) ==
        IF i \in People /\ r.who[i] # 0
        THEN MovedRow([r EXCEPT !.who = [@ EXCEPT ![j] = @ + r.who[i], ![i] = 0]]) ELSE r
      ofRow(k, r) == IF k \notin Budgets \cup Links /\ r.ref = i THEN MovedRow([r EXCEPT !.ref = j]) ELSE ofBill(r)
  IN  [s EXCEPT !.rows = [k \in DOMAIN @ |-> ofRow(k, @[k])],
                !.away = IF i \in Categories THEN Append(@, i) ELSE @]

Merged(r, winner) == [r EXCEPT !.off = TRUE, !.into = winner, !.stamp = After(@), !.at = After(r.stamp).ms]

\* category_row, person_row
NamedRow(s, i, r) ==
  IF Here(s, i) /\ ~Older(s.rows[i].stamp, r.stamp) THEN s
  ELSE IF Active(r) /\ Rivals(s, i, r) # {}
  THEN LET j == CHOOSE k \in Rivals(s, i, r) : TRUE
       IN  IF i < j
           THEN Repoint(Put(Put(s, j, Merged(s.rows[j], i)), i, r), j, i)
           ELSE Repoint(Put(s, i, Merged(r, j)), i, j)
  ELSE IF r.into = 0 THEN Put(s, i, r)
  ELSE IF Stand(Put(s, i, r), r.into) = 0 THEN Refuse(s)
  ELSE Repoint(Put(s, i, r), i, Stand(Put(s, i, r), r.into))

\* The one that holds the name steps aside, under a name no person can type.
StepAside(s, i, r) == [s EXCEPT !.rows = [j \in DOMAIN @ |-> IF j \in Rivals(s, i, r) THEN [@[j] EXCEPT !.name = 100 + j] ELSE @[j]]]

\* categories, people: a row that wants the name of one that is itself about to change waits for it.
RECURSIVE NamedRows(_, _, _, _)
NamedRows(s, batch, queue, later) ==
  LET waiting == ToSet(queue) \cup ToSet(later)
      i == Head(queue)
  IN  IF ~s.ok \/ waiting = {} THEN s
      ELSE IF queue # <<>>
      THEN IF Active(batch[i]) /\ Rivals(s, i, batch[i]) \cap waiting # {}
           THEN NamedRows(s, batch, Tail(queue), Append(later, i))
           ELSE NamedRows([NamedRow(s, i, batch[i]) EXCEPT !.moved = TRUE], batch, Tail(queue), later)
      ELSE IF s.moved THEN NamedRows([s EXCEPT !.moved = FALSE], batch, later, <<>>)
      ELSE LET j == Head(later)
           IN  NamedRows(NamedRow(StepAside(s, j, batch[j]), j, batch[j]), batch, Tail(later), <<>>)

\* The ones that stand come first.
NamedQueue(batch, table) ==
  SetToSortSeq(DOMAIN batch \cap table, LAMBDA i, j :
    IF (batch[i].into = 0) # (batch[j].into = 0) THEN batch[i].into = 0 ELSE i < j)

(***************************************************************************)
(* Items, budgets, transactions and entries.                               *)
(***************************************************************************)
\* The row with its category, friend and parts as they are here; a row that moves takes the moved stamp.
Placed(s, r) ==
  LET ref == IF r.ref = 0 THEN 0 ELSE Stand(s, r.ref)
      share(p) == {q \in People : r.who[q] # 0 /\ Stand(s, q) = p}
      who == [p \in People |-> FoldFunctionOnSet(+, 0, r.who, share(p))]
  IN  IF ref # r.ref \/ who # r.who THEN MovedRow([r EXCEPT !.ref = ref, !.who = who]) ELSE r

Known(s, r) == (r.ref # 0 => Stand(s, r.ref) # 0) /\ \A p \in People : r.who[p] # 0 => Stand(s, p) # 0

\* Mutant: what hung on a deleted row keeps its own stamp.
FreedUnstamped(s, r) == IF r.via = 0 \/ Here(s, r.via) THEN r ELSE [r EXCEPT !.via = 0]

\* What the row hangs on was deleted here: it is taken without, and takes the stamp of that deletion.
Freed(s, r) ==
  IF r.via = 0 \/ Here(s, r.via) THEN r ELSE [r EXCEPT !.via = 0, !.stamp = NewerStamp(@, s.gone[r.via])]

\* Rows that say the same: one month of one category, one uuid, one occurrence of an item, one bill code.
Same(i, r, j, q) ==
  \/ i \in Budgets /\ r.ref = q.ref /\ r.day = q.day
  \/ i \notin Budgets /\ r.key # 0 /\ r.key = q.key
  \/ i \in Transactions /\ r.via # 0 /\ r.via = q.via /\ r.day = q.day

Twins(s, i, r) == IF i \in Items THEN {} ELSE {j \in Of(s, Table(i)) \ {i} : Same(i, r, j, s.rows[j])}

\* A row goes for one that says the same, and leaves a marker.
Lose(s, i, stamp) ==
  LET unlinked == IF i \in Transactions THEN Unlinked(s, i, stamp) ELSE s
  IN  Marked(Without(unlinked, i), i, stamp)

Kept(s, i, r) == Here(s, i) /\ ~Older(s.rows[i].stamp, r.stamp)

\* The end of recurring, budgets, transactions and ledger: r has its references, and no marker stands against it.
Settled(s, i, r) ==
  IF Kept(s, i, r) THEN s
  ELSE IF \E j \in Twins(s, i, r) : Beats(s.rows[j].stamp, j, r.stamp, i)
  THEN Lose(s, i, After(r.stamp))
  ELSE LET lose(t, j) == Lose(t, j, LoserMarker(t, j, t.rows[j].stamp))
       IN  Put(FoldLeft(lose, s, InOrder(Twins(s, i, r))), i, r)

PlainRow(s, i, row) ==
  LET r == Placed(s, row)
      t == Unmarked(s, i)
  IN  IF ~s.ok \/ ~Known(s, row) THEN Refuse(s)
      ELSE IF Gone(s, i) /\ ~Older(s.gone[i], r.stamp) THEN s
      ELSE IF i \in Entries /\ Kept(t, i, r) THEN t
      ELSE IF r.via # 0 /\ ~Here(t, r.via) /\ ~Gone(t, r.via) THEN Refuse(s)
      ELSE Settled(t, i, Freed(t, r))

\* documents: the contents never change, so only the newer row counts.
DocumentRow(s, i, r) ==
  IF Gone(s, i) /\ ~Older(s.gone[i], r.stamp) THEN s
  ELSE IF Kept(s, i, r) THEN Unmarked(s, i) ELSE Put(Unmarked(s, i), i, r)

\* links: what a link joins is here, or was deleted here and the link is not taken; the document is looked for first.
LinkRow(s, i, r) ==
  LET t == Unmarked(s, i)
      ends == {r.ref, r.via}
      lost == IF Here(t, r.ref) THEN r.via ELSE r.ref
      twins == {j \in Of(t, Links) \ {i} : t.rows[j].ref = r.ref /\ t.rows[j].via = r.via}
  IN  IF ~s.ok \/ (Gone(s, i) /\ ~Older(s.gone[i], r.stamp)) THEN s
      ELSE IF ~Here(t, lost) THEN IF Gone(t, lost) THEN t ELSE Refuse(s)
      ELSE IF Here(t, i) THEN IF {t.rows[i].ref, t.rows[i].via} # ends THEN Refuse(s)
                              ELSE Put(t, i, [t.rows[i] EXCEPT !.stamp = NewerStamp(@, r.stamp)])
      ELSE IF \E j \in twins : Beats(t.rows[j].stamp, j, r.stamp, i) THEN Marked(t, i, After(r.stamp))
      ELSE LET lose(u, j) == Marked(Without(u, j), j, LoserMarker(u, j, u.rows[j].stamp))
           IN  Put(FoldLeft(lose, t, InOrder(twins)), i, r)

Rows(Row(_, _, _), s, batch, table) ==
  FoldLeft(LAMBDA t, i : Row(t, i, batch[i]), s, InOrder(DOMAIN batch \cap table))

(***************************************************************************)
(* Deletions, and what is settled when everything is in.                   *)
(***************************************************************************)
Marker(s, i, stamp) ==
  IF ~Here(s, i) THEN Marked(s, i, stamp)
  ELSE IF ~Older(s.rows[i].stamp, stamp) THEN s
  ELSE Marked(Without(IF i \in Items \cup Transactions THEN Unlinked(s, i, stamp) ELSE s, i), i, stamp)

Markers(s, gone, table) == FoldLeft(LAMBDA t, i : Marker(t, i, gone[i]), s, InOrder(DOMAIN gone \cap table))

\* One budget of a category that was merged away moves to the winner, or one of two for a month stays.
BudgetMoves(s, i, winner) ==
  LET r == s.rows[i]
      others == {j \in Of(s, Budgets) : s.rows[j].ref = winner /\ s.rows[j].day = r.day}
      j == CHOOSE k \in others : TRUE
      here == MovedRow([r EXCEPT !.ref = winner])
  IN  IF others = {} THEN Put(s, i, here)
      ELSE IF Beats(r.stamp, i, s.rows[j].stamp, j)
      THEN Put(Lose(s, j, LoserMarker(s, j, s.rows[j].stamp)), i, here)
      ELSE Lose(s, i, LoserMarker(s, i, r.stamp))

\* settle_budgets
SettleBudgets(s) ==
  LET budgets(t, c) == InOrder({i \in Of(t, Budgets) : t.rows[i].ref = c})
      settle(t, c) == IF Stand(t, c) = c THEN t
                      ELSE FoldLeft(LAMBDA u, i : BudgetMoves(u, i, Stand(t, c)), t, budgets(t, c))
  IN  FoldLeft(settle, s, s.away)

\* The first occurrence after day that is neither paid nor skipped, or the one after the end.
OpenDay(paid, skipped, day) ==
  CHOOSE n \in day + 1 .. LastDue + 1 :
    /\ n = LastDue + 1 \/ n \notin paid \cup skipped
    /\ \A k \in day + 1 .. n - 1 : k \in paid \cup skipped

\* check_recurring: an item whose next occurrence is paid moves on, with a stamp both devices work out.
CheckItem(s, i) ==
  LET r == s.rows[i]
      payments == {j \in Of(s, Transactions) : s.rows[j].via = i /\ s.rows[j].day >= r.day}
      paid == {s.rows[j].day : j \in payments}
      open == OpenDay(paid, r.skip, r.day)
      passed == {j \in payments : s.rows[j].day < open}
      newest == CHOOSE st \in {s.rows[j].stamp : j \in passed} : \A j \in passed : ~Older(st, s.rows[j].stamp)
      star == Derive(r.stamp, newest)
  IN  IF ~Here(s, i) \/ r.off \/ r.day \notin paid THEN s
      ELSE Put(s, i, [r EXCEPT !.day = open, !.off = open > LastDue, !.skip = {d \in @ : d > open},
                               !.stamp = star, !.at = star.ms])

CheckRecurring(s) == FoldLeft(CheckItem, s, InOrder(Items))

(***************************************************************************)
(* apply: everything in one transaction, or nothing.                       *)
(***************************************************************************)
MarkerOrder == <<Entries, Transactions, Budgets, Items, Links, Documents>>

AllIn(s, batch) ==
  LET cats == NamedRows(s, batch.rows, NamedQueue(batch.rows, Categories), <<>>)
      people == NamedRows([cats EXCEPT !.moved = FALSE], batch.rows, NamedQueue(batch.rows, People), <<>>)
      plain == FoldLeft(LAMBDA t, table : Rows(PlainRow, t, batch.rows, table), people, <<Items, Budgets, Transactions, Entries>>)
      linked == Rows(LinkRow, Rows(DocumentRow, plain, batch.rows, Documents), batch.rows, Links)
      marked == FoldLeft(LAMBDA t, table : Markers(t, batch.gone, table), linked, MarkerOrder)
  IN  CheckRecurring(SettleBudgets(marked))

\* catch_up: the clock is past every stamp there is.
CaughtUp(s) ==
  LET stamps == {s.rows[i].stamp : i \in DOMAIN s.rows} \cup {s.gone[i] : i \in DOMAIN s.gone}
      newest == CHOOSE st \in stamps : \A other \in stamps : ~Older(st, other)
  IN  Observe(s.clock, newest)

\* What came is refused as a whole, whatever was done with the rest of it.
Applied(d, batch) ==
  AllIn([rows |-> d.rows, gone |-> d.gone, clock |-> d.clock, batch |-> batch.gone, away |-> <<>>, ok |-> TRUE, moved |-> FALSE],
        batch)
Committed(d, s) == IF s.ok THEN [rows |-> s.rows, gone |-> s.gone, clock |-> CaughtUp(s)] ELSE d

\* digest, to_send, outgoing: what the other lacks or has older.
Listed(d, i) ==
  IF Here(d, i) /\ (~Gone(d, i) \/ ~Older(d.rows[i].stamp, d.gone[i])) THEN d.rows[i].stamp ELSE d.gone[i]
Lists(d) == DOMAIN d.rows \cup DOMAIN d.gone
Outgoing(d, e) ==
  LET sent == {i \in Lists(d) : i \notin Lists(e) \/ Older(Listed(e, i), Listed(d, i))}
      rows == {i \in sent : Here(d, i) /\ d.rows[i].stamp = Listed(d, i)}
  IN  [rows |-> Restrict(d.rows, rows), gone |-> Restrict(d.gone, sent \ rows)]

(***************************************************************************)
(* What a person does on a device. Each edit happens at a later time than  *)
(* the one before, on whichever device; the row that is written, and what  *)
(* it takes along, get a stamp from the triggers.                          *)
(***************************************************************************)
Ticked(d) == Tick(dev[d].clock, now + 1)
Stamp1(d) == StampAt(Ticked(d), d)
Stamp2(d) == StampAt(StepOn(Ticked(d)), d)
Edited(r, stamp) == [r EXCEPT !.stamp = stamp, !.at = now + 1]

\* The device after an edit, which ticked the clock up to this stamp.
Edit(d, s, stamp) ==
  /\ edits < MaxEdits /\ edits' = edits + 1
  /\ now' = now + 1
  /\ dev' = [dev EXCEPT ![d] = [rows |-> s.rows, gone |-> s.gone, clock |-> [ms |-> stamp.ms, counter |-> stamp.counter]]]
  /\ met' = 0
  /\ UNCHANGED <<scope, refused, syncs, breaks>>

Fresh(i) == i \notin DOMAIN facts
Make(d, i, r) ==
  /\ Fresh(i)
  /\ Edit(d, Put(dev[d], i, Edited(r, Stamp1(d))), Stamp1(d))
  /\ facts' = (i :> r) @@ facts
  /\ UNCHANGED removed
Change(d, i, r) ==
  /\ Here(dev[d], i) /\ r # dev[d].rows[i]
  /\ Edit(d, Put(dev[d], i, Edited(r, Stamp1(d))), Stamp1(d))
  /\ UNCHANGED <<facts, removed>>
Delete(d, i) ==
  /\ Here(dev[d], i)
  /\ Edit(d, Marked(Without(Unlinked(dev[d], i, Stamp1(d)), i), i, Stamp1(d)), Stamp1(d))
  /\ removed' = removed \cup {i}
  /\ UNCHANGED facts

Row(d, i) == dev[d].rows[i]
Holds(d, table) == Of(dev[d], table)
Free(d, i, r) == Rivals(dev[d], i, r) = {}

\* categories::create, rename; people::create, rename, archive, restore
NameNew(d, i, n) ==
  LET r == [Blank EXCEPT !.name = n] IN Free(d, i, r) /\ Make(d, i, r)
Rename(d, i, n) ==
  LET r == [Row(d, i) EXCEPT !.name = n]
  IN  /\ IF i \in Categories THEN ~r.off ELSE r.into = 0
      /\ ~r.off => Free(d, i, r)
      /\ Change(d, i, r)
Archive(d, i) == Row(d, i).into = 0 /\ Change(d, i, [Row(d, i) EXCEPT !.off = TRUE])
Unarchive(d, i) == Row(d, i).into = 0 /\ Free(d, i, Row(d, i)) /\ Change(d, i, [Row(d, i) EXCEPT !.off = FALSE])

BudgetOf(d, c, month) == {i \in Holds(d, Budgets) : Row(d, i).ref = c /\ Row(d, i).day = month}

\* INSERT ... ON CONFLICT DO UPDATE
SetLimit(d, i, c, month, limit) ==
  /\ IF BudgetOf(d, c, month) = {} THEN Fresh(i) ELSE i \in BudgetOf(d, c, month)
  /\ IF Here(dev[d], i) THEN Row(d, i).name # limit ELSE TRUE

\* budgets::set of a month that is not followed by one that has started
SetBudget(d, i, c, month, limit) ==
  /\ Active(Row(d, c))
  /\ SetLimit(d, i, c, month, limit)
  /\ IF Here(dev[d], i) THEN Change(d, i, [Row(d, i) EXCEPT !.name = limit])
     ELSE Make(d, i, [Blank EXCEPT !.ref = c, !.day = month, !.name = limit])

\* categories::delete: the category, and a budget of nothing for this month.
DeleteCategory(d, c, i, month) ==
  /\ ~Row(d, c).off
  /\ SetLimit(d, i, c, month, 0)
  /\ LET budget == IF Here(dev[d], i) THEN [Row(d, i) EXCEPT !.name = 0]
                   ELSE [Blank EXCEPT !.ref = c, !.day = month, !.name = 0]
         gone == Put(dev[d], c, Edited([Row(d, c) EXCEPT !.off = TRUE], Stamp1(d)))
     IN  /\ Edit(d, Put(gone, i, Edited(budget, Stamp2(d))), Stamp2(d))
         /\ facts' = (i :> budget) @@ facts
  /\ UNCHANGED removed

\* categories::delete_span of all months, of a category with one budget at most
DeleteCategoryAll(d, c) ==
  LET budgets == {i \in Holds(d, Budgets) : Row(d, i).ref = c}
      gone == Put(dev[d], c, Edited([Row(d, c) EXCEPT !.off = TRUE], Stamp1(d)))
      drop(s, i) == Marked(Without(s, i), i, Stamp2(d))
  IN  /\ ~Row(d, c).off /\ Cardinality(budgets) < 2
      /\ Edit(d, FoldLeft(drop, gone, InOrder(budgets)), IF budgets = {} THEN Stamp1(d) ELSE Stamp2(d))
      /\ removed' = removed \cup budgets
      /\ UNCHANGED facts

\* transactions::create: the same client_uuid gives the transaction that is there.
Spend(d, i, c, key, who) ==
  /\ Active(Row(d, c))
  /\ key # 0 => \A j \in Holds(d, Transactions) : Row(d, j).key # key
  /\ \A p \in People : who[p] # 0 => Here(dev[d], p) /\ Active(Row(d, p))
  /\ Make(d, i, [Blank EXCEPT !.ref = c, !.key = key, !.who = who])

\* transactions::update
MoveSpending(d, i, c) == Active(Row(d, c)) /\ Change(d, i, [Row(d, i) EXCEPT !.ref = c])

PaidDays(d, item) == {Row(d, j).day : j \in {k \in Holds(d, Transactions) : Row(d, k).via = item}}
Advanced(d, r, paid) ==
  LET open == OpenDay(paid, r.skip, r.day)
  IN  [r EXCEPT !.day = open, !.off = open > LastDue, !.skip = {day \in @ : day > open}]
Open(d, item, day) ==
  /\ ~Row(d, item).off
  /\ day \in (Row(d, item).day .. LastDue) \ (Row(d, item).skip \cup PaidDays(d, item))

\* pay: the payment, and for the next occurrence the item moves on.
Pay(d, i, item, day) ==
  LET r == Row(d, item)
      payment == [Blank EXCEPT !.ref = r.ref, !.via = item, !.day = day, !.who = r.who]
      paid == Put(dev[d], i, Edited(payment, Stamp1(d)))
  IN  /\ Open(d, item, day) /\ Fresh(i)
      /\ IF day = r.day
         THEN Edit(d, Put(paid, item, Edited(Advanced(d, r, PaidDays(d, item) \cup {day}), Stamp2(d))), Stamp2(d))
         ELSE Edit(d, paid, Stamp1(d))
      /\ facts' = (i :> payment) @@ facts
      /\ UNCHANGED removed

\* skip
Skip(d, item, day) ==
  /\ Open(d, item, day)
  /\ Change(d, item, IF day = Row(d, item).day THEN Advanced(d, Row(d, item), PaidDays(d, item))
                     ELSE [Row(d, item) EXCEPT !.skip = @ \cup {day}])

\* What both devices hold since they met: of each table the row in the middle.
Base(table) == CHOOSE i \in table : Cardinality({j \in table : j < i}) = Cardinality(table) \div 2
Category == Base(Categories)
Friend == Base(People)
Item == Base(Items)
Expense == Base(Transactions)
Entry == Base(Entries)
Document == Base(Documents)

\* ledger::add, and add_from with the id of a bill code
Lend(d, i, p, expense, key) ==
  /\ Row(d, p).into = 0
  /\ key # 0 => expense = 0 /\ \A j \in Holds(d, Entries) : Row(d, j).key # key
  /\ Make(d, i, [Blank EXCEPT !.ref = p, !.via = expense, !.key = key])

\* borrow_in: the expense, and the entry that hangs on it
LendAndSpend(d, i, p, expense, key) ==
  LET spent == [Blank EXCEPT !.ref = Category]
      entry == [Blank EXCEPT !.ref = p, !.via = expense, !.key = key]
      s == Put(dev[d], expense, Edited(spent, Stamp1(d)))
  IN  /\ Row(d, p).into = 0 /\ Active(Row(d, Category))
      /\ \A j \in Holds(d, Entries) : Row(d, j).key # key
      /\ Fresh(i) /\ Fresh(expense)
      /\ Edit(d, Put(s, i, Edited(entry, Stamp2(d))), Stamp2(d))
      /\ facts' = (i :> entry) @@ (expense :> spent) @@ facts
      /\ UNCHANGED removed

\* ledger::update
ChangeEntry(d, i, p, expense) ==
  Row(d, p).into = 0 /\ Change(d, i, [Row(d, i) EXCEPT !.ref = p, !.via = expense])

\* library::add, update, link
Link(d, i, document, target) ==
  /\ \A j \in Holds(d, Links) : ~(Row(d, j).ref = document /\ Row(d, j).via = target)
  /\ Make(d, i, [Blank EXCEPT !.ref = document, !.via = target])

CategoryStep(d) ==
  \/ \E i \in Categories, n \in Names : NameNew(d, i, n)
  \/ \E i \in Holds(d, Categories) :
       \/ \E n \in Names : Rename(d, i, n)
       \/ \E j \in Budgets : DeleteCategory(d, i, j, 1)
       \/ DeleteCategoryAll(d, i)
BudgetStep(d) == \E i \in Budgets, c \in Holds(d, Categories) : \E month \in {1, 2} : SetBudget(d, i, c, month, d)
SpendStep(d) ==
  \/ \E i \in Transactions, c \in Holds(d, Categories), key \in {0, 1} : Spend(d, i, c, key, Nobody)
  \/ \E i \in Holds(d, Transactions) : Delete(d, i) \/ \E c \in Holds(d, Categories) : MoveSpending(d, i, c)
ItemStep(d) ==
  \E item \in Holds(d, Items) :
    \/ Delete(d, item)
    \/ \E day \in 1..LastDue : Skip(d, item, day) \/ \E i \in Transactions : Pay(d, i, item, day)
PersonStep(d) ==
  \/ \E i \in People, n \in Names : NameNew(d, i, n)
  \/ \E i \in Holds(d, People) : Archive(d, i) \/ Unarchive(d, i) \/ \E n \in Names : Rename(d, i, n)
BillStep(d) ==
  \E i \in Transactions, c \in Holds(d, Categories), ps \in SUBSET Holds(d, People) :
    Spend(d, i, c, 0, [p \in People |-> IF p \in ps THEN 1 ELSE 0])
Expenses(d) == {0} \cup Holds(d, Transactions)
LendStep(d) == \E i \in Entries, p \in Holds(d, People), expense \in Expenses(d), key \in {0, 1} : Lend(d, i, p, expense, key)
BorrowStep(d) == \E i \in Entries, p \in Holds(d, People), expense \in Transactions : LendAndSpend(d, i, p, expense, 1)
EntryStep(d) ==
  \E i \in Holds(d, Entries) :
    Delete(d, i) \/ \E p \in Holds(d, People), expense \in Expenses(d) : ChangeEntry(d, i, p, expense)
DocumentStep(d) ==
  \/ \E i \in Documents : Make(d, i, Blank)
  \/ \E i \in Holds(d, Documents) : Delete(d, i) \/ \E n \in Names : Change(d, i, [Row(d, i) EXCEPT !.name = n])
LinkStep(d) ==
  \/ \E i \in Links, document \in Holds(d, Documents), target \in Holds(d, Transactions \cup Items \cup Entries) :
       Link(d, i, document, target)
  \/ \E i \in Holds(d, Links) : Delete(d, i)

Person(d) ==
  \/ "category" \in scope /\ CategoryStep(d)
  \/ "budget" \in scope /\ BudgetStep(d)
  \/ "spend" \in scope /\ SpendStep(d)
  \/ "item" \in scope /\ ItemStep(d)
  \/ "person" \in scope /\ PersonStep(d)
  \/ "bill" \in scope /\ BillStep(d)
  \/ "lend" \in scope /\ LendStep(d)
  \/ "borrow" \in scope /\ BorrowStep(d)
  \/ "entry" \in scope /\ EntryStep(d)
  \/ "document" \in scope /\ DocumentStep(d)
  \/ "link" \in scope /\ LinkStep(d)

(***************************************************************************)
(* A sync of both directions, and one that breaks after one device has     *)
(* applied.                                                                *)
(***************************************************************************)
Other(d) == 3 - d

\* A sync that these devices finish: each applies what it got, worked out from the lists of both.
SyncOf(ds) ==
  /\ syncs < MaxSyncs /\ syncs' = syncs + 1
  /\ \E applied \in {[d \in ds |-> Applied(dev[d], Outgoing(dev[Other(d)], dev[d]))]} :
       /\ dev' = [d \in Devices |-> IF d \in ds THEN Committed(dev[d], applied[d]) ELSE dev[d]]
       /\ refused' = \E d \in ds : ~applied[d].ok
  /\ now' = now + 1
  /\ UNCHANGED <<scope, facts, removed, edits>>

Sync == SyncOf(Devices) /\ met' = met + 1 /\ UNCHANGED breaks

SyncBreaks(d) ==
  /\ "break" \in scope /\ breaks < MaxBreaks /\ met = 0
  /\ SyncOf({d}) /\ breaks' = breaks + 1 /\ UNCHANGED met

Shared ==
  LET r == [Blank EXCEPT !.stamp = [ms |-> 0, counter |-> 1, device |-> 1]]
      parts == [Nobody EXCEPT ![Friend] = 1]
  IN  (Category :> r) @@ (Friend :> r)
      @@ (Item :> [r EXCEPT !.ref = Category, !.day = 1, !.who = parts])
      @@ (Expense :> [r EXCEPT !.ref = Category, !.who = parts])
      @@ (Entry :> [r EXCEPT !.ref = Friend, !.via = Expense])
      @@ (Document :> r)
      @@ (Base(Links) :> [r EXCEPT !.ref = Document, !.via = Entry])

Init ==
  /\ scope \in Scopes
  /\ dev = [d \in Devices |-> [rows |-> Shared, gone |-> <<>>, clock |-> [ms |-> 0, counter |-> 1]]]
  /\ facts = Shared
  /\ removed = {} /\ met = 0 /\ refused = FALSE
  /\ now = 0 /\ edits = 0 /\ syncs = 0 /\ breaks = 0

Next == (\E d \in Devices : Person(d) \/ SyncBreaks(d)) \/ Sync

Spec == Init /\ [][Next]_vars

(***************************************************************************)
(* Properties.                                                             *)
(***************************************************************************)
\* apply: what an honest device sends is never refused as a broken reference or a link that changed, whatever was merged, deleted
\* or left half applied before. Over all tables in their fixed order.
NeverRefused == ~refused

\* Rows that say the same as another one, and what hangs on them.
Doubles ==
  LET same(table) == {i \in DOMAIN facts \cap table : Twins([rows |-> facts], i, facts[i]) # {}}
      doubles == same(Transactions) \cup same(Entries)
  IN  doubles \cup {i \in DOMAIN facts : facts[i].via \in doubles}

\* After one sync that both devices finished they hold the same rows and deletions, down to stamps and updated_at: each works out
\* the merges on its own, from lists made before, in whatever order the rows came about. Which of two rows that say the same is
\* kept may take one more; what the first of two syncs leaves different, the next one repairs (apply, merge_into).
NextRepairs == met > 1 => dev[1].rows = dev[2].rows /\ dev[1].gone = dev[2].gone
EndsInAgreement ==
  /\ NextRepairs
  /\ met > 0 => \A i \in Ids \ Doubles :
       /\ Here(dev[1], i) = Here(dev[2], i) /\ Gone(dev[1], i) = Gone(dev[2], i)
       /\ Here(dev[1], i) => dev[1].rows[i] = dev[2].rows[i]
       /\ Gone(dev[1], i) => dev[1].gone[i] = dev[2].gone[i]

\* On every device, after every edit and every apply, whole or cut: names, months, uuids, occurrences and bill codes are unique, no row
\* belongs to a category or friend that was merged away, and what a row hangs on is there (the indexes and foreign keys of the tables).
Whole ==
  \A d \in Devices :
    LET s == dev[d]
    IN  /\ \A i \in Of(s, Categories \cup People) : ~s.rows[i].off => Rivals(s, i, s.rows[i]) = {}
        /\ \A i \in Of(s, Budgets \cup Transactions \cup Entries) : Twins(s, i, s.rows[i]) = {}
        /\ \A i \in DOMAIN s.rows \ (Categories \cup People \cup Documents) :
             LET r == s.rows[i]
             IN  /\ Here(s, r.ref) /\ s.rows[r.ref].into = 0
                 /\ r.via # 0 => Here(s, r.via)
                 /\ \A p \in People : r.who[p] # 0 => Here(s, p) /\ s.rows[p].into = 0

\* Merging loses nothing: after a sync, a transaction or an entry that no person deleted is on both devices, unless it says
\* the same as another one; and the parts of a bill add up to what they were, whoever its friends were merged into.
NothingVanishes ==
  met > 0 => \A i \in (DOMAIN facts \cap (Transactions \cup Entries)) \ removed : \A d \in Devices :
    IF Here(dev[d], i)
    THEN FoldFunction(+, 0, dev[d].rows[i].who) = FoldFunction(+, 0, facts[i].who)
    ELSE \E j \in DOMAIN facts \ {i} : Table(j) = Table(i) /\ Same(i, facts[i], j, facts[j])
=============================================================================
