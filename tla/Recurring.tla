----------------------------- MODULE Recurring -----------------------------
(***************************************************************************)
(* A recurring item (src-tauri/src/recurring.rs): the next occurrence,     *)
(* payments and skips of that one or of later ones, changes of the         *)
(* schedule and of the end, pauses, and payments that are deleted again;   *)
(* with the list of what has come due (debts/dues.rs). Items do not touch  *)
(* one another, so there is one.                                           *)
(*                                                                         *)
(* Dates are days counted from some day. The code compares their text,     *)
(* which orders them up to the year 9999: LastDate is the end of that      *)
(* year. A next date beyond it is refused by the table (its text sorts     *)
(* before the start date), and the whole change with it.                   *)
(*                                                                         *)
(* The occurrences of a start date, unit and count are worked out by       *)
(* due_date; what the item does with them depends only on which days they  *)
(* are, so a schedule is the set of its occurrences, whose first is the    *)
(* start date. What the other device does to the item in a sync            *)
(* (engine.rs: check_recurring) belongs to SyncMerge.                      *)
(***************************************************************************)
EXTENDS Naturals

CONSTANTS
  LastDate,     \* the last day of the calendar
  Schedules     \* the schedules an item may have

ASSUME LastDateAssumption == LastDate \in Nat
ASSUME SchedulesAssumption == Schedules \subseteq (SUBSET (0..LastDate)) \ {{}}

VARIABLES
  item,         \* the row of recurring_transactions, NoItem when there is none
  paid          \* the recurring_due_dates of the transactions linked to the item

vars == <<item, paid>>

Dates == 0..LastDate
NoEnd == LastDate + 1      \* no end date: later than every date

Item == [schedule : SUBSET Dates, next : Dates, end : 0..NoEnd, active : BOOLEAN, skipped : SUBSET Dates]
NoItem == [schedule |-> {}, next |-> 0, end |-> NoEnd, active |-> FALSE, skipped |-> {}]
Exists == item.schedule # {}

\* The first of some dates, as a set: empty when there are none.
First(dates) == {d \in dates : \A e \in dates : d <= e}

\* `first_on_or_after` and `next_after`.
FirstOnOrAfter(schedule, date) == First({o \in schedule : o >= date})

Init == item = NoItem /\ paid = {}

-----------------------------------------------------------------------------
\* `clean_end`: an end date may not come before the start.
EndFits(schedule, end) == \A start \in First(schedule) : start <= end

Create ==
  /\ ~Exists
  /\ \E schedule \in Schedules, end \in 0..NoEnd :
       /\ EndFits(schedule, end)
       /\ \E start \in First(schedule) :
            item' = [schedule |-> schedule, next |-> start, end |-> end, active |-> TRUE, skipped |-> {}]
  /\ UNCHANGED paid

\* The row after an edit: a changed schedule moves the next date to the first new
\* occurrence on or after it and forgets the skips.
Updated(schedule, changed, end) ==
  {[item EXCEPT !.schedule = schedule, !.end = end, !.next = o,
                !.skipped = IF changed THEN {} ELSE @] :
     o \in IF changed THEN FirstOnOrAfter(schedule, item.next) ELSE {item.next}}

\* `update`. Two schedules may have the same occurrences (seven days and one week),
\* and are a change all the same.
Update ==
  /\ Exists
  /\ \E schedule \in Schedules, end \in 0..NoEnd, changed \in BOOLEAN :
       /\ schedule # item.schedule => changed
       /\ EndFits(schedule, end)
       /\ item' \in Updated(schedule, changed, end)
  /\ UNCHANGED paid

\* `delete`: the payments keep their data and lose their link.
Delete == Exists /\ item' = NoItem /\ paid' = {}

\* A transaction that pays an occurrence is deleted (transactions.rs).
DeletePayment(o) ==
  /\ o \in paid
  /\ paid' = paid \ {o}
  /\ UNCHANGED item

-----------------------------------------------------------------------------
\* Mutant of Passed: only the payments are looked at.
PassedIfPaid(o) == o <= item.end /\ o \in paid

\* The occurrences after the next one that `advance` goes past.
Passed(o) == o <= item.end /\ (o \in item.skipped \/ o \in paid)

\* `advance`: past the occurrence the item is on, and past those that are already
\* paid or skipped; at the first one after the end date the item stops.
Advanced ==
  {[item EXCEPT !.next = o, !.active = (o <= item.end), !.skipped = {d \in @ : d > o}] :
     o \in First({o \in item.schedule : o > item.next /\ ~Passed(o)})}

\* Mutant of LaterOccurrence: an occurrence on the end date is refused.
LaterBeforeEnd(o) ==
  /\ o \in item.schedule /\ o > item.next /\ o < item.end
  /\ o \notin item.skipped /\ o \notin paid

\* `later_occurrence`: an occurrence after the next one that can be paid or skipped
\* on its own.
LaterOccurrence(o) ==
  /\ o \in item.schedule /\ o > item.next /\ o <= item.end
  /\ o \notin item.skipped /\ o \notin paid

\* `pay`: the transaction of an occurrence is unique (uq_tx_recurring_occurrence).
PayNext ==
  /\ item.active
  /\ item.next \notin paid
  /\ paid' = paid \cup {item.next}
  /\ item' \in Advanced

PayLater(o) ==
  /\ item.active
  /\ LaterOccurrence(o)
  /\ paid' = paid \cup {o}
  /\ UNCHANGED item

\* `skip`.
SkipNext ==
  /\ item.active
  /\ item' \in Advanced
  /\ UNCHANGED paid

SkipLater(o) ==
  /\ item.active
  /\ LaterOccurrence(o)
  /\ item' = [item EXCEPT !.skipped = @ \cup {o}]
  /\ UNCHANGED paid

\* `set_active`: an item whose next occurrence is past its end cannot be resumed.
SetActive(active) ==
  /\ Exists
  /\ active => item.next <= item.end
  /\ item' = [item EXCEPT !.active = active]
  /\ UNCHANGED paid

\* `end`: inactive, and the end date is today or the start, unless it ends sooner.
End(today) ==
  /\ Exists
  /\ \E start \in First(item.schedule) :
       LET asked == IF today > start THEN today ELSE start IN
       item' = [item EXCEPT !.active = FALSE, !.end = IF asked < @ THEN asked ELSE @]
  /\ UNCHANGED paid

Next ==
  \/ Create \/ Update \/ Delete
  \/ PayNext \/ SkipNext
  \/ \E o \in Dates : PayLater(o) \/ SkipLater(o) \/ DeletePayment(o) \/ End(o)
  \/ \E active \in BOOLEAN : SetActive(active)

Spec == Init /\ [][Next]_vars

-----------------------------------------------------------------------------
(***************************************************************************)
(* What is shown on the day `today`.                                       *)
(***************************************************************************)

\* The occurrences a walk from the next one on meets.
Ahead == {item.next} \cup {o \in item.schedule : o > item.next}

\* `occurrences` of debts/dues.rs: those whose day is before today. (The limit of
\* 24 per item and the difference of income and expense are left out.)
Due(today) ==
  {o \in Ahead : item.active /\ o < today /\ o <= item.end /\ o \notin paid \cup item.skipped}

(***************************************************************************)
(* Safety.                                                                 *)
(***************************************************************************)

\* The types, with the constraint ck_rec_dates of the table.
TypeOK ==
  /\ item \in Item
  /\ paid \in SUBSET Dates
  /\ Exists => EndFits(item.schedule, item.end)
  /\ ~Exists => item = NoItem /\ paid = {}

\* The skipped dates are occurrences of the schedule as it is now, after the next
\* one and without a payment (0015_recurring_skips.sql), whatever was edited, paid,
\* ended or deleted since they were skipped.
SkipsAhead ==
  Exists =>
    /\ item.next \in item.schedule
    /\ \A o \in item.skipped : o \in item.schedule /\ o > item.next /\ o \notin paid

\* Every payment that is listed as due can be paid and skipped on its own
\* (debts/dues.rs:9), on any day; and no other occurrence of a day before today.
DueCanBeSettled ==
  \A today \in 0..NoEnd :
    Due(today) = {o \in Dates :
      /\ item.active /\ o < today
      /\ LaterOccurrence(o) \/ (o = item.next /\ o <= item.end /\ o \notin paid)}

\* The occurrences still to be paid or skipped.
Open == {o \in Ahead : o <= item.end} \ (paid \cup item.skipped)

\* A step that changes the schedule or the end of the item.
Rescheduled ==
  \/ item'.schedule # item.schedule
  \/ item'.end # item.end
  \/ item'.next = item.next /\ item.skipped # {} /\ item'.skipped = {}

\* While schedule and end stay, a step settles at most one open occurrence, and
\* passes over none that is neither paid nor skipped; and nothing that was settled
\* comes due again, unless its payment is deleted.
OneAtATime ==
  [][Exists /\ ~Rescheduled =>
       /\ \A o, p \in Open \ Open' : o = p
       /\ \A o \in Open' \ Open : o \in paid /\ o \notin paid']_vars

\* The next occurrence of an item that goes on is neither paid nor skipped
\* (0015_recurring_skips.sql:3), so that it can be paid.
NextIsOpen == item.active => item.next \notin paid \cup item.skipped
=============================================================================
