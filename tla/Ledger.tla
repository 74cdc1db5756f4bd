------------------------------- MODULE Ledger -------------------------------
(***************************************************************************)
(* The transactions, transactions.rs, how they are shared, debts/splits.rs,*)
(* and the friends with what they owe: debts/people.rs, ledger.rs,         *)
(* codes.rs, history.rs, summary.rs and reminders.rs.                      *)
(*                                                                         *)
(* A day is a month here, names are model values, and ids grow as the rows *)
(* of a table do. A call that is refused changes nothing and is no step;   *)
(* one that a check of the database stops on the way leaves everything as  *)
(* it was too, and stopped says that it happened.                          *)
(***************************************************************************)
EXTENDS Splits

CONSTANTS
  LastMonth,     \* bound: the months are 1..LastMonth
  Amount,        \* the amounts that are typed
  Names,         \* the names of friends
  Guests,        \* guests, by the place of their name
  Weights,       \* what is typed in a split
  Periods,       \* the periods of reminders
  SCHEDULED_DAYS,
  Codes,         \* the codes that come from outside: [id, amount, date, own]
  MaxBills, MaxFriends, MaxEntries   \* bounds

VARIABLES
  category,  \* category[c]: [type, name, position, gone], gone the month of deleted_at or None
  bill,      \* bill[t]: [amount, date, category, lines, uuid, due], due of a payment
  friend,    \* friend[p]: [name, archived, remind]
  entry,     \* entry[e]: [person, kind, amount, date, bill, origin]
  plan,      \* the recurring item: [amount, category, due, template]
  stopped,   \* a check of the database stopped a change halfway
  today

moneyVars == <<bill, friend, entry, plan, stopped>>

Months == 1..LastMonth
Kinds == {"LENT", "BORROWED", "REPAID_TO_ME", "REPAID_BY_ME"}
NoCode == ""
Sign(kind) == IF kind \in {"LENT", "REPAID_BY_ME"} THEN 1 ELSE -1
NextId(table) == Max(DOMAIN table \cup {0}) + 1
Without(table, ids) == Restrict(table, DOMAIN table \ ids)
With(table, id, row) == [i \in DOMAIN table \cup {id} |-> IF i = id THEN row ELSE table[i]]

Active(c) == c \in DOMAIN category /\ category[c].gone = None
IsExpense(c) == category[c].type = "EXPENSE"

-----------------------------------------------------------------------------
(* The two views everything is worked out from, transaction_costs and      *)
(* person_balances.                                                        *)
CostOf(t) == bill[t].amount - OthersOf(bill[t].lines)
PartOf(p, t) == AmountFor(bill[t].lines, [type |-> "person", id |-> p])
Balance(p) ==
  MapThenSumSet(LAMBDA t : PartOf(p, t), DOMAIN bill)
    + MapThenSumSet(LAMBDA e : IF entry[e].person = p THEN Sign(entry[e].kind) * entry[e].amount ELSE 0, DOMAIN entry)

(* statement_in: bills before entries on a day, and the balance after each.*)
LinesOf(p) ==
  {[date |-> bill[t].date, source |-> 0, id |-> t, effect |-> PartOf(p, t)] : t \in {t \in DOMAIN bill : PartOf(p, t) > 0}}
    \cup {[date |-> entry[e].date, source |-> 1, id |-> e, effect |-> Sign(entry[e].kind) * entry[e].amount] :
            e \in {e \in DOMAIN entry : entry[e].person = p}}
Earlier(a, b) ==
  \/ a.date < b.date
  \/ a.date = b.date /\ (a.source < b.source \/ (a.source = b.source /\ a.id < b.id))
Statement(p) ==
  LET lines == SetToSortSeq(LinesOf(p), Earlier) IN
    [i \in DOMAIN lines |-> [line |-> lines[i], balance |-> Total([j \in 1..i |-> lines[j].effect])]]

(* history: the lines of every friend, the payments of the recurring item  *)
(* that were late, and those that are overdue, from one day to another.    *)
Overdue == {d \in plan.due..(today - 1) : IsExpense(plan.category)}
Late == {t \in DOMAIN bill : bill[t].due # None /\ bill[t].date > bill[t].due}
FriendLines(p) ==
  LET at == Statement(p) IN
    {[kind |-> IF at[i].line.source = 0 THEN "BILL" ELSE "ENTRY", friend |-> p, name |-> friend[p].name,
      date |-> at[i].line.date, id |-> at[i].line.id, amount |-> at[i].line.effect, balance |-> <<at[i].balance>>] : i \in DOMAIN at}
PaymentLine(kind, date, id, amount) ==
  [kind |-> kind, friend |-> None, name |-> "", date |-> date, id |-> id, amount |-> amount, balance |-> <<>>]
HistoryOf(from, to) ==
  {line \in UNION {FriendLines(p) : p \in DOMAIN friend}
              \cup {PaymentLine("PAID", bill[t].date, t, bill[t].amount) : t \in Late}
              \cup {PaymentLine("DUE", d, d, plan.amount) : d \in Overdue} : line.date \in from..to}

(* summary_in.                                                             *)
OwedToYou == MapThenSumSet(LAMBDA p : Max({Balance(p), 0}), DOMAIN friend)
YouOwe == MapThenSumSet(LAMBDA p : Max({-Balance(p), 0}), DOMAIN friend)

(* reminders: a period after the last line, and again after every period.  *)
Changed(p) == Max({line.date : line \in LinesOf(p)})
LatestUntil(first, every, day) == IF first > day THEN None ELSE first + ((day - first) \div every) * every
FirstFrom(first, every, day) == IF first >= day THEN first ELSE first + ((day - first + every - 1) \div every) * every
DaysFrom(first, every, day) == [n \in 1..SCHEDULED_DAYS |-> FirstFrom(first, every, day) + (n - 1) * every]
Reminded == {p \in DOMAIN friend : Balance(p) # 0 /\ LinesOf(p) # {}}
DueOn(p, every) == LatestUntil(Changed(p) + every, every, today)
Upcoming(p, every) == DaysFrom(Changed(p) + every, every, today)

-----------------------------------------------------------------------------
(* Transactions.                                                           *)
NewBill(amount, date, c, uuid) == [amount |-> amount, date |-> date, category |-> c, lines |-> <<>>, uuid |-> uuid, due |-> None]
SameUuid(uuid) == {t \in DOMAIN bill : uuid # None /\ bill[t].uuid = uuid}

(* create: a form sent twice finds the row it has made.                    *)
Create(amount, date, c, uuid) ==
  /\ SameUuid(uuid) = {} /\ Active(c) /\ NextId(bill) <= MaxBills
  /\ bill' = With(bill, NextId(bill), NewBill(amount, date, c, uuid))
  /\ UNCHANGED <<category, friend, entry, plan, stopped, today>>

(* The parts of bill t become new; the database may stop it on the way.    *)
Written(t, row, new, amount) ==
  IF StepsFit(row.lines, new, amount)
  THEN bill' = [bill EXCEPT ![t] = [row EXCEPT !.lines = WriteLines(row.lines, new)]] /\ UNCHANGED stopped
  ELSE UNCHANGED bill /\ stopped' = TRUE

(* update: the parts before the amount when it shrinks, after it when it   *)
(* grows, and the check of the database on the amount in between.          *)
Update(t, amount, date, c) ==
  LET row == bill[t]
      moved == [row EXCEPT !.amount = amount, !.date = date, !.category = c]
  IN /\ c # row.category => Active(c)
     /\ row.lines # <<>> /\ c # row.category => IsExpense(c)
     /\ CASE row.lines = <<>> \/ amount = row.amount -> bill' = [bill EXCEPT ![t] = moved] /\ UNCHANGED stopped
          [] OTHER -> Written(t, moved, Rescale(row.lines, row.amount, amount), Max({amount, row.amount}))
     /\ UNCHANGED <<category, friend, entry, plan, today>>

(* delete: the parts go with it, and an entry loses its link only.         *)
Delete(t) ==
  /\ bill' = Without(bill, {t})
  /\ entry' = [e \in DOMAIN entry |-> IF entry[e].bill = t THEN [entry[e] EXCEPT !.bill = None] ELSE entry[e]]
  /\ UNCHANGED <<category, friend, plan, stopped, today>>

-----------------------------------------------------------------------------
(* How a transaction is shared.                                            *)
SetSplit(t, input) ==
  /\ IsExpense(bill[t].category)
  /\ Saved(input, bill[t].amount, friend, AllWho(bill[t].lines))
  /\ Written(t, bill[t], Shared(input, bill[t].amount), bill[t].amount)
  /\ UNCHANGED <<category, friend, entry, plan, today>>

ClearSplit(t) ==
  /\ bill[t].lines # <<>>
  /\ bill' = [bill EXCEPT ![t].lines = <<>>]
  /\ UNCHANGED <<category, friend, entry, plan, stopped, today>>

(* The template of the recurring item.                                     *)
SetTemplate(input) ==
  /\ IsExpense(plan.category)
  /\ Typed(input, plan.amount, friend, Range(plan.template.who))
  /\ LeftOf(input, plan.amount) = 0
  /\ TemplateOf(input, plan.amount).who # <<>>
  /\ plan' = [plan EXCEPT !.template = TemplateOf(input, plan.amount)]
  /\ UNCHANGED <<category, bill, friend, entry, stopped, today>>

ClearTemplate ==
  /\ plan.template # NoTemplate
  /\ plan' = [plan EXCEPT !.template = NoTemplate]
  /\ UNCHANGED <<category, bill, friend, entry, stopped, today>>

(* A payment of the item is a transaction, shared as the template says; it *)
(* may be of another amount than planned.                                  *)
Pay(amount, date) ==
  LET t == NextId(bill)
      lines == IF plan.template = NoTemplate THEN <<>> ELSE AppliedTo(plan.template, amount)
  IN /\ t <= MaxBills /\ plan.due < LastMonth
     /\ bill' = With(bill, t, [NewBill(amount, date, plan.category, None) EXCEPT !.lines = lines, !.due = plan.due])
     /\ plan' = [plan EXCEPT !.due = @ + 1]
     /\ UNCHANGED <<category, friend, entry, stopped, today>>

-----------------------------------------------------------------------------
(* Friends: archived, never deleted; a name is taken by those who are not. *)
NameTaken(name, p) == \E q \in DOMAIN friend \ {p} : friend[q].name = name /\ ~friend[q].archived
NewFriend(name) == [name |-> name, archived |-> FALSE, remind |-> None]
FriendsOnly == UNCHANGED <<category, bill, entry, plan, stopped, today>>

CreateFriend(name) ==
  /\ ~NameTaken(name, None) /\ NextId(friend) <= MaxFriends
  /\ friend' = With(friend, NextId(friend), NewFriend(name))
  /\ FriendsOnly

RenameFriend(p, name) ==
  /\ friend[p].archived \/ ~NameTaken(name, p)
  /\ friend' = [friend EXCEPT ![p].name = name]
  /\ FriendsOnly

SetReminder(p, on) == friend' = [friend EXCEPT ![p].remind = on] /\ FriendsOnly
Archive(p) == friend' = [friend EXCEPT ![p].archived = TRUE] /\ FriendsOnly
RestoreFriend(p) ==
  /\ ~NameTaken(friend[p].name, p)
  /\ friend' = [friend EXCEPT ![p].archived = FALSE]
  /\ FriendsOnly

-----------------------------------------------------------------------------
(* The ledger. add takes an archived friend too.                           *)
NewEntry(p, kind, amount, date, t, origin) ==
  [person |-> p, kind |-> kind, amount |-> amount, date |-> date, bill |-> t, origin |-> origin]
Added(row) == NextId(entry) <= MaxEntries /\ entry' = With(entry, NextId(entry), row)

Add(p, kind, amount, date, t) ==
  /\ t \in DOMAIN bill \cup {None}
  /\ Added(NewEntry(p, kind, amount, date, t, NoCode))
  /\ UNCHANGED <<category, bill, friend, plan, stopped, today>>

(* borrow_in: the expense and the entry that is linked to it.              *)
Borrowed(p, amount, date, c, origin) ==
  /\ Active(c) /\ IsExpense(c) /\ NextId(bill) <= MaxBills
  /\ bill' = With(bill, NextId(bill), NewBill(amount, date, c, None))
  /\ Added(NewEntry(p, "BORROWED", amount, date, NextId(bill), origin))

BorrowWithExpense(p, amount, date, c) ==
  /\ Borrowed(p, amount, date, c, NoCode)
  /\ UNCHANGED <<category, friend, plan, stopped, today>>

UpdateEntry(e, p, kind, amount, date, t) ==
  /\ t \in DOMAIN bill \cup {None}
  /\ entry' = [entry EXCEPT ![e] = NewEntry(p, kind, amount, date, t, @.origin)]
  /\ UNCHANGED <<category, bill, friend, plan, stopped, today>>

DeleteEntry(e) ==
  /\ entry' = Without(entry, {e})
  /\ UNCHANGED <<category, bill, friend, plan, stopped, today>>

(* settle: a repayment in the direction that reduces the debt, of any      *)
(* amount; at 0 the reminder goes.                                         *)
Settle(p, amount) ==
  LET before == Balance(p)
      minor == IF amount = None THEN (IF before > 0 THEN before ELSE -before) ELSE amount
      kind == IF before > 0 THEN "REPAID_TO_ME" ELSE "REPAID_BY_ME"
  IN /\ before # 0
     /\ Added(NewEntry(p, kind, minor, today, None, NoCode))
     /\ friend' = IF before + Sign(kind) * minor = 0 THEN [friend EXCEPT ![p].remind = None] ELSE friend
     /\ UNCHANGED <<category, bill, plan, stopped, today>>

-----------------------------------------------------------------------------
(* Codes. make and make_recurring: what a friend's code says, the same id  *)
(* for the same bill (or payment) and friend.                              *)
CodeOf(t, p) == [id |-> <<"bill", t, p>>, amount |-> PartOf(p, t), total |-> bill[t].amount, date |-> bill[t].date]
PlanPart(p) == AmountFor(AppliedTo(plan.template, plan.amount), [type |-> "person", id |-> p])
PlanCodeOf(p) == [id |-> <<"plan", plan.due, p>>, amount |-> PlanPart(p), total |-> plan.amount, date |-> plan.due]
CodesShown ==
  {CodeOf(t, p) : t \in DOMAIN bill, p \in DOMAIN friend}
    \cup (IF plan.template = NoTemplate \/ plan.amount = None THEN {} ELSE {PlanCodeOf(p) : p \in DOMAIN friend})

(* accept: a code that was taken in is not taken in again; in another      *)
(* currency the amount is what the rate gives or the person types.         *)
AlreadyAdded(code) == \E e \in DOMAIN entry : entry[e].origin = code.id
Accept(code, minor, p, name, c) ==
  LET who == IF name = "" THEN p ELSE NextId(friend) IN
    /\ ~AlreadyAdded(code)
    /\ code.own => minor = code.amount
    /\ IF name = "" THEN ~friend[p].archived /\ UNCHANGED friend
       ELSE ~NameTaken(name, None) /\ who <= MaxFriends /\ friend' = With(friend, who, NewFriend(name))
    /\ IF c = None THEN Added(NewEntry(who, "BORROWED", minor, code.date, None, code.id)) /\ UNCHANGED bill
       ELSE Borrowed(who, minor, code.date, c, code.id)
    /\ UNCHANGED <<category, plan, stopped, today>>
=============================================================================
