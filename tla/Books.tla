-------------------------------- MODULE Books --------------------------------
(***************************************************************************)
(* The categories, categories.rs, and their budgets, budgets.rs, over the  *)
(* transactions and the ledger of module Ledger: the whole of what a       *)
(* person enters by hand, one call at a time.                              *)
(*                                                                         *)
(* A budget is a row of a series, [type, category] with 0 for the monthly  *)
(* total, that holds from a month on; NULL, None here, is no budget from   *)
(* that month on.                                                          *)
(***************************************************************************)
EXTENDS Ledger, TLC

CONSTANTS
  Limits,          \* the limits that are set, None to remove
  MaxCategories,   \* bound
  MaxCalls         \* bound: MaxCalls[scope] is the calls of a run

VARIABLES
  budget,   \* budget[<<type, category, month>>]: the limit of the row
  calls,    \* the calls so far
  scope,    \* what the person does in this run
  last      \* the last change of a budget: [call, month, span, series]

vars == <<category, bill, friend, entry, plan, stopped, today, budget, calls, scope, last>>

Types == {"INCOME", "EXPENSE"}
Spans == {"ONLY", "FORWARD", "ALL"}
Nothing == [call |-> "other", month |-> 0, span |-> "", series |-> <<>>]
SeriesOf(c) == <<category[c].type, c>>
RowsOf(series) == {row \in DOMAIN budget : <<row[1], row[2]>> = series}
MonthsOf(series) == {row[3] : row \in RowsOf(series)}

-----------------------------------------------------------------------------
(* What a month shows. A category counts in the months before it was       *)
(* deleted.                                                                *)
CountsIn(c, m) == category[c].gone = None \/ category[c].gone > m

(* series_limit: the latest row at or before the month.                    *)
SeriesLimit(series, m) ==
  LET upto == {n \in MonthsOf(series) : n <= m}
  IN IF upto = {} THEN None ELSE budget[<<series[1], series[2], Max(upto)>>]

(* effective, over_by and overview.                                        *)
LimitIn(c, m) == IF CountsIn(c, m) THEN SeriesLimit(SeriesOf(c), m) ELSE None
Budgeted(type, m) == SeriesLimit(<<type, 0>>, m)
Allocated(type, m) ==
  MapThenSumSet(LAMBDA c : IF category[c].type = type /\ LimitIn(c, m) # None THEN LimitIn(c, m) ELSE 0, DOMAIN category)
OverBy(type, m) == IF Budgeted(type, m) = None THEN 0 ELSE Max({Allocated(type, m) - Budgeted(type, m), 0})
SpentIn(m, c) == MapThenSumSet(CostOf, {t \in DOMAIN bill : bill[t].date = m /\ bill[t].category = c})
Actual(type, m) == MapThenSumSet(LAMBDA c : IF category[c].type = type THEN SpentIn(m, c) ELSE 0, DOMAIN category)
Used(type, m) ==
  MapThenSumSet(LAMBDA c : IF category[c].type = type /\ CountsIn(c, m) THEN SpentIn(m, c) ELSE 0, DOMAIN category)

(* list_in_month.                                                          *)
ListedIn(m) ==
  {c \in DOMAIN category :
     \/ category[c].gone = None
     \/ /\ category[c].gone > m
        /\ (\E t \in DOMAIN bill : bill[t].category = c /\ bill[t].date = m) \/ SeriesLimit(SeriesOf(c), m) # None}

(* history: the months from the first that ever had a budget to this one.  *)
SetRows == {row \in DOMAIN budget : budget[row] # None}
FirstMonth == Min({row[3] : row \in SetRows})
HistoryMonths == IF SetRows = {} THEN {} ELSE FirstMonth..today
MonthHistory(m) == [type \in Types |-> <<Budgeted(type, m), Actual(type, m)>>]

-----------------------------------------------------------------------------
(* Categories.                                                             *)
Put(rows, series, m, limit) == With(rows, <<series[1], series[2], m>>, limit)
CategoryTaken(c, type, name) ==
  \E d \in DOMAIN category \ {c} : Active(d) /\ category[d].type = type /\ category[d].name = name
ActiveOf(type) == {c \in DOMAIN category : Active(c) /\ category[c].type = type}
OthersStay == UNCHANGED <<moneyVars, today>>

(* create: a new category goes to the end of its type.                     *)
EndOf(type) == Max({category[d].position : d \in {d \in DOMAIN category : category[d].type = type}} \cup {-1}) + 1
CreateCategory(name, type) ==
  LET c == NextId(category)
  IN /\ ~CategoryTaken(0, type, name) /\ c <= MaxCategories
     /\ category' = With(category, c, [type |-> type, name |-> name, position |-> EndOf(type), gone |-> None])
     /\ last' = Nothing
     /\ UNCHANGED budget /\ OthersStay

(* reorder: all the active ones of a type, in the new order.               *)
Reorder(type, ids) ==
  /\ IsInjective(ids) /\ Range(ids) = ActiveOf(type) /\ ids # <<>>
  /\ category' = [c \in DOMAIN category |->
       IF c \in Range(ids) THEN [category[c] EXCEPT !.position = (CHOOSE i \in DOMAIN ids : ids[i] = c) - 1] ELSE category[c]]
  /\ last' = [Nothing EXCEPT !.call = "reorder", !.series = ids]
  /\ UNCHANGED budget /\ OthersStay

RenameCategory(c, name) ==
  /\ Active(c) /\ ~CategoryTaken(c, category[c].type, name)
  /\ category' = [category EXCEPT ![c].name = name]
  /\ last' = Nothing
  /\ UNCHANGED budget /\ OthersStay

(* delete: gone from this month on, with no budget from it on.             *)
DeleteCategory(c) ==
  /\ Active(c)
  /\ category' = [category EXCEPT ![c].gone = today]
  /\ budget' = Put(budget, SeriesOf(c), today, None)
  /\ last' = [call |-> "delete", month |-> today, span |-> "FORWARD", series |-> SeriesOf(c)]
  /\ OthersStay

(* delete_span.                                                            *)
OnlyRows(c, m) ==
  LET series == SeriesOf(c)
      kept == IF m + 1 \notin MonthsOf(series) /\ SeriesLimit(series, m + 1) # None
              THEN Put(budget, series, m + 1, SeriesLimit(series, m + 1)) ELSE budget
  IN Put(kept, series, m, None)
LaterRows(series, m) == {row \in RowsOf(series) : row[3] > m}
GoneFrom(c, m) ==
  Min({m, today} \cup {row[3] : row \in RowsOf(SeriesOf(c)) \cap SetRows} \cup {bill[t].date : t \in {t \in DOMAIN bill : bill[t].category = c}})

DeleteSpan(c, m, span) ==
  LET series == SeriesOf(c)
      future == span = "FORWARD" /\ m > today
  IN /\ Active(c)
     /\ category' = CASE span = "ALL" -> [category EXCEPT ![c].gone = GoneFrom(c, m)]
                      [] span = "FORWARD" /\ ~future -> [category EXCEPT ![c].gone = m]
                      [] OTHER -> category
     /\ budget' = CASE span = "ONLY" -> OnlyRows(c, m)
                    [] future -> Without(Put(budget, series, m, None), LaterRows(series, m))
                    [] span = "FORWARD" /\ ~future -> Put(budget, series, m, None)
                    [] OTHER -> Without(budget, RowsOf(series))
     /\ last' = [call |-> "delete", month |-> m, span |-> span, series |-> series]
     /\ OthersStay

-----------------------------------------------------------------------------
(* set_span: the rows after the change, and the months where the totals of *)
(* the side can differ from the month before.                              *)
(* Mutant of Pinned: this month is not kept.                               *)
PinnedBefore(series, m, limit) ==
  IF m + 1 < today /\ m + 1 \notin MonthsOf(series) /\ SeriesLimit(series, m + 1) # limit
  THEN Put(budget, series, m + 1, SeriesLimit(series, m + 1)) ELSE budget
Pinned(series, m, limit) ==
  IF m + 1 <= today /\ m + 1 \notin MonthsOf(series) /\ SeriesLimit(series, m + 1) # limit
  THEN Put(budget, series, m + 1, SeriesLimit(series, m + 1)) ELSE budget
StartOf(m, span) == IF span = "ALL" THEN Min({m} \cup {row[3] : row \in SetRows}) ELSE m
RowsAfter(series, m, limit, span) ==
  LET kept == CASE span = "ONLY" -> Pinned(series, m, limit)
                [] span = "FORWARD" -> Without(budget, LaterRows(series, m))
                [] OTHER -> Without(budget, RowsOf(series))
  IN Put(kept, series, StartOf(m, span), limit)
(* Mutant of BoundaryMonths: the months of the change only.                *)
BoundaryMonthsNear(type, m) == {m, m + 1}
BoundaryMonths(type, m) ==
  {row[3] : row \in {row \in DOMAIN budget : row[1] = type}} \cup {m, m + 1} \cup (IF SetRows = {} THEN {} ELSE {FirstMonth})

SetBudget(type, c, m, limit, span) ==
  /\ c # 0 => Active(c) /\ category[c].type = type
  /\ budget' = RowsAfter(<<type, c>>, m, limit, span)
  /\ UNCHANGED category
  /\ \A b \in BoundaryMonths(type, m) : OverBy(type, b)' <= OverBy(type, b)
  /\ last' = [call |-> "set", month |-> m, span |-> span, series |-> <<type, c>>]
  /\ OthersStay

-----------------------------------------------------------------------------
(* What a person does. A scope is a part of the books, so that a run meets *)
(* every part with small sets.                                             *)
Scopes == {"order", "budgets", "bills", "ledger", "plan"}
Inputs ==
  {input \in [mode : {"EQUAL", "SHARES", "PERCENT", "EXACT"}, mine : Weights \cup {None},
              who : {s \in SeqOf([type : {"person"}, id : 1..MaxFriends] \cup [type : {"guest"}, id : Guests], 2) : IsInjective(s)} \ {<<>>},
              values : SeqOf(Weights, 2)] :
     IF input.mode = "EQUAL" THEN input.mine = None /\ input.values = <<>> ELSE Len(input.values) = Len(input.who)}

(* Books with budgets may start with a monthly total, with a part of it    *)
(* given to a category, and with a total that changes later on.            *)
MonthlyTotal == <<"EXPENSE", 0, 1>> :> Max(Limits)
FoodPart == <<"EXPENSE", 1, 1>> :> Max(Limits)
StartBudgets ==
  {<<>>, MonthlyTotal, MonthlyTotal @@ FoodPart, MonthlyTotal @@ (<<"EXPENSE", 0, 3>> :> 1)}
Food == [type |-> "EXPENSE", name |-> "ann", position |-> 0, gone |-> None]
Gone == [Food EXCEPT !.gone = 1]
WithAnn == [NewBill(Max(Amount), 1, 1, 1) EXCEPT !.lines = <<[who |-> [type |-> "person", id |-> 1], amount |-> 1]>>]
Init ==
  /\ scope \in Scopes
  /\ category = CASE scope = "order" -> <<Gone, [Gone EXCEPT !.name = "bob", !.position = 1], [Food EXCEPT !.position = 2]>>
                  [] scope = "budgets" -> <<Food, [Food EXCEPT !.name = "bob", !.position = 1]>>
                  [] OTHER -> <<Food, [Food EXCEPT !.type = "INCOME"]>>
  /\ budget \in IF scope = "budgets" THEN StartBudgets ELSE {<<>>}
  /\ bill = CASE scope = "bills" -> <<NewBill(Max(Amount), 1, 1, 1)>> [] scope = "ledger" -> <<WithAnn>> [] OTHER -> <<>>
  /\ entry = IF scope = "ledger" THEN <<NewEntry(1, "LENT", Max(Amount), 1, None, NoCode)>> ELSE <<>>
  /\ friend = IF scope \in {"bills", "plan"} THEN <<NewFriend("ann"), NewFriend("bob")>> ELSE <<NewFriend("ann")>>
  /\ \E amount \in Amount \cup {None} :
       plan = [amount |-> IF scope = "plan" THEN amount ELSE None, category |-> 1, due |-> 1, template |-> NoTemplate]
  /\ today = 1 /\ stopped = FALSE /\ calls = 0 /\ last = Nothing

(* Days matter to the ledger, budgets and payments, not to how a bill is   *)
(* shared.                                                                 *)
Dates == IF scope = "bills" THEN {1} ELSE {1, LastMonth}

(* The form for a new entry sends its uuid twice when the answer is lost.  *)
Transactions ==
  \/ \E amount \in Amount, date \in Dates, c \in DOMAIN category, uuid \in {None, 1} : Create(amount, date, c, uuid)
  \/ \E t \in DOMAIN bill, amount \in Amount, date \in Dates, c \in DOMAIN category : Update(t, amount, date, c)
  \/ \E t \in DOMAIN bill : Delete(t)
Sharing ==
  \/ \E t \in DOMAIN bill, input \in Inputs : SetSplit(t, input)
  \/ \E t \in DOMAIN bill : ClearSplit(t)
Planning ==
  \/ \E input \in Inputs : SetTemplate(input)
  \/ ClearTemplate
  \/ \E amount \in Amount, date \in Dates : Pay(amount, date)
Friends ==
  \/ \E name \in Names : CreateFriend(name)
  \/ \E p \in DOMAIN friend, name \in Names : RenameFriend(p, name)
  \/ \E p \in DOMAIN friend, on \in Months \cup {None} : SetReminder(p, on)
  \/ \E p \in DOMAIN friend : Archive(p)
  \/ \E p \in DOMAIN friend : RestoreFriend(p)
Lending ==
  \/ \E p \in DOMAIN friend, kind \in Kinds, amount \in Amount, date \in Dates, t \in DOMAIN bill \cup {None} : Add(p, kind, amount, date, t)
  \/ \E p \in DOMAIN friend, amount \in Amount, date \in Dates, c \in DOMAIN category : BorrowWithExpense(p, amount, date, c)
  \/ \E e \in DOMAIN entry, p \in DOMAIN friend, kind \in Kinds, amount \in Amount, date \in Dates, t \in DOMAIN bill \cup {None} :
       UpdateEntry(e, p, kind, amount, date, t)
  \/ \E e \in DOMAIN entry : DeleteEntry(e)
  \/ \E p \in DOMAIN friend, amount \in Amount \cup {None} : Settle(p, amount)
  \/ \E code \in Codes, minor \in Amount, p \in DOMAIN friend, c \in DOMAIN category \cup {None} : Accept(code, minor, p, "", c)
  \/ \E code \in Codes, minor \in Amount, name \in Names, c \in DOMAIN category \cup {None} : Accept(code, minor, None, name, c)
Ordering ==
  \/ \E name \in Names, type \in Types : CreateCategory(name, type)
  \/ \E type \in Types : \E ids \in Permutations(ActiveOf(type)) : Reorder(type, SetToSortSeq(ActiveOf(type), LAMBDA a, b : ids[a] < ids[b]))
  \/ \E c \in DOMAIN category, name \in Names : RenameCategory(c, name)
Removing ==
  \/ \E c \in DOMAIN category : DeleteCategory(c)
  \/ \E c \in DOMAIN category, m \in Months, span \in Spans : DeleteSpan(c, m, span)
Budgeting ==
  \E type \in {category[c].type : c \in DOMAIN category}, c \in DOMAIN category \cup {0}, m \in Months, limit \in Limits, span \in Spans : SetBudget(type, c, m, limit, span)

(* The month turns.                                                        *)
MonthTurns ==
  /\ today < LastMonth /\ scope \in {"budgets", "ledger", "plan"}
  /\ today' = today + 1
  /\ last' = Nothing
  /\ UNCHANGED <<category, budget, moneyVars, calls, scope>>

Money == last' = Nothing /\ UNCHANGED budget
Call ==
  /\ calls < MaxCalls[scope] /\ calls' = calls + 1 /\ UNCHANGED scope
  /\ \/ scope = "order" /\ (Ordering \/ Removing)
     \/ scope = "budgets" /\ (Budgeting \/ Removing)
     \/ scope = "budgets" /\ (\E date \in Months, c \in DOMAIN category : Create(Min(Amount), date, c, None)) /\ Money
     \/ scope = "bills" /\ (Transactions \/ Sharing \/ Friends) /\ Money
     \/ scope = "ledger" /\ (Transactions \/ Friends \/ Lending) /\ Money
     \/ scope = "plan" /\ Planning /\ Money

Next == Call \/ MonthTurns
Spec == Init /\ [][Next]_vars
-----------------------------------------------------------------------------
(* Properties.                                                             *)

(* What splits::check asks of the finished state, after any calls: the     *)
(* parts are never more than the bill, nobody has two, nobody has nothing, *)
(* and only an expense is shared (transactions.rs:295-300). And no change  *)
(* that is right at the end is stopped on the way by a check of the        *)
(* database: the parts are written in an order that never passes the bill  *)
(* (splits.rs:299-301, transactions.rs:321-329).                           *)
BillsHold ==
  /\ ~stopped
  /\ \A t \in DOMAIN bill :
       LET lines == bill[t].lines IN
         /\ CostOf(t) >= 0
         /\ \A i \in DOMAIN lines : lines[i].amount > 0
         /\ IsInjective([i \in DOMAIN lines |-> lines[i].who]) /\ Len(lines) <= MAX_LINES
         /\ lines # <<>> => IsExpense(bill[t].category)

(* Two devices that hold the same bill, its rows in different orders, give *)
(* everybody the same part when its amount changes (splits.rs:370-373).    *)
SameEverywhere ==
  \A t \in DOMAIN bill, new \in Amount :
    LET row == bill[t] IN
      Range(Rescale(row.lines, row.amount, new)) = Range(Rescale(Reverse(row.lines), row.amount, new))

(* A reminder that is due rang today or rings a period after the day it    *)
(* last rang, and one that is not yet due rings on its first day           *)
(* (reminders.rs:34-62).                                                   *)
RemindersComeRound ==
  \A p \in Reminded, every \in Periods :
    LET due == DueOn(p, every) next == Upcoming(p, every)[1] IN
      IF due = None THEN next = Changed(p) + every /\ next > today
      ELSE next = IF due = today THEN today ELSE due + every

(* Only this month: the months that have started, and the ones before,     *)
(* show what they showed; taking a category out of one month leaves the    *)
(* months to come alone too (budgets.rs:6-12, categories.rs:265). A        *)
(* category that is deleted from a month on still counts, with its budget  *)
(* and what was spent, in the months before (categories.rs:5-8).           *)
OthersKeep ==
  last'.span = "ONLY" =>
    \A m \in 1..(LastMonth + 1) :
      m # last'.month /\ (m < last'.month \/ m <= today \/ last'.call = "delete") =>
        SeriesLimit(last.series, m)' = SeriesLimit(last'.series, m)
PastStays ==
  last'.call = "delete" /\ last'.span = "FORWARD" =>
    \A m \in 1..(last'.month - 1), type \in Types :
      Allocated(type, m)' = Allocated(type, m) /\ Used(type, m)' = Used(type, m)
OnlyThatSpan == [][OthersKeep /\ PastStays]_vars

(* No call takes any month further over its monthly budget, not one that   *)
(* has no row of its own either (budgets.rs:257-262).                      *)
NeverFurtherOver == [][\A type \in Types, m \in 1..(LastMonth + 1) : OverBy(type, m)' <= OverBy(type, m)]_vars
=============================================================================
