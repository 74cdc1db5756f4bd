------------------------------- MODULE Exports -------------------------------
(***************************************************************************)
(* What leaves the app unencrypted: the export of a selection, export.rs   *)
(* and export/debts.rs, and the report of some months, report.rs.          *)
(*                                                                         *)
(* A selection is [from, to, limited, categories, kind, min, split, debts],*)
(* None or "" for what is not chosen, and categories only where limited.   *)
(***************************************************************************)
EXTENDS Statistics

CONSTANT Selections   \* Selections[scope]: what is exported in that scope

All == [from |-> None, to |-> None, limited |-> FALSE, categories |-> {}, kind |-> "", min |-> None, split |-> "", debts |-> FALSE]

Narrows(sel) == sel.limited \/ sel.kind # "" \/ sel.min # None \/ sel.split # ""
Everything(sel) == sel.from = None /\ sel.to = None /\ ~Narrows(sel)
FromOf(sel) == Max({sel.from, 1})
ToOf(sel) == IF sel.to = None THEN LastMonth + 1 ELSE sel.to
InDates(sel, day) == day \in FromOf(sel)..ToOf(sel)
ChosenCategory(sel, c) == sel.limited => c \in sel.categories
ChosenKind(sel, type) == sel.kind \in {"", type}

(* transaction_filter. What a bill cost you decides, not what was paid.    *)
Held(sel) ==
  {t \in DOMAIN bill :
     /\ InDates(sel, bill[t].date)
     /\ ChosenCategory(sel, bill[t].category) /\ ChosenKind(sel, category[bill[t].category].type)
     /\ sel.min = None \/ CostOf(t) >= sel.min
     /\ sel.split = "" \/ (sel.split = "split" <=> bill[t].lines # <<>>)}

(* monthly_sums.                                                           *)
MonthlySum(sel, type, m) == MapThenSumSet(CostOf, Held(sel) \cap OfType(type, m))

-----------------------------------------------------------------------------
(* The rows of the file.                                                   *)
TransactionRow(t) ==
  [id |-> t, date |-> bill[t].date, category |-> category[bill[t].category].name, amount |-> bill[t].amount, share |-> CostOf(t)]
TransactionRows(sel) == {TransactionRow(t) : t \in Held(sel)}   \* the CSV file
CategoryRows(sel) ==
  {[id |-> c, type |-> category[c].type, name |-> category[c].name, deleted |-> category[c].gone # None] :
     c \in {c \in DOMAIN category : ChosenCategory(sel, c) /\ ChosenKind(sel, category[c].type)}}

(* budget_rows and budgets_in_range: the rows of the months in the range,  *)
(* and for a budget that has none in the first month the row in force. The *)
(* monthly totals go only with every category.                             *)
ChosenSeries(sel) ==
  {<<row[1], row[2]>> : row \in {row \in DOMAIN budget :
     (sel.limited => row[2] # 0) /\ (row[2] # 0 => ChosenCategory(sel, row[2])) /\ ChosenKind(sel, row[1])}}
(* Mutant of InForce: the range starts with its own rows.                  *)
InForceNone(series, sel) == {}
InForce(series, sel) ==
  LET before == {m \in MonthsOf(series) : m < sel.from} IN
    IF before = {} \/ sel.from \in MonthsOf(series) \/ budget[<<series[1], series[2], Max(before)>>] = None THEN {}
    ELSE {<<series[1], series[2], Max(before)>>}
BudgetRows(sel) ==
  LET kept == UNION {InForce(series, sel) \cup {row \in RowsOf(series) : InDates(sel, row[3])} : series \in ChosenSeries(sel)}
  IN [row \in kept |-> budget[row]]

RecurringRows(sel) == IF ChosenCategory(sel, plan.category) /\ ChosenKind(sel, category[plan.category].type) THEN {plan} ELSE {}
(* due_payments: what is due is a matter of today, not of the dates.       *)
DueRows(sel) == IF sel.kind # "INCOME" /\ ChosenCategory(sel, plan.category) THEN {[due |-> d, amount |-> plan.amount] : d \in Overdue} ELSE {}

(* lines, entries, people and history_lines of export/debts.rs.            *)
LineRows(sel) ==
  UNION {{[bill |-> t, who |-> part.who, amount |-> part.amount, name |-> IF part.who.type = "person" THEN friend[part.who.id].name ELSE ""] :
            part \in Range(bill[t].lines)} : t \in Held(sel)}
WithEntries(sel) == Everything(sel) \/ sel.debts
HeldEntries(sel) == {e \in DOMAIN entry : WithEntries(sel) /\ InDates(sel, entry[e].date)}
EntryRow(e) == [id |-> e, name |-> friend[entry[e].person].name, row |-> entry[e]]
Named(sel) ==
  {line.who.id : line \in {line \in LineRows(sel) : line.who.type = "person"}} \cup {entry[e].person : e \in HeldEntries(sel)}
PersonRow(p, all) ==
  [id |-> p, name |-> friend[p].name, archived |-> friend[p].archived,
   balance |-> IF all THEN <<Balance(p)>> ELSE <<>>, remind |-> IF all THEN friend[p].remind ELSE None]
PeopleRows(sel) == {PersonRow(p, Everything(sel)) : p \in IF Everything(sel) THEN DOMAIN friend ELSE Named(sel)}

(* Mutant of KeepsBalance: the balance is part of the line.                *)
KeepsBalanceAlways(sel) == TRUE
KeepsBalance(sel) == ~Narrows(sel)
KeptLine(sel, line, entries) ==
  CASE line.kind \in {"BILL", "PAID"} -> line.id \in Held(sel)
    [] line.kind = "DUE" -> sel.kind # "INCOME" /\ ChosenCategory(sel, plan.category)
    [] OTHER -> entries
HistoryRows(sel, entries) ==
  {[line EXCEPT !.balance = IF KeepsBalance(sel) THEN @ ELSE <<>>] :
     line \in {line \in HistoryOf(FromOf(sel), ToOf(sel)) : KeptLine(sel, line, entries)}}

(* json, and what the screen says of it before, preview.                   *)
File(sel) ==
  [transactions |-> TransactionRows(sel), parts |-> LineRows(sel), categories |-> CategoryRows(sel),
   budgets |-> BudgetRows(sel), recurring |-> RecurringRows(sel), due |-> DueRows(sel), people |-> PeopleRows(sel),
   ledger |-> {EntryRow(e) : e \in HeldEntries(sel)}, history |-> HistoryRows(sel, WithEntries(sel))]
Preview(sel) ==
  [type \in Types |-> MapThenSumSet(CostOf, {t \in Held(sel) : category[bill[t].category].type = type})]

-----------------------------------------------------------------------------
(* The report of whole months, load and report_part.                       *)
MonthsIn(sel) == FromOf(sel)..ToOf(sel)
Spending(sel) ==
  [c \in {bill[t].category : t \in {t \in Held(sel) : IsExpense(bill[t].category)}} |->
     MapThenSumSet(CostOf, {t \in Held(sel) : bill[t].category = c})]

(* Budget against actual of a category: over the months that have a budget,*)
(* or over all of them where none has.                                     *)
BudgetLine(sel, c) ==
  LET in == {m \in MonthsIn(sel) : Listed(c, m)}
      with == {m \in in : LimitIn(c, m) # None}
  IN [budgeted |-> IF with = {} THEN None ELSE MapThenSumSet(LAMBDA m : LimitIn(c, m), with),
      actual |-> MapThenSumSet(LAMBDA m : SpentIn(m, c), IF with = {} THEN in ELSE with)]
BudgetLines(sel) ==
  LET said(c) == BudgetLine(sel, c).budgeted # None \/ BudgetLine(sel, c).actual > 0
  IN [c \in {c \in DOMAIN category : ChosenCategory(sel, c) /\ said(c)} |-> BudgetLine(sel, c)]
GlobalLine(sel, type) ==
  LET with == {m \in MonthsIn(sel) : ~sel.limited /\ Budgeted(type, m) # None} IN
    [budgeted |-> MapThenSumSet(LAMBDA m : Budgeted(type, m), with), actual |-> MapThenSumSet(LAMBDA m : Actual(type, m), with)]

(* Who owed what on the last day.                                          *)
BalanceOn(p, day) ==
  LET at == Statement(p) upto == {i \in DOMAIN at : at[i].line.date <= day}
  IN IF upto = {} THEN 0 ELSE at[Max(upto)].balance
Owing(day) == [p \in {p \in DOMAIN friend : BalanceOn(p, day) # 0} |-> BalanceOn(p, day)]
-----------------------------------------------------------------------------
(* Properties.                                                             *)

(* The figures of a month are the same on every screen, each with its own  *)
(* query: the lines of the categories, the overview, the year, the list of *)
(* the most, an export, its preview and the report, whatever was deleted,  *)
(* shared and moved (stats.rs:1-3, report.rs:11-12); and so do the list of *)
(* reminders that are due and the days the phone hands to the system.      *)
Month(m) == [All EXCEPT !.from = m, !.to = m]
ScreensAgree ==
  /\ \A m \in 1..LastMonth, type \in Types :
       LET lines == {c \in DOMAIN LinesIn(m) : category[c].type = type}
           top == TopCategories(type, m, MaxCategories)
           actual == Actual(type, m)
       IN /\ MapThenSumSet(LAMBDA c : LinesIn(m)[c].actual, lines) = actual
          /\ MapThenSumSet(LAMBDA c : IF LinesIn(m)[c].budgeted = None THEN 0 ELSE LinesIn(m)[c].budgeted, lines) = Allocated(type, m)
          /\ YearTrend[m][IF type = "INCOME" THEN "income" ELSE "expense"] = actual
          /\ Total([i \in DOMAIN top |-> top[i].actual]) = actual
          /\ {MonthlySum(All, type, m), MonthlySum(Month(m), type, m), Preview(Month(m))[type]} = {actual}
          /\ type = "EXPENSE" => Sum(Spending(Month(m))) = actual
          /\ \A c \in DOMAIN BudgetLines(Month(m)) : c \in DOMAIN LinesIn(m) /\ BudgetLine(Month(m), c).actual = LinesIn(m)[c].actual
  /\ Sum(Owing(LastMonth)) = OwedToYou - YouOwe
  /\ RemindersComeRound

(* The budgets in a file are those that applied in its dates: reading them *)
(* gives every chosen budget of every month there, and each of them is in  *)
(* force in one (export.rs:427-430).                                       *)
LimitInFile(rows, series, m) ==
  LET upto == {row[3] : row \in {row \in DOMAIN rows : <<row[1], row[2]>> = series /\ row[3] <= m}}
  IN IF upto = {} THEN None ELSE rows[<<series[1], series[2], Max(upto)>>]
BudgetsApply ==
  \A sel \in Selections[scope] :
    LET rows == BudgetRows(sel) IN
      /\ \A series \in ChosenSeries(sel), m \in MonthsIn(sel) : LimitInFile(rows, series, m) = SeriesLimit(series, m)
      /\ \A row \in DOMAIN rows : row[3] >= FromOf(sel) \/ SeriesLimit(<<row[1], row[2]>>, sel.from) = rows[row]

(* A limited export reveals nothing about the rest: as long as what was    *)
(* chosen stays as it is, whatever happens to the rest leaves the file the *)
(* same, balances, totals and names included (export.rs:5-7, debts.rs:3-10)*)
ChosenBills(sel) == [t \in Held(sel) |-> bill[t]]
ChosenEntries(sel) == [e \in HeldEntries(sel) |-> entry[e]]
ChosenBudgets(sel) == [row \in {row \in DOMAIN budget : sel.limited => row[2] \in sel.categories} |-> budget[row]]
ChosenFriends(sel) == [p \in Named(sel) |-> <<friend[p].name, friend[p].archived>>]
ChosenStays(sel) ==
  /\ ChosenBills(sel)' = ChosenBills(sel) /\ ChosenEntries(sel)' = ChosenEntries(sel)
  /\ ChosenBudgets(sel)' = ChosenBudgets(sel) /\ CategoryRows(sel)' = CategoryRows(sel)
  /\ ChosenCategory(sel, plan.category) => UNCHANGED <<plan, today>>
  /\ ChosenFriends(sel)' = ChosenFriends(sel)
NothingOfTheRest == [][\A sel \in Selections[scope] : ChosenStays(sel) => File(sel)' = File(sel)]_vars
=============================================================================
