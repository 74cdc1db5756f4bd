----------------------------- MODULE Statistics -----------------------------
(***************************************************************************)
(* The figures of the charts, stats.rs. Each is read from the database by  *)
(* a query of its own; the module says which rows each one counts.         *)
(***************************************************************************)
EXTENDS Books

Sum(f) == MapThenSumSet(LAMBDA x : f[x], DOMAIN f)

(* pct_tenths: tenths of a percent, rounded half up; none of nothing.      *)
PctTenths(part, whole) == IF whole <= 0 THEN None ELSE (part * 2000 + whole) \div (2 * whole)

(* budget_vs_actual: a category that was deleted is listed where it still  *)
(* counts, and where it has transactions.                                  *)
HasBills(c, m) == \E t \in DOMAIN bill : bill[t].category = c /\ bill[t].date = m
(* Mutant of Listed: only where it still counts.                           *)
ListedCounting(c, m) == CountsIn(c, m)
Listed(c, m) == CountsIn(c, m) \/ HasBills(c, m)
LineIn(c, m) ==
  [budgeted |-> LimitIn(c, m), actual |-> SpentIn(m, c),
   used |-> IF LimitIn(c, m) = None THEN None ELSE PctTenths(SpentIn(m, c), LimitIn(c, m))]
LinesIn(m) == [c \in {c \in DOMAIN category : Listed(c, m)} |-> LineIn(c, m)]

(* category_trend: the budget of the series, deleted or not.               *)
Trend(c, from, to) == [m \in from..to |-> [budgeted |-> SeriesLimit(SeriesOf(c), m), actual |-> SpentIn(m, c)]]

(* year_trend: by the type of the category of each transaction.            *)
OfType(type, m) == {t \in DOMAIN bill : category[bill[t].category].type = type /\ bill[t].date = m}
YearTrend ==
  [m \in 1..LastMonth |->
     LET income == MapThenSumSet(CostOf, OfType("INCOME", m)) expense == MapThenSumSet(CostOf, OfType("EXPENSE", m))
     IN [income |-> income, expense |-> expense, savings |-> income - expense]]

(* top_categories: the first of those that have transactions, the most     *)
(* first, and the part each has of them all.                               *)
Before(a, b, m) ==
  \/ SpentIn(m, a) > SpentIn(m, b)
  \/ SpentIn(m, a) = SpentIn(m, b) /\ a < b
TopCategories(type, m, limit) ==
  LET with == {c \in DOMAIN category : category[c].type = type /\ HasBills(c, m)}
      top == SetToSortSeq(with, LAMBDA a, b : Before(a, b, m))
      whole == MapThenSumSet(LAMBDA c : SpentIn(m, c), with)
  IN [i \in 1..Min({limit, Len(top)}) |->
        [category |-> top[i], actual |-> SpentIn(m, top[i]), share |-> PctTenths(SpentIn(m, top[i]), whole)]]

(* commitments: what the item costs in a month is your part of it.         *)
Commitment ==
  IF plan.amount = None \/ plan.template = NoTemplate THEN plan.amount ELSE MyPart(plan.template, plan.amount)
=============================================================================
