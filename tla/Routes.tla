-------------------------------- MODULE Routes --------------------------------
(***************************************************************************)
(* The route table of the command API (api/routes.rs and the files beside  *)
(* it that hold the entries): for each route the scope a token needs, what *)
(* it must and may be given, whether the person is asked, whether it looks *)
(* up the day before it does its work, and whether it changes records.     *)
(* A request is known here by its route and the names of its arguments;    *)
(* fault "value" stands for an argument that does not have its form.       *)
(***************************************************************************)
EXTENDS Naturals, FiniteSets

Looks(name, needs, may) ==
  [name |-> name, scope |-> "READ", needs |-> needs, may |-> may, confirm |-> FALSE, today |-> FALSE, changes |-> FALSE]
Changes(name, needs, may) == [Looks(name, needs, may) EXCEPT !.scope = "WRITE", !.changes = TRUE]
Saves(name, needs, may) == [Looks(name, {"out"} \cup needs, may) EXCEPT !.confirm = TRUE]
Today(route) == [route EXCEPT !.today = TRUE]

-----------------------------------------------------------------------------
(* read.rs.                                                                *)
Filters == {"from", "to", "categoryIds", "kind", "minAmount", "maxAmount", "text", "split"}
ListRoutes ==
  {Looks("status", {}, {}), Looks("schema", {}, {}), Looks("today", {}, {}), Looks("settings.get", {}, {}),
   Looks("categories.list", {}, {"type"}),
   Looks("transactions.list", {}, {"from", "to", "categoryId", "q", "limit", "offset"}),
   Looks("budgets.overview", {"month"}, {}), Looks("budgets.history", {}, {}), Looks("recurring.list", {}, {}),
   Today(Looks("recurring.dues", {}, {"withinDays"}))}
StatsRoutes ==
  {Looks("stats.budget", {"month"}, {}), Looks("stats.trend", {"categoryId", "from", "to"}, {}),
   Looks("stats.year", {"year"}, {}), Looks("stats.top", {"month", "type"}, {"limit"}), Looks("stats.commitments", {}, {}),
   Looks("stats.planned", {"month"}, {}), Looks("export.preview", {}, Filters \cup {"includeDebts", "sections"}),
   Looks("backup.schedule", {}, {})}

-----------------------------------------------------------------------------
(* write.rs. Settings are kept outside the records.                        *)
SettingsRoutes == {[Changes("settings.set", {}, {"locale", "timezone", "language"}) EXCEPT !.changes = FALSE]}
CategoryRoutes ==
  {Changes("categories.create", {"name", "type"}, {}), Changes("categories.rename", {"id", "name"}, {}),
   Changes("categories.delete", {"id"}, {"month", "span"}), Changes("categories.reorder", {"ids"}, {})}
Details == {"name", "amount", "categoryId", "description"}
TransactionRoutes ==
  {Changes("transactions.create", {"name", "amount", "paymentDate", "categoryId"}, {"description", "clientUuid"}),
   Changes("transactions.update", {"id"}, Details \cup {"paymentDate"}), Changes("transactions.delete", {"id"}, {})}
BudgetRoutes ==
  {Changes("budgets.set", {"type", "month", "amountLimit"}, {"categoryId", "span"}),
   Changes("budgets.remove", {"type", "month"}, {"categoryId", "span"})}
Rhythm == {"startDate", "intervalUnit", "intervalCount"}
RecurringRoutes ==
  {Changes("recurring.create", {"name", "categoryId"} \cup Rhythm, {"amount", "endDate", "description"}),
   Changes("recurring.update", {"id"}, Details \cup Rhythm \cup {"endDate"}), Changes("recurring.delete", {"id"}, {}),
   Today(Changes("recurring.pay", {"id"}, {"amount", "paidOn", "dueDate", "description"})),
   Changes("recurring.skip", {"id"}, {"dueDate"}), Changes("recurring.pause", {"id"}, {}),
   Changes("recurring.resume", {"id"}, {}), Today(Changes("recurring.end", {"id"}, {}))}

-----------------------------------------------------------------------------
(* debts.rs. A split has one value for each friend and guest, or none at   *)
(* all: whether it has is part of its form.                                *)
SplitArgs == {"mine", "people", "guests", "values"}
DebtLookRoutes ==
  {Looks("people.list", {}, {"archived"}), Looks("people.show", {"id"}, {}), Looks("debts.summary", {}, {}),
   Today(Looks("debts.due", {}, {})), Today(Looks("debts.history", {}, {"from", "to", "personId", "limit", "offset"})),
   Today(Looks("debts.reminders", {"everyDays"}, {})), Looks("splits.preview", {"amount", "mode"}, SplitArgs)}
FriendRoutes ==
  {Changes("people.create", {"name"}, {}), Changes("people.update", {"id"}, {"name", "remindOn", "remindEveryDays"}),
   Changes("people.archive", {"id"}, {}), Changes("people.unarchive", {"id"}, {}),
   Today(Changes("people.settle", {"id"}, {"amount", "date", "note"}))}
LedgerRoutes ==
  {Changes("ledger.add", {"personId", "kind", "amount", "date"}, {"note", "transactionId", "expenseName", "expenseCategoryId"}),
   Changes("ledger.update", {"id"}, {"personId", "kind", "amount", "date", "note", "transactionId"}),
   Changes("ledger.delete", {"id"}, {})}
BillRoutes ==
  {Changes("transactions.split", {"id", "mode"}, SplitArgs), Changes("transactions.unsplit", {"id"}, {}),
   Changes("recurring.split", {"id", "mode"}, SplitArgs), Changes("recurring.unsplit", {"id"}, {})}
DebtsFileRoute == {Today(Saves("export.debts", {}, {"what", "format", "personId"}))}

-----------------------------------------------------------------------------
(* confirmed.rs and documents.rs.                                          *)
ExportRoutes ==
  {Saves("export.json", {}, Filters \cup {"includeDebts", "sections"}), Saves("export.csv", {}, Filters),
   Saves("export.xlsx", {}, Filters \cup {"includeDebts", "sections"})}
ReportRoutes ==
  {Saves("export.pdf", {"fromMonth", "toMonth"}, {"categoryIds", "includeTransactions", "showDescriptions", "page",
                                                 "includeDebts", "includeDuePayments", "includeDebtHistory"})}
BackupRoute == {Saves("backup.create", {"passphrase"}, {})}
Targets == {"transactionId", "recurringId", "ledgerEntryId"}
DocumentRoutes ==
  {Looks("documents.list", {}, {"q", "kind", "from", "to", "limit", "offset"} \cup Targets),
   Looks("documents.show", {"id"}, {}),
   Today(Changes("documents.add", {"data", "name"}, {"date", "keepOnPhone", "transactionIds", "recurringIds", "ledgerEntryIds"}))}
DocumentChangeRoutes ==
  {Changes("documents.update", {"id"}, {"name", "date", "keepOnPhone"}), Changes("documents.delete", {"id"}, {}),
   Changes("documents.link", {"id"}, Targets), Changes("documents.unlink", {"id"}, Targets)}
DocumentFileRoute == {[Saves("documents.get", {"id"}, {}) EXCEPT !.scope = "WRITE"]}

ALL ==
  ListRoutes \cup StatsRoutes \cup SettingsRoutes \cup CategoryRoutes \cup TransactionRoutes \cup BudgetRoutes
  \cup RecurringRoutes \cup ExportRoutes \cup ReportRoutes \cup BackupRoute \cup DocumentRoutes
  \cup DocumentChangeRoutes \cup DocumentFileRoute \cup DebtLookRoutes \cup FriendRoutes \cup LedgerRoutes
  \cup BillRoutes \cup DebtsFileRoute
AllRoutes == [name \in {route.name : route \in ALL} |-> CHOOSE route \in ALL : route.name = name]
TakesAFile(name) == name = "documents.add"

-----------------------------------------------------------------------------
(* check: before the route runs, or the person is asked.                   *)
Fits(r) ==
  LET route == AllRoutes[r.route] IN
    route.needs \subseteq r.args /\ r.args \subseteq route.needs \cup route.may /\ r.fault # "value"

(* What a route refuses itself: arguments that belong together, or apart.  *)
Both(r, a, b) == a \in r.args <=> b \in r.args
SettingsMakeSense(r) == r.route = "settings.set" => r.args # {}
CategoryMakesSense(r) == r.route = "categories.delete" => Both(r, "month", "span")
EntryMakesSense(r) ==
  r.route = "ledger.add" =>
    Both(r, "expenseName", "expenseCategoryId") /\ ~{"expenseName", "transactionId"} \subseteq r.args
DocumentMakesSense(r) == r.route = "documents.update" => r.args # {"id"}
TargetMakesSense(r) == r.route \in {"documents.link", "documents.unlink"} => Cardinality(r.args \cap Targets) = 1
MakesSense(r) ==
  SettingsMakeSense(r) /\ CategoryMakesSense(r) /\ EntryMakesSense(r) /\ DocumentMakesSense(r) /\ TargetMakesSense(r)
===============================================================================
