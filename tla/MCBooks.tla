------------------------------ MODULE MCBooks ------------------------------
(***************************************************************************)
(* The small instance of module Books: the values of the constants that a  *)
(* cfg cannot write.                                                       *)
(***************************************************************************)
EXTENDS Exports

(* The friend who was added last comes first among the sync ids.           *)
SyncIds == [p \in 1..MaxFriends |-> MaxFriends - p]
SomeLimits == {None, 1, 2}
(* One code in the own currency, one in another, and the first again after *)
(* its bill has changed.                                                   *)
SomeCodes == {[id |-> "a", amount |-> 4, date |-> 1, own |-> TRUE], [id |-> "a", amount |-> 3, date |-> 1, own |-> TRUE],
              [id |-> "b", amount |-> 3, date |-> 2, own |-> FALSE]}
(* What is exported: some months of a category, a category from a month on *)
(* with the ledger, and one without the payments.                          *)
Of(c) == [All EXCEPT !.limited = TRUE, !.categories = {c}]
Exported ==
  [order |-> {}, budgets |-> {[Of(1) EXCEPT !.from = 2, !.to = 3]}, bills |-> {},
   ledger |-> {[Of(1) EXCEPT !.from = 2, !.debts = TRUE]}, plan |-> {Of(2)}]
(* A selection with nothing but a first day.                               *)
DatesOnly == [Exported EXCEPT !.ledger = {[All EXCEPT !.from = 2]}]
Calls == [order |-> 3, budgets |-> 2, bills |-> 3, ledger |-> 2, plan |-> 2]
=============================================================================
