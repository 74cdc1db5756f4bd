------------------------------- MODULE Splits -------------------------------
(***************************************************************************)
(* Sharing a bill, debts/splits.rs: weights into amounts, the numbers a    *)
(* person types into weights, and the rows of the parts written so that    *)
(* they never add up to more than the bill on the way.                     *)
(*                                                                         *)
(* Somebody on a bill is [type |-> "person", id |-> n], or "guest" with    *)
(* the place of the name in the alphabet for n; the sync id of a friend is *)
(* drawn, so SyncIdOf says where it comes in that order. A part is         *)
(* [who, amount], and the parts of a bill are a sequence in the order of   *)
(* the ids of their rows.                                                  *)
(***************************************************************************)
EXTENDS Integers, Sequences, FiniteSets, SequencesExt, FiniteSetsExt, Functions

CONSTANTS
  PERCENT_WHOLE,   \* the whole of a split by percent
  MAX_LINES,       \* friends and guests on one bill
  SyncIdOf         \* SyncIdOf[p]: the place of p's sync id among the sync ids

ASSUME SplitsAssumption == {PERCENT_WHOLE, MAX_LINES} \subseteq Nat \ {0}

None == -1                                   \* nothing typed, NULL
Total(s) == FoldSeq(+, 0, s)
Amounts(parts) == [i \in DOMAIN parts |-> parts[i].amount]
OthersOf(parts) == Total(Amounts(parts))
AllWho(parts) == {parts[i].who : i \in DOMAIN parts}

-----------------------------------------------------------------------------
(* allocate: rounded down, and the cents that are left one each to the     *)
(* largest remainders, ties to the lower position.                         *)
Allocatable(total, weights) == total >= 0 /\ Total(weights) > 0
Allocate(total, weights) ==
  LET sum == Total(weights)
      down == [i \in DOMAIN weights |-> (total * weights[i]) \div sum]
      rest == [i \in DOMAIN weights |-> (total * weights[i]) % sum]
      before(i) == {j \in DOMAIN weights : rest[j] > rest[i] \/ (rest[j] = rest[i] /\ j < i)}
      left == total - Total(down)
  IN [i \in DOMAIN weights |-> down[i] + (IF Cardinality(before(i)) < left THEN 1 ELSE 0)]

(* The parts of the others that are above 0.                               *)
PartsFrom(who, amounts) ==
  SelectSeq([i \in DOMAIN who |-> [who |-> who[i], amount |-> amounts[i + 1]]], LAMBDA part : part.amount > 0)

-----------------------------------------------------------------------------
(* What is typed: [mode, mine, who, values], None for what is left out.    *)
TotalOf(mode, whole) == CASE mode = "PERCENT" -> PERCENT_WHOLE [] mode = "EXACT" -> whole [] OTHER -> None

MineOf(input, whole) ==
  IF input.mine # None THEN input.mine
  ELSE IF input.mode = "EQUAL" THEN 1
  ELSE Max({TotalOf(input.mode, whole) - Total(input.values), 0})
WeightsOf(input, whole) ==
  <<MineOf(input, whole)>> \o (IF input.mode = "EQUAL" THEN [i \in DOMAIN input.who |-> 1] ELSE input.values)
LeftOf(input, whole) ==
  IF input.mode \in {"EQUAL", "SHARES"} THEN 0 ELSE TotalOf(input.mode, whole) - Total(WeightsOf(input, whole))

(* who_of and weights: who is taken, keep being the friends that are on it *)
(* already, and what is typed in each mode.                                *)
Typed(input, whole, friends, keep) ==
  /\ Len(input.who) \in 1..MAX_LINES /\ IsInjective(input.who)
  /\ \A i \in DOMAIN input.who :
       LET w == input.who[i] IN
         w.type = "person" => w.id \in DOMAIN friends /\ (friends[w.id].archived => w \in keep)
  /\ IF input.mode = "EQUAL" THEN input.mine = None /\ input.values = <<>>
     ELSE /\ Len(input.values) = Len(input.who)
          /\ input.mode = "SHARES" => input.mine # None
          /\ input.mode = "EXACT" => whole # None
          /\ input.mode = "PERCENT" => \A i \in DOMAIN input.values : input.values[i] <= PERCENT_WHOLE
          /\ Total(WeightsOf(input, whole)) > 0

(* What a split that adds up gives everyone, preview and set_split alike.  *)
Shared(input, whole) == PartsFrom(input.who, Allocate(whole, WeightsOf(input, whole)))
Saved(input, whole, friends, keep) ==
  /\ Typed(input, whole, friends, keep)
  /\ LeftOf(input, whole) = 0
  /\ Shared(input, whole) # <<>>

(* What the dialog shows: only what adds up is shared out, the others get  *)
(* what is typed, or in percent their percent rounded down.                *)
PreviewOf(input, whole) ==
  LET w == WeightsOf(input, whole) IN
    IF LeftOf(input, whole) = 0 THEN Allocate(whole, w)
    ELSE [i \in DOMAIN w |-> IF input.mode = "PERCENT" THEN (whole * w[i]) \div PERCENT_WHOLE ELSE w[i]]

-----------------------------------------------------------------------------
(* write_lines: the rows that are gone or shrink, the ones that grow, the  *)
(* ones that are new; a row that stays keeps its place.                    *)
AmountFor(parts, who) == Total(Amounts(SelectSeq(parts, LAMBDA part : part.who = who)))
WriteLines(current, new) ==
  [i \in DOMAIN SelectSeq(current, LAMBDA part : part.who \in AllWho(new)) |->
     LET part == SelectSeq(current, LAMBDA p : p.who \in AllWho(new))[i] IN [part EXCEPT !.amount = AmountFor(new, part.who)]]
  \o SelectSeq(new, LAMBDA part : part.who \notin AllWho(current))

Step(new, part) == AmountFor(new, part.who) - part.amount
Shrinks(current, new) ==
  LET rows == SelectSeq(current, LAMBDA part : Step(new, part) < 0) IN [i \in DOMAIN rows |-> Step(new, rows[i])]
Grows(current, new) ==
  LET rows == SelectSeq(current, LAMBDA part : Step(new, part) > 0) IN [i \in DOMAIN rows |-> Step(new, rows[i])]
News(current, new) == Amounts(SelectSeq(new, LAMBDA part : part.who \notin AllWho(current)))
(* Mutant of WriteSteps: the parts that grow are written first.            *)
WriteStepsGrowing(current, new) == Grows(current, new) \o Shrinks(current, new) \o News(current, new)
WriteSteps(current, new) == Shrinks(current, new) \o Grows(current, new) \o News(current, new)

(* The database looks at every step: an insert or a growing part must not  *)
(* take the parts over the bill.                                           *)
StepsFit(current, new, bill) ==
  LET steps == WriteSteps(current, new) IN
    \A n \in DOMAIN steps : steps[n] > 0 => OthersOf(current) + Total(SubSeq(steps, 1, n)) <= bill

-----------------------------------------------------------------------------
(* rescale: everyone's part, yours first and the others in an order every  *)
(* device has.                                                             *)
PlaceOf(who) == IF who.type = "person" THEN <<0, SyncIdOf[who.id]>> ELSE <<1, who.id>>
(* Mutant of InSharedOrder: the order the rows were stored in.             *)
InStoredOrder(parts) == parts
InSharedOrder(parts) ==
  SortSeq(parts, LAMBDA a, b : LET p == PlaceOf(a.who) q == PlaceOf(b.who)
                               IN p[1] < q[1] \/ (p[1] = q[1] /\ p[2] < q[2]))
Rescale(parts, old, new) ==
  LET order == InSharedOrder(parts)
      weights == <<old - OthersOf(parts)>> \o Amounts(order)
  IN PartsFrom([i \in DOMAIN order |-> order[i].who], Allocate(new, weights))

-----------------------------------------------------------------------------
(* The template of a recurring item: [mine, who, weights], or NoTemplate.  *)
NoTemplate == [mine |-> None, who |-> <<>>, weights |-> <<>>]

(* set_template: the weights of a split that adds up, the ones above 0.    *)
TemplateOf(input, whole) ==
  LET w == WeightsOf(input, whole)
      kept == SelectSeq([i \in DOMAIN input.who |-> [who |-> input.who[i], weight |-> w[i + 1]]], LAMBDA p : p.weight > 0)
  IN [mine |-> w[1], who |-> [i \in DOMAIN kept |-> kept[i].who], weights |-> [i \in DOMAIN kept |-> kept[i].weight]]

(* apply_template: the parts of a payment under a template.                *)
TemplateWeights(t) == <<t.mine>> \o t.weights
AppliedTo(t, amount) == PartsFrom(t.who, Allocate(amount, TemplateWeights(t)))

(* my_part: what a payment costs you under a template.                     *)
MyPart(t, amount) == Allocate(amount, TemplateWeights(t))[1]
=============================================================================
