-------------------------- MODULE RecurringProofs --------------------------
(***************************************************************************)
(* Proofs about Recurring, for any calendar and any schedules.             *)
(***************************************************************************)
EXTENDS Recurring, TLAPS

\* The row of the item, its payments, and the skips that lie ahead: inductive as
\* they stand together.
ItemInv == TypeOK /\ SkipsAhead

\* The first of some dates is one of them, and none is before it.
LEMMA FirstIsFirst ==
  ASSUME NEW dates, NEW d \in First(dates)
  PROVE  d \in dates /\ \A e \in dates : d <= e
BY DEF First

\* `advance` lands on a later occurrence and keeps the skips after it.
LEMMA AdvancedFits ==
  ASSUME ItemInv, Exists, NEW new \in Advanced
  PROVE  /\ new \in Item
         /\ new.schedule = item.schedule /\ new.end = item.end
         /\ new.next \in item.schedule /\ new.next > item.next
         /\ new.skipped = {d \in item.skipped : d > new.next}
         /\ new.active = (new.next <= item.end)
         /\ ~Passed(new.next)
         /\ \A o \in item.schedule : o > item.next /\ o < new.next => Passed(o)
<1>1. PICK o \in First({p \in item.schedule : p > item.next /\ ~Passed(p)}) :
        new = [item EXCEPT !.next = o, !.active = (o <= item.end), !.skipped = {d \in @ : d > o}]
  BY DEF Advanced
<1>2. /\ o \in item.schedule /\ o > item.next /\ ~Passed(o)
      /\ \A p \in item.schedule : p > item.next /\ ~Passed(p) => o <= p
  BY <1>1, FirstIsFirst
<1>3. item \in Item
  BY DEF ItemInv, TypeOK
<1>4. o \in Dates /\ item.schedule \subseteq Dates
  BY <1>2, <1>3 DEF Item
<1>5. /\ new.schedule = item.schedule /\ new.end = item.end /\ new.next = o
      /\ new.skipped = {d \in item.skipped : d > o}
  BY <1>1, <1>3 DEF Item
<1>7. new.active = (o <= item.end)
  BY <1>1, <1>3, Zenon DEF Item
<1>8. new \in Item
  <2>1. {d \in item.skipped : d > o} \in SUBSET Dates
    BY <1>3 DEF Item
  <2>2. (o <= item.end) \in BOOLEAN
    BY <1>3, <1>4 DEF Item
  <2> QED
    BY <1>1, <1>3, <1>4, <2>1, <2>2, Zenon DEF Item
<1>6. ASSUME NEW p \in item.schedule, p > item.next, p < o
      PROVE  Passed(p)
  BY <1>2, <1>4, <1>6, LastDateAssumption DEF Dates
<1> QED
  BY <1>2, <1>5, <1>6, <1>7, <1>8

LEMMA InitItem == Init => ItemInv
BY SchedulesAssumption, LastDateAssumption
   DEF Init, ItemInv, TypeOK, SkipsAhead, Exists, NoItem, Item, Dates, NoEnd

LEMMA StepItem == ItemInv /\ [Next]_vars => ItemInv'
<1> SUFFICES ASSUME ItemInv, [Next]_vars PROVE ItemInv'
  OBVIOUS
<1> USE LastDateAssumption
<1>0. item \in Item /\ paid \in SUBSET Dates
  BY DEF ItemInv, TypeOK
<1>1. CASE Create
  <2>0. PICK schedule \in Schedules, end \in 0..NoEnd :
          /\ EndFits(schedule, end)
          /\ \E start \in First(schedule) :
               item' = [schedule |-> schedule, next |-> start, end |-> end, active |-> TRUE, skipped |-> {}]
    BY <1>1 DEF Create
  <2>1. PICK start \in First(schedule) :
          item' = [schedule |-> schedule, next |-> start, end |-> end, active |-> TRUE, skipped |-> {}]
    BY <2>0
  <2>2. schedule \in SUBSET Dates /\ schedule # {} /\ start \in schedule
    BY <2>1, FirstIsFirst, SchedulesAssumption DEF Dates
  <2>3. item' \in Item
    BY <2>1, <2>2 DEF Item
  <2> QED
    BY <1>0, <1>1, <2>0, <2>1, <2>2, <2>3 DEF Create, ItemInv, TypeOK, SkipsAhead, Exists
<1>2. CASE Update
  <2>1. PICK schedule \in Schedules, end \in 0..NoEnd, changed \in BOOLEAN :
          /\ schedule # item.schedule => changed
          /\ EndFits(schedule, end)
          /\ item' \in Updated(schedule, changed, end)
    BY <1>2 DEF Update
  <2>2. schedule \in SUBSET Dates /\ schedule # {}
    BY SchedulesAssumption DEF Dates
  <2>3. Exists /\ SkipsAhead /\ paid' = paid
    BY <1>2 DEF Update, ItemInv
  <2>4. PICK o \in IF changed THEN FirstOnOrAfter(schedule, item.next) ELSE {item.next} :
          item' = [item EXCEPT !.schedule = schedule, !.end = end, !.next = o,
                               !.skipped = IF changed THEN {} ELSE @]
    BY <2>1 DEF Updated
  <2>5. o \in schedule
    <3>1. CASE changed
      BY <2>4, <3>1, FirstIsFirst DEF FirstOnOrAfter
    <3>2. CASE ~changed
      BY <2>1, <2>3, <2>4, <3>2 DEF SkipsAhead
    <3> QED BY <3>1, <3>2
  <2>6. item' \in Item
    BY <1>0, <2>2, <2>4, <2>5 DEF Item
  <2>7. /\ item'.schedule = schedule /\ item'.end = end /\ item'.next = o
        /\ item'.skipped = IF changed THEN {} ELSE item.skipped
    BY <1>0, <2>4 DEF Item
  <2>8. TypeOK'
    BY <1>0, <2>1, <2>2, <2>3, <2>6, <2>7 DEF TypeOK, Exists
  <2>9. SkipsAhead'
    <3>1. CASE changed
      BY <2>5, <2>7, <3>1 DEF SkipsAhead, Exists
    <3>2. CASE ~changed
      BY <2>1, <2>3, <2>4, <2>5, <2>7, <3>2 DEF SkipsAhead, Exists
    <3> QED BY <3>1, <3>2
  <2> QED BY <2>8, <2>9 DEF ItemInv
<1>3. CASE Delete
  <2>1. item' = NoItem /\ paid' = {}
    BY <1>3 DEF Delete
  <2> QED
    BY <2>1 DEF ItemInv, TypeOK, SkipsAhead, Exists, NoItem, Item, Dates, NoEnd
<1>4. CASE PayNext \/ SkipNext
  <2>1. Exists
    BY <1>4 DEF PayNext, SkipNext, ItemInv, TypeOK, NoItem
  <2>2. /\ item' \in Advanced
        /\ paid' = paid \/ paid' = paid \cup {item.next}
    BY <1>4 DEF PayNext, SkipNext
  <2>3. /\ item' \in Item
        /\ item'.schedule = item.schedule /\ item'.end = item.end
        /\ item'.next \in item.schedule /\ item'.next > item.next
        /\ item'.skipped = {d \in item.skipped : d > item'.next}
    BY <2>1, <2>2, AdvancedFits
  <2>4. item.next \in Dates /\ paid' \in SUBSET Dates
    BY <1>0, <2>2 DEF Item
  <2>5. TypeOK'
    BY <2>1, <2>3, <2>4 DEF ItemInv, TypeOK, Exists
  <2>6. SkipsAhead'
    <3>1. ASSUME NEW o \in item'.skipped
          PROVE  o \in item'.schedule /\ o > item'.next /\ o \notin paid'
      <4>1. o \in item.skipped /\ o > item'.next
        BY <2>3, <3>1
      <4>2. o \in item.schedule /\ o > item.next /\ o \notin paid
        BY <2>1, <4>1 DEF ItemInv, SkipsAhead
      <4>3. o # item.next
        BY <2>4, <4>2 DEF Dates
      <4> QED BY <2>2, <2>3, <4>1, <4>2, <4>3
    <3> QED BY <2>3, <3>1 DEF SkipsAhead
  <2> QED BY <2>5, <2>6 DEF ItemInv
<1>5. ASSUME NEW o \in Dates, PayLater(o)
      PROVE  ItemInv'
  BY <1>0, <1>5 DEF PayLater, LaterOccurrence, ItemInv, TypeOK, SkipsAhead, Exists, NoItem
<1>6. ASSUME NEW o \in Dates, SkipLater(o)
      PROVE  ItemInv'
  <2>1. Exists
    BY <1>6 DEF SkipLater, ItemInv, TypeOK, NoItem
  <2>2. /\ item' = [item EXCEPT !.skipped = @ \cup {o}] /\ paid' = paid
        /\ o \in item.schedule /\ o > item.next /\ o \notin paid
    BY <1>6 DEF SkipLater, LaterOccurrence
  <2>3. /\ item' \in Item /\ item'.schedule = item.schedule /\ item'.end = item.end
        /\ item'.next = item.next /\ item'.skipped = item.skipped \cup {o}
    BY <1>0, <2>2 DEF Item
  <2> QED
    BY <2>1, <2>2, <2>3 DEF ItemInv, TypeOK, SkipsAhead, Exists
<1>7. ASSUME NEW o \in Dates, DeletePayment(o)
      PROVE  ItemInv'
  BY <1>7 DEF DeletePayment, ItemInv, TypeOK, SkipsAhead, Exists
<1>8. ASSUME NEW today \in Dates, End(today)
      PROVE  ItemInv'
  <2>1. PICK start \in First(item.schedule) :
          item' = [item EXCEPT !.active = FALSE,
                     !.end = IF (IF today > start THEN today ELSE start) < @
                             THEN (IF today > start THEN today ELSE start) ELSE @]
    BY <1>8 DEF End
  <2>2. /\ Exists /\ paid' = paid
        /\ start \in item.schedule /\ start \in Dates /\ item.end \in 0..NoEnd
    BY <1>0, <1>8, <2>1, FirstIsFirst DEF End, Item
  <2>. DEFINE asked == IF today > start THEN today ELSE start
              newEnd == IF asked < item.end THEN asked ELSE item.end
  <2>6. asked \in 0..NoEnd /\ newEnd \in 0..NoEnd
    BY <2>2 DEF Dates, NoEnd
  <2>7. item' = [item EXCEPT !.active = FALSE, !.end = newEnd]
    BY <1>0, <2>1 DEF Item
  <2>3. /\ item' \in Item /\ item'.schedule = item.schedule
        /\ item'.next = item.next /\ item'.skipped = item.skipped
        /\ item'.end = newEnd
    <3> HIDE DEF newEnd
    <3> QED BY <1>0, <2>6, <2>7 DEF Item
  <2>4. start <= item'.end
    BY <2>1, <2>2, <2>3 DEF ItemInv, TypeOK, EndFits, Dates, NoEnd
  <2>5. EndFits(item.schedule, item'.end)
    <3>1. ASSUME NEW s \in First(item.schedule)
          PROVE  s <= item'.end
      <4>1. s \in Dates /\ s <= start
        BY <1>0, <2>2, FirstIsFirst DEF Item
      <4> QED BY <2>2, <2>3, <2>4, <4>1 DEF Item, Dates, NoEnd
    <3> QED BY <3>1 DEF EndFits
  <2> QED
    BY <1>0, <2>2, <2>3, <2>5 DEF ItemInv, TypeOK, SkipsAhead, Exists
<1>9. ASSUME NEW active \in BOOLEAN, SetActive(active)
      PROVE  ItemInv'
  <2>1. /\ item' \in Item /\ item'.schedule = item.schedule /\ item'.end = item.end
        /\ item'.next = item.next /\ item'.skipped = item.skipped
    BY <1>0, <1>9 DEF SetActive, Item
  <2> QED
    BY <1>9, <2>1 DEF SetActive, ItemInv, TypeOK, SkipsAhead, Exists
<1>10. CASE UNCHANGED vars
  BY <1>10 DEF vars, ItemInv, TypeOK, SkipsAhead, Exists
<1> QED
  BY <1>1, <1>2, <1>3, <1>4, <1>5, <1>6, <1>7, <1>8, <1>9, <1>10 DEF Next

\* The row and its payments have their types in every reachable state, and no item
\* ends before it starts.
THEOREM ItemTypeCorrect == Spec => []TypeOK
<1>1. ItemInv => TypeOK
  BY DEF ItemInv
<1> QED
  BY <1>1, InitItem, StepItem, PTL DEF Spec

\* The skipped dates are always occurrences ahead that have no payment.
THEOREM SkipsAheadTheorem == Spec => []SkipsAhead
<1>1. ItemInv => SkipsAhead
  BY DEF ItemInv
<1> QED
  BY <1>1, InitItem, StepItem, PTL DEF Spec

\* What is listed as due and what can be paid or skipped are the same occurrences.
THEOREM DueCanBeSettledTheorem == Spec => []DueCanBeSettled
<1>1. ItemInv => DueCanBeSettled
  <2> SUFFICES ASSUME ItemInv, NEW today \in 0..NoEnd
               PROVE  Due(today) = {o \in Dates :
                        /\ item.active /\ o < today
                        /\ LaterOccurrence(o) \/ (o = item.next /\ o <= item.end /\ o \notin paid)}
    BY DEF DueCanBeSettled
  <2>1. CASE ~Exists
    BY <2>1 DEF ItemInv, TypeOK, NoItem, Due
  <2>2. CASE Exists
    <3>1. /\ item.schedule \subseteq Dates /\ item.next \in item.schedule
          /\ item.next \notin item.skipped
      BY <2>2, LastDateAssumption DEF ItemInv, TypeOK, SkipsAhead, Item, Dates
    <3> QED
      BY <3>1, LastDateAssumption DEF Due, Ahead, LaterOccurrence, Dates, NoEnd
  <2> QED BY <2>1, <2>2
<1> QED
  BY <1>1, InitItem, StepItem, PTL DEF Spec

\* What a step has to show: it settles one occurrence at most, and reopens only
\* those of deleted payments.
SettlesOne ==
  /\ \A o, p \in Open \ Open' : o = p
  /\ \A o \in Open' \ Open : o \in paid /\ o \notin paid'

LEMMA SameItem ==
  ASSUME item'.schedule = item.schedule, item'.next = item.next, item'.end = item.end,
         item'.skipped = item.skipped, paid' = paid
  PROVE  SettlesOne
BY DEF SettlesOne, Open, Ahead

\* Moving on settles the occurrence the item was on, and passes over none.
LEMMA MovingOnSettlesOne ==
  ASSUME ItemInv, Exists, item' \in Advanced,
         paid' = paid \/ paid' = paid \cup {item.next}
  PROVE  SettlesOne
<1>1. /\ item'.schedule = item.schedule /\ item'.end = item.end
      /\ item'.next \in item.schedule /\ item'.next > item.next
      /\ item'.skipped = {d \in item.skipped : d > item'.next}
      /\ ~Passed(item'.next)
      /\ \A o \in item.schedule : o > item.next /\ o < item'.next => Passed(o)
  BY AdvancedFits
<1>2. item.schedule \subseteq Nat /\ item.next \in item.schedule
  BY LastDateAssumption DEF ItemInv, TypeOK, SkipsAhead, Item, Dates
<1>3. ASSUME NEW o \in Open, o # item.next
      PROVE  o \in Open'
  <2>1. o \in item.schedule /\ o > item.next /\ o <= item.end /\ o \notin paid \cup item.skipped
    BY <1>3 DEF Open, Ahead
  <2>2. ~Passed(o)
    BY <2>1 DEF Passed
  <2>3. o >= item'.next
    BY <1>1, <1>2, <2>1, <2>2
  <2> QED
    BY <1>1, <1>2, <1>3, <2>1, <2>3 DEF Open, Ahead
<1>4. ASSUME NEW o \in Open'
      PROVE  o \in Open
  <2>1. /\ o \in item.schedule /\ o >= item'.next /\ o <= item.end
        /\ o \notin paid /\ o \notin item'.skipped
    BY <1>1, <1>2, <1>4 DEF Open, Ahead
  <2>2. o \notin item.skipped
    BY <1>1, <1>2, <2>1 DEF Passed
  <2> QED
    BY <1>1, <1>2, <2>1, <2>2 DEF Open, Ahead
<1> QED
  BY <1>3, <1>4 DEF SettlesOne

LEMMA StepSettlesOne ==
  ASSUME ItemInv, Exists, ~Rescheduled, [Next]_vars
  PROVE  SettlesOne
<1>0. item \in Item /\ item.next \in item.schedule /\ item.schedule \subseteq Nat
  BY LastDateAssumption DEF ItemInv, TypeOK, SkipsAhead, Item, Dates
<1>1. CASE Create
  BY <1>1 DEF Create
<1>2. CASE Update
  <2>1. PICK schedule \in Schedules, end \in 0..NoEnd, changed \in BOOLEAN :
          /\ schedule # item.schedule => changed
          /\ item' \in Updated(schedule, changed, end)
    BY <1>2 DEF Update
  <2>2. PICK o \in IF changed THEN FirstOnOrAfter(schedule, item.next) ELSE {item.next} :
          item' = [item EXCEPT !.schedule = schedule, !.end = end, !.next = o,
                               !.skipped = IF changed THEN {} ELSE @]
    BY <2>1 DEF Updated
  <2>3. /\ item'.schedule = schedule /\ item'.end = end /\ item'.next = o
        /\ item'.skipped = IF changed THEN {} ELSE item.skipped
    BY <1>0, <2>2 DEF Item
  <2>4. schedule = item.schedule /\ end = item.end
    BY <2>3 DEF Rescheduled
  <2>5. o = item.next
    <3>1. CASE changed
      <4>1. o \in FirstOnOrAfter(item.schedule, item.next)
        BY <2>2, <2>4, <3>1
      <4>2. o \in item.schedule /\ o >= item.next /\ o <= item.next
        BY <1>0, <4>1, FirstIsFirst DEF FirstOnOrAfter
      <4> QED BY <1>0, <4>2
    <3>2. CASE ~changed
      BY <2>2, <3>2
    <3> QED BY <3>1, <3>2
  <2>6. item'.skipped = item.skipped
    BY <2>3, <2>5 DEF Rescheduled
  <2> QED
    BY <1>2, <2>3, <2>4, <2>5, <2>6, SameItem DEF Update
<1>3. CASE Delete
  BY <1>3 DEF Delete, NoItem, Exists, Rescheduled
<1>4. CASE PayNext \/ SkipNext
  BY <1>4, MovingOnSettlesOne DEF PayNext, SkipNext
<1>5. ASSUME NEW o \in Dates, PayLater(o)
      PROVE  SettlesOne
  BY <1>5 DEF PayLater, SettlesOne, Open, Ahead
<1>6. ASSUME NEW o \in Dates, SkipLater(o)
      PROVE  SettlesOne
  <2>1. /\ item'.schedule = item.schedule /\ item'.end = item.end
        /\ item'.next = item.next /\ item'.skipped = item.skipped \cup {o}
        /\ paid' = paid
    BY <1>0, <1>6 DEF SkipLater, Item
  <2> QED
    BY <2>1 DEF SettlesOne, Open, Ahead
<1>7. ASSUME NEW o \in Dates, DeletePayment(o)
      PROVE  SettlesOne
  BY <1>7 DEF DeletePayment, SettlesOne, Open, Ahead
<1>8. ASSUME NEW today \in Dates, End(today)
      PROVE  SettlesOne
  <2>1. /\ item'.schedule = item.schedule /\ item'.next = item.next
        /\ item'.skipped = item.skipped /\ paid' = paid
    BY <1>0, <1>8 DEF End, Item
  <2>2. item'.end = item.end
    BY DEF Rescheduled
  <2> QED
    BY <2>1, <2>2, SameItem
<1>9. ASSUME NEW active \in BOOLEAN, SetActive(active)
      PROVE  SettlesOne
  <2>1. /\ item'.schedule = item.schedule /\ item'.next = item.next /\ item'.end = item.end
        /\ item'.skipped = item.skipped /\ paid' = paid
    BY <1>0, <1>9 DEF SetActive, Item
  <2> QED
    BY <2>1, SameItem
<1>10. CASE UNCHANGED vars
  BY <1>10, SameItem DEF vars
<1> QED
  BY <1>1, <1>2, <1>3, <1>4, <1>5, <1>6, <1>7, <1>8, <1>9, <1>10 DEF Next

\* While schedule and end stay, no step passes over an open occurrence or lets one
\* that was settled come due again.
THEOREM OneAtATimeTheorem == Spec => OneAtATime
<1>1. ItemInv /\ [Next]_vars => [Exists /\ ~Rescheduled =>
        /\ \A o, p \in Open \ Open' : o = p
        /\ \A o \in Open' \ Open : o \in paid /\ o \notin paid']_vars
  BY StepSettlesOne DEF SettlesOne
<1> QED
  BY <1>1, InitItem, StepItem, PTL DEF Spec, OneAtATime
=============================================================================
