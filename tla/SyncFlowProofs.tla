--------------------------- MODULE SyncFlowProofs ---------------------------
(***************************************************************************)
(* Proofs about SyncFlow, for any rows, habits, clocks and bounds, from    *)
(* the invariants of SyncFlowInvariants in their order: the types and what *)
(* each step does, the conversation, the currency, the rows, and what      *)
(* people wrote and decided.                                               *)
(***************************************************************************)
EXTENDS SyncFlowInvariants, FiniteSetTheorems, TLAPS

-----------------------------------------------------------------------------
(***************************************************************************)
(* Types.                                                                  *)
(***************************************************************************)
LEMMA DevicesAre ==
  /\ Desktop \in Devices /\ Phone \in Devices /\ Desktop # Phone
  /\ \A d \in Devices : /\ Other(d) \in Devices /\ Other(d) # d /\ Other(Other(d)) = d
                        /\ Devices = {d, Other(d)}
                        /\ d = Desktop \/ d = Phone
  /\ Other(Desktop) = Phone /\ Other(Phone) = Desktop
BY DEF Devices, Desktop, Phone, Other

\* The stamps of both devices lie between the reserved ones.
LEMMA DeviceIds == \A d \in Devices : d \in 0..LastDevice /\ d # ZeroDevice
BY IdsAssumption, LastDeviceAssumption DEF Devices, Desktop, Phone, ZeroDevice

LEMMA StampsAre ==
  /\ UNSET_STAMP \in Stamp
  /\ \A c \in Clock, d \in Devices :
       /\ StampAt(c, d) \in Stamp /\ StampAt(c, d).device = d /\ StampAt(c, d) # UNSET_STAMP
       /\ StampAt(c, d).ms = c.ms /\ StampAt(c, d).counter = c.counter
BY DeviceIds, MaxCounterAssumption, LastDeviceAssumption DEF UNSET_STAMP, Stamp, Clock, StampAt, ZeroDevice

LEMMA TickIs ==
  ASSUME NEW c \in Clock, NEW t \in Nat
  PROVE  Tick(c, t) \in Clock /\ Behind(c, Tick(c, t)) /\ Tick(c, t).ms >= t
BY MaxCounterAssumption DEF Clock, Tick, StepOn, Behind

LEMMA RowsAre ==
  /\ Absent \in Row /\ NoRows \in Tables /\ <<>> \in Lists
  /\ \A i \in Items : NoRows[i] = Absent /\ ~Holds(NoRows, i)
<1>1. 0 \in 0..MaxVersion /\ MaxVersion \in Nat
  BY BoundsAssumption
<1>2. Absent \in Row /\ Absent.version = 0
  BY <1>1, StampsAre DEF Absent, Row
<1>3. <<>> \in Lists
  <2>1. <<>> \in [{} -> Entry] /\ {} \in SUBSET Items
    OBVIOUS
  <2> QED BY <2>1 DEF Lists
<1> QED BY <1>2, <1>3 DEF NoRows, Tables, Holds

LEMMA NoHelloIs == NoHello \in Hellos
BY DEF NoHello, Hellos, Modes

LEMMA RestingIs ==
  /\ Resting \in Runs /\ Resting.at = "rest" /\ Resting.mode = "both" /\ ~Resting.reviewed /\ ~Resting.differs
  /\ Resting.list = <<>> /\ Resting.out = NoRows /\ Resting.got = NoRows /\ Resting.asked = {}
<1>1. {} \in SUBSET Items /\ "rest" \in Steps /\ "both" \in Modes
  BY DEF Steps, Modes
<1> QED BY <1>1, NoHelloIs, RowsAre DEF Resting, Runs

LEMMA ListIs ==
  ASSUME NEW table \in Tables
  PROVE  /\ List(table) \in Lists
         /\ DOMAIN List(table) = {i \in Items : Holds(table, i)}
         /\ \A i \in Items : Holds(table, i) =>
              List(table)[i].stamp = table[i].stamp /\ List(table)[i].deleted = table[i].deleted
<1> DEFINE held == {j \in Items : Holds(table, j)}
<1>1. \A i \in held : [stamp |-> table[i].stamp, deleted |-> table[i].deleted] \in Entry
  BY DEF Tables, Row, Entry
<1>2. List(table) \in [held -> Entry] /\ held \in SUBSET Items
  BY <1>1 DEF List
<1>3. List(table) \in Lists
  BY <1>2 DEF Lists
<1> QED BY <1>2, <1>3 DEF List

LEMMA OnlyIs ==
  ASSUME NEW table \in Tables, NEW items
  PROVE  /\ Only(table, items) \in Tables
         /\ \A i \in Items : /\ i \in items => Only(table, items)[i] = table[i]
                             /\ i \notin items => Only(table, items)[i] = Absent
BY RowsAre DEF Only, Tables

-----------------------------------------------------------------------------
(***************************************************************************)
(* What lies on a wire.                                                    *)
(***************************************************************************)

LEMMA NoneIs ==
  <<>> \in Seq(Messages) /\ Len(<<>>) = 0
OBVIOUS

LEMMA EmptyIs ==
  ASSUME NEW w \in Seq(Messages)
  PROVE  /\ w = <<>> => Len(w) = 0
         /\ Len(w) = 0 => w = <<>>
         /\ w \o <<>> = w /\ DOMAIN w = 1..Len(w) /\ Len(w) \in Nat
OBVIOUS

LEMMA TailIs ==
  ASSUME NEW w \in Seq(Messages), w # <<>>
  PROVE  /\ Tail(w) \in Seq(Messages) /\ Len(w) \in Nat \ {0} /\ Len(Tail(w)) = Len(w) - 1 /\ w[1] = Head(w)
         /\ \A n \in 1..Len(w) - 1 : Tail(w)[n] = w[n + 1]
         /\ w[1] \in Messages
OBVIOUS

LEMMA OneGoes ==
  ASSUME NEW w \in Seq(Messages), NEW a
  PROVE  One(w, a) => w # <<>> /\ Head(w) = w[1] /\ Tail(w) = <<>>
<1> SUFFICES ASSUME One(w, a)
             PROVE  w # <<>> /\ Head(w) = w[1] /\ Tail(w) = <<>>
  OBVIOUS
<1>1. w # <<>> /\ Len(w) = 1
  BY EmptyIs DEF One
<1>2. Tail(w) \in Seq(Messages) /\ Len(Tail(w)) = 0
  BY <1>1, TailIs
<1> QED BY <1>1, <1>2, TailIs, EmptyIs

LEMMA TwoGo ==
  ASSUME NEW w \in Seq(Messages), NEW a, NEW b
  PROVE  Two(w, a, b) => w # <<>> /\ Head(w) = w[1] /\ One(Tail(w), b) /\ Tail(w)[1] = w[2]
<1> SUFFICES ASSUME Two(w, a, b)
             PROVE  w # <<>> /\ Head(w) = w[1] /\ One(Tail(w), b) /\ Tail(w)[1] = w[2]
  OBVIOUS
<1>1. w # <<>> /\ Len(w) = 2
  BY EmptyIs DEF Two
<1>2. Len(Tail(w)) = 1 /\ Tail(w)[1] = w[2]
  BY <1>1, TailIs
<1> QED BY <1>1, <1>2, TailIs DEF One, Two

LEMMA ThreeGo ==
  ASSUME NEW w \in Seq(Messages), NEW a, NEW b, NEW c
  PROVE  Three(w, a, b, c) =>
           w # <<>> /\ Head(w) = w[1] /\ Two(Tail(w), b, c) /\ Tail(w)[1] = w[2] /\ Tail(w)[2] = w[3]
<1> SUFFICES ASSUME Three(w, a, b, c)
             PROVE  w # <<>> /\ Head(w) = w[1] /\ Two(Tail(w), b, c) /\ Tail(w)[1] = w[2] /\ Tail(w)[2] = w[3]
  OBVIOUS
<1>0. Len(w) = 3 /\ w[2].kind = b /\ w[3].kind = c
  BY DEF Three
<1>1. w # <<>>
  <2>1. Len(w) # 0
    BY <1>0
  <2> QED BY <2>1, EmptyIs
<1> DEFINE v == Tail(w)
<1>2. Len(v) = Len(w) - 1 /\ w[1] = Head(w) /\ \A n \in 1..Len(w) - 1 : v[n] = w[n + 1]
  BY <1>1, TailIs
<1> HIDE DEF v
<1>3. Len(v) = 2 /\ v[1] = w[2] /\ v[2] = w[3]
  BY <1>0, <1>2
<1>4. Two(v, b, c)
  BY <1>0, <1>3 DEF Two
<1> QED BY <1>1, <1>2, <1>3, <1>4 DEF v

\* A message added at the end.
LEMMA AddedIs ==
  ASSUME NEW w \in Seq(Messages), NEW k, NEW b, [kind |-> k, body |-> b] \in Messages
  PROVE  LET v == w \o Message(k, b) IN
         /\ Message(k, b) \in Seq(Messages) /\ v \in Seq(Messages) /\ v # <<>>
         /\ Len(v) = Len(w) + 1 /\ v[Len(w) + 1].kind = k /\ v[Len(w) + 1].body = b
         /\ \A n \in 1..Len(w) : v[n] = w[n]
<1> DEFINE m == [kind |-> k, body |-> b]
<1>1. m.kind = k /\ m.body = b /\ m \in Messages /\ Message(k, b) = <<m>>
  BY DEF Message
<1> HIDE DEF m
<1>2. /\ w \o <<m>> \in Seq(Messages) /\ Len(w \o <<m>>) = Len(w) + 1 /\ <<m>> \in Seq(Messages)
      /\ (w \o <<m>>)[Len(w) + 1] = m /\ \A n \in 1..Len(w) : (w \o <<m>>)[n] = w[n]
  BY <1>1
<1>3. Len(w) \in Nat /\ Len(w) + 1 # 0
  BY EmptyIs
<1> QED BY <1>1, <1>2, <1>3, EmptyIs

LEMMA NowOne ==
  ASSUME NEW w \in Seq(Messages), NEW k, NEW b, [kind |-> k, body |-> b] \in Messages
  PROVE  w = <<>> => One(w \o Message(k, b), k) /\ (w \o Message(k, b))[1].body = b
<1> DEFINE v == w \o Message(k, b)
<1>1. /\ Len(v) = Len(w) + 1 /\ v[Len(w) + 1].kind = k /\ v[Len(w) + 1].body = b
  BY AddedIs
<1>2. w = <<>> => Len(w) = 0
  BY EmptyIs
<1> HIDE DEF v
<1>3. w = <<>> => Len(v) = 1 /\ v[1].kind = k /\ v[1].body = b
  BY <1>1, <1>2
<1> QED BY <1>3 DEF One, v

-----------------------------------------------------------------------------
(***************************************************************************)
(* What a step of one device does.                                         *)
(***************************************************************************)
LEMMA SidesAre ==
  ASSUME TypeInv, NEW d \in Devices
  PROVE  /\ wire[d] \in Seq(Messages) /\ run[d] \in Runs /\ rows[d] \in Tables /\ clock[d] \in Clock
         /\ changes[d] \in Seq(Stamp) /\ last[d] \in SUBSET Nat /\ Wall(d) \in Nat
         /\ Len(changes[d]) \in Nat
BY BoundsAssumption DEF TypeInv, Wall

LEMMA TalkIs ==
  ASSUME TypeInv, NEW d \in Devices, NEW took \in BOOLEAN, took => wire[d] # <<>>,
         NEW sent \in Seq(Messages), Talk(d, took, sent)
  PROVE  /\ wire' \in [Devices -> Seq(Messages)]
         /\ took => wire'[d] = Tail(wire[d])
         /\ ~took => wire'[d] = wire[d]
         /\ At(Other(d), "rest") => wire'[Other(d)] = wire[Other(d)]
         /\ ~At(Other(d), "rest") => wire'[Other(d)] = wire[Other(d)] \o sent
         /\ sent = <<>> => wire'[Other(d)] = wire[Other(d)]
<1>1. /\ wire[d] \in Seq(Messages) /\ wire[Other(d)] \in Seq(Messages)
      /\ wire[Other(d)] \o sent \in Seq(Messages) /\ wire[Other(d)] \o <<>> = wire[Other(d)]
      /\ took => Tail(wire[d]) \in Seq(Messages)
  BY DevicesAre, SidesAre, TailIs, EmptyIs
<1> DEFINE mine == IF took THEN Tail(wire[d]) ELSE wire[d]
           theirs == IF At(Other(d), "rest") THEN wire[Other(d)] ELSE wire[Other(d)] \o sent
<1>2. mine \in Seq(Messages) /\ theirs \in Seq(Messages)
  BY <1>1
<1>3. wire' = [wire EXCEPT ![d] = mine, ![Other(d)] = theirs]
  BY DEF Talk
<1>4. /\ took => mine = Tail(wire[d])
      /\ ~took => mine = wire[d]
      /\ At(Other(d), "rest") => theirs = wire[Other(d)]
      /\ ~At(Other(d), "rest") => theirs = wire[Other(d)] \o sent
      /\ sent = <<>> => theirs = wire[Other(d)]
  BY <1>1
<1> HIDE DEF mine, theirs
<1>5. wire' \in [Devices -> Seq(Messages)] /\ wire'[d] = mine /\ wire'[Other(d)] = theirs
  BY <1>2, <1>3, DevicesAre DEF TypeInv
<1> QED BY <1>4, <1>5

LEMMA EndsIs ==
  ASSUME TypeInv, NEW d \in Devices, NEW took, NEW sent \in Seq(Messages), Ends(d, took, sent)
  PROVE  /\ run' \in [Devices -> Runs] /\ run'[d] = Resting /\ run'[Other(d)] = run[Other(d)]
         /\ wire' \in [Devices -> Seq(Messages)] /\ wire'[d] = <<>>
         /\ At(Other(d), "rest") => wire'[Other(d)] = wire[Other(d)]
         /\ ~At(Other(d), "rest") => wire'[Other(d)] = wire[Other(d)] \o sent
         /\ sent = <<>> => wire'[Other(d)] = wire[Other(d)]
<1>1. /\ wire[d] \in Seq(Messages) /\ wire[Other(d)] \in Seq(Messages)
      /\ wire[Other(d)] \o sent \in Seq(Messages) /\ wire[Other(d)] \o <<>> = wire[Other(d)]
  BY DevicesAre, SidesAre, EmptyIs
<1> DEFINE theirs == IF At(Other(d), "rest") THEN wire[Other(d)] ELSE wire[Other(d)] \o sent
           none == <<>>
<1>2. theirs \in Seq(Messages) /\ none \in Seq(Messages)
  BY <1>1, NoneIs
<1>3. wire' = [wire EXCEPT ![d] = none, ![Other(d)] = theirs] /\ run' = [run EXCEPT ![d] = Resting]
  BY DEF Ends
<1>4. /\ At(Other(d), "rest") => theirs = wire[Other(d)]
      /\ ~At(Other(d), "rest") => theirs = wire[Other(d)] \o sent
      /\ sent = <<>> => theirs = wire[Other(d)]
  BY <1>1
<1> HIDE DEF theirs, none
<1>5. wire' \in [Devices -> Seq(Messages)] /\ wire'[d] = none /\ wire'[Other(d)] = theirs
  BY <1>2, <1>3, DevicesAre DEF TypeInv
<1>6. run' \in [Devices -> Runs] /\ run'[d] = Resting /\ run'[Other(d)] = run[Other(d)]
  BY <1>3, RestingIs, DevicesAre DEF TypeInv
<1> QED BY <1>4, <1>5, <1>6 DEF none

LEMMA RunsAre ==
  ASSUME TypeInv, NEW d \in Devices, NEW noted \in Runs, run' = [run EXCEPT ![d] = noted]
  PROVE  run' \in [Devices -> Runs] /\ run'[d] = noted /\ run'[Other(d)] = run[Other(d)]
BY DevicesAre DEF TypeInv

LEMMA ArrivedIs ==
  ASSUME TypeInv, NEW d \in Devices, Arrived(d)
  PROVE  /\ wire[d] # <<>> /\ Arriving(d) = wire[d][1].body
         /\ wire[d][1] = Head(wire[d]) /\ wire[d][1] \in Messages
         /\ At(d, "hello") => wire[d][1].kind = "hello" /\ Arriving(d) \in Hellos
         /\ At(d, "learn") => wire[d][1].kind = "currency" /\ Arriving(d) \in Seq(Stamp)
         /\ At(d, "hashes") => wire[d][1].kind = "hashes" /\ Arriving(d) \in Lists
         /\ At(d, "lists") => wire[d][1].kind = "list" /\ Arriving(d) \in Lists
         /\ At(d, "versions") => wire[d][1].kind = "rows" /\ Arriving(d) \in Tables
         /\ At(d, "reviewed") => wire[d][1].kind = "reviewed"
         /\ At(d, "rows") => wire[d][1].kind = "rows" /\ Arriving(d) \in Tables
         /\ At(d, "done") => wire[d][1].kind = "done" /\ Arriving(d) \in Lists
<1>1. wire[d] \in Seq(Messages) /\ wire[d] # <<>> /\ Head(wire[d]).kind = WaitsFor[run[d].at]
  BY SidesAre DEF Arrived
<1>2. wire[d][1] = Head(wire[d]) /\ wire[d][1] \in Messages
  BY <1>1, TailIs
<1>3. /\ wire[d][1].kind = "hello" => wire[d][1].body \in Hellos
      /\ wire[d][1].kind = "currency" => wire[d][1].body \in Seq(Stamp)
      /\ wire[d][1].kind \in {"hashes", "list", "done"} => wire[d][1].body \in Lists
      /\ wire[d][1].kind = "rows" => wire[d][1].body \in Tables
  BY <1>2 DEF Messages
<1>4. /\ At(d, "hello") => WaitsFor[run[d].at] = "hello"
      /\ At(d, "learn") => WaitsFor[run[d].at] = "currency"
      /\ At(d, "hashes") => WaitsFor[run[d].at] = "hashes"
      /\ At(d, "lists") => WaitsFor[run[d].at] = "list"
      /\ At(d, "versions") => WaitsFor[run[d].at] = "rows"
      /\ At(d, "reviewed") => WaitsFor[run[d].at] = "reviewed"
      /\ At(d, "rows") => WaitsFor[run[d].at] = "rows"
      /\ At(d, "done") => WaitsFor[run[d].at] = "done"
  BY DEF At, WaitsFor
<1> QED BY <1>1, <1>2, <1>3, <1>4 DEF Arriving

LEMMA WorldKeepsTypes ==
  ASSUME TypeInv, UNCHANGED world, clock' \in [Devices -> Clock], rows' \in [Devices -> Tables],
         changes' \in [Devices -> Seq(Stamp)], run' \in [Devices -> Runs], wire' \in [Devices -> Seq(Messages)]
  PROVE  TypeInv'
BY DEF TypeInv, world

LEMMA HelloIs ==
  ASSUME TypeInv, NEW d \in Devices, NEW mode \in Modes
  PROVE  /\ Hello(d, mode) \in Hellos /\ [kind |-> "hello", body |-> Hello(d, mode)] \in Messages
         /\ Hello(d, mode).changes = Len(changes[d]) /\ Hello(d, mode).mode = mode /\ Hello(d, mode).since = last[d]
<1>1. clock[d].ms \in Nat /\ Len(changes[d]) \in Nat /\ last[d] \in SUBSET Nat
  BY SidesAre DEF Clock
<1>2. Hello(d, mode) \in Hellos
  BY <1>1 DEF Hello, Hellos
<1> QED BY <1>2 DEF Messages, Hello

LEMMA OwnHelloIs ==
  ASSUME TypeInv, NEW d \in Devices
  PROVE  /\ OwnHello(d) \in Hellos /\ Greets(d) \in Seq(Messages)
         /\ [kind |-> "hello", body |-> OwnHello(d)] \in Messages
<1>1. run[d].mode \in Modes /\ run[d].own \in Hellos
  BY SidesAre DEF Runs
<1>2. OwnHello(d) \in Hellos
  BY <1>1, HelloIs DEF OwnHello
<1>3. [kind |-> "hello", body |-> OwnHello(d)] \in Messages
  BY <1>2 DEF Messages
<1>4. Message("hello", OwnHello(d)) \in Seq(Messages)
  BY <1>3, NoneIs, AddedIs
<1> QED BY <1>2, <1>3, <1>4, NoneIs DEF Greets

LEMMA TakeHelloIs ==
  ASSUME TypeInv, NEW d \in Devices, TakeHello(d)
  PROVE  /\ TypeInv' /\ At(d, "hello") /\ Arrived(d) /\ UNCHANGED <<world, clock, rows, changes, against>>
         /\ run'[Other(d)] = run[Other(d)]
         /\ \/ Ends(d, TRUE, Greets(d))
            \/ /\ Talk(d, TRUE, Greets(d)) /\ CurrencyAgrees(d, OwnHello(d), Arriving(d))
               /\ run'[d].at = AfterHello(d, OwnHello(d), Arriving(d))
               /\ run'[d].own = OwnHello(d) /\ run'[d].theirs = Arriving(d)
               /\ d = Desktop => run'[d].mode = run[d].mode
               /\ d = Phone => run'[d].mode = Arriving(d).mode
               /\ KeepsReview(d) /\ KeepsRows(d)
               /\ run'[d].list = run[d].list /\ run'[d].reviewed = run[d].reviewed
               /\ run'[d].differs = run[d].differs
<1>1. wire[d] # <<>> /\ Arriving(d) \in Hellos /\ At(d, "hello") /\ Arrived(d)
  BY ArrivedIs DEF TakeHello
<1>2. OwnHello(d) \in Hellos /\ Greets(d) \in Seq(Messages)
  BY OwnHelloIs
<1>3. CASE ClockFarOff(d, Arriving(d)) \/ ~CurrencyAgrees(d, OwnHello(d), Arriving(d))
  <2>1. Ends(d, TRUE, Greets(d)) /\ UNCHANGED <<world, clock, rows, changes, against>>
    BY <1>3 DEF TakeHello, OwnHello, Greets
  <2>2. run' \in [Devices -> Runs] /\ wire' \in [Devices -> Seq(Messages)] /\ run'[Other(d)] = run[Other(d)]
    BY <1>2, <2>1, EndsIs
  <2>3. TypeInv'
    BY <2>1, <2>2, WorldKeepsTypes DEF TypeInv
  <2> QED BY <1>1, <2>1, <2>2, <2>3
<1>4. CASE ~(ClockFarOff(d, Arriving(d)) \/ ~CurrencyAgrees(d, OwnHello(d), Arriving(d)))
  <2> DEFINE at == AfterHello(d, OwnHello(d), Arriving(d))
             mode == IF d = Phone THEN Arriving(d).mode ELSE run[d].mode
             own == OwnHello(d)
             theirs == Arriving(d)
  <2>1. /\ Talk(d, TRUE, Greets(d)) /\ UNCHANGED <<world, clock, rows, changes, against>>
        /\ run' = [run EXCEPT ![d].at = at, ![d].mode = mode, ![d].own = own, ![d].theirs = theirs]
    BY <1>4 DEF TakeHello, OwnHello, Greets
  <2>2. wire' \in [Devices -> Seq(Messages)]
    BY <1>1, <1>2, <2>1, TalkIs
  <2>3. at \in Steps /\ mode \in Modes /\ own \in Hellos /\ theirs \in Hellos
    BY <1>1, <1>2, SidesAre DEF AfterHello, Steps, Hellos, Runs
  <2> HIDE DEF at, mode, own, theirs
  <2>4. /\ run' \in [Devices -> Runs] /\ run'[Other(d)] = run[Other(d)]
        /\ run'[d].at = at /\ run'[d].mode = mode /\ run'[d].own = own /\ run'[d].theirs = theirs
        /\ KeepsReview(d) /\ KeepsRows(d)
        /\ run'[d].list = run[d].list /\ run'[d].reviewed = run[d].reviewed
        /\ run'[d].differs = run[d].differs
    <3> DEFINE noted == [run[d] EXCEPT !.at = at, !.mode = mode, !.own = own, !.theirs = theirs]
    <3>1. run' = [run EXCEPT ![d] = noted]
      BY <2>1
    <3>2. run[d] \in Runs
      BY SidesAre
    <3>3. /\ noted \in Runs /\ noted.at = at /\ noted.mode = mode /\ noted.own = own /\ noted.theirs = theirs
          /\ noted.asked = run[d].asked /\ noted.shown = run[d].shown /\ noted.seen = run[d].seen
          /\ noted.out = run[d].out /\ noted.got = run[d].got
          /\ noted.list = run[d].list /\ noted.reviewed = run[d].reviewed /\ noted.differs = run[d].differs
      BY <2>3, <3>2 DEF Runs
    <3> HIDE DEF noted
    <3> QED BY <3>1, <3>3, RunsAre DEF KeepsReview, KeepsRows
  <2>5. TypeInv'
    BY <2>1, <2>2, <2>4, WorldKeepsTypes DEF TypeInv
  <2> QED BY <1>1, <1>4, <2>1, <2>4, <2>5, DevicesAre DEF at, mode, own, theirs
<1> QED BY <1>3, <1>4

LEMMA KindsAre ==
  /\ \A b \in Lists, k \in {"hashes", "list", "done"} :
       [kind |-> k, body |-> b] \in Messages /\ Message(k, b) \in Seq(Messages)
  /\ \A b \in Tables : [kind |-> "rows", body |-> b] \in Messages /\ Message("rows", b) \in Seq(Messages)
  /\ [kind |-> "reviewed", body |-> {}] \in Messages /\ Message("reviewed", {}) \in Seq(Messages)
  /\ \A b \in Seq(Stamp) : [kind |-> "currency", body |-> b] \in Messages /\ Message("currency", b) \in Seq(Messages)
<1>1. \A b \in Lists, k \in {"hashes", "list", "done"} : [kind |-> k, body |-> b] \in Messages
  BY DEF Messages
<1>2. \A b \in Tables : [kind |-> "rows", body |-> b] \in Messages
  BY DEF Messages
<1>3. [kind |-> "reviewed", body |-> {}] \in Messages
  BY DEF Messages
<1>4. \A b \in Seq(Stamp) : [kind |-> "currency", body |-> b] \in Messages
  BY DEF Messages
<1>5. \A k, b : [kind |-> k, body |-> b] \in Messages => Message(k, b) \in Seq(Messages)
  BY NoneIs, AddedIs
<1> QED BY <1>1, <1>2, <1>3, <1>4, <1>5

\* A step that only goes on in the conversation.
LEMMA QuietKeepsTypes ==
  ASSUME TypeInv, UNCHANGED <<world, clock, rows, changes, against>>,
         run' \in [Devices -> Runs], wire' \in [Devices -> Seq(Messages)]
  PROVE  TypeInv'
BY WorldKeepsTypes DEF TypeInv

LEMMA MissingIs ==
  ASSUME TypeInv, NEW d \in Devices
  PROVE  /\ Missing(d) \in Seq(Stamp)
         /\ run[d].theirs.changes <= Len(changes[d]) =>
              Len(Missing(d)) = Len(changes[d]) - run[d].theirs.changes
<1>1. changes[d] \in Seq(Stamp) /\ Len(changes[d]) \in Nat /\ run[d].theirs.changes \in Nat
  BY SidesAre DEF Runs, Hellos
<1> QED BY <1>1 DEF Missing

LEMMA Noted ==
  ASSUME TypeInv, NEW d \in Devices, NEW noted \in Runs, run' = [run EXCEPT ![d] = noted],
         NEW took \in BOOLEAN, took => wire[d] # <<>>, NEW sent \in Seq(Messages), Talk(d, took, sent)
  PROVE  /\ run' \in [Devices -> Runs] /\ wire' \in [Devices -> Seq(Messages)]
         /\ run'[d] = noted /\ run'[Other(d)] = run[Other(d)]
         /\ Quiet => TypeInv'
<1>1. run' \in [Devices -> Runs] /\ run'[d] = noted /\ run'[Other(d)] = run[Other(d)]
  BY RunsAre
<1>2. wire' \in [Devices -> Seq(Messages)]
  BY TalkIs
<1> QED BY <1>1, <1>2, QuietKeepsTypes DEF Quiet

LEMMA SendCurrencyIs ==
  ASSUME TypeInv, NEW d \in Devices, SendCurrency(d)
  PROVE  /\ TypeInv' /\ At(d, "currency") /\ Quiet /\ run'[Other(d)] = run[Other(d)]
         /\ Talk(d, FALSE, Message("currency", Missing(d))) /\ run'[d].at = "compare"
         /\ KeepsHello(d) /\ KeepsReview(d) /\ KeepsRows(d)
         /\ run'[d].list = run[d].list /\ run'[d].reviewed = run[d].reviewed /\ run'[d].differs = run[d].differs
<1>1. At(d, "currency") /\ Quiet /\ Talk(d, FALSE, Message("currency", Missing(d)))
  BY DEF SendCurrency, Missing, Quiet
<1> DEFINE noted == [run[d] EXCEPT !.at = "compare"]
<1>2. run' = [run EXCEPT ![d] = noted]
  BY DEF SendCurrency
<1>3. run[d] \in Runs /\ "compare" \in Steps /\ Message("currency", Missing(d)) \in Seq(Messages)
  BY SidesAre, MissingIs, KindsAre DEF Steps
<1>4. /\ noted \in Runs /\ noted.at = "compare"
      /\ noted.mode = run[d].mode /\ noted.own = run[d].own /\ noted.theirs = run[d].theirs
      /\ noted.asked = run[d].asked /\ noted.shown = run[d].shown /\ noted.seen = run[d].seen
      /\ noted.out = run[d].out /\ noted.got = run[d].got
      /\ noted.list = run[d].list /\ noted.reviewed = run[d].reviewed /\ noted.differs = run[d].differs
  BY <1>3 DEF Runs
<1> HIDE DEF noted
<1>5. TypeInv' /\ run'[d] = noted /\ run'[Other(d)] = run[Other(d)]
  BY <1>1, <1>2, <1>3, <1>4, Noted
<1> QED BY <1>1, <1>4, <1>5 DEF KeepsHello, KeepsReview, KeepsRows

\* A change of currency converts amounts, and nothing else.
LEMMA ConvertedIs ==
  ASSUME NEW table \in Tables, NEW times \in Nat
  PROVE  /\ Converted(table, times) \in Tables
         /\ List(Converted(table, times)) = List(table)
         /\ \A i \in Items :
              LET new == Converted(table, times)[i]
                  old == table[i]
              IN  /\ new.stamp = old.stamp /\ new.version = old.version /\ new.deleted = old.deleted
                  /\ new.over = old.over
                  /\ new.unit = IF Live(table, i) THEN old.unit + times ELSE old.unit
<1> DEFINE new(i) == [table[i] EXCEPT !.unit = @ + times]
<1>1. \A i \in Items : table[i] \in Row /\ table[i].unit \in Nat
  BY DEF Tables, Row
<1>2. ASSUME NEW i \in Items
      PROVE  /\ new(i) \in Row /\ new(i).stamp = table[i].stamp /\ new(i).version = table[i].version
             /\ new(i).deleted = table[i].deleted /\ new(i).over = table[i].over
             /\ new(i).unit = table[i].unit + times
  <2> DEFINE unit == table[i].unit + times
  <2>1. unit \in Nat /\ table[i] \in Row /\ new(i) = [table[i] EXCEPT !.unit = unit]
    BY <1>1
  <2> HIDE DEF unit
  <2>2. /\ [table[i] EXCEPT !.unit = unit] \in Row
        /\ [table[i] EXCEPT !.unit = unit].stamp = table[i].stamp
        /\ [table[i] EXCEPT !.unit = unit].version = table[i].version
        /\ [table[i] EXCEPT !.unit = unit].deleted = table[i].deleted
        /\ [table[i] EXCEPT !.unit = unit].over = table[i].over
        /\ [table[i] EXCEPT !.unit = unit].unit = unit
    BY <2>1 DEF Row
  <2> QED BY <2>1, <2>2 DEF unit
<1>3. Converted(table, times) = [i \in Items |-> IF Live(table, i) THEN new(i) ELSE table[i]]
  BY DEF Converted
<1> DEFINE after == Converted(table, times)
<1> HIDE DEF new
<1>4. /\ after \in Tables
      /\ \A i \in Items : /\ after[i].stamp = table[i].stamp /\ after[i].version = table[i].version
                          /\ after[i].deleted = table[i].deleted /\ after[i].over = table[i].over
                          /\ after[i].unit = IF Live(table, i) THEN table[i].unit + times ELSE table[i].unit
  BY <1>1, <1>2, <1>3 DEF Tables
<1> HIDE DEF after
<1>5. List(after) = List(table)
  <2>1. \A i \in Items : Holds(after, i) <=> Holds(table, i)
    BY <1>4 DEF Holds
  <2> QED BY <1>4, <2>1 DEF List
<1> QED BY <1>4, <1>5 DEF after

LEMMA CompareIs ==
  ASSUME TypeInv, NEW d \in Devices, Compare(d)
  PROVE  /\ TypeInv' /\ At(d, "compare") /\ Quiet /\ run'[Other(d)] = run[Other(d)]
         /\ Talk(d, FALSE, Message("hashes", List(rows[d])))
         /\ run'[d].at = "hashes" /\ run'[d].list = List(rows[d])
         /\ KeepsHello(d) /\ KeepsReview(d) /\ KeepsRows(d)
         /\ run'[d].reviewed = run[d].reviewed /\ run'[d].differs = run[d].differs
<1> DEFINE listed == List(rows[d])
<1>1. Quiet /\ Talk(d, FALSE, Message("hashes", List(rows[d]))) /\ At(d, "compare")
  BY DEF Compare, Quiet
<1>2. run' = [run EXCEPT ![d].at = "hashes", ![d].list = listed]
  BY DEF Compare, Quiet
<1>3. run[d] \in Runs /\ "hashes" \in Steps /\ listed \in Lists
  BY SidesAre, RowsAre, ListIs DEF Steps, Runs
<1>4. Message("hashes", List(rows[d])) \in Seq(Messages)
  BY SidesAre, ListIs, KindsAre
<1> HIDE DEF listed
<1> DEFINE noted == [run[d] EXCEPT !.at = "hashes", !.list = listed]
<1>5. run' = [run EXCEPT ![d] = noted]
  BY <1>2
<1>6. /\ noted \in Runs
      /\ noted.at = "hashes" /\ noted.list = listed
      /\ noted.mode = run[d].mode /\ noted.own = run[d].own /\ noted.theirs = run[d].theirs
      /\ noted.asked = run[d].asked /\ noted.shown = run[d].shown /\ noted.seen = run[d].seen
      /\ noted.out = run[d].out /\ noted.got = run[d].got
      /\ noted.reviewed = run[d].reviewed /\ noted.differs = run[d].differs
  BY <1>3 DEF Runs
<1> HIDE DEF noted
<1>7. TypeInv' /\ run'[d] = noted /\ run'[Other(d)] = run[Other(d)]
  BY <1>1, <1>4, <1>5, <1>6, Noted
<1> QED BY <1>1, <1>6, <1>7 DEF KeepsHello, KeepsReview, KeepsRows, listed

LEMMA TakeVersionsIs ==
  ASSUME TypeInv, NEW d \in Devices, TakeVersions(d)
  PROVE  /\ TypeInv' /\ At(d, "versions") /\ Arrived(d) /\ Quiet /\ run'[Other(d)] = run[Other(d)]
         /\ Talk(d, TRUE, <<>>)
         /\ run'[d].at = "review" /\ run'[d].shown = Only(rows[d], run[d].asked) /\ run'[d].seen = Arriving(d)
         /\ KeepsHello(d) /\ KeepsRows(d)
         /\ run'[d].asked = run[d].asked
         /\ run'[d].list = run[d].list /\ run'[d].reviewed = run[d].reviewed /\ run'[d].differs = run[d].differs
<1>0. wire[d] # <<>> /\ At(d, "versions") /\ Arrived(d)
  BY ArrivedIs DEF TakeVersions
<1> DEFINE showing == Only(rows[d], run[d].asked)
           seeing == Arriving(d)
<1>1. Quiet /\ Talk(d, TRUE, <<>>)
  BY DEF TakeVersions, Quiet
<1>2. run' = [run EXCEPT ![d].at = "review", ![d].shown = showing, ![d].seen = seeing]
  BY DEF TakeVersions, Quiet
<1>3. run[d] \in Runs /\ "review" \in Steps /\ showing \in Tables /\ seeing \in Tables
  BY SidesAre, RowsAre, OnlyIs, ArrivedIs, <1>0 DEF Steps, Runs
<1>4. <<>> \in Seq(Messages)
  BY NoneIs
<1> HIDE DEF showing, seeing
<1> DEFINE noted == [run[d] EXCEPT !.at = "review", !.shown = showing, !.seen = seeing]
<1>5. run' = [run EXCEPT ![d] = noted]
  BY <1>2
<1>6. /\ noted \in Runs
      /\ noted.at = "review" /\ noted.shown = showing /\ noted.seen = seeing
      /\ noted.mode = run[d].mode /\ noted.own = run[d].own /\ noted.theirs = run[d].theirs
      /\ noted.asked = run[d].asked
      /\ noted.out = run[d].out /\ noted.got = run[d].got
      /\ noted.list = run[d].list /\ noted.reviewed = run[d].reviewed /\ noted.differs = run[d].differs
  BY <1>3 DEF Runs
<1> HIDE DEF noted
<1>7. TypeInv' /\ run'[d] = noted /\ run'[Other(d)] = run[Other(d)]
  BY <1>0, <1>1, <1>4, <1>5, <1>6, Noted
<1> QED BY <1>0, <1>1, <1>6, <1>7 DEF KeepsHello, KeepsReview, KeepsRows, showing, seeing

LEMMA TakeReviewedIs ==
  ASSUME TypeInv, NEW d \in Devices, TakeReviewed(d)
  PROVE  /\ TypeInv' /\ At(d, "reviewed") /\ Arrived(d) /\ Quiet /\ run'[Other(d)] = run[Other(d)]
         /\ Talk(d, TRUE, <<>>)
         /\ run'[d].at = "compare" /\ run'[d].reviewed = TRUE
         /\ KeepsHello(d) /\ KeepsReview(d) /\ KeepsRows(d)
         /\ run'[d].list = run[d].list /\ run'[d].differs = run[d].differs
<1>0. wire[d] # <<>> /\ At(d, "reviewed") /\ Arrived(d)
  BY ArrivedIs DEF TakeReviewed
<1>1. Quiet /\ Talk(d, TRUE, <<>>)
  BY DEF TakeReviewed, Quiet
<1>2. run' = [run EXCEPT ![d].at = "compare", ![d].reviewed = TRUE]
  BY DEF TakeReviewed, Quiet
<1>3. run[d] \in Runs /\ "compare" \in Steps /\ TRUE \in BOOLEAN
  BY SidesAre, RowsAre DEF Steps, Runs
<1>4. <<>> \in Seq(Messages)
  BY NoneIs
<1> DEFINE noted == [run[d] EXCEPT !.at = "compare", !.reviewed = TRUE]
<1>5. run' = [run EXCEPT ![d] = noted]
  BY <1>2
<1>6. /\ noted \in Runs
      /\ noted.at = "compare" /\ noted.reviewed = TRUE
      /\ noted.mode = run[d].mode /\ noted.own = run[d].own /\ noted.theirs = run[d].theirs
      /\ noted.asked = run[d].asked /\ noted.shown = run[d].shown /\ noted.seen = run[d].seen
      /\ noted.out = run[d].out /\ noted.got = run[d].got
      /\ noted.list = run[d].list /\ noted.differs = run[d].differs
  BY <1>3 DEF Runs
<1> HIDE DEF noted
<1>7. TypeInv' /\ run'[d] = noted /\ run'[Other(d)] = run[Other(d)]
  BY <1>0, <1>1, <1>4, <1>5, <1>6, Noted
<1> QED BY <1>0, <1>1, <1>6, <1>7 DEF KeepsHello, KeepsReview, KeepsRows

LEMMA TakeHashesEnds ==
  ASSUME TypeInv, NEW d \in Devices, TakeHashes(d), Arriving(d) = run[d].list
  PROVE  /\ TypeInv' /\ At(d, "hashes") /\ Arrived(d) /\ Quiet /\ run'[Other(d)] = run[Other(d)]
         /\ Talk(d, TRUE, <<>>)
         /\ run'[d].at = "touch"
         /\ KeepsHello(d) /\ KeepsReview(d) /\ KeepsRows(d)
         /\ run'[d].list = run[d].list /\ run'[d].reviewed = run[d].reviewed /\ run'[d].differs = run[d].differs
<1>0. wire[d] # <<>> /\ At(d, "hashes") /\ Arrived(d)
  BY ArrivedIs DEF TakeHashes
<1>1. Quiet /\ Talk(d, TRUE, <<>>)
  BY DEF TakeHashes, Quiet
<1>2. run' = [run EXCEPT ![d].at = "touch"]
  BY DEF TakeHashes, Quiet
<1>3. run[d] \in Runs /\ "touch" \in Steps
  BY SidesAre, RowsAre DEF Steps, Runs
<1>4. <<>> \in Seq(Messages)
  BY NoneIs
<1> DEFINE noted == [run[d] EXCEPT !.at = "touch"]
<1>5. run' = [run EXCEPT ![d] = noted]
  BY <1>2
<1>6. /\ noted \in Runs
      /\ noted.at = "touch"
      /\ noted.mode = run[d].mode /\ noted.own = run[d].own /\ noted.theirs = run[d].theirs
      /\ noted.asked = run[d].asked /\ noted.shown = run[d].shown /\ noted.seen = run[d].seen
      /\ noted.out = run[d].out /\ noted.got = run[d].got
      /\ noted.list = run[d].list /\ noted.reviewed = run[d].reviewed /\ noted.differs = run[d].differs
  BY <1>3 DEF Runs
<1> HIDE DEF noted
<1>7. TypeInv' /\ run'[d] = noted /\ run'[Other(d)] = run[Other(d)]
  BY <1>0, <1>1, <1>4, <1>5, <1>6, Noted
<1> QED BY <1>0, <1>1, <1>6, <1>7 DEF KeepsHello, KeepsReview, KeepsRows

LEMMA TakeHashesGoesOn ==
  ASSUME TypeInv, NEW d \in Devices, TakeHashes(d), Arriving(d) # run[d].list
  PROVE  /\ TypeInv' /\ At(d, "hashes") /\ Arrived(d) /\ Quiet /\ run'[Other(d)] = run[Other(d)]
         /\ Talk(d, TRUE, ListFirst(d))
         /\ run'[d].at = "lists"
         /\ KeepsHello(d) /\ KeepsReview(d) /\ KeepsRows(d)
         /\ run'[d].list = run[d].list /\ run'[d].reviewed = run[d].reviewed /\ run'[d].differs = run[d].differs
<1>0. wire[d] # <<>> /\ At(d, "hashes") /\ Arrived(d)
  BY ArrivedIs DEF TakeHashes
<1>1. Quiet /\ Talk(d, TRUE, ListFirst(d))
  BY DEF TakeHashes, Quiet, ListFirst
<1>2. run' = [run EXCEPT ![d].at = "lists"]
  BY DEF TakeHashes, Quiet, ListFirst
<1>3. run[d] \in Runs /\ "lists" \in Steps
  BY SidesAre, RowsAre DEF Steps, Runs
<1>4. ListFirst(d) \in Seq(Messages)
  BY SidesAre, NoneIs, KindsAre DEF ListFirst, Runs
<1> DEFINE noted == [run[d] EXCEPT !.at = "lists"]
<1>5. run' = [run EXCEPT ![d] = noted]
  BY <1>2
<1>6. /\ noted \in Runs
      /\ noted.at = "lists"
      /\ noted.mode = run[d].mode /\ noted.own = run[d].own /\ noted.theirs = run[d].theirs
      /\ noted.asked = run[d].asked /\ noted.shown = run[d].shown /\ noted.seen = run[d].seen
      /\ noted.out = run[d].out /\ noted.got = run[d].got
      /\ noted.list = run[d].list /\ noted.reviewed = run[d].reviewed /\ noted.differs = run[d].differs
  BY <1>3 DEF Runs
<1> HIDE DEF noted
<1>7. TypeInv' /\ run'[d] = noted /\ run'[Other(d)] = run[Other(d)]
  BY <1>0, <1>1, <1>4, <1>5, <1>6, Noted
<1> QED BY <1>0, <1>1, <1>6, <1>7 DEF KeepsHello, KeepsReview, KeepsRows

LEMMA AnswersAre ==
  ASSUME TypeInv, NEW d \in Devices
  PROVE  /\ ListThen(d) \in Seq(Messages) /\ Going(d) \in Tables
         /\ \A items : ListThen(d) \o Message("rows", Only(rows[d], items)) \in Seq(Messages)
         /\ (ListThen(d) \o IF d = Desktop THEN Message("rows", Going(d)) ELSE <<>>) \in Seq(Messages)
<1>1. rows[d] \in Tables /\ run[d].list \in Lists
  BY SidesAre DEF Runs
<1>2. ListThen(d) \in Seq(Messages)
  BY <1>1, NoneIs, KindsAre DEF ListThen
<1>3. Going(d) \in Tables
  BY <1>1, OnlyIs, RowsAre DEF Going
<1>4. \A items : Message("rows", Only(rows[d], items)) \in Seq(Messages)
  BY <1>1, OnlyIs, KindsAre
<1>5. Message("rows", Going(d)) \in Seq(Messages)
  BY <1>3, KindsAre
<1>6. \A v, w \in Seq(Messages) : v \o w \in Seq(Messages)
  OBVIOUS
<1>7. (IF d = Desktop THEN Message("rows", Going(d)) ELSE <<>>) \in Seq(Messages)
  BY <1>5, NoneIs
<1> QED BY <1>2, <1>3, <1>4, <1>6, <1>7

LEMMA ToAskIs ==
  ASSUME TypeInv, NEW d \in Devices
  PROVE  ToAsk(d) \in SUBSET Items
<1>1. run[d].list \in Lists
  BY SidesAre DEF Runs
<1>2. DOMAIN run[d].list \subseteq Items
  BY <1>1 DEF Lists
<1> QED BY <1>2 DEF ToAsk, Asks, Asked, Conflicts

LEMMA TakeListsReviews ==
  ASSUME TypeInv, NEW d \in Devices, TakeLists(d), ToAsk(d) # {}, d = Reviewer(run[d].mode)
  PROVE  /\ TypeInv' /\ At(d, "lists") /\ Arrived(d) /\ Quiet /\ run'[Other(d)] = run[Other(d)]
         /\ Talk(d, TRUE, ListThen(d))
         /\ run'[d].at = "versions" /\ run'[d].asked = ToAsk(d)
         /\ KeepsHello(d) /\ KeepsRows(d)
         /\ run'[d].shown = run[d].shown /\ run'[d].seen = run[d].seen
         /\ run'[d].list = run[d].list /\ run'[d].reviewed = run[d].reviewed /\ run'[d].differs = run[d].differs
<1>0. wire[d] # <<>> /\ At(d, "lists") /\ Arrived(d)
  BY ArrivedIs DEF TakeLists
<1> DEFINE asking == ToAsk(d)
<1>1. Quiet /\ Talk(d, TRUE, ListThen(d))
  BY DEF TakeLists, Quiet, ListThen, ToAsk, Asks
<1>2. run' = [run EXCEPT ![d].at = "versions", ![d].asked = asking]
  BY DEF TakeLists, Quiet, ListThen, ToAsk, Asks
<1>3. run[d] \in Runs /\ "versions" \in Steps /\ asking \in SUBSET Items
  BY SidesAre, RowsAre, ToAskIs DEF Steps, Runs
<1>4. ListThen(d) \in Seq(Messages)
  BY AnswersAre
<1> HIDE DEF asking
<1> DEFINE noted == [run[d] EXCEPT !.at = "versions", !.asked = asking]
<1>5. run' = [run EXCEPT ![d] = noted]
  BY <1>2
<1>6. /\ noted \in Runs
      /\ noted.at = "versions" /\ noted.asked = asking
      /\ noted.mode = run[d].mode /\ noted.own = run[d].own /\ noted.theirs = run[d].theirs
      /\ noted.shown = run[d].shown /\ noted.seen = run[d].seen
      /\ noted.out = run[d].out /\ noted.got = run[d].got
      /\ noted.list = run[d].list /\ noted.reviewed = run[d].reviewed /\ noted.differs = run[d].differs
  BY <1>3 DEF Runs
<1> HIDE DEF noted
<1>7. TypeInv' /\ run'[d] = noted /\ run'[Other(d)] = run[Other(d)]
  BY <1>0, <1>1, <1>4, <1>5, <1>6, Noted
<1> QED BY <1>0, <1>1, <1>6, <1>7 DEF KeepsHello, KeepsReview, KeepsRows, asking

LEMMA TakeListsWaits ==
  ASSUME TypeInv, NEW d \in Devices, TakeLists(d), ToAsk(d) # {}, d # Reviewer(run[d].mode)
  PROVE  /\ TypeInv' /\ At(d, "lists") /\ Arrived(d) /\ Quiet /\ run'[Other(d)] = run[Other(d)]
         /\ Talk(d, TRUE, (ListThen(d) \o Message("rows", Only(rows[d], ToAsk(d)))))
         /\ run'[d].at = "reviewed"
         /\ KeepsHello(d) /\ KeepsReview(d) /\ KeepsRows(d)
         /\ run'[d].list = run[d].list /\ run'[d].reviewed = run[d].reviewed /\ run'[d].differs = run[d].differs
<1>0. wire[d] # <<>> /\ At(d, "lists") /\ Arrived(d)
  BY ArrivedIs DEF TakeLists
<1>1. Quiet /\ Talk(d, TRUE, (ListThen(d) \o Message("rows", Only(rows[d], ToAsk(d)))))
  BY DEF TakeLists, Quiet, ListThen, ToAsk, Asks
<1>2. run' = [run EXCEPT ![d].at = "reviewed"]
  BY DEF TakeLists, Quiet, ListThen, ToAsk, Asks
<1>3. run[d] \in Runs /\ "reviewed" \in Steps
  BY SidesAre, RowsAre DEF Steps, Runs
<1>4. (ListThen(d) \o Message("rows", Only(rows[d], ToAsk(d)))) \in Seq(Messages)
  BY AnswersAre
<1> DEFINE noted == [run[d] EXCEPT !.at = "reviewed"]
<1>5. run' = [run EXCEPT ![d] = noted]
  BY <1>2
<1>6. /\ noted \in Runs
      /\ noted.at = "reviewed"
      /\ noted.mode = run[d].mode /\ noted.own = run[d].own /\ noted.theirs = run[d].theirs
      /\ noted.asked = run[d].asked /\ noted.shown = run[d].shown /\ noted.seen = run[d].seen
      /\ noted.out = run[d].out /\ noted.got = run[d].got
      /\ noted.list = run[d].list /\ noted.reviewed = run[d].reviewed /\ noted.differs = run[d].differs
  BY <1>3 DEF Runs
<1> HIDE DEF noted
<1>7. TypeInv' /\ run'[d] = noted /\ run'[Other(d)] = run[Other(d)]
  BY <1>0, <1>1, <1>4, <1>5, <1>6, Noted
<1> QED BY <1>0, <1>1, <1>6, <1>7 DEF KeepsHello, KeepsReview, KeepsRows

LEMMA TakeListsSends ==
  ASSUME TypeInv, NEW d \in Devices, TakeLists(d), ToAsk(d) = {}
  PROVE  /\ TypeInv' /\ At(d, "lists") /\ Arrived(d) /\ Quiet /\ run'[Other(d)] = run[Other(d)]
         /\ Talk(d, TRUE, (ListThen(d) \o IF d = Desktop THEN Message("rows", Going(d)) ELSE <<>>))
         /\ run'[d].at = "rows" /\ run'[d].out = IF d = Phone THEN Going(d) ELSE NoRows
         /\ KeepsHello(d) /\ KeepsReview(d)
         /\ run'[d].got = run[d].got
         /\ run'[d].list = run[d].list /\ run'[d].reviewed = run[d].reviewed /\ run'[d].differs = run[d].differs
<1>0. wire[d] # <<>> /\ At(d, "lists") /\ Arrived(d)
  BY ArrivedIs DEF TakeLists
<1> DEFINE going == IF d = Phone THEN Going(d) ELSE NoRows
<1>1. Quiet /\ Talk(d, TRUE, (ListThen(d) \o IF d = Desktop THEN Message("rows", Going(d)) ELSE <<>>))
  BY DEF TakeLists, Quiet, ListThen, ToAsk, Asks, Going
<1>2. run' = [run EXCEPT ![d].at = "rows", ![d].out = going]
  BY DEF TakeLists, Quiet, ListThen, ToAsk, Asks, Going
<1>3. run[d] \in Runs /\ "rows" \in Steps /\ going \in Tables
  BY SidesAre, RowsAre, AnswersAre DEF Steps, Runs
<1>4. (ListThen(d) \o IF d = Desktop THEN Message("rows", Going(d)) ELSE <<>>) \in Seq(Messages)
  BY AnswersAre
<1> HIDE DEF going
<1> DEFINE noted == [run[d] EXCEPT !.at = "rows", !.out = going]
<1>5. run' = [run EXCEPT ![d] = noted]
  BY <1>2
<1>6. /\ noted \in Runs
      /\ noted.at = "rows" /\ noted.out = going
      /\ noted.mode = run[d].mode /\ noted.own = run[d].own /\ noted.theirs = run[d].theirs
      /\ noted.asked = run[d].asked /\ noted.shown = run[d].shown /\ noted.seen = run[d].seen
      /\ noted.got = run[d].got
      /\ noted.list = run[d].list /\ noted.reviewed = run[d].reviewed /\ noted.differs = run[d].differs
  BY <1>3 DEF Runs
<1> HIDE DEF noted
<1>7. TypeInv' /\ run'[d] = noted /\ run'[Other(d)] = run[Other(d)]
  BY <1>0, <1>1, <1>4, <1>5, <1>6, Noted
<1> QED BY <1>0, <1>1, <1>6, <1>7 DEF KeepsHello, KeepsReview, KeepsRows, going

LEMMA TakeRowsIs ==
  ASSUME TypeInv, NEW d \in Devices, TakeRows(d)
  PROVE  /\ TypeInv' /\ At(d, "rows") /\ Arrived(d) /\ Quiet /\ run'[Other(d)] = run[Other(d)]
         /\ Talk(d, TRUE, RowsThen(d))
         /\ run'[d].at = "apply" /\ run'[d].got = Arriving(d) /\ run'[d].out = NoRows
         /\ KeepsHello(d) /\ KeepsReview(d)
         /\ run'[d].list = run[d].list /\ run'[d].reviewed = run[d].reviewed /\ run'[d].differs = run[d].differs
<1>0. wire[d] # <<>> /\ At(d, "rows") /\ Arrived(d)
  BY ArrivedIs DEF TakeRows
<1> DEFINE coming == Arriving(d)
<1>1. Quiet /\ Talk(d, TRUE, RowsThen(d))
  BY DEF TakeRows, Quiet, RowsThen
<1>2. run' = [run EXCEPT ![d].at = "apply", ![d].got = coming, ![d].out = NoRows]
  BY DEF TakeRows, Quiet, RowsThen
<1>3. run[d] \in Runs /\ "apply" \in Steps /\ coming \in Tables /\ NoRows \in Tables
  BY SidesAre, RowsAre, ArrivedIs, <1>0 DEF Steps, Runs
<1>4. RowsThen(d) \in Seq(Messages)
  BY SidesAre, NoneIs, KindsAre DEF RowsThen, Runs
<1> HIDE DEF coming
<1> DEFINE noted == [run[d] EXCEPT !.at = "apply", !.got = coming, !.out = NoRows]
<1>5. run' = [run EXCEPT ![d] = noted]
  BY <1>2
<1>6. /\ noted \in Runs
      /\ noted.at = "apply" /\ noted.got = coming /\ noted.out = NoRows
      /\ noted.mode = run[d].mode /\ noted.own = run[d].own /\ noted.theirs = run[d].theirs
      /\ noted.asked = run[d].asked /\ noted.shown = run[d].shown /\ noted.seen = run[d].seen
      /\ noted.list = run[d].list /\ noted.reviewed = run[d].reviewed /\ noted.differs = run[d].differs
  BY <1>3 DEF Runs
<1> HIDE DEF noted
<1>7. TypeInv' /\ run'[d] = noted /\ run'[Other(d)] = run[Other(d)]
  BY <1>0, <1>1, <1>4, <1>5, <1>6, Noted
<1> QED BY <1>0, <1>1, <1>6, <1>7 DEF KeepsHello, KeepsReview, KeepsRows, coming

LEMMA TakeDoneIs ==
  ASSUME TypeInv, NEW d \in Devices, TakeDone(d)
  PROVE  /\ TypeInv' /\ At(d, "done") /\ Arrived(d) /\ Quiet /\ run'[Other(d)] = run[Other(d)]
         /\ Talk(d, TRUE, DoneThen(d))
         /\ run'[d].at = "touch" /\ run'[d].differs = (run[d].mode = "both" /\ Arriving(d) # run[d].list)
         /\ KeepsHello(d) /\ KeepsReview(d) /\ KeepsRows(d)
         /\ run'[d].list = run[d].list /\ run'[d].reviewed = run[d].reviewed
<1>0. wire[d] # <<>> /\ At(d, "done") /\ Arrived(d)
  BY ArrivedIs DEF TakeDone
<1> DEFINE unequal == (run[d].mode = "both" /\ Arriving(d) # run[d].list)
<1>1. Quiet /\ Talk(d, TRUE, DoneThen(d))
  BY DEF TakeDone, Quiet, DoneThen
<1>2. run' = [run EXCEPT ![d].at = "touch", ![d].differs = unequal]
  BY DEF TakeDone, Quiet, DoneThen
<1>3. run[d] \in Runs /\ "touch" \in Steps /\ unequal \in BOOLEAN
  BY SidesAre, RowsAre DEF Steps, Runs
<1>4. DoneThen(d) \in Seq(Messages)
  BY SidesAre, NoneIs, KindsAre DEF DoneThen, Runs
<1> HIDE DEF unequal
<1> DEFINE noted == [run[d] EXCEPT !.at = "touch", !.differs = unequal]
<1>5. run' = [run EXCEPT ![d] = noted]
  BY <1>2
<1>6. /\ noted \in Runs
      /\ noted.at = "touch" /\ noted.differs = unequal
      /\ noted.mode = run[d].mode /\ noted.own = run[d].own /\ noted.theirs = run[d].theirs
      /\ noted.asked = run[d].asked /\ noted.shown = run[d].shown /\ noted.seen = run[d].seen
      /\ noted.out = run[d].out /\ noted.got = run[d].got
      /\ noted.list = run[d].list /\ noted.reviewed = run[d].reviewed
  BY <1>3 DEF Runs
<1> HIDE DEF noted
<1>7. TypeInv' /\ run'[d] = noted /\ run'[Other(d)] = run[Other(d)]
  BY <1>0, <1>1, <1>4, <1>5, <1>6, Noted
<1> QED BY <1>0, <1>1, <1>6, <1>7 DEF KeepsHello, KeepsReview, KeepsRows, unequal

-----------------------------------------------------------------------------
(***************************************************************************)
(* The times a review gives the versions that are kept.                    *)
(***************************************************************************)
LEMMA OneIsLeast ==
  ASSUME NEW K \in Nat, NEW some \in SUBSET (1..K), some # {}
  PROVE  \E i \in some : \A j \in some : i <= j
<1> SUFFICES ASSUME \A i \in some : \E j \in some : j < i
             PROVE  FALSE
  OBVIOUS
<1> DEFINE above == {i \in 1..K : \E j \in some : j <= i}
           next == [i \in above |-> i - 1]
<1>1. IsFiniteSet(above)
  <2>1. IsFiniteSet(1..K)
    BY FS_Interval
  <2> QED BY <2>1, FS_Subset
<1>2. \A i \in above : i - 1 \in above
  <2>1. TAKE i \in above
  <2>2. PICK j \in some : j <= i
    OBVIOUS
  <2>3. PICK k \in some : k < j
    OBVIOUS
  <2>4. i \in 1..K /\ j \in 1..K /\ k \in 1..K
    OBVIOUS
  <2>5. k <= i - 1 /\ i - 1 \in 1..K
    BY <2>2, <2>3, <2>4
  <2> QED BY <2>5
<1>3. next \in Injection(above, above)
  <2>1. next \in [above -> above]
    BY <1>2
  <2>2. \A i, j \in above : i - 1 = j - 1 => i = j
    OBVIOUS
  <2>3. IsInjective(next)
    BY <2>2 DEF IsInjective
  <2> QED BY <2>1, <2>3 DEF Injection
<1>4. next \in Surjection(above, above)
  BY <1>1, <1>3, FS_Injection
<1>5. K \in above
  <2>1. PICK j \in some : TRUE
    OBVIOUS
  <2>2. j \in 1..K
    OBVIOUS
  <2>3. K \in 1..K /\ j <= K
    BY <2>2
  <2> QED BY <2>3
<1>6. PICK i \in above : next[i] = K
  BY <1>4, <1>5 DEF Surjection
<1>7. i \in 1..K /\ i - 1 = K
  BY <1>6
<1> QED BY <1>7

LEMMA ItemsCount == Cardinality(Items) \in Nat /\ \A S \in SUBSET Items : Cardinality(S) \in 0..Cardinality(Items)
<1>1. IsFiniteSet(Items)
  BY ItemsAssumption
<1>2. Cardinality(Items) \in Nat
  BY <1>1, FS_CardinalityType
<1>3. ASSUME NEW S \in SUBSET Items PROVE Cardinality(S) \in 0..Cardinality(Items)
  <2>1. IsFiniteSet(S) /\ Cardinality(S) <= Cardinality(Items)
    BY <1>1, FS_Subset
  <2>2. Cardinality(S) \in Nat
    BY <2>1, FS_CardinalityType
  <2> QED BY <1>2, <2>1, <2>2
<1> QED BY <1>2, <1>3

LEMMA TimesFollow ==
  ASSUME NEW K \in Nat, NEW first \in Clock, NEW t \in Nat
  PROVE  \E f : Follow(f, K, first, t)
<1> DEFINE good(n) == \E f : Follow(f, n, first, t)
           bad == {n \in 1..K : ~good(n)}
<1>1. good(0)
  <2> DEFINE f == [i \in 0..0 |-> first]
  <2>1. Follow(f, 0, first, t)
    BY DEF Follow
  <2> QED BY <2>1
<1>2. \A n \in 1..K : good(n - 1) => good(n)
  <2> SUFFICES ASSUME NEW n \in 1..K, NEW f, Follow(f, n - 1, first, t)
               PROVE  \E g : Follow(g, n, first, t)
    OBVIOUS
  <2>1. n \in Nat \ {0} /\ f \in [0..n - 1 -> Clock] /\ f[n - 1] \in Clock /\ f[0] = first
    BY DEF Follow
  <2> DEFINE next == Tick(f[n - 1], t)
             g == [i \in 0..n |-> IF i = n THEN next ELSE f[i]]
  <2>2. next \in Clock
    BY <2>1, TickIs
  <2>3. g \in [0..n -> Clock] /\ g[0] = first /\ g[n] = Tick(g[n - 1], t)
    <3> HIDE DEF next
    <3>1. \A i \in 0..n : i = n \/ i \in 0..n - 1
      BY <2>1
    <3>2. g \in [0..n -> Clock]
      BY <2>1, <2>2, <3>1
    <3>3. 0 \in 0..n /\ 0 # n /\ n \in 0..n /\ n - 1 \in 0..n /\ n - 1 # n
      BY <2>1
    <3>4. g[0] = first /\ g[n] = next /\ g[n - 1] = f[n - 1]
      BY <2>1, <3>3
    <3> QED BY <3>2, <3>4 DEF next
  <2>4. \A i \in 1..n - 1 : g[i] = Tick(g[i - 1], t)
    <3> TAKE i \in 1..n - 1
    <3> HIDE DEF next
    <3>1. i \in 0..n /\ i # n /\ i - 1 \in 0..n /\ i - 1 # n
      BY <2>1
    <3>2. g[i] = f[i] /\ g[i - 1] = f[i - 1]
      BY <3>1
    <3> QED BY <3>2 DEF Follow
  <2>5. \A i \in 1..n : i = n \/ i \in 1..n - 1
    BY <2>1
  <2> HIDE DEF g
  <2>6. Follow(g, n, first, t)
    BY <2>3, <2>4, <2>5 DEF Follow
  <2> QED BY <2>6
<1>3. bad = {}
  <2> SUFFICES ASSUME bad # {}
               PROVE  FALSE
    OBVIOUS
  <2> HIDE DEF good
  <2>1. PICK n \in bad : \A m \in bad : n <= m
    BY OneIsLeast
  <2>2. n \in 1..K /\ ~good(n) /\ n - 1 \notin bad /\ (n - 1 = 0 \/ n - 1 \in 1..K)
    BY <2>1
  <2>3. good(n - 1)
    BY <1>1, <2>2
  <2> QED BY <1>2, <2>2, <2>3
<1>4. K = 0 \/ K \in 1..K
  OBVIOUS
<1> HIDE DEF good
<1>5. good(K)
  BY <1>1, <1>3, <1>4
<1> QED BY <1>5 DEF good

LEMMA TicksAre ==
  ASSUME TypeInv, NEW d \in Devices
  PROVE  /\ Ticks(d)[0] = clock[d]
         /\ \A n \in 1..Cardinality(Items) : Ticks(d)[n] = Tick(Ticks(d)[n - 1], Wall(d))
         /\ \A n \in 0..Cardinality(Items) : Ticks(d)[n] \in Clock
<1>1. PICK K \in Nat : K = Cardinality(Items)
  BY ItemsCount
<1>2. PICK first \in Clock : first = clock[d]
  BY SidesAre
<1>3. PICK t \in Nat : t = Wall(d)
  BY SidesAre
<1>4. PICK f : Follow(f, K, first, t)
  BY TimesFollow
<1> DEFINE rule(u) == [n \in 0..K |-> IF n = 0 THEN first ELSE Tick(u[n - 1], t)]
<1>5. f = rule(f)
  <2>1. \A n \in 0..K : n = 0 \/ n \in 1..K
    OBVIOUS
  <2>2. \A n \in 0..K : f[n] = IF n = 0 THEN first ELSE Tick(f[n - 1], t)
    BY <1>4, <2>1 DEF Follow
  <2>3. f \in [0..K -> Clock]
    BY <1>4 DEF Follow
  <2> QED BY <2>2, <2>3
<1> DEFINE u == CHOOSE g : g = rule(g)
<1>6. u = rule(u)
  <2> HIDE DEF rule
  <2> QED BY <1>5
<1>7. Ticks(d) = u
  BY <1>1, <1>2, <1>3 DEF Ticks
<1> HIDE DEF u
<1>8. \A n \in 0..K : u[n] = IF n = 0 THEN first ELSE Tick(u[n - 1], t)
  BY <1>6
<1> HIDE DEF rule
<1>9. u[0] = first /\ \A n \in 1..K : u[n] = Tick(u[n - 1], t)
  BY <1>8
<1> DEFINE bad == {n \in 1..K : u[n] \notin Clock}
<1>10. bad = {}
  <2> SUFFICES ASSUME bad # {}
               PROVE  FALSE
    OBVIOUS
  <2>1. PICK n \in bad : \A m \in bad : n <= m
    BY OneIsLeast
  <2>2. n \in 1..K /\ u[n] \notin Clock /\ n - 1 \notin bad /\ (n - 1 = 0 \/ n - 1 \in 1..K)
    BY <2>1
  <2>3. u[n - 1] \in Clock
    BY <1>9, <2>2
  <2> QED BY <1>9, <2>2, <2>3, TickIs
<1>11. \A n \in 0..K : u[n] \in Clock
  <2>1. \A n \in 0..K : n = 0 \/ n \in 1..K
    OBVIOUS
  <2> QED BY <1>9, <1>10, <2>1
<1> QED BY <1>1, <1>2, <1>3, <1>7, <1>9, <1>11

-----------------------------------------------------------------------------
(***************************************************************************)
(* The steps that write, and those that end a sync.                        *)
(***************************************************************************)
LEMMA EndsQuietly ==
  ASSUME TypeInv, NEW d \in Devices, Ends(d, FALSE, <<>>), Quiet
  PROVE  /\ TypeInv' /\ run'[d] = Resting /\ run'[Other(d)] = run[Other(d)]
         /\ wire'[d] = <<>> /\ wire'[Other(d)] = wire[Other(d)]
BY NoneIs, EndsIs, QuietKeepsTypes DEF Quiet

LEMMA TouchIs ==
  ASSUME TypeInv, NEW d \in Devices, Touch(d)
  PROVE  /\ TypeInv' /\ At(d, "touch") /\ run'[d] = Resting /\ run'[Other(d)] = run[Other(d)]
         /\ wire'[d] = <<>> /\ wire'[Other(d)] = wire[Other(d)]
         /\ last'[d] = {Wall(d)} /\ last'[Other(d)] = last[Other(d)] /\ last' \in [Devices -> SUBSET Nat]
         /\ UNCHANGED <<habit, now, lead, clock, rows, changes, nextVersion, against, syncs>>
<1>1. /\ At(d, "touch") /\ Ends(d, FALSE, <<>>) /\ last' = [last EXCEPT ![d] = {Wall(d)}]
      /\ UNCHANGED <<habit, now, lead, clock, rows, changes, nextVersion, against, syncs>>
  BY DEF Touch
<1>2. /\ run' \in [Devices -> Runs] /\ wire' \in [Devices -> Seq(Messages)]
      /\ run'[d] = Resting /\ run'[Other(d)] = run[Other(d)]
      /\ wire'[d] = <<>> /\ wire'[Other(d)] = wire[Other(d)]
  BY <1>1, NoneIs, EndsIs
<1>3. {Wall(d)} \in SUBSET Nat /\ last \in [Devices -> SUBSET Nat]
  BY SidesAre DEF TypeInv
<1>4. last' \in [Devices -> SUBSET Nat] /\ last'[d] = {Wall(d)} /\ last'[Other(d)] = last[Other(d)]
  BY <1>1, <1>3, DevicesAre
<1>5. TypeInv'
  BY <1>1, <1>2, <1>4 DEF TypeInv
<1> QED BY <1>1, <1>2, <1>4, <1>5

LEMMA ObserveIs ==
  ASSUME NEW c \in Clock, NEW s \in Stamp
  PROVE  Observe(c, s) \in Clock
BY DEF Observe, Clock, Stamp

LEMMA LearnCurrencyEnds ==
  ASSUME TypeInv, NEW d \in Devices, LearnCurrency(d), FarAhead(d)
  PROVE  At(d, "learn") /\ Arrived(d) /\ Ends(d, TRUE, <<>>) /\ Quiet /\ TypeInv'
<1>1. At(d, "learn") /\ Arrived(d) /\ Ends(d, TRUE, <<>>) /\ Quiet
  BY DEF LearnCurrency, FarAhead, Quiet
<1>2. TypeInv'
  BY <1>1, NoneIs, EndsIs, QuietKeepsTypes DEF Quiet
<1> QED BY <1>1, <1>2

LEMMA LearnCurrencyIs ==
  ASSUME TypeInv, NEW d \in Devices, LearnCurrency(d), ~FarAhead(d), Arriving(d) # <<>>
  PROVE  /\ TypeInv' /\ At(d, "learn") /\ Arrived(d) /\ UNCHANGED <<world, against>>
         /\ run'[Other(d)] = run[Other(d)] /\ Talk(d, TRUE, <<>>) /\ run'[d].at = "compare"
         /\ KeepsHello(d) /\ KeepsReview(d) /\ KeepsRows(d)
         /\ run'[d].list = run[d].list /\ run'[d].reviewed = run[d].reviewed /\ run'[d].differs = run[d].differs
         /\ changes'[d] = changes[d] \o Arriving(d) /\ changes'[Other(d)] = changes[Other(d)]
         /\ rows'[d] = Converted(rows[d], Len(Arriving(d))) /\ rows'[Other(d)] = rows[Other(d)]
         /\ clock'[d] = Observe(clock[d], Arriving(d)[Len(Arriving(d))]) /\ clock'[Other(d)] = clock[Other(d)]
<1>0. At(d, "learn") /\ Arrived(d) /\ wire[d] # <<>> /\ Arriving(d) \in Seq(Stamp)
  BY ArrivedIs DEF LearnCurrency
<1> DEFINE learnt == Arriving(d)
           added == changes[d] \o learnt
           converted == Converted(rows[d], Len(learnt))
           time == Observe(clock[d], learnt[Len(learnt)])
<1>1. /\ UNCHANGED <<world, against>> /\ Talk(d, TRUE, <<>>)
      /\ changes' = [changes EXCEPT ![d] = added] /\ rows' = [rows EXCEPT ![d] = converted]
      /\ clock' = [clock EXCEPT ![d] = time] /\ run' = [run EXCEPT ![d].at = "compare"]
  BY DEF LearnCurrency, FarAhead
<1>2. Len(learnt) \in Nat /\ learnt[Len(learnt)] \in Stamp
  BY <1>0
<1>3. added \in Seq(Stamp) /\ converted \in Tables /\ time \in Clock
  BY <1>0, <1>2, SidesAre, ConvertedIs, ObserveIs
<1> HIDE DEF learnt, added, converted, time
<1>4. /\ changes' \in [Devices -> Seq(Stamp)] /\ changes'[d] = added /\ changes'[Other(d)] = changes[Other(d)]
      /\ rows' \in [Devices -> Tables] /\ rows'[d] = converted /\ rows'[Other(d)] = rows[Other(d)]
      /\ clock' \in [Devices -> Clock] /\ clock'[d] = time /\ clock'[Other(d)] = clock[Other(d)]
  <2>1. changes \in [Devices -> Seq(Stamp)] /\ rows \in [Devices -> Tables] /\ clock \in [Devices -> Clock]
    BY DEF TypeInv
  <2> QED BY <1>1, <1>3, <2>1, DevicesAre
<1>5. run[d] \in Runs /\ "compare" \in Steps
  BY SidesAre DEF Steps
<1> DEFINE noted == [run[d] EXCEPT !.at = "compare"]
<1>6. run' = [run EXCEPT ![d] = noted]
  BY <1>1
<1>7. /\ noted \in Runs /\ noted.at = "compare"
      /\ noted.mode = run[d].mode /\ noted.own = run[d].own /\ noted.theirs = run[d].theirs
      /\ noted.asked = run[d].asked /\ noted.shown = run[d].shown /\ noted.seen = run[d].seen
      /\ noted.out = run[d].out /\ noted.got = run[d].got
      /\ noted.list = run[d].list /\ noted.reviewed = run[d].reviewed /\ noted.differs = run[d].differs
  BY <1>5 DEF Runs
<1> HIDE DEF noted
<1>8. /\ run' \in [Devices -> Runs] /\ wire' \in [Devices -> Seq(Messages)]
      /\ run'[d] = noted /\ run'[Other(d)] = run[Other(d)]
  BY <1>0, <1>1, <1>6, <1>7, NoneIs, Noted
<1>9. TypeInv'
  BY <1>1, <1>4, <1>8, WorldKeepsTypes
<1> QED BY <1>0, <1>1, <1>4, <1>7, <1>8, <1>9 DEF KeepsHello, KeepsReview, KeepsRows, learnt, added, converted, time

LEMMA PlaceIs ==
  ASSUME NEW kept \in SUBSET Items, NEW i \in Items
  PROVE  /\ Place(i, kept) \in 0..Cardinality(Items)
         /\ i \in kept => Place(i, kept) \in 1..Cardinality(Items)
<1> DEFINE before == {j \in kept : j <= i}
<1>1. before \in SUBSET Items /\ IsFiniteSet(before)
  BY ItemsAssumption, FS_Subset
<1>2. Cardinality(before) \in 0..Cardinality(Items) /\ Cardinality(Items) \in Nat
  BY <1>1, ItemsCount
<1>3. i \in kept => before # {}
  BY ItemsAssumption
<1>4. before # {} => Cardinality(before) # 0
  BY <1>1, FS_EmptySet
<1> QED BY <1>2, <1>3, <1>4 DEF Place

LEMMA DecidedIs ==
  ASSUME TypeInv, NEW d \in Devices, NEW i \in Items, NEW kept \in SUBSET Items
  PROVE  /\ Decided(d, i, kept) \in Row
         /\ Decided(d, i, kept).version = rows[d][i].version /\ Decided(d, i, kept).deleted = rows[d][i].deleted
         /\ Decided(d, i, kept).unit = rows[d][i].unit /\ Decided(d, i, kept).over = rows[d][i].over
         /\ ~Restamps(d, i, kept) => Decided(d, i, kept) = rows[d][i]
         /\ Restamps(d, i, kept) => Decided(d, i, kept).stamp =
              IF i \in kept THEN StampAt(Ticks(d)[Place(i, kept)], d) ELSE UNSET_STAMP
<1>1. rows[d][i] \in Row
  BY SidesAre DEF Tables
<1> DEFINE stamp == IF i \in kept THEN StampAt(Ticks(d)[Place(i, kept)], d) ELSE UNSET_STAMP
<1>2. stamp \in Stamp
  <2>1. Place(i, kept) \in 0..Cardinality(Items)
    BY PlaceIs
  <2>2. Ticks(d)[Place(i, kept)] \in Clock
    BY <2>1, TicksAre
  <2> QED BY <2>2, StampsAre
<1>3. Decided(d, i, kept) =
        IF i \notin run[d].asked \/ rows[d][i].deleted # run[d].list[i].deleted THEN rows[d][i]
        ELSE [rows[d][i] EXCEPT !.stamp = stamp]
  BY DEF Decided, Place
<1> HIDE DEF stamp
<1> DEFINE new == [rows[d][i] EXCEPT !.stamp = stamp]
<1>4. /\ new \in Row /\ new.stamp = stamp /\ new.version = rows[d][i].version
      /\ new.deleted = rows[d][i].deleted /\ new.unit = rows[d][i].unit /\ new.over = rows[d][i].over
  BY <1>1, <1>2 DEF Row
<1> HIDE DEF new
<1>5. Decided(d, i, kept) = IF ~Restamps(d, i, kept) THEN rows[d][i] ELSE new
  BY <1>3 DEF Restamps, new
<1> QED BY <1>1, <1>4, <1>5 DEF stamp

LEMMA ReviewIs ==
  ASSUME TypeInv, NEW d \in Devices, Review(d)
  PROVE  /\ TypeInv' /\ At(d, "review") /\ UNCHANGED <<world, changes>>
         /\ run'[Other(d)] = run[Other(d)] /\ Talk(d, FALSE, Message("reviewed", {}))
         /\ run'[d].at = "compare" /\ run'[d].reviewed = TRUE
         /\ run'[d].asked = {} /\ run'[d].shown = NoRows /\ run'[d].seen = NoRows
         /\ KeepsHello(d) /\ KeepsRows(d)
         /\ run'[d].list = run[d].list /\ run'[d].differs = run[d].differs
         /\ rows'[Other(d)] = rows[Other(d)] /\ clock'[Other(d)] = clock[Other(d)]
         /\ \E kept \in SUBSET run[d].asked :
              /\ \A i \in Items : rows'[d][i] = Decided(d, i, kept)
              /\ clock'[d] = Ticks(d)[Cardinality(kept)]
              /\ against' = Judged(d, kept)
<1>1. /\ At(d, "review") /\ UNCHANGED <<world, changes>> /\ Talk(d, FALSE, Message("reviewed", {}))
      /\ run' = [run EXCEPT ![d].at = "compare", ![d].reviewed = TRUE, ![d].asked = {},
                            ![d].shown = NoRows, ![d].seen = NoRows]
  BY DEF Review
<1>2. PICK kept \in SUBSET run[d].asked :
        /\ rows' = [rows EXCEPT ![d] = [i \in Items |-> Decided(d, i, kept)]]
        /\ clock' = [clock EXCEPT ![d] = Ticks(d)[Cardinality(kept)]]
        /\ against' = Judged(d, kept)
  BY DEF Review, Judged
<1>3. run[d] \in Runs /\ kept \in SUBSET Items
  BY SidesAre DEF Runs
<1> DEFINE table == [i \in Items |-> Decided(d, i, kept)]
           time == Ticks(d)[Cardinality(kept)]
<1>4. table \in Tables /\ \A i \in Items : table[i] = Decided(d, i, kept)
  <2>1. \A i \in Items : Decided(d, i, kept) \in Row
    BY <1>3, DecidedIs
  <2> QED BY <2>1 DEF Tables
<1>5. time \in Clock
  <2>1. Cardinality(kept) \in 0..Cardinality(Items)
    BY <1>3, ItemsCount
  <2> QED BY <2>1, TicksAre
<1>6. rows' = [rows EXCEPT ![d] = table] /\ clock' = [clock EXCEPT ![d] = time]
  BY <1>2
<1> HIDE DEF table, time
<1>7. /\ rows' \in [Devices -> Tables] /\ rows'[d] = table /\ rows'[Other(d)] = rows[Other(d)]
      /\ clock' \in [Devices -> Clock] /\ clock'[d] = time /\ clock'[Other(d)] = clock[Other(d)]
  <2>1. rows \in [Devices -> Tables] /\ clock \in [Devices -> Clock]
    BY DEF TypeInv
  <2> QED BY <1>4, <1>5, <1>6, <2>1, DevicesAre
<1>8. "compare" \in Steps /\ TRUE \in BOOLEAN /\ {} \in SUBSET Items /\ NoRows \in Tables
  BY RowsAre DEF Steps
<1> DEFINE noted == [run[d] EXCEPT !.at = "compare", !.reviewed = TRUE, !.asked = {},
                                   !.shown = NoRows, !.seen = NoRows]
<1>9. run' = [run EXCEPT ![d] = noted]
  BY <1>1
<1>10. /\ noted \in Runs /\ noted.at = "compare" /\ noted.reviewed = TRUE
       /\ noted.mode = run[d].mode /\ noted.own = run[d].own /\ noted.theirs = run[d].theirs
       /\ noted.asked = {} /\ noted.shown = NoRows /\ noted.seen = NoRows
       /\ noted.out = run[d].out /\ noted.got = run[d].got
       /\ noted.list = run[d].list /\ noted.differs = run[d].differs
  BY <1>3, <1>8 DEF Runs
<1> HIDE DEF noted
<1>11. Message("reviewed", {}) \in Seq(Messages)
  BY KindsAre
<1>12. /\ run' \in [Devices -> Runs] /\ wire' \in [Devices -> Seq(Messages)]
       /\ run'[d] = noted /\ run'[Other(d)] = run[Other(d)]
  <2>1. noted \in Runs /\ Talk(d, FALSE, Message("reviewed", {}))
    BY <1>1, <1>10
  <2> QED BY <1>9, <1>11, <2>1, Noted
<1>13. TypeInv'
  <2>1. changes' \in [Devices -> Seq(Stamp)] /\ UNCHANGED world
    BY <1>1 DEF TypeInv
  <2> QED BY <1>7, <1>12, <2>1, WorldKeepsTypes
<1>14. \E k \in SUBSET run[d].asked :
         /\ \A i \in Items : rows'[d][i] = Decided(d, i, k)
         /\ clock'[d] = Ticks(d)[Cardinality(k)]
         /\ against' = Judged(d, k)
  <2>1. \A i \in Items : rows'[d][i] = Decided(d, i, kept)
    BY <1>4, <1>7
  <2>2. clock'[d] = Ticks(d)[Cardinality(kept)] /\ against' = Judged(d, kept)
    BY <1>2, <1>7 DEF time
  <2> QED BY <2>1, <2>2
<1> QED BY <1>1, <1>7, <1>10, <1>12, <1>13, <1>14 DEF KeepsHello, KeepsReview, KeepsRows

LEMMA NewerIs ==
  ASSUME NEW r \in Row, NEW s \in Row
  PROVE  Newer(r, s) \in Row /\ (Newer(r, s) = r \/ Newer(r, s) = s)
BY DEF Newer

LEMMA MergedIs ==
  ASSUME TypeInv, NEW d \in Devices
  PROVE  /\ Merged(d) \in Tables
         /\ \A i \in Items : Merged(d)[i] = IF Receives(d, run[d].mode) THEN Newer(run[d].got[i], rows[d][i])
                                            ELSE rows[d][i]
<1>1. run[d].got \in Tables /\ rows[d] \in Tables
  BY SidesAre DEF Runs
<1>2. \A i \in Items : run[d].got[i] \in Row /\ rows[d][i] \in Row
  BY <1>1 DEF Tables
<1>3. \A i \in Items : Newer(run[d].got[i], rows[d][i]) \in Row
  BY <1>2, NewerIs
<1> QED BY <1>1, <1>2, <1>3 DEF Merged, Tables

LEMMA CatchUpIs ==
  ASSUME NEW c \in Clock, NEW table \in Tables, NEW time \in CatchUp(c, table)
  PROVE  time \in Clock /\ Covers(time, table) /\ AtMost(c, time)
<1>1. Covers(time, table)
  BY DEF CatchUp
<1>2. time = c \/ \E i \in Items : time = Observe(c, table[i].stamp)
  BY DEF CatchUp
<1>3. CASE time = c
  BY <1>1, <1>3 DEF AtMost
<1>4. ASSUME NEW i \in Items, time = Observe(c, table[i].stamp)
      PROVE  time \in Clock /\ AtMost(c, time)
  <2>1. table[i].stamp \in Stamp
    BY DEF Tables, Row
  <2>2. time \in Clock
    BY <1>4, <2>1, ObserveIs
  <2>3. AtMost(c, time)
    BY <1>4, <2>1 DEF Observe, AtMost, Behind, Clock, Stamp
  <2> QED BY <2>2, <2>3
<1> QED BY <1>1, <1>2, <1>3, <1>4

LEMMA ApplyRefuses ==
  ASSUME TypeInv, NEW d \in Devices, Apply(d), Refused(d)
  PROVE  At(d, "apply") /\ Ends(d, FALSE, <<>>) /\ Quiet
BY DEF Apply, Quiet, world

LEMMA ApplyIs ==
  ASSUME TypeInv, NEW d \in Devices, Apply(d), ~Refused(d)
  PROVE  /\ TypeInv' /\ At(d, "apply") /\ UNCHANGED <<world, changes, against>>
         /\ run'[Other(d)] = run[Other(d)] /\ Talk(d, FALSE, DoneFirst(d))
         /\ run'[d].at = "done" /\ run'[d].got = NoRows /\ run'[d].list = List(Merged(d))
         /\ KeepsHello(d) /\ KeepsReview(d)
         /\ run'[d].out = run[d].out /\ run'[d].reviewed = run[d].reviewed /\ run'[d].differs = run[d].differs
         /\ rows'[d] = Merged(d) /\ rows'[Other(d)] = rows[Other(d)]
         /\ Covers(clock'[d], Merged(d)) /\ AtMost(clock[d], clock'[d]) /\ clock'[Other(d)] = clock[Other(d)]
<1>1. /\ At(d, "apply") /\ UNCHANGED <<world, changes, against>> /\ Talk(d, FALSE, DoneFirst(d))
      /\ rows' = [rows EXCEPT ![d] = Merged(d)]
      /\ run' = [run EXCEPT ![d].at = "done", ![d].got = NoRows, ![d].list = List(Merged(d))]
  BY DEF Apply, DoneFirst
<1>2. PICK time \in CatchUp(clock[d], Merged(d)) : clock' = [clock EXCEPT ![d] = time]
  BY DEF Apply
<1>3. Merged(d) \in Tables /\ List(Merged(d)) \in Lists /\ clock[d] \in Clock /\ run[d] \in Runs
  BY MergedIs, ListIs, SidesAre
<1>4. time \in Clock /\ Covers(time, Merged(d)) /\ AtMost(clock[d], time)
  BY <1>3, CatchUpIs
<1> DEFINE merged == Merged(d)
           list == List(Merged(d))
<1>5. merged \in Tables /\ list \in Lists /\ rows' = [rows EXCEPT ![d] = merged]
  BY <1>1, <1>3
<1>6. run' = [run EXCEPT ![d].at = "done", ![d].got = NoRows, ![d].list = list]
  BY <1>1
<1> HIDE DEF merged, list
<1>7. /\ rows' \in [Devices -> Tables] /\ rows'[d] = merged /\ rows'[Other(d)] = rows[Other(d)]
      /\ clock' \in [Devices -> Clock] /\ clock'[d] = time /\ clock'[Other(d)] = clock[Other(d)]
  <2>1. rows \in [Devices -> Tables] /\ clock \in [Devices -> Clock]
    BY DEF TypeInv
  <2> QED BY <1>2, <1>4, <1>5, <2>1, DevicesAre
<1>8. "done" \in Steps /\ NoRows \in Tables
  BY RowsAre DEF Steps
<1> DEFINE noted == [run[d] EXCEPT !.at = "done", !.got = NoRows, !.list = list]
<1>9. run' = [run EXCEPT ![d] = noted]
  BY <1>6
<1>10. /\ noted \in Runs /\ noted.at = "done" /\ noted.got = NoRows /\ noted.list = list
       /\ noted.mode = run[d].mode /\ noted.own = run[d].own /\ noted.theirs = run[d].theirs
       /\ noted.asked = run[d].asked /\ noted.shown = run[d].shown /\ noted.seen = run[d].seen
       /\ noted.out = run[d].out /\ noted.reviewed = run[d].reviewed /\ noted.differs = run[d].differs
  BY <1>3, <1>5, <1>8 DEF Runs
<1> HIDE DEF noted
<1>11. DoneFirst(d) \in Seq(Messages)
  BY <1>3, NoneIs, KindsAre DEF DoneFirst
<1>12. /\ run' \in [Devices -> Runs] /\ wire' \in [Devices -> Seq(Messages)]
       /\ run'[d] = noted /\ run'[Other(d)] = run[Other(d)]
  BY <1>1, <1>9, <1>10, <1>11, Noted
<1>13. TypeInv'
  <2>1. changes' \in [Devices -> Seq(Stamp)] /\ UNCHANGED world
    BY <1>1 DEF TypeInv
  <2> QED BY <1>7, <1>12, <2>1, WorldKeepsTypes
<1> QED BY <1>1, <1>4, <1>7, <1>10, <1>12, <1>13 DEF KeepsHello, KeepsReview, merged, list

-----------------------------------------------------------------------------
(***************************************************************************)
(* What people do, and the start of a sync.                                *)
(***************************************************************************)

LEMMA PassIs ==
  ASSUME TypeInv, Pass
  PROVE  /\ TypeInv' /\ (Concurrent \/ Idle) /\ now' = now + 1
         /\ UNCHANGED <<habit, lead, clock, rows, changes, last, run, wire, nextVersion, against, syncs>>
<1>1. now < MaxNow /\ MaxNow \in Nat
  BY BoundsAssumption DEF Pass
<1>2. now' \in 0..MaxNow
  BY <1>1 DEF Pass, TypeInv
<1> QED BY <1>2 DEF Pass, TypeInv

LEMMA EditIs ==
  ASSUME TypeInv, NEW d \in Devices, NEW i \in Items, Edit(d, i)
  PROVE  /\ TypeInv' /\ MayWrite /\ Outside /\ UNCHANGED <<now, lead, changes, against, syncs>>
         /\ (\A e \in Devices : ~Holds(rows[e], i)) \/ Live(rows[d], i)
         /\ nextVersion' = nextVersion + 1 /\ nextVersion \in 1..MaxVersion
         /\ clock'[d] = Tick(clock[d], Wall(d)) /\ clock'[Other(d)] = clock[Other(d)]
         /\ rows'[Other(d)] = rows[Other(d)]
         /\ \A j \in Items : j # i => rows'[d][j] = rows[d][j]
         /\ \E deleted \in BOOLEAN : Edited(d, i, deleted, rows'[d][i]) /\ (deleted => Holds(rows[d], i))
<1> DEFINE ticked == Tick(clock[d], Wall(d))
           old == rows[d][i]
           unit == IF Holds(rows[d], i) THEN old.unit ELSE Len(changes[d])
           over == old.over \cup ({old.version} \ {0})
           stamp == StampAt(ticked, d)
<1>1. /\ MayWrite /\ nextVersion <= Versions /\ nextVersion' = nextVersion + 1
      /\ (\A e \in Devices : ~Holds(rows[e], i)) \/ Live(rows[d], i)
      /\ clock' = [clock EXCEPT ![d] = ticked]
      /\ UNCHANGED <<habit, now, lead, changes, last, run, wire, against, syncs>>
  BY DEF Edit
<1>2. PICK deleted \in {FALSE, Holds(rows[d], i)} :
        rows' = [rows EXCEPT ![d][i] = [stamp |-> stamp, version |-> nextVersion, deleted |-> deleted,
                                        unit |-> unit, over |-> over]]
  BY DEF Edit
<1>3. clock[d] \in Clock /\ Wall(d) \in Nat /\ rows[d] \in Tables /\ Len(changes[d]) \in Nat /\ rows[d][i] \in Row
  BY SidesAre DEF Tables
<1>4. nextVersion \in 1..MaxVersion /\ nextVersion \in 0..MaxVersion
  <2>1. MaxVersion \in Nat /\ nextVersion \in Nat \ {0}
    BY BoundsAssumption DEF TypeInv
  <2>2. Versions <= MaxVersion /\ Versions \in Int
    BY <2>1 DEF Versions
  <2> QED BY <1>1, <2>1, <2>2
<1>5. ticked \in Clock
  BY <1>3, TickIs
<1>6. stamp \in Stamp
  BY <1>5, StampsAre
<1>7. unit \in Nat /\ over \in SUBSET (1..MaxVersion) /\ deleted \in BOOLEAN
  <2>1. old.unit \in Nat /\ old.over \in SUBSET (1..MaxVersion) /\ old.version \in 0..MaxVersion
    BY <1>3 DEF Row
  <2>2. old.version # 0 => old.version \in 1..MaxVersion
    BY <2>1, BoundsAssumption
  <2> QED BY <1>3, <2>1, <2>2 DEF Holds
<1> HIDE DEF ticked, unit, over, stamp
<1> DEFINE new == [stamp |-> stamp, version |-> nextVersion, deleted |-> deleted, unit |-> unit, over |-> over]
           table == [rows[d] EXCEPT ![i] = new]
<1>8. new \in Row
  BY <1>4, <1>6, <1>7 DEF Row
<1>9. /\ new.stamp = stamp /\ new.version = nextVersion /\ new.deleted = deleted
      /\ new.unit = unit /\ new.over = over
  OBVIOUS
<1>10. rows' = [rows EXCEPT ![d] = table]
  BY <1>2
<1> HIDE DEF new
<1>11. table \in Tables /\ table[i] = new /\ \A j \in Items : j # i => table[j] = rows[d][j]
  BY <1>3, <1>8 DEF Tables
<1> HIDE DEF table
<1>12. /\ rows' \in [Devices -> Tables] /\ rows'[d] = table /\ rows'[Other(d)] = rows[Other(d)]
       /\ clock' \in [Devices -> Clock] /\ clock'[d] = ticked /\ clock'[Other(d)] = clock[Other(d)]
  <2>1. rows \in [Devices -> Tables] /\ clock \in [Devices -> Clock]
    BY DEF TypeInv
  <2> QED BY <1>1, <1>5, <1>10, <1>11, <2>1, DevicesAre
<1>13. TypeInv'
  <2>1. nextVersion' \in Nat \ {0}
    BY <1>1, <1>4
  <2> QED BY <1>1, <1>12, <2>1 DEF TypeInv
<1>14. \E b \in BOOLEAN : Edited(d, i, b, rows'[d][i]) /\ (b => Holds(rows[d], i))
  <2>1. Edited(d, i, deleted, new)
    BY <1>9 DEF Edited, ticked, unit, over, stamp
  <2> QED BY <1>7, <1>11, <1>12, <2>1
<1>15. \A j \in Items : j # i => rows'[d][j] = rows[d][j]
  BY <1>11, <1>12
<1> QED BY <1>1, <1>4, <1>12, <1>13, <1>14, <1>15 DEF Outside, ticked

LEMMA ChangeCurrencyIs ==
  ASSUME TypeInv, ChangeCurrency
  PROVE  /\ TypeInv' /\ MayWrite /\ ~Plain /\ Outside /\ UNCHANGED <<now, lead, nextVersion, against, syncs>>
         /\ clock'[Desktop] = Tick(clock[Desktop], Wall(Desktop)) /\ clock'[Phone] = clock[Phone]
         /\ \E s \in Stamp : changes'[Desktop] = Append(changes[Desktop], s)
         /\ changes'[Phone] = changes[Phone]
         /\ rows'[Desktop] = Converted(rows[Desktop], 1) /\ rows'[Phone] = rows[Phone]
<1> DEFINE ticked == Tick(clock[Desktop], Wall(Desktop))
           stamp == StampAt(ticked, Desktop)
           added == Append(changes[Desktop], stamp)
           converted == Converted(rows[Desktop], 1)
<1>1. /\ MayWrite /\ ~Plain
      /\ UNCHANGED <<habit, now, lead, last, run, wire, nextVersion, against, syncs>>
      /\ clock' = [clock EXCEPT ![Desktop] = ticked]
      /\ changes' = [changes EXCEPT ![Desktop] = added]
      /\ rows' = [rows EXCEPT ![Desktop] = converted]
  BY DEF ChangeCurrency
<1>2. /\ clock[Desktop] \in Clock /\ Wall(Desktop) \in Nat /\ rows[Desktop] \in Tables
      /\ changes[Desktop] \in Seq(Stamp)
  BY SidesAre, DevicesAre
<1>3. ticked \in Clock
  BY <1>2, TickIs
<1>4. stamp \in Stamp
  BY <1>3, StampsAre, DevicesAre
<1>5. added \in Seq(Stamp) /\ \E s \in Stamp : added = Append(changes[Desktop], s)
  <2> HIDE DEF stamp
  <2> QED BY <1>2, <1>4
<1>6. converted \in Tables
  BY <1>2, ConvertedIs
<1> HIDE DEF ticked, added, converted
<1>7. /\ clock' \in [Devices -> Clock] /\ clock'[Desktop] = ticked /\ clock'[Phone] = clock[Phone]
      /\ changes' \in [Devices -> Seq(Stamp)] /\ changes'[Desktop] = added /\ changes'[Phone] = changes[Phone]
      /\ rows' \in [Devices -> Tables] /\ rows'[Desktop] = converted /\ rows'[Phone] = rows[Phone]
  <2>1. rows \in [Devices -> Tables] /\ clock \in [Devices -> Clock] /\ changes \in [Devices -> Seq(Stamp)]
    BY DEF TypeInv
  <2> QED BY <1>1, <1>3, <1>5, <1>6, <2>1, DevicesAre
<1>8. TypeInv'
  BY <1>1, <1>7 DEF TypeInv
<1> QED BY <1>1, <1>5, <1>7, <1>8 DEF Outside, ticked, converted

LEMMA StartIs ==
  ASSUME TypeInv, NEW mode \in habit, Start(mode)
  PROVE  /\ TypeInv' /\ Idle /\ UNCHANGED <<habit, lead, clock, rows, changes, last, nextVersion, against>>
         /\ now' = now + 1
         /\ wire'[Desktop] = Message("hello", Hello(Phone, "both")) /\ wire'[Phone] = wire[Phone]
         /\ mode \in Modes
         /\ [kind |-> "hello", body |-> Hello(Phone, "both")] \in Messages
         /\ \A d \in Devices :
              /\ run'[d].at = "hello" /\ run'[d].list = <<>> /\ ~run'[d].reviewed /\ run'[d].asked = {}
              /\ run'[d].got = NoRows /\ run'[d].out = NoRows /\ ~run'[d].differs
         /\ run'[Desktop].mode = mode /\ run'[Phone].mode = "both"
         /\ run'[Phone].own = Hello(Phone, "both") /\ run'[Desktop].own = NoHello
<1>1. /\ Idle /\ now < MaxNow /\ now' = now + 1 /\ syncs' = syncs + 1
      /\ UNCHANGED <<habit, lead, clock, rows, changes, last, nextVersion, against>>
  BY DEF Start
<1> DEFINE hello == Hello(Phone, "both")
           held(d) == IF d = Desktop THEN mode ELSE "both"
           said(d) == IF d = Phone THEN hello ELSE NoHello
<1>2. /\ run' = [d \in Devices |-> [Resting EXCEPT !.at = "hello", !.mode = held(d), !.own = said(d)]]
      /\ wire' = [wire EXCEPT ![Desktop] = Message("hello", hello)]
  BY DEF Start
<1>3. "both" \in Modes /\ mode \in Modes /\ "hello" \in Steps
  BY DEF TypeInv, Modes, Steps
<1>4. hello \in Hellos /\ [kind |-> "hello", body |-> hello] \in Messages
  BY <1>3, HelloIs, DevicesAre
<1>5. Message("hello", hello) \in Seq(Messages)
  BY <1>4, NoneIs, AddedIs
<1>6. \A d \in Devices : held(d) \in Modes /\ said(d) \in Hellos
  BY <1>3, <1>4, NoHelloIs
<1>7. held(Desktop) = mode /\ held(Phone) = "both" /\ said(Phone) = hello /\ said(Desktop) = NoHello
  BY DevicesAre
<1> HIDE DEF hello, held, said
<1> DEFINE first(d) == [Resting EXCEPT !.at = "hello", !.mode = held(d), !.own = said(d)]
<1>8. ASSUME NEW d \in Devices
      PROVE  /\ first(d) \in Runs /\ first(d).at = "hello" /\ first(d).list = <<>> /\ ~first(d).reviewed
             /\ first(d).asked = {} /\ first(d).got = NoRows /\ first(d).out = NoRows /\ ~first(d).differs
             /\ first(d).mode = held(d) /\ first(d).own = said(d)
  <2>1. Resting \in Runs /\ ~Resting.reviewed /\ ~Resting.differs /\ Resting.list = <<>>
        /\ Resting.out = NoRows /\ Resting.got = NoRows /\ Resting.asked = {}
    BY RestingIs
  <2> QED BY <1>3, <1>6, <2>1 DEF Runs
<1>9. \A d \in Devices : run'[d] = first(d)
  BY <1>2
<1>10. run' = [d \in Devices |-> first(d)]
  BY <1>2
<1> HIDE DEF first
<1>11. run' \in [Devices -> Runs]
  BY <1>8, <1>10
<1>12. /\ wire' \in [Devices -> Seq(Messages)]
       /\ wire'[Desktop] = Message("hello", hello) /\ wire'[Phone] = wire[Phone]
  <2>1. wire \in [Devices -> Seq(Messages)]
    BY DEF TypeInv
  <2> QED BY <1>2, <1>5, <2>1, DevicesAre
<1>13. TypeInv'
  <2>1. now' \in 0..MaxNow /\ syncs' \in Nat
    BY <1>1, BoundsAssumption DEF TypeInv
  <2> QED BY <1>1, <1>11, <1>12, <2>1 DEF TypeInv
<1>14. \A d \in Devices :
         /\ run'[d].at = "hello" /\ run'[d].list = <<>> /\ ~run'[d].reviewed /\ run'[d].asked = {}
         /\ run'[d].got = NoRows /\ run'[d].out = NoRows /\ ~run'[d].differs
  BY <1>8, <1>9
<1>15. /\ run'[Desktop].mode = mode /\ run'[Phone].mode = "both"
       /\ run'[Phone].own = hello /\ run'[Desktop].own = NoHello
  BY <1>7, <1>8, <1>9, DevicesAre
<1> QED BY <1>1, <1>3, <1>4, <1>12, <1>13, <1>14, <1>15 DEF hello

LEMMA BeginIs == (Init \/ InitMet) => TypeInv
<1> SUFFICES ASSUME Init \/ InitMet PROVE TypeInv
  OBVIOUS
<1>1. /\ habit \in Habits /\ now = 1 /\ lead \in [Devices -> Leads]
      /\ clock = [d \in Devices |-> [ms |-> lead[d], counter |-> 0]]
      /\ rows = [d \in Devices |-> NoRows] \/ rows = [d \in Devices |-> [i \in Items |-> FirstRow]]
      /\ changes = [d \in Devices |-> <<>>]
      /\ last = [d \in Devices |-> {}] \/ last = [d \in Devices |-> {lead[d]}]
      /\ run = [d \in Devices |-> Resting] /\ wire = [d \in Devices |-> <<>>]
      /\ nextVersion \in {1, 2} /\ syncs = 0
  BY DEF Init, InitMet
<1>2. habit \subseteq Modes
  BY <1>1, HabitsAssumption DEF Modes
<1>3. lead \in [Devices -> Nat] /\ now \in 0..MaxNow /\ nextVersion \in Nat \ {0} /\ syncs \in Nat
  <2>1. lead \in [Devices -> Leads] /\ now = 1 /\ nextVersion \in {1, 2} /\ syncs = 0
    BY <1>1
  <2>2. Leads \subseteq Nat /\ MaxNow \in Nat \ {0}
    BY BoundsAssumption
  <2>3. now \in 0..MaxNow
    BY <2>1, <2>2
  <2>4. lead \in [Devices -> Nat]
    BY <2>1, <2>2
  <2>5. nextVersion \in Nat \ {0} /\ syncs \in Nat
    BY <2>1
  <2> QED BY <2>3, <2>4, <2>5
<1>4. clock \in [Devices -> Clock] /\ last \in [Devices -> SUBSET Nat]
  <2>1. 0 \in 0..MaxCounter
    BY MaxCounterAssumption
  <2> QED BY <1>1, <1>3, <2>1 DEF Clock
<1>5. FirstRow \in Row
  <2>1. [ms |-> 0, counter |-> 0] \in Clock
    BY MaxCounterAssumption DEF Clock
  <2>2. StampAt([ms |-> 0, counter |-> 0], Phone) \in Stamp
    BY <2>1, StampsAre, DevicesAre
  <2>3. 1 \in 0..MaxVersion
    BY BoundsAssumption
  <2> QED BY <2>2, <2>3 DEF FirstRow, Row
<1>6. rows \in [Devices -> Tables]
  <2>1. [i \in Items |-> FirstRow] \in Tables /\ NoRows \in Tables
    BY <1>5, RowsAre DEF Tables
  <2> QED BY <1>1, <2>1
<1>7. changes \in [Devices -> Seq(Stamp)] /\ wire \in [Devices -> Seq(Messages)]
  <2>1. <<>> \in Seq(Stamp) /\ <<>> \in Seq(Messages)
    OBVIOUS
  <2> QED BY <1>1, <2>1
<1>8. run \in [Devices -> Runs]
  BY <1>1, RestingIs
<1> QED BY <1>2, <1>3, <1>4, <1>6, <1>7, <1>8 DEF TypeInv

-----------------------------------------------------------------------------
(***************************************************************************)
(* The two sides of a sync together.                                       *)
(***************************************************************************)

LEMMA SidesFollow ==
  ASSUME NEW x \in Runs, NEW y \in Runs, NEW v \in Seq(Messages), NEW w \in Seq(Messages)
  PROVE  Together(x, y, v, w) => Script(Desktop, x, v) /\ Script(Phone, y, w)
<1>1. Calling(x, y, v, w) => Script(Desktop, x, v) /\ Script(Phone, y, w)
  BY DEF Calling, Of, Script
<1>2. Greeting(x, y, v, w) => Script(Desktop, x, v) /\ Script(Phone, y, w)
  BY DEF Greeting, Script
<1>3. Learning(x, y, v, w) => Script(Desktop, x, v) /\ Script(Phone, y, w)
  BY DEF Learning, Script
<1>4. Comparing(x, y, v, w) => Script(Desktop, x, v) /\ Script(Phone, y, w)
  BY DEF Comparing, Hashed, Of, Script
<1>5. Listing(x, y, v, w) => Script(Desktop, x, v) /\ Script(Phone, y, w)
  BY DEF Listing, Of, Script
<1>6. Reviewing(x, y, v, w) => Script(Desktop, x, v) /\ Script(Phone, y, w)
  BY DEF Reviewing, Script
<1>7. Reviewing(y, x, w, v) => Script(Desktop, x, v) /\ Script(Phone, y, w)
  BY DEF Reviewing, Script
<1>8. Exchanging(x, y, v, w) => Script(Desktop, x, v) /\ Script(Phone, y, w)
  BY DEF Exchanging, Of, Script
<1> QED BY <1>1, <1>2, <1>3, <1>4, <1>5, <1>6, <1>7, <1>8 DEF Together

\* Where the two are together, when one of them takes a step.
LEMMA DesktopAt ==
  ASSUME NEW x \in Runs, NEW y \in Runs, NEW v \in Seq(Messages), NEW w \in Seq(Messages), Together(x, y, v, w)
  PROVE  /\ x.at = "hello" => Calling(x, y, v, w)
         /\ x.at = "currency" => Greeting(x, y, v, w) \/ Learning(x, y, v, w)
         /\ x.at \notin {"rest", "learn"}
         /\ x.at = "compare" => \/ Greeting(x, y, v, w) \/ Learning(x, y, v, w)
                                \/ Comparing(x, y, v, w) \/ Reviewing(x, y, v, w)
         /\ x.at = "hashes" /\ v # <<>> => Comparing(x, y, v, w)
         /\ x.at = "lists" /\ v # <<>> => Listing(x, y, v, w)
         /\ x.at \in {"versions", "review"} => Reviewing(x, y, v, w)
         /\ x.at = "reviewed" => Reviewing(y, x, w, v)
         /\ x.at \in {"rows", "apply", "done"} => Exchanging(x, y, v, w)
<1>1. CASE Calling(x, y, v, w)
  BY <1>1 DEF Calling
<1>2. CASE Greeting(x, y, v, w)
  BY <1>2 DEF Greeting
<1>3. CASE Learning(x, y, v, w)
  BY <1>3 DEF Learning
<1>4. CASE Comparing(x, y, v, w)
  BY <1>4 DEF Comparing, Hashed
<1>5. CASE Listing(x, y, v, w)
  BY <1>5 DEF Listing
<1>6. CASE Reviewing(x, y, v, w)
  BY <1>6 DEF Reviewing
<1>7. CASE Reviewing(y, x, w, v)
  BY <1>7 DEF Reviewing
<1>8. CASE Exchanging(x, y, v, w)
  BY <1>8 DEF Exchanging
<1> QED BY <1>1, <1>2, <1>3, <1>4, <1>5, <1>6, <1>7, <1>8 DEF Together

LEMMA PhoneAt ==
  ASSUME NEW x \in Runs, NEW y \in Runs, NEW v \in Seq(Messages), NEW w \in Seq(Messages), Together(x, y, v, w)
  PROVE  /\ y.at = "hello" /\ w # <<>> => Greeting(x, y, v, w)
         /\ y.at \notin {"rest", "currency"}
         /\ y.at = "learn" => Learning(x, y, v, w)
         /\ y.at = "compare" => Comparing(x, y, v, w) \/ Reviewing(y, x, w, v)
         /\ y.at = "hashes" /\ w # <<>> => Comparing(x, y, v, w)
         /\ y.at = "lists" /\ w # <<>> => Listing(x, y, v, w)
         /\ y.at \in {"versions", "review"} /\ w # <<>> => Reviewing(y, x, w, v)
         /\ y.at = "review" => Reviewing(y, x, w, v)
         /\ y.at = "reviewed" /\ w # <<>> => Reviewing(x, y, v, w)
         /\ y.at = "rows" /\ w # <<>> => Exchanging(x, y, v, w)
         /\ y.at \in {"apply", "done"} => Exchanging(x, y, v, w)
<1>1. CASE Calling(x, y, v, w)
  BY <1>1 DEF Calling
<1>2. CASE Greeting(x, y, v, w)
  BY <1>2 DEF Greeting
<1>3. CASE Learning(x, y, v, w)
  BY <1>3 DEF Learning
<1>4. CASE Comparing(x, y, v, w)
  BY <1>4 DEF Comparing, Hashed
<1>5. CASE Listing(x, y, v, w)
  BY <1>5 DEF Listing
<1>6. CASE Reviewing(x, y, v, w)
  BY <1>6 DEF Reviewing
<1>7. CASE Reviewing(y, x, w, v)
  BY <1>7 DEF Reviewing
<1>8. CASE Exchanging(x, y, v, w)
  BY <1>8 DEF Exchanging
<1> QED BY <1>1, <1>2, <1>3, <1>4, <1>5, <1>6, <1>7, <1>8 DEF Together

LEMMA DesktopGreets ==
  ASSUME NEW x \in Runs, NEW y \in Runs, NEW v \in Seq(Messages), NEW w \in Seq(Messages), Together(x, y, v, w),
         NEW s \in Runs, NEW own \in Hellos, x.at = "hello",
         s.at = AfterHello(Desktop, own, v[1].body), s.own = own, s.theirs = v[1].body,
         own.mode = s.mode, s.reviewed = x.reviewed
  PROVE  Together(s, y, Tail(v), w \o Message("hello", own))
<1>1. Calling(x, y, v, w)
  BY DesktopAt
<1>2. One(v, "hello") /\ v[1].body = y.own /\ w = <<>> /\ y.at = "hello" /\ Fresh(x, y)
  BY <1>1 DEF Calling, Of
<1>3. Tail(v) = <<>>
  BY <1>2, OneGoes
<1>4. [kind |-> "hello", body |-> own] \in Messages
  BY DEF Messages
<1>5. One(w \o Message("hello", own), "hello") /\ (w \o Message("hello", own))[1].body = own
  BY <1>2, <1>4, NowOne
<1>6. \/ s.at = "compare" /\ s.own.changes = s.theirs.changes
      \/ s.at = "currency" /\ s.own.changes # s.theirs.changes
  BY DEF AfterHello
<1>7. Fresh(s, y)
  BY <1>2 DEF Fresh
<1>8. Greeting(s, y, Tail(v), w \o Message("hello", own))
  BY <1>2, <1>3, <1>5, <1>6, <1>7 DEF Greeting
<1> QED BY <1>8 DEF Together

LEMMA PhoneGreets ==
  ASSUME NEW x \in Runs, NEW y \in Runs, NEW v \in Seq(Messages), NEW w \in Seq(Messages), Together(x, y, v, w),
         NEW s \in Runs, y.at = "hello", w # <<>>,
         s.at = AfterHello(Phone, y.own, w[1].body), s.own = y.own, s.theirs = w[1].body,
         s.mode = w[1].body.mode, s.reviewed = y.reviewed
  PROVE  Together(x, s, v, Tail(w))
<1>1. Greeting(x, y, v, w)
  BY PhoneAt
<1>2. /\ Fresh(x, s) /\ v = <<>> /\ Met(x, s) /\ x.own = w[1].body /\ x.theirs = y.own /\ (x.reviewed <=> s.reviewed)
  BY <1>1 DEF Greeting, Fresh, Met
<1>3. Desktop # Phone
  BY DevicesAre
<1>4. CASE x.own.changes = x.theirs.changes
  <2>1. s.at = "compare"
    BY <1>2, <1>4 DEF AfterHello
  <2>2. \/ x.at = "compare" /\ One(w, "hello")
        \/ x.at = "hashes" /\ Two(w, "hello", "hashes") /\ w[2].body = x.list
    BY <1>1, <1>4 DEF Greeting
  <2>3. Hashed(x, Tail(w))
    BY <2>2, OneGoes, TwoGo DEF Hashed, Of
  <2>4. Hashed(s, v)
    BY <2>1, <1>2 DEF Hashed
  <2>5. Comparing(x, s, v, Tail(w))
    BY <1>2, <2>3, <2>4 DEF Comparing
  <2> QED BY <2>5 DEF Together
<1>5. CASE x.own.changes # x.theirs.changes
  <2>1. s.at = "learn"
    BY <1>2, <1>3, <1>5 DEF AfterHello
  <2>2. \/ x.at = "currency" /\ One(w, "hello")
        \/ x.at = "compare" /\ Two(w, "hello", "currency") /\ w[2].body # <<>>
        \/ x.at = "hashes" /\ Three(w, "hello", "currency", "hashes") /\ w[2].body # <<>> /\ w[3].body = x.list
    BY <1>1, <1>5 DEF Greeting
  <2>3. \/ x.at = "currency" /\ Tail(w) = <<>>
        \/ x.at = "compare" /\ One(Tail(w), "currency") /\ Tail(w)[1].body # <<>>
        \/ /\ x.at = "hashes" /\ Two(Tail(w), "currency", "hashes") /\ Tail(w)[1].body # <<>>
           /\ Tail(w)[2].body = x.list
    BY <2>2, OneGoes, TwoGo, ThreeGo
  <2>4. Learning(x, s, v, Tail(w))
    BY <1>2, <2>1, <2>3 DEF Learning
  <2> QED BY <2>4 DEF Together
<1> QED BY <1>4, <1>5

LEMMA DesktopSendsCurrency ==
  ASSUME NEW x \in Runs, NEW y \in Runs, NEW v \in Seq(Messages), NEW w \in Seq(Messages), Together(x, y, v, w),
         NEW s \in Runs, NEW body \in Seq(Stamp), x.at = "currency", body # <<>>,
         s.at = "compare", Same(x, s), s.reviewed = x.reviewed
  PROVE  Together(s, y, v, w \o Message("currency", body))
<1>1. [kind |-> "currency", body |-> body] \in Messages
  BY KindsAre
<1> DEFINE u == w \o Message("currency", body)
<1>2. CASE Greeting(x, y, v, w)
  <2>1. One(w, "hello") /\ x.own.changes # x.theirs.changes
    BY <1>2 DEF Greeting
  <2>2. Two(u, "hello", "currency") /\ u[2].body = body /\ u[1] = w[1]
    <3>1. /\ Len(u) = Len(w) + 1 /\ u[Len(w) + 1].kind = "currency" /\ u[Len(w) + 1].body = body
          /\ \A n \in 1..Len(w) : u[n] = w[n]
      BY <1>1, AddedIs
    <3>2. Len(w) = 1 /\ w[1].kind = "hello"
      BY <2>1 DEF One
    <3> HIDE DEF u
    <3>3. Len(u) = 2 /\ u[2].kind = "currency" /\ u[2].body = body /\ u[1] = w[1]
      BY <3>1, <3>2
    <3> QED BY <3>2, <3>3 DEF Two
  <2> HIDE DEF u
  <2>3. Greeting(s, y, v, u)
    BY <1>2, <2>1, <2>2 DEF Greeting, Same, Fresh
  <2> QED BY <2>3 DEF Together, u
<1>3. CASE Learning(x, y, v, w)
  <2>1. w = <<>>
    BY <1>3 DEF Learning
  <2>2. One(u, "currency") /\ u[1].body = body
    BY <1>1, <2>1, NowOne
  <2> HIDE DEF u
  <2>3. Learning(s, y, v, u)
    BY <1>3, <2>2 DEF Learning, Same, Fresh, Met
  <2> QED BY <2>3 DEF Together, u
<1> QED BY <1>2, <1>3, DesktopAt

LEMMA PhoneLearns ==
  ASSUME NEW x \in Runs, NEW y \in Runs, NEW v \in Seq(Messages), NEW w \in Seq(Messages), Together(x, y, v, w),
         NEW s \in Runs, y.at = "learn", w # <<>>, s.at = "compare", Same(y, s), s.reviewed = y.reviewed
  PROVE  Together(x, s, v, Tail(w))
<1>1. Learning(x, y, v, w)
  BY PhoneAt
<1>2. Met(x, s) /\ (x.reviewed <=> s.reviewed) /\ v = <<>>
  BY <1>1 DEF Learning, Met, Same, Fresh
<1>3. \/ x.at = "compare" /\ One(w, "currency")
      \/ x.at = "hashes" /\ Two(w, "currency", "hashes") /\ w[2].body = x.list
  BY <1>1 DEF Learning
<1>4. Hashed(x, Tail(w))
  BY <1>3, OneGoes, TwoGo DEF Hashed, Of
<1>5. Hashed(s, v)
  BY <1>2 DEF Hashed
<1>6. Comparing(x, s, v, Tail(w))
  BY <1>2, <1>4, <1>5 DEF Comparing
<1> QED BY <1>6 DEF Together

LEMMA SendIs ==
  ASSUME NEW w \in Seq(Messages), NEW k, NEW b, [kind |-> k, body |-> b] \in Messages
  PROVE  \E u \in Seq(Messages) : u = w \o Message(k, b) /\ Sent(w, u, k, b)
<1> DEFINE u == w \o Message(k, b)
<1>1. /\ u \in Seq(Messages) /\ Len(u) = Len(w) + 1 /\ u[Len(w) + 1].kind = k /\ u[Len(w) + 1].body = b
      /\ \A n \in 1..Len(w) : u[n] = w[n]
  BY AddedIs
<1>2. w = <<>> => Len(w) = 0
  BY EmptyIs
<1>3. u = w \o Message(k, b)
  OBVIOUS
<1> HIDE DEF u
<1>4. Len(w) = 0 => Len(u) = 1 /\ u[1].kind = k /\ u[1].body = b
  BY <1>1
<1>5. Len(w) = 1 => Len(u) = 2 /\ u[2].kind = k /\ u[2].body = b /\ u[1] = w[1]
  BY <1>1
<1>6. Len(w) = 2 => Len(u) = 3 /\ u[3].kind = k /\ u[3].body = b /\ u[1] = w[1] /\ u[2] = w[2]
  BY <1>1
<1>7. w = <<>> => One(u, k) /\ u[1].body = b
  BY <1>2, <1>4 DEF One
<1>8. ASSUME NEW a PROVE One(w, a) => Two(u, a, k) /\ u[2].body = b /\ u[1] = w[1]
  BY <1>5 DEF One, Two
<1>9. ASSUME NEW a, NEW c
      PROVE  Two(w, a, c) => Three(u, a, c, k) /\ u[3].body = b /\ u[1] = w[1] /\ u[2] = w[2]
  BY <1>6 DEF Two, Three
<1>10. Sent(w, u, k, b)
  BY <1>7, <1>8, <1>9 DEF Sent
<1> QED BY <1>1, <1>3, <1>10

LEMMA DesktopCompares ==
  ASSUME NEW x \in Runs, NEW y \in Runs, NEW v \in Seq(Messages), NEW w \in Seq(Messages), Together(x, y, v, w),
         NEW s \in Runs, x.at = "compare", s.at = "hashes", Same(x, s), s.reviewed = x.reviewed
  PROVE  Together(s, y, v, w \o Message("hashes", s.list))
<1>1. [kind |-> "hashes", body |-> s.list] \in Messages
  BY KindsAre DEF Runs
<1>2. PICK u \in Seq(Messages) : u = w \o Message("hashes", s.list) /\ Sent(w, u, "hashes", s.list)
  BY <1>1, SendIs
<1>3. CASE Greeting(x, y, v, w)
  <2>1. \/ One(w, "hello") /\ x.own.changes = x.theirs.changes
        \/ Two(w, "hello", "currency") /\ w[2].body # <<>> /\ x.own.changes # x.theirs.changes
    BY <1>3 DEF Greeting
  <2>2. Greeting(s, y, v, u)
    BY <1>2, <1>3, <2>1 DEF Greeting, Same, Fresh, Sent
  <2> QED BY <1>2, <2>2 DEF Together
<1>4. CASE Learning(x, y, v, w)
  <2>1. One(w, "currency") /\ w[1].body # <<>>
    BY <1>4 DEF Learning
  <2>2. Learning(s, y, v, u)
    BY <1>2, <1>4, <2>1 DEF Learning, Same, Fresh, Met, Sent
  <2> QED BY <1>2, <2>2 DEF Together
<1>5. CASE Comparing(x, y, v, w)
  <2>1. w = <<>> /\ Hashed(y, v)
    BY <1>5 DEF Comparing, Hashed
  <2>2. Hashed(s, u)
    BY <1>2, <2>1 DEF Hashed, Of, Sent
  <2>3. Comparing(s, y, v, u)
    BY <1>5, <2>1, <2>2 DEF Comparing, Same, Met
  <2> QED BY <1>2, <2>3 DEF Together
<1>6. CASE Reviewing(x, y, v, w)
  <2>1. One(w, "reviewed")
    BY <1>6 DEF Reviewing
  <2>2. Reviewing(s, y, v, u)
    BY <1>2, <1>6, <2>1 DEF Reviewing, Same, Met, Sent
  <2> QED BY <1>2, <2>2 DEF Together
<1> QED BY <1>3, <1>4, <1>5, <1>6, DesktopAt

LEMMA PhoneCompares ==
  ASSUME NEW x \in Runs, NEW y \in Runs, NEW v \in Seq(Messages), NEW w \in Seq(Messages), Together(x, y, v, w),
         NEW s \in Runs, y.at = "compare", s.at = "hashes", Same(y, s), s.reviewed = y.reviewed
  PROVE  Together(x, s, v \o Message("hashes", s.list), w)
<1>1. [kind |-> "hashes", body |-> s.list] \in Messages
  BY KindsAre DEF Runs
<1>2. PICK u \in Seq(Messages) : u = v \o Message("hashes", s.list) /\ Sent(v, u, "hashes", s.list)
  BY <1>1, SendIs
<1>3. CASE Comparing(x, y, v, w)
  <2>1. v = <<>> /\ Hashed(x, w)
    BY <1>3 DEF Comparing, Hashed
  <2>2. Hashed(s, u)
    BY <1>2, <2>1 DEF Hashed, Of, Sent
  <2>3. Comparing(x, s, u, w)
    BY <1>3, <2>1, <2>2 DEF Comparing, Same, Met
  <2> QED BY <1>2, <2>3 DEF Together
<1>4. CASE Reviewing(y, x, w, v)
  <2>1. One(v, "reviewed")
    BY <1>4 DEF Reviewing
  <2>2. Reviewing(s, x, w, u)
    BY <1>2, <1>4, <2>1 DEF Reviewing, Same, Met, Sent
  <2> QED BY <1>2, <2>2 DEF Together
<1> QED BY <1>3, <1>4, PhoneAt

\* Equal hashes end the sync of the rows on both sides.
LEMMA DesktopAgrees ==
  ASSUME NEW x \in Runs, NEW y \in Runs, NEW v \in Seq(Messages), NEW w \in Seq(Messages), Together(x, y, v, w),
         NEW s \in Runs, x.at = "hashes", v # <<>>, v[1].body = x.list,
         s.at = "touch", s.list = x.list, Same(x, s), s.reviewed = x.reviewed
  PROVE  Together(s, y, Tail(v), w)
<1>1. Comparing(x, y, v, w)
  BY DesktopAt
<1>2. Met(s, y) /\ (s.reviewed <=> y.reviewed)
  BY <1>1 DEF Comparing, Met, Same
<1>3. \/ y.at = "hashes" /\ Of(w, "hashes", x.list) /\ Of(v, "hashes", y.list)
      \/ y.at = "touch" /\ w = <<>> /\ Of(v, "hashes", y.list) /\ x.list = y.list
  BY <1>1 DEF Comparing, Hashed, Of
<1>4. Tail(v) = <<>> /\ v[1].body = y.list
  BY <1>3, OneGoes DEF Of
<1>5. CASE y.at = "hashes"
  <2>1. Comparing(s, y, Tail(v), w)
    BY <1>2, <1>3, <1>4, <1>5 DEF Comparing
  <2> QED BY <2>1 DEF Together
<1>6. CASE y.at = "touch"
  <2>1. Exchanging(s, y, Tail(v), w)
    BY <1>2, <1>3, <1>4, <1>6 DEF Exchanging
  <2> QED BY <2>1 DEF Together
<1> QED BY <1>3, <1>5, <1>6

LEMMA PhoneAgrees ==
  ASSUME NEW x \in Runs, NEW y \in Runs, NEW v \in Seq(Messages), NEW w \in Seq(Messages), Together(x, y, v, w),
         NEW s \in Runs, y.at = "hashes", w # <<>>, w[1].body = y.list,
         s.at = "touch", s.list = y.list, Same(y, s), s.reviewed = y.reviewed
  PROVE  Together(x, s, v, Tail(w))
<1>1. Comparing(x, y, v, w)
  BY PhoneAt
<1>2. Met(x, s) /\ (x.reviewed <=> s.reviewed)
  BY <1>1 DEF Comparing, Met, Same
<1>3. \/ x.at = "hashes" /\ Of(w, "hashes", x.list) /\ Of(v, "hashes", y.list)
      \/ x.at = "touch" /\ v = <<>> /\ Of(w, "hashes", x.list) /\ x.list = y.list
  BY <1>1 DEF Comparing, Hashed, Of
<1>4. Tail(w) = <<>> /\ w[1].body = x.list
  BY <1>3, OneGoes DEF Of
<1>5. CASE x.at = "hashes"
  <2>1. Comparing(x, s, v, Tail(w))
    BY <1>2, <1>3, <1>4, <1>5 DEF Comparing
  <2> QED BY <2>1 DEF Together
<1>6. CASE x.at = "touch"
  <2>1. Exchanging(x, s, v, Tail(w))
    BY <1>2, <1>3, <1>4, <1>6 DEF Exchanging
  <2> QED BY <2>1 DEF Together
<1> QED BY <1>3, <1>5, <1>6

\* Other hashes: both go on to the lists.
LEMMA DesktopLists ==
  ASSUME NEW x \in Runs, NEW y \in Runs, NEW v \in Seq(Messages), NEW w \in Seq(Messages), Together(x, y, v, w),
         NEW s \in Runs, x.at = "hashes", v # <<>>, v[1].body # x.list,
         s.at = "lists", s.list = x.list, Same(x, s), s.reviewed = x.reviewed
  PROVE  Together(s, y, Tail(v), w \o Message("list", x.list))
<1>1. Comparing(x, y, v, w)
  BY DesktopAt
<1>2. Met(s, y) /\ (s.reviewed <=> y.reviewed)
  BY <1>1 DEF Comparing, Met, Same
<1>3. \/ y.at = "hashes" /\ Of(w, "hashes", x.list) /\ Of(v, "hashes", y.list)
      \/ y.at = "lists" /\ w = <<>> /\ Of(v, "hashes", y.list)
  BY <1>1 DEF Comparing, Hashed, Of
<1>4. Tail(v) = <<>> /\ v[1].body = y.list
  BY <1>3, OneGoes DEF Of
<1>5. [kind |-> "list", body |-> x.list] \in Messages
  BY KindsAre DEF Runs
<1>6. PICK u \in Seq(Messages) : u = w \o Message("list", x.list) /\ Sent(w, u, "list", x.list)
  BY <1>5, SendIs
<1>7. CASE y.at = "hashes"
  <2>1. Two(u, "hashes", "list") /\ u[2].body = x.list /\ u[1].body = x.list
    BY <1>3, <1>6, <1>7 DEF Sent, Of
  <2>2. Comparing(s, y, Tail(v), u)
    BY <1>2, <1>4, <1>7, <2>1 DEF Comparing
  <2> QED BY <1>6, <2>2 DEF Together
<1>8. CASE y.at = "lists"
  <2>1. Of(u, "list", x.list)
    BY <1>3, <1>6, <1>8 DEF Sent, Of
  <2>2. Listing(s, y, Tail(v), u)
    BY <1>2, <1>4, <1>8, <2>1 DEF Listing
  <2> QED BY <1>6, <2>2 DEF Together
<1> QED BY <1>3, <1>7, <1>8

LEMMA PhoneLists ==
  ASSUME NEW x \in Runs, NEW y \in Runs, NEW v \in Seq(Messages), NEW w \in Seq(Messages), Together(x, y, v, w),
         NEW s \in Runs, y.at = "hashes", w # <<>>, w[1].body # y.list,
         s.at = "lists", s.list = y.list, Same(y, s), s.reviewed = y.reviewed
  PROVE  Together(x, s, v, Tail(w))
<1>1. Comparing(x, y, v, w)
  BY PhoneAt
<1>2. Met(x, s) /\ (x.reviewed <=> s.reviewed)
  BY <1>1 DEF Comparing, Met, Same
<1>3. \/ x.at = "hashes" /\ Of(w, "hashes", x.list) /\ Of(v, "hashes", y.list)
      \/ x.at = "lists" /\ v = <<>> /\ Two(w, "hashes", "list") /\ w[1].body = x.list /\ w[2].body = x.list
  BY <1>1 DEF Comparing, Hashed, Of
<1>4. CASE x.at = "hashes"
  <2>1. Tail(w) = <<>> /\ w[1].body = x.list
    BY <1>3, <1>4, OneGoes DEF Of
  <2>2. Comparing(x, s, v, Tail(w))
    BY <1>2, <1>3, <1>4, <2>1 DEF Comparing
  <2> QED BY <2>2 DEF Together
<1>5. CASE x.at = "lists"
  <2>1. Of(Tail(w), "list", x.list) /\ v = <<>>
    BY <1>3, <1>5, TwoGo DEF Of
  <2>2. Listing(x, s, v, Tail(w))
    BY <1>2, <1>5, <2>1 DEF Listing
  <2> QED BY <2>2 DEF Together
<1> QED BY <1>3, <1>4, <1>5

LEMMA NoneAdded ==
  ASSUME NEW a \in Seq(Messages), NEW b \in Seq(Messages)
  PROVE  (<<>> \o a) \o b = <<>> \o (a \o b)
<1>1. a \o b \in Seq(Messages) /\ <<>> \o a = a
  OBVIOUS
<1>2. \A c \in Seq(Messages) : <<>> \o c = c
  OBVIOUS
<1> QED BY <1>1, <1>2

\* Both sides find the same conflicts.
LEMMA AsksAlike ==
  ASSUME NEW x \in Runs, NEW y \in Runs, Met(x, y), x.reviewed <=> y.reviewed
  PROVE  Asks(x, y.list) = Asks(y, x.list)
<1> DEFINE since == x.own.since \cup x.theirs.since
<1>1. y.own.since \cup y.theirs.since = since
  BY DEF Met
<1> HIDE DEF since
<1>2. Conflicts(x.list, y.list, since) = Conflicts(y.list, x.list, since)
  BY DEF Conflicts
<1>3. x.own.since \cup x.theirs.since = since
  BY DEF since
<1> QED BY <1>1, <1>2, <1>3 DEF Asks

LEMMA AsksBefore ==
  ASSUME NEW x \in Runs, NEW list
  PROVE  Asks(x, list) # {} => ~x.reviewed
BY DEF Asks

\* The desktop has the phone's list.
LEMMA DesktopReviews ==
  ASSUME NEW x \in Runs, NEW y \in Runs, NEW v \in Seq(Messages), NEW w \in Seq(Messages), Together(x, y, v, w),
         NEW s \in Runs, x.at = "lists", v # <<>>, Asks(x, v[1].body) # {}, Reviewer(x.mode) = Desktop,
         s.at = "versions", Same(x, s), s.reviewed = x.reviewed
  PROVE  Together(s, y, Tail(v), w)
<1>1. Listing(x, y, v, w)
  BY DesktopAt
<1>2. ~x.reviewed /\ Desktop # Phone
  BY AsksBefore, DevicesAre
<1>3. w = <<>> /\ Two(v, "list", "rows") /\ y.at = "reviewed" /\ Met(x, y) /\ (x.reviewed <=> y.reviewed)
  BY <1>1, <1>2 DEF Listing, Of
<1>4. Reviewing(s, y, Tail(v), w)
  BY <1>2, <1>3, TwoGo DEF Reviewing, Met, Same
<1> QED BY <1>4 DEF Together

LEMMA DesktopWaits ==
  ASSUME NEW x \in Runs, NEW y \in Runs, NEW v \in Seq(Messages), NEW w \in Seq(Messages), Together(x, y, v, w),
         NEW s \in Runs, x.at = "lists", v # <<>>, Asks(x, v[1].body) # {}, Reviewer(x.mode) # Desktop,
         s.at = "reviewed", Same(x, s), s.reviewed = x.reviewed, NEW body \in Tables
  PROVE  Together(s, y, Tail(v), w \o Message("rows", body))
<1>1. Listing(x, y, v, w)
  BY DesktopAt
<1>2. ~x.reviewed
  BY AsksBefore
<1>3. w = <<>> /\ One(v, "list") /\ y.at = "versions" /\ Met(x, y) /\ (x.reviewed <=> y.reviewed)
  BY <1>1, <1>2 DEF Listing, Of
<1>4. [kind |-> "rows", body |-> body] \in Messages
  BY KindsAre
<1>5. PICK u \in Seq(Messages) : u = w \o Message("rows", body) /\ Sent(w, u, "rows", body)
  BY <1>4, SendIs
<1>6. One(u, "rows") /\ Tail(v) = <<>>
  BY <1>3, <1>5, OneGoes DEF Sent
<1>7. Reviewing(y, s, u, Tail(v))
  BY <1>2, <1>3, <1>6 DEF Reviewing, Met, Same
<1> QED BY <1>5, <1>7 DEF Together

LEMMA DesktopSendsRows ==
  ASSUME NEW x \in Runs, NEW y \in Runs, NEW v \in Seq(Messages), NEW w \in Seq(Messages), Together(x, y, v, w),
         NEW s \in Runs, x.at = "lists", v # <<>>, Asks(x, v[1].body) = {},
         s.at = "rows", Same(x, s), s.reviewed = x.reviewed, NEW body \in Tables
  PROVE  Together(s, y, Tail(v), w \o Message("rows", body))
<1>1. Listing(x, y, v, w)
  BY DesktopAt
<1>2. w = <<>> /\ One(v, "list") /\ y.at = "rows" /\ Met(x, y)
  BY <1>1 DEF Listing, Of
<1>3. [kind |-> "rows", body |-> body] \in Messages
  BY KindsAre
<1>4. PICK u \in Seq(Messages) : u = w \o Message("rows", body) /\ Sent(w, u, "rows", body)
  BY <1>3, SendIs
<1>5. One(u, "rows") /\ Tail(v) = <<>>
  BY <1>2, <1>4, OneGoes DEF Sent
<1>6. Exchanging(s, y, Tail(v), u)
  BY <1>2, <1>5 DEF Exchanging, Met, Same
<1> QED BY <1>4, <1>6 DEF Together

\* The phone has the desktop's list.
LEMMA PhoneHasList ==
  ASSUME NEW x \in Runs, NEW y \in Runs, NEW v \in Seq(Messages), NEW w \in Seq(Messages), Together(x, y, v, w),
         y.at = "lists", w # <<>>
  PROVE  /\ x.at = "lists" /\ v = <<>> /\ Met(x, y) /\ (x.reviewed <=> y.reviewed)
         /\ Tail(w) = <<>> /\ Asks(y, w[1].body) = Asks(x, y.list)
<1>1. Listing(x, y, v, w)
  BY PhoneAt
<1>2. v = <<>> /\ Met(x, y) /\ (x.reviewed <=> y.reviewed) /\ Of(w, "list", x.list) /\ x.at = "lists"
  BY <1>1 DEF Listing
<1> QED BY <1>2, OneGoes, AsksAlike DEF Of

LEMMA PhoneReviews ==
  ASSUME NEW x \in Runs, NEW y \in Runs, NEW v \in Seq(Messages), NEW w \in Seq(Messages), Together(x, y, v, w),
         NEW s \in Runs, y.at = "lists", w # <<>>, Asks(y, w[1].body) # {}, Reviewer(y.mode) = Phone,
         s.at = "versions", Same(y, s), s.reviewed = y.reviewed, s.list = y.list
  PROVE  Together(x, s, v \o Message("list", y.list), Tail(w))
<1>1. /\ x.at = "lists" /\ v = <<>> /\ Met(x, y) /\ (x.reviewed <=> y.reviewed)
      /\ Tail(w) = <<>> /\ Asks(x, y.list) # {}
  BY PhoneHasList
<1>2. [kind |-> "list", body |-> y.list] \in Messages
  BY KindsAre DEF Runs
<1>3. PICK u \in Seq(Messages) : u = v \o Message("list", y.list) /\ Sent(v, u, "list", y.list)
  BY <1>2, SendIs
<1>4. Of(u, "list", y.list)
  BY <1>1, <1>3 DEF Sent, Of
<1>5. Listing(x, s, u, Tail(w))
  BY <1>1, <1>4 DEF Listing, Met, Same
<1> QED BY <1>3, <1>5 DEF Together

LEMMA PhoneWaits ==
  ASSUME NEW x \in Runs, NEW y \in Runs, NEW v \in Seq(Messages), NEW w \in Seq(Messages), Together(x, y, v, w),
         NEW s \in Runs, y.at = "lists", w # <<>>, Asks(y, w[1].body) # {}, Reviewer(y.mode) # Phone,
         s.at = "reviewed", Same(y, s), s.reviewed = y.reviewed, s.list = y.list, NEW body \in Tables
  PROVE  Together(x, s, v \o (Message("list", y.list) \o Message("rows", body)), Tail(w))
<1>1. /\ x.at = "lists" /\ v = <<>> /\ Met(x, y) /\ (x.reviewed <=> y.reviewed)
      /\ Tail(w) = <<>> /\ Asks(x, y.list) # {}
  BY PhoneHasList
<1>2. [kind |-> "list", body |-> y.list] \in Messages /\ [kind |-> "rows", body |-> body] \in Messages
  BY KindsAre DEF Runs
<1>3. PICK m \in Seq(Messages) : m = v \o Message("list", y.list) /\ Sent(v, m, "list", y.list)
  BY <1>2, SendIs
<1>4. PICK u \in Seq(Messages) : u = m \o Message("rows", body) /\ Sent(m, u, "rows", body)
  BY <1>2, SendIs
<1>5. Two(u, "list", "rows") /\ u[1].body = y.list
  BY <1>1, <1>3, <1>4 DEF Sent
<1>6. Message("list", y.list) \in Seq(Messages) /\ Message("rows", body) \in Seq(Messages)
  BY KindsAre DEF Runs
<1>7. u = v \o (Message("list", y.list) \o Message("rows", body))
  BY <1>1, <1>3, <1>4, <1>6, NoneAdded
<1>8. Reviewer(x.mode) = Desktop
  BY <1>1 DEF Reviewer, Met
<1>9. Listing(x, s, u, Tail(w))
  BY <1>1, <1>5, <1>8 DEF Listing, Met, Same
<1> QED BY <1>7, <1>9 DEF Together

LEMMA PhoneAsksNothing ==
  ASSUME NEW x \in Runs, NEW y \in Runs, NEW v \in Seq(Messages), NEW w \in Seq(Messages), Together(x, y, v, w),
         NEW s \in Runs, y.at = "lists", w # <<>>, Asks(y, w[1].body) = {},
         s.at = "rows", Same(y, s), s.reviewed = y.reviewed, s.list = y.list
  PROVE  Together(x, s, v \o Message("list", y.list), Tail(w))
<1>1. /\ x.at = "lists" /\ v = <<>> /\ Met(x, y) /\ (x.reviewed <=> y.reviewed)
      /\ Tail(w) = <<>> /\ Asks(x, y.list) = {}
  BY PhoneHasList
<1>2. [kind |-> "list", body |-> y.list] \in Messages
  BY KindsAre DEF Runs
<1>3. PICK u \in Seq(Messages) : u = v \o Message("list", y.list) /\ Sent(v, u, "list", y.list)
  BY <1>2, SendIs
<1>4. Of(u, "list", y.list)
  BY <1>1, <1>3 DEF Sent, Of
<1>5. Listing(x, s, u, Tail(w))
  BY <1>1, <1>4 DEF Listing, Met, Same
<1> QED BY <1>3, <1>5 DEF Together

\* The review: r reads the versions, decides, and the other reads that it did.
LEMMA VersionsRead ==
  ASSUME NEW r \in Runs, NEW q \in Runs, NEW v \in Seq(Messages), NEW w \in Seq(Messages), Reviewing(r, q, v, w),
         NEW s \in Runs, r.at = "versions", v # <<>>, s.at = "review", Same(r, s), s.reviewed = r.reviewed
  PROVE  Reviewing(s, q, Tail(v), w)
<1>1. Met(s, q) /\ q.at = "reviewed" /\ ~q.reviewed /\ ~s.reviewed /\ w = <<>> /\ One(v, "rows")
  BY DEF Reviewing, Met, Same
<1> QED BY <1>1, OneGoes DEF Reviewing

LEMMA Decides ==
  ASSUME NEW r \in Runs, NEW q \in Runs, NEW v \in Seq(Messages), NEW w \in Seq(Messages), Reviewing(r, q, v, w),
         NEW s \in Runs, r.at = "review", s.at = "compare", Same(r, s), s.reviewed = TRUE
  PROVE  Reviewing(s, q, v, w \o Message("reviewed", {}))
<1>1. Met(s, q) /\ q.at = "reviewed" /\ ~q.reviewed /\ s.reviewed /\ w = <<>> /\ v = <<>>
  BY DEF Reviewing, Met, Same
<1>2. [kind |-> "reviewed", body |-> {}] \in Messages
  BY KindsAre
<1>3. PICK u \in Seq(Messages) : u = w \o Message("reviewed", {}) /\ Sent(w, u, "reviewed", {})
  BY <1>2, SendIs
<1>4. Reviewing(s, q, v, u)
  BY <1>1, <1>3 DEF Reviewing, Sent
<1> QED BY <1>3, <1>4

LEMMA ReviewRead ==
  ASSUME NEW r \in Runs, NEW q \in Runs, NEW v \in Seq(Messages), NEW w \in Seq(Messages), Reviewing(r, q, v, w),
         NEW s \in Runs, w # <<>>, s.at = "compare", Same(q, s), s.reviewed = TRUE
  PROVE  Met(r, s) /\ (r.reviewed <=> s.reviewed) /\ Hashed(r, Tail(w)) /\ Hashed(s, v)
<1>1. Met(r, s) /\ r.reviewed /\ v = <<>>
  BY DEF Reviewing, Met, Same
<1>2. \/ r.at = "compare" /\ One(w, "reviewed")
      \/ r.at = "hashes" /\ Two(w, "reviewed", "hashes") /\ w[2].body = r.list
  BY DEF Reviewing
<1>3. Hashed(r, Tail(w))
  BY <1>2, OneGoes, TwoGo DEF Hashed, Of
<1> QED BY <1>1, <1>3 DEF Hashed

LEMMA DesktopReadsReview ==
  ASSUME NEW x \in Runs, NEW y \in Runs, NEW v \in Seq(Messages), NEW w \in Seq(Messages), Together(x, y, v, w),
         NEW s \in Runs, x.at = "reviewed", v # <<>>, s.at = "compare", Same(x, s), s.reviewed = TRUE
  PROVE  Together(s, y, Tail(v), w)
<1>1. Reviewing(y, x, w, v)
  BY DesktopAt
<1>2. Met(y, s) /\ (y.reviewed <=> s.reviewed) /\ Hashed(y, Tail(v)) /\ Hashed(s, w)
  BY <1>1, ReviewRead
<1>3. Comparing(s, y, Tail(v), w)
  BY <1>2 DEF Comparing, Met
<1> QED BY <1>3 DEF Together

LEMMA PhoneReadsReview ==
  ASSUME NEW x \in Runs, NEW y \in Runs, NEW v \in Seq(Messages), NEW w \in Seq(Messages), Together(x, y, v, w),
         NEW s \in Runs, y.at = "reviewed", w # <<>>, s.at = "compare", Same(y, s), s.reviewed = TRUE
  PROVE  Together(x, s, v, Tail(w))
<1>1. Reviewing(x, y, v, w)
  BY PhoneAt
<1>2. Met(x, s) /\ (x.reviewed <=> s.reviewed) /\ Hashed(x, Tail(w)) /\ Hashed(s, v)
  BY <1>1, ReviewRead
<1>3. Comparing(x, s, v, Tail(w))
  BY <1>2 DEF Comparing
<1> QED BY <1>3 DEF Together

\* The rows and the end.
LEMMA DesktopTakesRows ==
  ASSUME NEW x \in Runs, NEW y \in Runs, NEW v \in Seq(Messages), NEW w \in Seq(Messages), Together(x, y, v, w),
         NEW s \in Runs, x.at = "rows", v # <<>>, s.at = "apply", Same(x, s)
  PROVE  Together(s, y, Tail(v), w)
<1>1. Exchanging(x, y, v, w)
  BY DesktopAt
<1>2. Met(s, y) /\ y.at \in {"apply", "done"} /\ One(v, "rows") /\ w = <<>>
  BY <1>1 DEF Exchanging, Met, Same
<1>3. Exchanging(s, y, Tail(v), w)
  BY <1>2, OneGoes DEF Exchanging
<1> QED BY <1>3 DEF Together

LEMMA PhoneTakesRows ==
  ASSUME NEW x \in Runs, NEW y \in Runs, NEW v \in Seq(Messages), NEW w \in Seq(Messages), Together(x, y, v, w),
         NEW s \in Runs, y.at = "rows", w # <<>>, s.at = "apply", Same(y, s), NEW body \in Tables
  PROVE  Together(x, s, v \o Message("rows", body), Tail(w))
<1>1. Exchanging(x, y, v, w)
  BY PhoneAt
<1>2. Met(x, s) /\ x.at = "rows" /\ One(w, "rows") /\ v = <<>>
  BY <1>1 DEF Exchanging, Met, Same
<1>3. [kind |-> "rows", body |-> body] \in Messages
  BY KindsAre
<1>4. PICK u \in Seq(Messages) : u = v \o Message("rows", body) /\ Sent(v, u, "rows", body)
  BY <1>3, SendIs
<1>5. One(u, "rows") /\ Tail(w) = <<>>
  BY <1>2, <1>4, OneGoes DEF Sent
<1>6. Exchanging(x, s, u, Tail(w))
  BY <1>2, <1>5 DEF Exchanging
<1> QED BY <1>4, <1>6 DEF Together

LEMMA DesktopApplies ==
  ASSUME NEW x \in Runs, NEW y \in Runs, NEW v \in Seq(Messages), NEW w \in Seq(Messages), Together(x, y, v, w),
         NEW s \in Runs, x.at = "apply", s.at = "done", Same(x, s)
  PROVE  Together(s, y, v, w \o Message("done", s.list))
<1>1. Exchanging(x, y, v, w)
  BY DesktopAt
<1>2. Met(s, y) /\ y.at \in {"apply", "done"} /\ v = <<>> /\ w = <<>>
  BY <1>1 DEF Exchanging, Met, Same
<1>3. [kind |-> "done", body |-> s.list] \in Messages
  BY KindsAre DEF Runs
<1>4. PICK u \in Seq(Messages) : u = w \o Message("done", s.list) /\ Sent(w, u, "done", s.list)
  BY <1>3, SendIs
<1>5. Of(u, "done", s.list)
  BY <1>2, <1>4 DEF Sent, Of
<1>6. Exchanging(s, y, v, u)
  BY <1>2, <1>5 DEF Exchanging
<1> QED BY <1>4, <1>6 DEF Together

LEMMA PhoneApplies ==
  ASSUME NEW x \in Runs, NEW y \in Runs, NEW v \in Seq(Messages), NEW w \in Seq(Messages), Together(x, y, v, w),
         NEW s \in Runs, y.at = "apply", s.at = "done", Same(y, s)
  PROVE  Together(x, s, v, w)
<1>1. Exchanging(x, y, v, w)
  BY PhoneAt
<1>2. Exchanging(x, s, v, w)
  BY <1>1 DEF Exchanging, Met, Same
<1> QED BY <1>2 DEF Together

LEMMA DesktopIsDone ==
  ASSUME NEW x \in Runs, NEW y \in Runs, NEW v \in Seq(Messages), NEW w \in Seq(Messages), Together(x, y, v, w),
         NEW s \in Runs, x.at = "done", v # <<>>, s.at = "touch", Same(x, s)
  PROVE  Together(s, y, Tail(v), w)
<1>1. Exchanging(x, y, v, w)
  BY DesktopAt
<1>2. Met(s, y) /\ y.at = "touch" /\ One(v, "done") /\ w = <<>>
  BY <1>1 DEF Exchanging, Met, Same, Of
<1>3. Exchanging(s, y, Tail(v), w)
  BY <1>2, OneGoes DEF Exchanging
<1> QED BY <1>3 DEF Together

LEMMA PhoneIsDone ==
  ASSUME NEW x \in Runs, NEW y \in Runs, NEW v \in Seq(Messages), NEW w \in Seq(Messages), Together(x, y, v, w),
         NEW s \in Runs, y.at = "done", w # <<>>, s.at = "touch", Same(y, s), s.list = y.list
  PROVE  Together(x, s, v \o Message("done", y.list), Tail(w))
<1>1. Exchanging(x, y, v, w)
  BY PhoneAt
<1>2. Met(x, s) /\ x.at = "done" /\ One(w, "done") /\ v = <<>>
  BY <1>1 DEF Exchanging, Met, Same, Of
<1>3. [kind |-> "done", body |-> y.list] \in Messages
  BY KindsAre DEF Runs
<1>4. PICK u \in Seq(Messages) : u = v \o Message("done", y.list) /\ Sent(v, u, "done", y.list)
  BY <1>3, SendIs
<1>5. Of(u, "done", s.list) /\ Tail(w) = <<>>
  BY <1>2, <1>4, OneGoes DEF Sent, Of
<1>6. Exchanging(x, s, u, Tail(w))
  BY <1>2, <1>5 DEF Exchanging
<1> QED BY <1>4, <1>6 DEF Together

-----------------------------------------------------------------------------
(***************************************************************************)
(* The two sides work out the same next step each on its own.              *)
(***************************************************************************)

\* A step of one side alone.
LEMMA ScriptReads ==
  ASSUME NEW d \in Devices, NEW r \in Runs, NEW w \in Seq(Messages), Script(d, r, w), NEW s \in Runs
  PROVE  /\ r.at = "hello" /\ w # <<>> /\ s.at = AfterHello(d, s.own, w[1].body) /\ s.own.changes = r.own.changes
              /\ d = Phone => Script(d, s, Tail(w))
         /\ r.at = "hello" /\ w # <<>> /\ s.at \in {"compare", "currency"} /\ d = Desktop => Script(d, s, Tail(w))
         /\ r.at = "learn" /\ w # <<>> /\ s.at = "compare" => Script(d, s, Tail(w))
         /\ r.at = "hashes" /\ w # <<>> /\ w[1].body = r.list /\ s.at = "touch" => Script(d, s, Tail(w))
         /\ r.at = "hashes" /\ w # <<>> /\ s.at = "lists" => Script(d, s, Tail(w))
         /\ r.at = "versions" /\ w # <<>> /\ s.at = "review" => Script(d, s, Tail(w))
         /\ r.at = "reviewed" /\ w # <<>> /\ s.at = "compare" => Script(d, s, Tail(w))
         /\ r.at = "rows" /\ w # <<>> /\ s.at = "apply" => Script(d, s, Tail(w))
         /\ r.at = "done" /\ w # <<>> /\ s.at = "touch" => Script(d, s, Tail(w))
<1>1. ASSUME r.at = "hello", w # <<>>, s.at = AfterHello(d, s.own, w[1].body), s.own.changes = r.own.changes, d = Phone
      PROVE  Script(d, s, Tail(w))
  <2>1. s.at = IF s.own.changes = w[1].body.changes THEN "compare" ELSE "learn"
    BY <1>1, DevicesAre DEF AfterHello
  <2>2. \/ One(w, "hello")
        \/ w[1].body.changes = r.own.changes /\ Two(w, "hello", "hashes")
        \/ /\ w[1].body.changes # r.own.changes /\ w[2].body # <<>>
           /\ Two(w, "hello", "currency") \/ Three(w, "hello", "currency", "hashes")
    BY <1>1 DEF Script
  <2>3. CASE One(w, "hello")
    BY <1>1, <2>1, <2>3, OneGoes DEF Script
  <2>4. CASE w[1].body.changes = r.own.changes /\ Two(w, "hello", "hashes")
    BY <1>1, <2>1, <2>4, TwoGo DEF Script
  <2>5. CASE w[1].body.changes # r.own.changes /\ w[2].body # <<>> /\ Two(w, "hello", "currency")
    BY <1>1, <2>1, <2>5, TwoGo DEF Script
  <2>6. CASE w[1].body.changes # r.own.changes /\ w[2].body # <<>> /\ Three(w, "hello", "currency", "hashes")
    BY <1>1, <2>1, <2>6, ThreeGo DEF Script
  <2> QED BY <2>2, <2>3, <2>4, <2>5, <2>6
<1>2. ASSUME r.at = "hello", w # <<>>, s.at \in {"compare", "currency"}, d = Desktop
      PROVE  Script(d, s, Tail(w))
  <2>1. One(w, "hello")
    BY <1>2, DevicesAre DEF Script
  <2> QED BY <1>2, <2>1, OneGoes DEF Script
<1>3. ASSUME r.at = "learn", w # <<>>, s.at = "compare"
      PROVE  Script(d, s, Tail(w))
  <2>1. One(w, "currency") \/ Two(w, "currency", "hashes")
    BY <1>3 DEF Script
  <2> QED BY <1>3, <2>1, OneGoes, TwoGo DEF Script
<1>4. ASSUME r.at = "hashes", w # <<>>, w[1].body = r.list, s.at = "touch"
      PROVE  Script(d, s, Tail(w))
  <2>1. One(w, "hashes")
    BY <1>4 DEF Script
  <2> QED BY <1>4, <2>1, OneGoes DEF Script
<1>5. ASSUME r.at = "hashes", w # <<>>, s.at = "lists"
      PROVE  Script(d, s, Tail(w))
  <2>1. One(w, "hashes") \/ Two(w, "hashes", "list")
    BY <1>5 DEF Script
  <2> QED BY <1>5, <2>1, OneGoes, TwoGo DEF Script
<1>6. ASSUME r.at = "versions", w # <<>>, s.at = "review"
      PROVE  Script(d, s, Tail(w))
  <2>1. One(w, "rows")
    BY <1>6 DEF Script
  <2> QED BY <1>6, <2>1, OneGoes DEF Script
<1>7. ASSUME r.at = "reviewed", w # <<>>, s.at = "compare"
      PROVE  Script(d, s, Tail(w))
  <2>1. One(w, "reviewed") \/ Two(w, "reviewed", "hashes")
    BY <1>7 DEF Script
  <2> QED BY <1>7, <2>1, OneGoes, TwoGo DEF Script
<1>8. ASSUME r.at = "rows", w # <<>>, s.at = "apply"
      PROVE  Script(d, s, Tail(w))
  <2>1. One(w, "rows")
    BY <1>8 DEF Script
  <2> QED BY <1>8, <2>1, OneGoes DEF Script
<1>9. ASSUME r.at = "done", w # <<>>, s.at = "touch"
      PROVE  Script(d, s, Tail(w))
  <2>1. One(w, "done")
    BY <1>9 DEF Script
  <2> QED BY <1>9, <2>1, OneGoes DEF Script
<1> QED BY <1>1, <1>2, <1>3, <1>4, <1>5, <1>6, <1>7, <1>8, <1>9

LEMMA ScriptReadsList ==
  ASSUME NEW d \in Devices, NEW r \in Runs, NEW w \in Seq(Messages), Script(d, r, w), NEW s \in Runs,
         r.at = "lists", w # <<>>
  PROVE  /\ Asks(r, w[1].body) # {} /\ Reviewer(r.mode) = d /\ s.at = "versions" => Script(d, s, Tail(w))
         /\ Asks(r, w[1].body) # {} /\ Reviewer(r.mode) # d /\ s.at = "reviewed" => Script(d, s, Tail(w))
         /\ Asks(r, w[1].body) = {} /\ s.at = "rows" => Script(d, s, Tail(w))
<1>1. \/ One(w, "list")
      \/ Two(w, "list", "rows") /\ Asks(r, w[1].body) # {} /\ Reviewer(r.mode) = d
  BY DEF Script
<1>2. CASE One(w, "list")
  <2>1. Tail(w) = <<>>
    BY <1>2, OneGoes
  <2> QED BY <2>1 DEF Script
<1>3. CASE Two(w, "list", "rows") /\ Asks(r, w[1].body) # {} /\ Reviewer(r.mode) = d
  <2>1. One(Tail(w), "rows")
    BY <1>3, TwoGo
  <2> QED BY <1>3, <2>1 DEF Script
<1> QED BY <1>1, <1>2, <1>3

LEMMA ScriptStays ==
  ASSUME NEW d \in Devices, NEW r \in Runs, NEW w \in Seq(Messages), Script(d, r, w), NEW s \in Runs
  PROVE  /\ r.at = "currency" /\ s.at = "compare" => Script(d, s, w)
         /\ r.at = "compare" /\ s.at = "hashes" => Script(d, s, w)
         /\ r.at = "review" /\ s.at = "compare" => Script(d, s, w)
         /\ r.at = "apply" /\ s.at = "done" => Script(d, s, w)
BY DEF Script

\* One side goes on.
LEMMA GoesOn ==
  ASSUME TypeInv', StepInv, NEW d \in Devices, run'[Other(d)] = run[Other(d)],
         At(Other(d), "rest") => wire'[Other(d)] = wire[Other(d)],
         Script(d, run'[d], wire'[d]),
         ~At(Other(d), "rest") => Together(run'[Desktop], run'[Phone], wire'[Desktop], wire'[Phone]),
         changes'[Other(d)] = changes[Other(d)],
         run'[d].at = "currency" => run'[d].theirs.changes < Len(changes'[d])
  PROVE  StepInv'
<1> DEFINE e == Other(d)
<1>1. e \in Devices /\ e # d /\ Devices = {d, e} /\ {d, e} = {Desktop, Phone}
  BY DevicesAre DEF Devices
<1>2. run'[Desktop] \in Runs /\ run'[Phone] \in Runs /\ wire'[Desktop] \in Seq(Messages) /\ wire'[Phone] \in Seq(Messages)
  BY DevicesAre DEF TypeInv
<1>3. CASE At(e, "rest")
  <2>1. Script(e, run'[e], wire'[e])
    BY <1>1, <1>3 DEF StepInv
  <2>2. \A f \in Devices : Script(f, run'[f], wire'[f])
    BY <1>1, <2>1
  <2>3. run'[e].at = "rest"
    BY <1>3 DEF At
  <2>4. run'[Desktop].at = "rest" \/ run'[Phone].at = "rest"
    BY <1>1, <2>3
  <2>5. \A f \in Devices : run'[f].at = "currency" => run'[f].theirs.changes < Len(changes'[f])
    BY <1>1, <2>3
  <2> QED BY <2>2, <2>4, <2>5 DEF StepInv, At
<1>4. CASE ~At(e, "rest")
  <2>1. Together(run'[Desktop], run'[Phone], wire'[Desktop], wire'[Phone])
    BY <1>4
  <2>2. Script(Desktop, run'[Desktop], wire'[Desktop]) /\ Script(Phone, run'[Phone], wire'[Phone])
    BY <1>2, <2>1, SidesFollow
  <2>3. \A f \in Devices : Script(f, run'[f], wire'[f])
    BY <2>2, DevicesAre
  <2>4. run[e].at = "currency" => run[e].theirs.changes < Len(changes[e])
    BY <1>1 DEF StepInv, At
  <2>5. \A f \in Devices : run'[f].at = "currency" => run'[f].theirs.changes < Len(changes'[f])
    BY <1>1, <2>4
  <2> QED BY <2>1, <2>3, <2>5 DEF StepInv, At
<1> QED BY <1>3, <1>4

\* One side leaves.
LEMMA Leaves ==
  ASSUME TypeInv', StepInv, NEW d \in Devices, run'[d] = Resting, run'[Other(d)] = run[Other(d)],
         wire'[d] = <<>>, Script(Other(d), run[Other(d)], wire'[Other(d)]), changes' = changes
  PROVE  StepInv'
<1> DEFINE e == Other(d)
<1>1. e \in Devices /\ e # d /\ Devices = {d, e} /\ {d, e} = {Desktop, Phone}
  BY DevicesAre DEF Devices
<1>2. run'[d].at = "rest"
  BY RestingIs
<1>3. Script(d, run'[d], wire'[d])
  BY <1>2 DEF Script
<1>4. \A f \in Devices : Script(f, run'[f], wire'[f])
  BY <1>1, <1>3
<1>5. run'[Desktop].at = "rest" \/ run'[Phone].at = "rest"
  BY <1>1, <1>2
<1>6. run[e].at = "currency" => run[e].theirs.changes < Len(changes[e])
  BY <1>1 DEF StepInv, At
<1>7. \A f \in Devices : run'[f].at = "currency" => run'[f].theirs.changes < Len(changes'[f])
  BY <1>1, <1>2, <1>6
<1> QED BY <1>4, <1>5, <1>7 DEF StepInv, At

LEMMA PairIs ==
  ASSUME TypeInv, StepInv, NEW d \in Devices
  PROVE  /\ run[Desktop] \in Runs /\ run[Phone] \in Runs /\ run[d] \in Runs
         /\ wire[Desktop] \in Seq(Messages) /\ wire[Phone] \in Seq(Messages) /\ wire[d] \in Seq(Messages)
         /\ Script(d, run[d], wire[d])
         /\ ~At(Desktop, "rest") /\ ~At(Phone, "rest") =>
              Together(run[Desktop], run[Phone], wire[Desktop], wire[Phone])
<1>1. Desktop \in Devices /\ Phone \in Devices
  BY DevicesAre
<1> QED BY <1>1, SidesAre DEF StepInv

\* One side reads a message, or not, and sends messages, or none.
LEMMA TalksOn ==
  ASSUME TypeInv, NEW d \in Devices, NEW took \in BOOLEAN, took => wire[d] # <<>>,
         NEW sent \in Seq(Messages), Talk(d, took, sent), run'[Other(d)] = run[Other(d)]
  PROVE  /\ took => wire'[d] = Tail(wire[d])
         /\ ~took => wire'[d] = wire[d]
         /\ At(Other(d), "rest") => wire'[Other(d)] = wire[Other(d)]
         /\ d = Desktop /\ ~At(Phone, "rest") => wire'[Phone] = wire[Phone] \o sent /\ run'[Phone] = run[Phone]
         /\ d = Phone /\ ~At(Desktop, "rest") => wire'[Desktop] = wire[Desktop] \o sent /\ run'[Desktop] = run[Desktop]
         /\ sent = <<>> => wire'[Other(d)] = wire[Other(d)]
<1>1. /\ took => wire'[d] = Tail(wire[d])
      /\ ~took => wire'[d] = wire[d]
      /\ At(Other(d), "rest") => wire'[Other(d)] = wire[Other(d)]
      /\ ~At(Other(d), "rest") => wire'[Other(d)] = wire[Other(d)] \o sent
      /\ sent = <<>> => wire'[Other(d)] = wire[Other(d)]
  BY TalkIs
<1>2. (d = Desktop => Other(d) = Phone) /\ (d = Phone => Other(d) = Desktop)
  BY DevicesAre
<1> QED BY <1>1, <1>2

LEMMA CompareSteps ==
  ASSUME TypeInv, StepInv, NEW d \in Devices, Compare(d)
  PROVE  StepInv'
<1>1. /\ TypeInv' /\ At(d, "compare") /\ changes' = changes /\ run'[Other(d)] = run[Other(d)]
      /\ Talk(d, FALSE, Message("hashes", List(rows[d]))) /\ Same(run[d], run'[d])
      /\ run'[d].at = "hashes" /\ run'[d].list = List(rows[d]) /\ run'[d].reviewed = run[d].reviewed
  BY CompareIs DEF Quiet, KeepsHello, Same
<1>2. Message("hashes", List(rows[d])) \in Seq(Messages)
  BY SidesAre, ListIs, KindsAre
<1>4. /\ wire'[d] = wire[d]
      /\ At(Other(d), "rest") => wire'[Other(d)] = wire[Other(d)]
      /\ d = Desktop /\ ~At(Phone, "rest") => wire'[Phone] = wire[Phone] \o (Message("hashes", List(rows[d]))) /\ run'[Phone] = run[Phone]
      /\ d = Phone /\ ~At(Desktop, "rest") => wire'[Desktop] = wire[Desktop] \o (Message("hashes", List(rows[d]))) /\ run'[Desktop] = run[Desktop]
      /\ Message("hashes", List(rows[d])) = <<>> => wire'[Other(d)] = wire[Other(d)]
  BY <1>1, <1>2, TalksOn
<1>5. run'[d] \in Runs
  BY <1>1, DevicesAre DEF TypeInv
<1>6. Script(d, run'[d], wire'[d])
  BY <1>1, <1>4, <1>5, PairIs, ScriptStays DEF At
<1>7. ASSUME d = Desktop, ~At(Phone, "rest")
      PROVE  Together(run'[Desktop], run'[Phone], wire'[Desktop], wire'[Phone])
  <2>1. Together(run[Desktop], run[Phone], wire[Desktop], wire[Phone])
    BY <1>1, <1>7, PairIs DEF At
  <2>2. /\ run[Desktop] \in Runs /\ run[Phone] \in Runs /\ run'[Desktop] \in Runs
        /\ wire[Desktop] \in Seq(Messages) /\ wire[Phone] \in Seq(Messages)
    BY <1>5, <1>7, PairIs
  <2>3. Together(run'[Desktop], run[Phone], wire[Desktop], wire[Phone] \o Message("hashes", run'[Desktop].list))
    BY <1>1, <1>7, <2>1, <2>2, DesktopCompares DEF At
  <2>4. Message("hashes", List(rows[d])) = Message("hashes", run'[Desktop].list)
    BY <1>1, <1>7, DevicesAre
  <2> QED BY <1>4, <1>7, <2>3, <2>4, DevicesAre
<1>8. ASSUME d = Phone, ~At(Desktop, "rest")
      PROVE  Together(run'[Desktop], run'[Phone], wire'[Desktop], wire'[Phone])
  <2>1. Together(run[Desktop], run[Phone], wire[Desktop], wire[Phone])
    BY <1>1, <1>8, PairIs DEF At
  <2>2. /\ run[Phone] \in Runs /\ run[Desktop] \in Runs /\ run'[Phone] \in Runs
        /\ wire[Desktop] \in Seq(Messages) /\ wire[Phone] \in Seq(Messages)
    BY <1>5, <1>8, PairIs
  <2>3. Together(run[Desktop], run'[Phone], wire[Desktop] \o Message("hashes", run'[Phone].list), wire[Phone])
    BY <1>1, <1>8, <2>1, <2>2, PhoneCompares DEF At
  <2>4. Message("hashes", List(rows[d])) = Message("hashes", run'[Phone].list)
    BY <1>1, <1>8, DevicesAre
  <2> QED BY <1>4, <1>8, <2>3, <2>4, DevicesAre
<1>9. ~At(Other(d), "rest") => Together(run'[Desktop], run'[Phone], wire'[Desktop], wire'[Phone])
  BY <1>7, <1>8, DevicesAre
<1> QED BY <1>1, <1>4, <1>6, <1>9, GoesOn

LEMMA HashesEqual ==
  ASSUME TypeInv, StepInv, NEW d \in Devices, TakeHashes(d), Arriving(d) = run[d].list
  PROVE  StepInv'
<1>1. /\ TypeInv' /\ At(d, "hashes") /\ Arrived(d) /\ changes' = changes /\ run'[Other(d)] = run[Other(d)]
      /\ Talk(d, TRUE, <<>>) /\ Same(run[d], run'[d])
      /\ run'[d].at = "touch" /\ run'[d].list = run[d].list /\ run'[d].reviewed = run[d].reviewed
  BY TakeHashesEnds DEF Quiet, KeepsHello, Same
<1>2. <<>> \in Seq(Messages)
  BY NoneIs
<1>3. wire[d] # <<>> /\ Arriving(d) = wire[d][1].body
  BY <1>1, ArrivedIs
<1>4. /\ wire'[d] = Tail(wire[d])
      /\ At(Other(d), "rest") => wire'[Other(d)] = wire[Other(d)]
      /\ d = Desktop /\ ~At(Phone, "rest") => wire'[Phone] = wire[Phone] \o (<<>>) /\ run'[Phone] = run[Phone]
      /\ d = Phone /\ ~At(Desktop, "rest") => wire'[Desktop] = wire[Desktop] \o (<<>>) /\ run'[Desktop] = run[Desktop]
      /\ <<>> = <<>> => wire'[Other(d)] = wire[Other(d)]
  BY <1>1, <1>2, <1>3, TalksOn
<1>5. run'[d] \in Runs
  BY <1>1, DevicesAre DEF TypeInv
<1>6. Script(d, run'[d], wire'[d])
  BY <1>1, <1>3, <1>4, <1>5, PairIs, ScriptReads DEF At
<1>7. ASSUME d = Desktop, ~At(Phone, "rest")
      PROVE  Together(run'[Desktop], run'[Phone], wire'[Desktop], wire'[Phone])
  <2>1. Together(run[Desktop], run[Phone], wire[Desktop], wire[Phone])
    BY <1>1, <1>7, PairIs DEF At
  <2>2. /\ run[Desktop] \in Runs /\ run[Phone] \in Runs /\ run'[Desktop] \in Runs
        /\ wire[Desktop] \in Seq(Messages) /\ wire[Phone] \in Seq(Messages)
    BY <1>5, <1>7, PairIs
  <2>3. Together(run'[Desktop], run[Phone], Tail(wire[Desktop]), wire[Phone])
    BY <1>1, <1>3, <1>7, <2>1, <2>2, DesktopAgrees DEF At
  <2>4. <<>> = <<>>
    BY <1>1, <1>7, DevicesAre
  <2> QED BY <1>4, <1>7, <2>3, <2>4, DevicesAre
<1>8. ASSUME d = Phone, ~At(Desktop, "rest")
      PROVE  Together(run'[Desktop], run'[Phone], wire'[Desktop], wire'[Phone])
  <2>1. Together(run[Desktop], run[Phone], wire[Desktop], wire[Phone])
    BY <1>1, <1>8, PairIs DEF At
  <2>2. /\ run[Phone] \in Runs /\ run[Desktop] \in Runs /\ run'[Phone] \in Runs
        /\ wire[Desktop] \in Seq(Messages) /\ wire[Phone] \in Seq(Messages)
    BY <1>5, <1>8, PairIs
  <2>3. Together(run[Desktop], run'[Phone], wire[Desktop], Tail(wire[Phone]))
    BY <1>1, <1>3, <1>8, <2>1, <2>2, PhoneAgrees DEF At
  <2>4. <<>> = <<>>
    BY <1>1, <1>8, DevicesAre
  <2> QED BY <1>4, <1>8, <2>3, <2>4, DevicesAre
<1>9. ~At(Other(d), "rest") => Together(run'[Desktop], run'[Phone], wire'[Desktop], wire'[Phone])
  BY <1>7, <1>8, DevicesAre
<1> QED BY <1>1, <1>4, <1>6, <1>9, GoesOn

LEMMA HashesDiffer ==
  ASSUME TypeInv, StepInv, NEW d \in Devices, TakeHashes(d), Arriving(d) # run[d].list
  PROVE  StepInv'
<1>1. /\ TypeInv' /\ At(d, "hashes") /\ Arrived(d) /\ changes' = changes /\ run'[Other(d)] = run[Other(d)]
      /\ Talk(d, TRUE, ListFirst(d)) /\ Same(run[d], run'[d])
      /\ run'[d].at = "lists" /\ run'[d].list = run[d].list /\ run'[d].reviewed = run[d].reviewed
  BY TakeHashesGoesOn DEF Quiet, KeepsHello, Same
<1>2. ListFirst(d) \in Seq(Messages)
  BY SidesAre, KindsAre, NoneIs DEF Runs, ListFirst
<1>3. wire[d] # <<>> /\ Arriving(d) = wire[d][1].body
  BY <1>1, ArrivedIs
<1>4. /\ wire'[d] = Tail(wire[d])
      /\ At(Other(d), "rest") => wire'[Other(d)] = wire[Other(d)]
      /\ d = Desktop /\ ~At(Phone, "rest") => wire'[Phone] = wire[Phone] \o (ListFirst(d)) /\ run'[Phone] = run[Phone]
      /\ d = Phone /\ ~At(Desktop, "rest") => wire'[Desktop] = wire[Desktop] \o (ListFirst(d)) /\ run'[Desktop] = run[Desktop]
      /\ ListFirst(d) = <<>> => wire'[Other(d)] = wire[Other(d)]
  BY <1>1, <1>2, <1>3, TalksOn
<1>5. run'[d] \in Runs
  BY <1>1, DevicesAre DEF TypeInv
<1>6. Script(d, run'[d], wire'[d])
  BY <1>1, <1>3, <1>4, <1>5, PairIs, ScriptReads DEF At
<1>7. ASSUME d = Desktop, ~At(Phone, "rest")
      PROVE  Together(run'[Desktop], run'[Phone], wire'[Desktop], wire'[Phone])
  <2>1. Together(run[Desktop], run[Phone], wire[Desktop], wire[Phone])
    BY <1>1, <1>7, PairIs DEF At
  <2>2. /\ run[Desktop] \in Runs /\ run[Phone] \in Runs /\ run'[Desktop] \in Runs
        /\ wire[Desktop] \in Seq(Messages) /\ wire[Phone] \in Seq(Messages)
    BY <1>5, <1>7, PairIs
  <2>3. Together(run'[Desktop], run[Phone], Tail(wire[Desktop]), wire[Phone] \o Message("list", run[Desktop].list))
    BY <1>1, <1>3, <1>7, <2>1, <2>2, DesktopLists DEF At
  <2>4. ListFirst(d) = Message("list", run[Desktop].list)
    BY <1>1, <1>7, DevicesAre DEF ListFirst
  <2> QED BY <1>4, <1>7, <2>3, <2>4, DevicesAre
<1>8. ASSUME d = Phone, ~At(Desktop, "rest")
      PROVE  Together(run'[Desktop], run'[Phone], wire'[Desktop], wire'[Phone])
  <2>1. Together(run[Desktop], run[Phone], wire[Desktop], wire[Phone])
    BY <1>1, <1>8, PairIs DEF At
  <2>2. /\ run[Phone] \in Runs /\ run[Desktop] \in Runs /\ run'[Phone] \in Runs
        /\ wire[Desktop] \in Seq(Messages) /\ wire[Phone] \in Seq(Messages)
    BY <1>5, <1>8, PairIs
  <2>3. Together(run[Desktop], run'[Phone], wire[Desktop], Tail(wire[Phone]))
    BY <1>1, <1>3, <1>8, <2>1, <2>2, PhoneLists DEF At
  <2>4. ListFirst(d) = <<>>
    BY <1>1, <1>8, DevicesAre DEF ListFirst
  <2> QED BY <1>4, <1>8, <2>3, <2>4, DevicesAre
<1>9. ~At(Other(d), "rest") => Together(run'[Desktop], run'[Phone], wire'[Desktop], wire'[Phone])
  BY <1>7, <1>8, DevicesAre
<1> QED BY <1>1, <1>4, <1>6, <1>9, GoesOn

LEMMA DesktopReadsVersions ==
  ASSUME NEW x \in Runs, NEW y \in Runs, NEW v \in Seq(Messages), NEW w \in Seq(Messages), Together(x, y, v, w),
         NEW s \in Runs, x.at = "versions", v # <<>>, s.at = "review", Same(x, s), s.reviewed = x.reviewed
  PROVE  Together(s, y, Tail(v), w)
<1>1. Reviewing(x, y, v, w)
  BY DesktopAt
<1>2. Reviewing(s, y, Tail(v), w)
  BY <1>1, VersionsRead
<1> QED BY <1>2 DEF Together

LEMMA PhoneReadsVersions ==
  ASSUME NEW x \in Runs, NEW y \in Runs, NEW v \in Seq(Messages), NEW w \in Seq(Messages), Together(x, y, v, w),
         NEW s \in Runs, y.at = "versions", w # <<>>, s.at = "review", Same(y, s), s.reviewed = y.reviewed
  PROVE  Together(x, s, v, Tail(w))
<1>1. Reviewing(y, x, w, v)
  BY PhoneAt
<1>2. Reviewing(s, x, Tail(w), v)
  BY <1>1, VersionsRead
<1> QED BY <1>2 DEF Together

LEMMA DesktopDecides ==
  ASSUME NEW x \in Runs, NEW y \in Runs, NEW v \in Seq(Messages), NEW w \in Seq(Messages), Together(x, y, v, w),
         NEW s \in Runs, x.at = "review", s.at = "compare", Same(x, s), s.reviewed = TRUE
  PROVE  Together(s, y, v, w \o Message("reviewed", {}))
<1>1. Reviewing(x, y, v, w)
  BY DesktopAt
<1>2. Reviewing(s, y, v, w \o Message("reviewed", {}))
  BY <1>1, Decides
<1> QED BY <1>2 DEF Together

LEMMA PhoneDecides ==
  ASSUME NEW x \in Runs, NEW y \in Runs, NEW v \in Seq(Messages), NEW w \in Seq(Messages), Together(x, y, v, w),
         NEW s \in Runs, y.at = "review", s.at = "compare", Same(y, s), s.reviewed = TRUE
  PROVE  Together(x, s, v \o Message("reviewed", {}), w)
<1>1. Reviewing(y, x, w, v)
  BY PhoneAt
<1>2. Reviewing(s, x, w, v \o Message("reviewed", {}))
  BY <1>1, Decides
<1> QED BY <1>2 DEF Together

LEMMA NoneJoins ==
  ASSUME NEW a \in Seq(Messages)
  PROVE  <<>> \o a = a /\ a \o <<>> = a
OBVIOUS

LEMMA ListsReviewed ==
  ASSUME TypeInv, StepInv, NEW d \in Devices, TakeLists(d), ToAsk(d) # {}, d = Reviewer(run[d].mode)
  PROVE  StepInv'
<1>1. /\ TypeInv' /\ At(d, "lists") /\ Arrived(d) /\ changes' = changes /\ run'[Other(d)] = run[Other(d)]
      /\ Talk(d, TRUE, ListThen(d)) /\ Same(run[d], run'[d])
      /\ run'[d].at = "versions" /\ run'[d].list = run[d].list /\ run'[d].reviewed = run[d].reviewed
  BY TakeListsReviews DEF Quiet, KeepsHello, Same
<1>2. ListThen(d) \in Seq(Messages)
  BY SidesAre, KindsAre, NoneIs DEF Runs, ListThen
<1>3. wire[d] # <<>> /\ Arriving(d) = wire[d][1].body
  BY <1>1, ArrivedIs
<1>4. /\ wire'[d] = Tail(wire[d])
      /\ At(Other(d), "rest") => wire'[Other(d)] = wire[Other(d)]
      /\ d = Desktop /\ ~At(Phone, "rest") => wire'[Phone] = wire[Phone] \o (ListThen(d)) /\ run'[Phone] = run[Phone]
      /\ d = Phone /\ ~At(Desktop, "rest") => wire'[Desktop] = wire[Desktop] \o (ListThen(d)) /\ run'[Desktop] = run[Desktop]
      /\ ListThen(d) = <<>> => wire'[Other(d)] = wire[Other(d)]
  BY <1>1, <1>2, <1>3, TalksOn
<1>5. run'[d] \in Runs
  BY <1>1, DevicesAre DEF TypeInv
<1>6. Script(d, run'[d], wire'[d])
  BY <1>1, <1>3, <1>4, <1>5, PairIs, ScriptReadsList DEF At, ToAsk
<1>7. ASSUME d = Desktop, ~At(Phone, "rest")
      PROVE  Together(run'[Desktop], run'[Phone], wire'[Desktop], wire'[Phone])
  <2>1. Together(run[Desktop], run[Phone], wire[Desktop], wire[Phone])
    BY <1>1, <1>7, PairIs DEF At
  <2>2. /\ run[Desktop] \in Runs /\ run[Phone] \in Runs /\ run'[Desktop] \in Runs
        /\ wire[Desktop] \in Seq(Messages) /\ wire[Phone] \in Seq(Messages)
    BY <1>5, <1>7, PairIs
  <2>3. Together(run'[Desktop], run[Phone], Tail(wire[Desktop]), wire[Phone])
    BY <1>1, <1>3, <1>7, <2>1, <2>2, DesktopReviews DEF At, ToAsk
  <2>4. ListThen(d) = <<>>
    BY <1>1, <1>7, DevicesAre DEF ListThen
  <2> QED BY <1>4, <1>7, <2>3, <2>4, DevicesAre
<1>8. ASSUME d = Phone, ~At(Desktop, "rest")
      PROVE  Together(run'[Desktop], run'[Phone], wire'[Desktop], wire'[Phone])
  <2>1. Together(run[Desktop], run[Phone], wire[Desktop], wire[Phone])
    BY <1>1, <1>8, PairIs DEF At
  <2>2. /\ run[Phone] \in Runs /\ run[Desktop] \in Runs /\ run'[Phone] \in Runs
        /\ wire[Desktop] \in Seq(Messages) /\ wire[Phone] \in Seq(Messages)
    BY <1>5, <1>8, PairIs
  <2>3. Together(run[Desktop], run'[Phone], wire[Desktop] \o Message("list", run[Phone].list), Tail(wire[Phone]))
    BY <1>1, <1>3, <1>8, <2>1, <2>2, PhoneReviews DEF At, ToAsk
  <2>4. ListThen(d) = Message("list", run[Phone].list)
    BY <1>1, <1>8, DevicesAre DEF ListThen
  <2> QED BY <1>4, <1>8, <2>3, <2>4, DevicesAre
<1>9. ~At(Other(d), "rest") => Together(run'[Desktop], run'[Phone], wire'[Desktop], wire'[Phone])
  BY <1>7, <1>8, DevicesAre
<1> QED BY <1>1, <1>4, <1>6, <1>9, GoesOn

LEMMA ListsAwaited ==
  ASSUME TypeInv, StepInv, NEW d \in Devices, TakeLists(d), ToAsk(d) # {}, d # Reviewer(run[d].mode)
  PROVE  StepInv'
<1>1. /\ TypeInv' /\ At(d, "lists") /\ Arrived(d) /\ changes' = changes /\ run'[Other(d)] = run[Other(d)]
      /\ Talk(d, TRUE, (ListThen(d) \o Message("rows", Only(rows[d], ToAsk(d))))) /\ Same(run[d], run'[d])
      /\ run'[d].at = "reviewed" /\ run'[d].list = run[d].list /\ run'[d].reviewed = run[d].reviewed
      /\ Only(rows[d], ToAsk(d)) \in Tables
  BY TakeListsWaits, SidesAre, OnlyIs DEF Quiet, KeepsHello, Same
<1>2. (ListThen(d) \o Message("rows", Only(rows[d], ToAsk(d)))) \in Seq(Messages)
  BY AnswersAre
<1>3. wire[d] # <<>> /\ Arriving(d) = wire[d][1].body
  BY <1>1, ArrivedIs
<1>4. /\ wire'[d] = Tail(wire[d])
      /\ At(Other(d), "rest") => wire'[Other(d)] = wire[Other(d)]
      /\ d = Desktop /\ ~At(Phone, "rest") => wire'[Phone] = wire[Phone] \o ((ListThen(d) \o Message("rows", Only(rows[d], ToAsk(d))))) /\ run'[Phone] = run[Phone]
      /\ d = Phone /\ ~At(Desktop, "rest") => wire'[Desktop] = wire[Desktop] \o ((ListThen(d) \o Message("rows", Only(rows[d], ToAsk(d))))) /\ run'[Desktop] = run[Desktop]
      /\ (ListThen(d) \o Message("rows", Only(rows[d], ToAsk(d)))) = <<>> => wire'[Other(d)] = wire[Other(d)]
  BY <1>1, <1>2, <1>3, TalksOn
<1>5. run'[d] \in Runs
  BY <1>1, DevicesAre DEF TypeInv
<1>6. Script(d, run'[d], wire'[d])
  BY <1>1, <1>3, <1>4, <1>5, PairIs, ScriptReadsList DEF At, ToAsk
<1>7. ASSUME d = Desktop, ~At(Phone, "rest")
      PROVE  Together(run'[Desktop], run'[Phone], wire'[Desktop], wire'[Phone])
  <2>1. Together(run[Desktop], run[Phone], wire[Desktop], wire[Phone])
    BY <1>1, <1>7, PairIs DEF At
  <2>2. /\ run[Desktop] \in Runs /\ run[Phone] \in Runs /\ run'[Desktop] \in Runs
        /\ wire[Desktop] \in Seq(Messages) /\ wire[Phone] \in Seq(Messages)
    BY <1>5, <1>7, PairIs
  <2>3. Together(run'[Desktop], run[Phone], Tail(wire[Desktop]), wire[Phone] \o Message("rows", Only(rows[d], ToAsk(d))))
    BY <1>1, <1>3, <1>7, <2>1, <2>2, DesktopWaits DEF At, ToAsk
  <2>4. (ListThen(d) \o Message("rows", Only(rows[d], ToAsk(d)))) = Message("rows", Only(rows[d], ToAsk(d)))
    BY <1>1, <1>7, DevicesAre, KindsAre, NoneJoins DEF ListThen
  <2> QED BY <1>4, <1>7, <2>3, <2>4, DevicesAre
<1>8. ASSUME d = Phone, ~At(Desktop, "rest")
      PROVE  Together(run'[Desktop], run'[Phone], wire'[Desktop], wire'[Phone])
  <2>1. Together(run[Desktop], run[Phone], wire[Desktop], wire[Phone])
    BY <1>1, <1>8, PairIs DEF At
  <2>2. /\ run[Phone] \in Runs /\ run[Desktop] \in Runs /\ run'[Phone] \in Runs
        /\ wire[Desktop] \in Seq(Messages) /\ wire[Phone] \in Seq(Messages)
    BY <1>5, <1>8, PairIs
  <2>3. Together(run[Desktop], run'[Phone], wire[Desktop] \o (Message("list", run[Phone].list) \o Message("rows", Only(rows[d], ToAsk(d)))), Tail(wire[Phone]))
    BY <1>1, <1>3, <1>8, <2>1, <2>2, PhoneWaits DEF At, ToAsk
  <2>4. (ListThen(d) \o Message("rows", Only(rows[d], ToAsk(d)))) = (Message("list", run[Phone].list) \o Message("rows", Only(rows[d], ToAsk(d))))
    BY <1>1, <1>8, DevicesAre DEF ListThen
  <2> QED BY <1>4, <1>8, <2>3, <2>4, DevicesAre
<1>9. ~At(Other(d), "rest") => Together(run'[Desktop], run'[Phone], wire'[Desktop], wire'[Phone])
  BY <1>7, <1>8, DevicesAre
<1> QED BY <1>1, <1>4, <1>6, <1>9, GoesOn

LEMMA ListsSent ==
  ASSUME TypeInv, StepInv, NEW d \in Devices, TakeLists(d), ToAsk(d) = {}
  PROVE  StepInv'
<1>1. /\ TypeInv' /\ At(d, "lists") /\ Arrived(d) /\ changes' = changes /\ run'[Other(d)] = run[Other(d)]
      /\ Talk(d, TRUE, (ListThen(d) \o IF d = Desktop THEN Message("rows", Going(d)) ELSE <<>>)) /\ Same(run[d], run'[d])
      /\ run'[d].at = "rows" /\ run'[d].list = run[d].list /\ run'[d].reviewed = run[d].reviewed
      /\ Going(d) \in Tables
  BY TakeListsSends, AnswersAre DEF Quiet, KeepsHello, Same
<1>2. (ListThen(d) \o IF d = Desktop THEN Message("rows", Going(d)) ELSE <<>>) \in Seq(Messages)
  BY AnswersAre
<1>3. wire[d] # <<>> /\ Arriving(d) = wire[d][1].body
  BY <1>1, ArrivedIs
<1>4. /\ wire'[d] = Tail(wire[d])
      /\ At(Other(d), "rest") => wire'[Other(d)] = wire[Other(d)]
      /\ d = Desktop /\ ~At(Phone, "rest") => wire'[Phone] = wire[Phone] \o ((ListThen(d) \o IF d = Desktop THEN Message("rows", Going(d)) ELSE <<>>)) /\ run'[Phone] = run[Phone]
      /\ d = Phone /\ ~At(Desktop, "rest") => wire'[Desktop] = wire[Desktop] \o ((ListThen(d) \o IF d = Desktop THEN Message("rows", Going(d)) ELSE <<>>)) /\ run'[Desktop] = run[Desktop]
      /\ (ListThen(d) \o IF d = Desktop THEN Message("rows", Going(d)) ELSE <<>>) = <<>> => wire'[Other(d)] = wire[Other(d)]
  BY <1>1, <1>2, <1>3, TalksOn
<1>5. run'[d] \in Runs
  BY <1>1, DevicesAre DEF TypeInv
<1>6. Script(d, run'[d], wire'[d])
  BY <1>1, <1>3, <1>4, <1>5, PairIs, ScriptReadsList DEF At, ToAsk
<1>7. ASSUME d = Desktop, ~At(Phone, "rest")
      PROVE  Together(run'[Desktop], run'[Phone], wire'[Desktop], wire'[Phone])
  <2>1. Together(run[Desktop], run[Phone], wire[Desktop], wire[Phone])
    BY <1>1, <1>7, PairIs DEF At
  <2>2. /\ run[Desktop] \in Runs /\ run[Phone] \in Runs /\ run'[Desktop] \in Runs
        /\ wire[Desktop] \in Seq(Messages) /\ wire[Phone] \in Seq(Messages)
    BY <1>5, <1>7, PairIs
  <2>3. Together(run'[Desktop], run[Phone], Tail(wire[Desktop]), wire[Phone] \o Message("rows", Going(d)))
    BY <1>1, <1>3, <1>7, <2>1, <2>2, DesktopSendsRows DEF At, ToAsk
  <2>4. (ListThen(d) \o IF d = Desktop THEN Message("rows", Going(d)) ELSE <<>>) = Message("rows", Going(d))
    BY <1>1, <1>7, DevicesAre, KindsAre, NoneJoins DEF ListThen
  <2> QED BY <1>4, <1>7, <2>3, <2>4, DevicesAre
<1>8. ASSUME d = Phone, ~At(Desktop, "rest")
      PROVE  Together(run'[Desktop], run'[Phone], wire'[Desktop], wire'[Phone])
  <2>1. Together(run[Desktop], run[Phone], wire[Desktop], wire[Phone])
    BY <1>1, <1>8, PairIs DEF At
  <2>2. /\ run[Phone] \in Runs /\ run[Desktop] \in Runs /\ run'[Phone] \in Runs
        /\ wire[Desktop] \in Seq(Messages) /\ wire[Phone] \in Seq(Messages)
    BY <1>5, <1>8, PairIs
  <2>3. Together(run[Desktop], run'[Phone], wire[Desktop] \o Message("list", run[Phone].list), Tail(wire[Phone]))
    BY <1>1, <1>3, <1>8, <2>1, <2>2, PhoneAsksNothing DEF At, ToAsk
  <2>4. Message("list", run[Phone].list) \in Seq(Messages)
    BY <2>2, KindsAre DEF Runs
  <2>5. (ListThen(d) \o IF d = Desktop THEN Message("rows", Going(d)) ELSE <<>>) = Message("list", run[Phone].list)
    BY <1>1, <1>8, DevicesAre, <2>4, NoneJoins DEF ListThen
  <2> QED BY <1>4, <1>8, <2>3, <2>5, DevicesAre
<1>9. ~At(Other(d), "rest") => Together(run'[Desktop], run'[Phone], wire'[Desktop], wire'[Phone])
  BY <1>7, <1>8, DevicesAre
<1> QED BY <1>1, <1>4, <1>6, <1>9, GoesOn

LEMMA VersionsTaken ==
  ASSUME TypeInv, StepInv, NEW d \in Devices, TakeVersions(d)
  PROVE  StepInv'
<1>1. /\ TypeInv' /\ At(d, "versions") /\ Arrived(d) /\ changes' = changes /\ run'[Other(d)] = run[Other(d)]
      /\ Talk(d, TRUE, <<>>) /\ Same(run[d], run'[d])
      /\ run'[d].at = "review" /\ run'[d].reviewed = run[d].reviewed
  BY TakeVersionsIs DEF Quiet, KeepsHello, Same
<1>2. <<>> \in Seq(Messages)
  BY NoneIs
<1>3. wire[d] # <<>> /\ Arriving(d) = wire[d][1].body
  BY <1>1, ArrivedIs
<1>4. /\ wire'[d] = Tail(wire[d])
      /\ At(Other(d), "rest") => wire'[Other(d)] = wire[Other(d)]
      /\ d = Desktop /\ ~At(Phone, "rest") => wire'[Phone] = wire[Phone] \o (<<>>) /\ run'[Phone] = run[Phone]
      /\ d = Phone /\ ~At(Desktop, "rest") => wire'[Desktop] = wire[Desktop] \o (<<>>) /\ run'[Desktop] = run[Desktop]
      /\ <<>> = <<>> => wire'[Other(d)] = wire[Other(d)]
  BY <1>1, <1>2, <1>3, TalksOn
<1>5. run'[d] \in Runs
  BY <1>1, DevicesAre DEF TypeInv
<1>6. Script(d, run'[d], wire'[d])
  BY <1>1, <1>3, <1>4, <1>5, PairIs, ScriptReads DEF At
<1>7. ASSUME d = Desktop, ~At(Phone, "rest")
      PROVE  Together(run'[Desktop], run'[Phone], wire'[Desktop], wire'[Phone])
  <2>1. Together(run[Desktop], run[Phone], wire[Desktop], wire[Phone])
    BY <1>1, <1>7, PairIs DEF At
  <2>2. /\ run[Desktop] \in Runs /\ run[Phone] \in Runs /\ run'[Desktop] \in Runs
        /\ wire[Desktop] \in Seq(Messages) /\ wire[Phone] \in Seq(Messages)
    BY <1>5, <1>7, PairIs
  <2>3. Together(run'[Desktop], run[Phone], Tail(wire[Desktop]), wire[Phone])
    BY <1>1, <1>3, <1>7, <2>1, <2>2, DesktopReadsVersions DEF At
  <2>4. <<>> = <<>>
    BY <1>1, <1>7, DevicesAre
  <2> QED BY <1>4, <1>7, <2>3, <2>4, DevicesAre
<1>8. ASSUME d = Phone, ~At(Desktop, "rest")
      PROVE  Together(run'[Desktop], run'[Phone], wire'[Desktop], wire'[Phone])
  <2>1. Together(run[Desktop], run[Phone], wire[Desktop], wire[Phone])
    BY <1>1, <1>8, PairIs DEF At
  <2>2. /\ run[Phone] \in Runs /\ run[Desktop] \in Runs /\ run'[Phone] \in Runs
        /\ wire[Desktop] \in Seq(Messages) /\ wire[Phone] \in Seq(Messages)
    BY <1>5, <1>8, PairIs
  <2>3. Together(run[Desktop], run'[Phone], wire[Desktop], Tail(wire[Phone]))
    BY <1>1, <1>3, <1>8, <2>1, <2>2, PhoneReadsVersions DEF At
  <2>4. <<>> = <<>>
    BY <1>1, <1>8, DevicesAre
  <2> QED BY <1>4, <1>8, <2>3, <2>4, DevicesAre
<1>9. ~At(Other(d), "rest") => Together(run'[Desktop], run'[Phone], wire'[Desktop], wire'[Phone])
  BY <1>7, <1>8, DevicesAre
<1> QED BY <1>1, <1>4, <1>6, <1>9, GoesOn

LEMMA ReviewSteps ==
  ASSUME TypeInv, StepInv, NEW d \in Devices, Review(d)
  PROVE  StepInv'
<1>1. /\ TypeInv' /\ At(d, "review") /\ changes' = changes /\ run'[Other(d)] = run[Other(d)]
      /\ Talk(d, FALSE, Message("reviewed", {})) /\ Same(run[d], run'[d])
      /\ run'[d].at = "compare" /\ run'[d].reviewed = TRUE
  BY ReviewIs DEF Quiet, KeepsHello, Same
<1>2. Message("reviewed", {}) \in Seq(Messages)
  BY KindsAre
<1>4. /\ wire'[d] = wire[d]
      /\ At(Other(d), "rest") => wire'[Other(d)] = wire[Other(d)]
      /\ d = Desktop /\ ~At(Phone, "rest") => wire'[Phone] = wire[Phone] \o (Message("reviewed", {})) /\ run'[Phone] = run[Phone]
      /\ d = Phone /\ ~At(Desktop, "rest") => wire'[Desktop] = wire[Desktop] \o (Message("reviewed", {})) /\ run'[Desktop] = run[Desktop]
      /\ Message("reviewed", {}) = <<>> => wire'[Other(d)] = wire[Other(d)]
  BY <1>1, <1>2, TalksOn
<1>5. run'[d] \in Runs
  BY <1>1, DevicesAre DEF TypeInv
<1>6. Script(d, run'[d], wire'[d])
  BY <1>1, <1>4, <1>5, PairIs, ScriptStays DEF At
<1>7. ASSUME d = Desktop, ~At(Phone, "rest")
      PROVE  Together(run'[Desktop], run'[Phone], wire'[Desktop], wire'[Phone])
  <2>1. Together(run[Desktop], run[Phone], wire[Desktop], wire[Phone])
    BY <1>1, <1>7, PairIs DEF At
  <2>2. /\ run[Desktop] \in Runs /\ run[Phone] \in Runs /\ run'[Desktop] \in Runs
        /\ wire[Desktop] \in Seq(Messages) /\ wire[Phone] \in Seq(Messages)
    BY <1>5, <1>7, PairIs
  <2>3. Together(run'[Desktop], run[Phone], wire[Desktop], wire[Phone] \o Message("reviewed", {}))
    BY <1>1, <1>7, <2>1, <2>2, DesktopDecides DEF At
  <2>4. Message("reviewed", {}) = Message("reviewed", {})
    BY <1>1, <1>7, DevicesAre
  <2> QED BY <1>4, <1>7, <2>3, <2>4, DevicesAre
<1>8. ASSUME d = Phone, ~At(Desktop, "rest")
      PROVE  Together(run'[Desktop], run'[Phone], wire'[Desktop], wire'[Phone])
  <2>1. Together(run[Desktop], run[Phone], wire[Desktop], wire[Phone])
    BY <1>1, <1>8, PairIs DEF At
  <2>2. /\ run[Phone] \in Runs /\ run[Desktop] \in Runs /\ run'[Phone] \in Runs
        /\ wire[Desktop] \in Seq(Messages) /\ wire[Phone] \in Seq(Messages)
    BY <1>5, <1>8, PairIs
  <2>3. Together(run[Desktop], run'[Phone], wire[Desktop] \o Message("reviewed", {}), wire[Phone])
    BY <1>1, <1>8, <2>1, <2>2, PhoneDecides DEF At
  <2>4. Message("reviewed", {}) = Message("reviewed", {})
    BY <1>1, <1>8, DevicesAre
  <2> QED BY <1>4, <1>8, <2>3, <2>4, DevicesAre
<1>9. ~At(Other(d), "rest") => Together(run'[Desktop], run'[Phone], wire'[Desktop], wire'[Phone])
  BY <1>7, <1>8, DevicesAre
<1> QED BY <1>1, <1>4, <1>6, <1>9, GoesOn

LEMMA ReviewedTaken ==
  ASSUME TypeInv, StepInv, NEW d \in Devices, TakeReviewed(d)
  PROVE  StepInv'
<1>1. /\ TypeInv' /\ At(d, "reviewed") /\ Arrived(d) /\ changes' = changes /\ run'[Other(d)] = run[Other(d)]
      /\ Talk(d, TRUE, <<>>) /\ Same(run[d], run'[d])
      /\ run'[d].at = "compare" /\ run'[d].reviewed = TRUE
  BY TakeReviewedIs DEF Quiet, KeepsHello, Same
<1>2. <<>> \in Seq(Messages)
  BY NoneIs
<1>3. wire[d] # <<>> /\ Arriving(d) = wire[d][1].body
  BY <1>1, ArrivedIs
<1>4. /\ wire'[d] = Tail(wire[d])
      /\ At(Other(d), "rest") => wire'[Other(d)] = wire[Other(d)]
      /\ d = Desktop /\ ~At(Phone, "rest") => wire'[Phone] = wire[Phone] \o (<<>>) /\ run'[Phone] = run[Phone]
      /\ d = Phone /\ ~At(Desktop, "rest") => wire'[Desktop] = wire[Desktop] \o (<<>>) /\ run'[Desktop] = run[Desktop]
      /\ <<>> = <<>> => wire'[Other(d)] = wire[Other(d)]
  BY <1>1, <1>2, <1>3, TalksOn
<1>5. run'[d] \in Runs
  BY <1>1, DevicesAre DEF TypeInv
<1>6. Script(d, run'[d], wire'[d])
  BY <1>1, <1>3, <1>4, <1>5, PairIs, ScriptReads DEF At
<1>7. ASSUME d = Desktop, ~At(Phone, "rest")
      PROVE  Together(run'[Desktop], run'[Phone], wire'[Desktop], wire'[Phone])
  <2>1. Together(run[Desktop], run[Phone], wire[Desktop], wire[Phone])
    BY <1>1, <1>7, PairIs DEF At
  <2>2. /\ run[Desktop] \in Runs /\ run[Phone] \in Runs /\ run'[Desktop] \in Runs
        /\ wire[Desktop] \in Seq(Messages) /\ wire[Phone] \in Seq(Messages)
    BY <1>5, <1>7, PairIs
  <2>3. Together(run'[Desktop], run[Phone], Tail(wire[Desktop]), wire[Phone])
    BY <1>1, <1>3, <1>7, <2>1, <2>2, DesktopReadsReview DEF At
  <2>4. <<>> = <<>>
    BY <1>1, <1>7, DevicesAre
  <2> QED BY <1>4, <1>7, <2>3, <2>4, DevicesAre
<1>8. ASSUME d = Phone, ~At(Desktop, "rest")
      PROVE  Together(run'[Desktop], run'[Phone], wire'[Desktop], wire'[Phone])
  <2>1. Together(run[Desktop], run[Phone], wire[Desktop], wire[Phone])
    BY <1>1, <1>8, PairIs DEF At
  <2>2. /\ run[Phone] \in Runs /\ run[Desktop] \in Runs /\ run'[Phone] \in Runs
        /\ wire[Desktop] \in Seq(Messages) /\ wire[Phone] \in Seq(Messages)
    BY <1>5, <1>8, PairIs
  <2>3. Together(run[Desktop], run'[Phone], wire[Desktop], Tail(wire[Phone]))
    BY <1>1, <1>3, <1>8, <2>1, <2>2, PhoneReadsReview DEF At
  <2>4. <<>> = <<>>
    BY <1>1, <1>8, DevicesAre
  <2> QED BY <1>4, <1>8, <2>3, <2>4, DevicesAre
<1>9. ~At(Other(d), "rest") => Together(run'[Desktop], run'[Phone], wire'[Desktop], wire'[Phone])
  BY <1>7, <1>8, DevicesAre
<1> QED BY <1>1, <1>4, <1>6, <1>9, GoesOn

LEMMA RowsTaken ==
  ASSUME TypeInv, StepInv, NEW d \in Devices, TakeRows(d)
  PROVE  StepInv'
<1>1. /\ TypeInv' /\ At(d, "rows") /\ Arrived(d) /\ changes' = changes /\ run'[Other(d)] = run[Other(d)]
      /\ Talk(d, TRUE, RowsThen(d)) /\ Same(run[d], run'[d])
      /\ run'[d].at = "apply"
  BY TakeRowsIs DEF Quiet, KeepsHello, Same
<1>2. RowsThen(d) \in Seq(Messages)
  BY SidesAre, KindsAre, NoneIs DEF Runs, RowsThen
<1>3. wire[d] # <<>> /\ Arriving(d) = wire[d][1].body
  BY <1>1, ArrivedIs
<1>4. /\ wire'[d] = Tail(wire[d])
      /\ At(Other(d), "rest") => wire'[Other(d)] = wire[Other(d)]
      /\ d = Desktop /\ ~At(Phone, "rest") => wire'[Phone] = wire[Phone] \o (RowsThen(d)) /\ run'[Phone] = run[Phone]
      /\ d = Phone /\ ~At(Desktop, "rest") => wire'[Desktop] = wire[Desktop] \o (RowsThen(d)) /\ run'[Desktop] = run[Desktop]
      /\ RowsThen(d) = <<>> => wire'[Other(d)] = wire[Other(d)]
  BY <1>1, <1>2, <1>3, TalksOn
<1>5. run'[d] \in Runs
  BY <1>1, DevicesAre DEF TypeInv
<1>6. Script(d, run'[d], wire'[d])
  BY <1>1, <1>3, <1>4, <1>5, PairIs, ScriptReads DEF At
<1>7. ASSUME d = Desktop, ~At(Phone, "rest")
      PROVE  Together(run'[Desktop], run'[Phone], wire'[Desktop], wire'[Phone])
  <2>1. Together(run[Desktop], run[Phone], wire[Desktop], wire[Phone])
    BY <1>1, <1>7, PairIs DEF At
  <2>2. /\ run[Desktop] \in Runs /\ run[Phone] \in Runs /\ run'[Desktop] \in Runs
        /\ wire[Desktop] \in Seq(Messages) /\ wire[Phone] \in Seq(Messages)
    BY <1>5, <1>7, PairIs
  <2>3. Together(run'[Desktop], run[Phone], Tail(wire[Desktop]), wire[Phone])
    BY <1>1, <1>3, <1>7, <2>1, <2>2, DesktopTakesRows DEF At
  <2>4. RowsThen(d) = <<>>
    BY <1>1, <1>7, DevicesAre DEF RowsThen
  <2> QED BY <1>4, <1>7, <2>3, <2>4, DevicesAre
<1>8. ASSUME d = Phone, ~At(Desktop, "rest")
      PROVE  Together(run'[Desktop], run'[Phone], wire'[Desktop], wire'[Phone])
  <2>1. Together(run[Desktop], run[Phone], wire[Desktop], wire[Phone])
    BY <1>1, <1>8, PairIs DEF At
  <2>2. /\ run[Phone] \in Runs /\ run[Desktop] \in Runs /\ run'[Phone] \in Runs
        /\ wire[Desktop] \in Seq(Messages) /\ wire[Phone] \in Seq(Messages)
    BY <1>5, <1>8, PairIs
  <2>3. Together(run[Desktop], run'[Phone], wire[Desktop] \o Message("rows", run[Phone].out), Tail(wire[Phone]))
    BY <1>1, <1>3, <1>8, <2>1, <2>2, PhoneTakesRows DEF At, Runs
  <2>4. RowsThen(d) = Message("rows", run[Phone].out)
    BY <1>1, <1>8, DevicesAre DEF RowsThen
  <2> QED BY <1>4, <1>8, <2>3, <2>4, DevicesAre
<1>9. ~At(Other(d), "rest") => Together(run'[Desktop], run'[Phone], wire'[Desktop], wire'[Phone])
  BY <1>7, <1>8, DevicesAre
<1> QED BY <1>1, <1>4, <1>6, <1>9, GoesOn

LEMMA ApplySteps ==
  ASSUME TypeInv, StepInv, NEW d \in Devices, Apply(d), ~Refused(d)
  PROVE  StepInv'
<1>1. /\ TypeInv' /\ At(d, "apply") /\ changes' = changes /\ run'[Other(d)] = run[Other(d)]
      /\ Talk(d, FALSE, DoneFirst(d)) /\ Same(run[d], run'[d])
      /\ run'[d].at = "done" /\ run'[d].list = List(Merged(d))
  BY ApplyIs DEF Quiet, KeepsHello, Same
<1>2. DoneFirst(d) \in Seq(Messages)
  BY MergedIs, ListIs, KindsAre, NoneIs DEF DoneFirst
<1>4. /\ wire'[d] = wire[d]
      /\ At(Other(d), "rest") => wire'[Other(d)] = wire[Other(d)]
      /\ d = Desktop /\ ~At(Phone, "rest") => wire'[Phone] = wire[Phone] \o (DoneFirst(d)) /\ run'[Phone] = run[Phone]
      /\ d = Phone /\ ~At(Desktop, "rest") => wire'[Desktop] = wire[Desktop] \o (DoneFirst(d)) /\ run'[Desktop] = run[Desktop]
      /\ DoneFirst(d) = <<>> => wire'[Other(d)] = wire[Other(d)]
  BY <1>1, <1>2, TalksOn
<1>5. run'[d] \in Runs
  BY <1>1, DevicesAre DEF TypeInv
<1>6. Script(d, run'[d], wire'[d])
  BY <1>1, <1>4, <1>5, PairIs, ScriptStays DEF At
<1>7. ASSUME d = Desktop, ~At(Phone, "rest")
      PROVE  Together(run'[Desktop], run'[Phone], wire'[Desktop], wire'[Phone])
  <2>1. Together(run[Desktop], run[Phone], wire[Desktop], wire[Phone])
    BY <1>1, <1>7, PairIs DEF At
  <2>2. /\ run[Desktop] \in Runs /\ run[Phone] \in Runs /\ run'[Desktop] \in Runs
        /\ wire[Desktop] \in Seq(Messages) /\ wire[Phone] \in Seq(Messages)
    BY <1>5, <1>7, PairIs
  <2>3. Together(run'[Desktop], run[Phone], wire[Desktop], wire[Phone] \o Message("done", run'[Desktop].list))
    BY <1>1, <1>7, <2>1, <2>2, DesktopApplies DEF At
  <2>4. DoneFirst(d) = Message("done", run'[Desktop].list)
    BY <1>1, <1>7, DevicesAre DEF DoneFirst
  <2> QED BY <1>4, <1>7, <2>3, <2>4, DevicesAre
<1>8. ASSUME d = Phone, ~At(Desktop, "rest")
      PROVE  Together(run'[Desktop], run'[Phone], wire'[Desktop], wire'[Phone])
  <2>1. Together(run[Desktop], run[Phone], wire[Desktop], wire[Phone])
    BY <1>1, <1>8, PairIs DEF At
  <2>2. /\ run[Phone] \in Runs /\ run[Desktop] \in Runs /\ run'[Phone] \in Runs
        /\ wire[Desktop] \in Seq(Messages) /\ wire[Phone] \in Seq(Messages)
    BY <1>5, <1>8, PairIs
  <2>3. Together(run[Desktop], run'[Phone], wire[Desktop], wire[Phone])
    BY <1>1, <1>8, <2>1, <2>2, PhoneApplies DEF At
  <2>4. DoneFirst(d) = <<>>
    BY <1>1, <1>8, DevicesAre DEF DoneFirst
  <2> QED BY <1>4, <1>8, <2>3, <2>4, DevicesAre
<1>9. ~At(Other(d), "rest") => Together(run'[Desktop], run'[Phone], wire'[Desktop], wire'[Phone])
  BY <1>7, <1>8, DevicesAre
<1> QED BY <1>1, <1>4, <1>6, <1>9, GoesOn

LEMMA DoneTaken ==
  ASSUME TypeInv, StepInv, NEW d \in Devices, TakeDone(d)
  PROVE  StepInv'
<1>1. /\ TypeInv' /\ At(d, "done") /\ Arrived(d) /\ changes' = changes /\ run'[Other(d)] = run[Other(d)]
      /\ Talk(d, TRUE, DoneThen(d)) /\ Same(run[d], run'[d])
      /\ run'[d].at = "touch" /\ run'[d].list = run[d].list
  BY TakeDoneIs DEF Quiet, KeepsHello, Same
<1>2. DoneThen(d) \in Seq(Messages)
  BY SidesAre, KindsAre, NoneIs DEF Runs, DoneThen
<1>3. wire[d] # <<>> /\ Arriving(d) = wire[d][1].body
  BY <1>1, ArrivedIs
<1>4. /\ wire'[d] = Tail(wire[d])
      /\ At(Other(d), "rest") => wire'[Other(d)] = wire[Other(d)]
      /\ d = Desktop /\ ~At(Phone, "rest") => wire'[Phone] = wire[Phone] \o (DoneThen(d)) /\ run'[Phone] = run[Phone]
      /\ d = Phone /\ ~At(Desktop, "rest") => wire'[Desktop] = wire[Desktop] \o (DoneThen(d)) /\ run'[Desktop] = run[Desktop]
      /\ DoneThen(d) = <<>> => wire'[Other(d)] = wire[Other(d)]
  BY <1>1, <1>2, <1>3, TalksOn
<1>5. run'[d] \in Runs
  BY <1>1, DevicesAre DEF TypeInv
<1>6. Script(d, run'[d], wire'[d])
  BY <1>1, <1>3, <1>4, <1>5, PairIs, ScriptReads DEF At
<1>7. ASSUME d = Desktop, ~At(Phone, "rest")
      PROVE  Together(run'[Desktop], run'[Phone], wire'[Desktop], wire'[Phone])
  <2>1. Together(run[Desktop], run[Phone], wire[Desktop], wire[Phone])
    BY <1>1, <1>7, PairIs DEF At
  <2>2. /\ run[Desktop] \in Runs /\ run[Phone] \in Runs /\ run'[Desktop] \in Runs
        /\ wire[Desktop] \in Seq(Messages) /\ wire[Phone] \in Seq(Messages)
    BY <1>5, <1>7, PairIs
  <2>3. Together(run'[Desktop], run[Phone], Tail(wire[Desktop]), wire[Phone])
    BY <1>1, <1>3, <1>7, <2>1, <2>2, DesktopIsDone DEF At
  <2>4. DoneThen(d) = <<>>
    BY <1>1, <1>7, DevicesAre DEF DoneThen
  <2> QED BY <1>4, <1>7, <2>3, <2>4, DevicesAre
<1>8. ASSUME d = Phone, ~At(Desktop, "rest")
      PROVE  Together(run'[Desktop], run'[Phone], wire'[Desktop], wire'[Phone])
  <2>1. Together(run[Desktop], run[Phone], wire[Desktop], wire[Phone])
    BY <1>1, <1>8, PairIs DEF At
  <2>2. /\ run[Phone] \in Runs /\ run[Desktop] \in Runs /\ run'[Phone] \in Runs
        /\ wire[Desktop] \in Seq(Messages) /\ wire[Phone] \in Seq(Messages)
    BY <1>5, <1>8, PairIs
  <2>3. Together(run[Desktop], run'[Phone], wire[Desktop] \o Message("done", run[Phone].list), Tail(wire[Phone]))
    BY <1>1, <1>3, <1>8, <2>1, <2>2, PhoneIsDone DEF At
  <2>4. DoneThen(d) = Message("done", run[Phone].list)
    BY <1>1, <1>8, DevicesAre DEF DoneThen
  <2> QED BY <1>4, <1>8, <2>3, <2>4, DevicesAre
<1>9. ~At(Other(d), "rest") => Together(run'[Desktop], run'[Phone], wire'[Desktop], wire'[Phone])
  BY <1>7, <1>8, DevicesAre
<1> QED BY <1>1, <1>4, <1>6, <1>9, GoesOn

LEMMA SendCurrencySteps ==
  ASSUME TypeInv, StepInv, NEW d \in Devices, SendCurrency(d)
  PROVE  StepInv'
<1>1. /\ TypeInv' /\ At(d, "currency") /\ changes' = changes /\ run'[Other(d)] = run[Other(d)]
      /\ Talk(d, FALSE, Message("currency", Missing(d))) /\ Same(run[d], run'[d])
      /\ run'[d].at = "compare" /\ run'[d].reviewed = run[d].reviewed
  BY SendCurrencyIs DEF Quiet, KeepsHello, Same
<1>2. Missing(d) \in Seq(Stamp) /\ Missing(d) # <<>> /\ Message("currency", Missing(d)) \in Seq(Messages)
  <2>1. run[d].theirs.changes < Len(changes[d])
    BY <1>1 DEF StepInv
  <2>2. run[d].theirs.changes \in Nat /\ Len(changes[d]) \in Nat
    BY SidesAre DEF Runs, Hellos
  <2>3. Missing(d) \in Seq(Stamp) /\ Len(Missing(d)) = Len(changes[d]) - run[d].theirs.changes
    BY <2>1, <2>2, MissingIs
  <2>4. \A a, b \in Nat : a < b => b - a # 0
    OBVIOUS
  <2>5. Len(Missing(d)) # 0
    BY <2>1, <2>2, <2>3, <2>4
  <2>6. \A s \in Seq(Stamp) : Len(s) # 0 => s # <<>>
    OBVIOUS
  <2> QED BY <2>3, <2>5, <2>6, KindsAre
<1>3. /\ wire'[d] = wire[d]
      /\ At(Other(d), "rest") => wire'[Other(d)] = wire[Other(d)]
      /\ d = Desktop /\ ~At(Phone, "rest") =>
           wire'[Phone] = wire[Phone] \o Message("currency", Missing(d)) /\ run'[Phone] = run[Phone]
  BY <1>1, <1>2, TalksOn
<1>4. run'[d] \in Runs
  BY <1>1, DevicesAre DEF TypeInv
<1>5. Script(d, run'[d], wire'[d])
  BY <1>1, <1>3, <1>4, PairIs, ScriptStays DEF At
<1>6. d = Desktop
  BY <1>1, PairIs DEF Script, At
<1>7. ASSUME ~At(Phone, "rest")
      PROVE  Together(run'[Desktop], run'[Phone], wire'[Desktop], wire'[Phone])
  <2>1. Together(run[Desktop], run[Phone], wire[Desktop], wire[Phone])
    BY <1>1, <1>6, <1>7, PairIs DEF At
  <2>2. /\ run[Desktop] \in Runs /\ run[Phone] \in Runs /\ run'[Desktop] \in Runs
        /\ wire[Desktop] \in Seq(Messages) /\ wire[Phone] \in Seq(Messages)
    BY <1>4, <1>6, PairIs
  <2>3. Together(run'[Desktop], run[Phone], wire[Desktop], wire[Phone] \o Message("currency", Missing(d)))
    BY <1>1, <1>2, <1>6, <2>1, <2>2, DesktopSendsCurrency DEF At
  <2> QED BY <1>3, <1>6, <1>7, <2>3
<1>8. ~At(Other(d), "rest") => Together(run'[Desktop], run'[Phone], wire'[Desktop], wire'[Phone])
  BY <1>6, <1>7, DevicesAre
<1> QED BY <1>1, <1>3, <1>5, <1>8, GoesOn

\* What waits for the phone when it learns the changes of currency.
LEMMA CurrencyComes ==
  ASSUME TypeInv, StepInv, NEW d \in Devices, At(d, "learn"), Arrived(d)
  PROVE  d = Phone /\ wire[d] # <<>> /\ Arriving(d) = wire[d][1].body /\ Arriving(d) # <<>> /\ Arriving(d) \in Seq(Stamp)
<1>1. wire[d] # <<>> /\ Arriving(d) = wire[d][1].body /\ Arriving(d) \in Seq(Stamp)
  BY ArrivedIs
<1>2. Script(d, run[d], wire[d])
  BY PairIs
<1> QED BY <1>1, <1>2 DEF Script, At

LEMMA LearnCurrencySteps ==
  ASSUME TypeInv, StepInv, NEW d \in Devices, LearnCurrency(d), ~FarAhead(d)
  PROVE  StepInv'
<1>1. At(d, "learn") /\ Arrived(d)
  BY DEF LearnCurrency
<1>2. d = Phone /\ wire[d] # <<>> /\ Arriving(d) # <<>>
  BY <1>1, CurrencyComes
<1>3. /\ TypeInv' /\ changes'[Other(d)] = changes[Other(d)] /\ run'[Other(d)] = run[Other(d)]
      /\ Talk(d, TRUE, <<>>) /\ Same(run[d], run'[d])
      /\ run'[d].at = "compare" /\ run'[d].reviewed = run[d].reviewed
  BY <1>2, LearnCurrencyIs DEF KeepsHello, Same
<1>4. wire'[d] = Tail(wire[d]) /\ wire'[Other(d)] = wire[Other(d)]
  BY <1>2, <1>3, NoneIs, TalksOn
<1>5. run'[d] \in Runs
  BY <1>3, DevicesAre DEF TypeInv
<1>6. Script(d, run'[d], wire'[d])
  BY <1>1, <1>2, <1>3, <1>4, <1>5, PairIs, ScriptReads DEF At
<1>7. ASSUME ~At(Desktop, "rest")
      PROVE  Together(run'[Desktop], run'[Phone], wire'[Desktop], wire'[Phone])
  <2>1. Together(run[Desktop], run[Phone], wire[Desktop], wire[Phone])
    BY <1>1, <1>2, <1>7, PairIs DEF At
  <2>2. /\ run[Desktop] \in Runs /\ run[Phone] \in Runs /\ run'[Phone] \in Runs
        /\ wire[Desktop] \in Seq(Messages) /\ wire[Phone] \in Seq(Messages)
    BY <1>2, <1>5, PairIs
  <2>3. Together(run[Desktop], run'[Phone], wire[Desktop], Tail(wire[Phone]))
    BY <1>1, <1>2, <1>3, <2>1, <2>2, PhoneLearns DEF At
  <2> QED BY <1>2, <1>3, <1>4, <2>3, DevicesAre
<1>8. ~At(Other(d), "rest") => Together(run'[Desktop], run'[Phone], wire'[Desktop], wire'[Phone])
  BY <1>2, <1>7, DevicesAre
<1> QED BY <1>3, <1>4, <1>6, <1>8, GoesOn

LEMMA TakeHelloGoesOn ==
  ASSUME TypeInv, StepInv, NEW d \in Devices, TakeHello(d), ~Ends(d, TRUE, Greets(d))
  PROVE  StepInv'
<1>1. /\ TypeInv' /\ At(d, "hello") /\ Arrived(d) /\ changes' = changes /\ run'[Other(d)] = run[Other(d)]
      /\ Talk(d, TRUE, Greets(d)) /\ CurrencyAgrees(d, OwnHello(d), Arriving(d))
      /\ run'[d].at = AfterHello(d, OwnHello(d), Arriving(d))
      /\ run'[d].own = OwnHello(d) /\ run'[d].theirs = Arriving(d)
      /\ d = Desktop => run'[d].mode = run[d].mode
      /\ d = Phone => run'[d].mode = Arriving(d).mode
      /\ run'[d].reviewed = run[d].reviewed
  BY TakeHelloIs
<1>2. wire[d] # <<>> /\ Arriving(d) = wire[d][1].body /\ Arriving(d) \in Hellos
  BY <1>1, ArrivedIs
<1>3. OwnHello(d) \in Hellos /\ Greets(d) \in Seq(Messages)
  BY OwnHelloIs
<1>4. /\ wire'[d] = Tail(wire[d])
      /\ At(Other(d), "rest") => wire'[Other(d)] = wire[Other(d)]
      /\ d = Desktop /\ ~At(Phone, "rest") => wire'[Phone] = wire[Phone] \o Greets(d) /\ run'[Phone] = run[Phone]
      /\ Greets(d) = <<>> => wire'[Other(d)] = wire[Other(d)]
  BY <1>1, <1>2, <1>3, TalksOn
<1>5. run'[d] \in Runs /\ run[d].mode \in Modes
  BY <1>1, SidesAre DEF TypeInv, Runs
<1>6. Script(d, run'[d], wire'[d])
  <2>1. CASE d = Desktop
    <3>1. run'[d].at \in {"compare", "currency"}
      BY <1>1, <2>1 DEF AfterHello
    <3> QED BY <1>1, <1>2, <1>4, <1>5, <2>1, <3>1, PairIs, ScriptReads DEF At
  <2>2. CASE d = Phone
    <3>1. OwnHello(d) = run[d].own
      BY <2>2, DevicesAre DEF OwnHello
    <3>2. run'[d].at = AfterHello(d, run'[d].own, wire[d][1].body) /\ run'[d].own.changes = run[d].own.changes
      BY <1>1, <1>2, <3>1
    <3> QED BY <1>1, <1>2, <1>4, <1>5, <2>2, <3>2, PairIs, ScriptReads DEF At
  <2> QED BY <2>1, <2>2, DevicesAre
<1>7. ASSUME d = Desktop, ~At(Phone, "rest")
      PROVE  Together(run'[Desktop], run'[Phone], wire'[Desktop], wire'[Phone])
  <2>1. Together(run[Desktop], run[Phone], wire[Desktop], wire[Phone])
    BY <1>1, <1>7, PairIs DEF At
  <2>2. /\ run[Desktop] \in Runs /\ run[Phone] \in Runs /\ run'[Desktop] \in Runs
        /\ wire[Desktop] \in Seq(Messages) /\ wire[Phone] \in Seq(Messages)
    BY <1>5, <1>7, PairIs
  <2>3. OwnHello(d).mode = run'[Desktop].mode
    BY <1>1, <1>5, <1>7, HelloIs DEF OwnHello
  <2>4. Greets(d) = Message("hello", OwnHello(d))
    BY <1>7 DEF Greets
  <2>5. Together(run'[Desktop], run[Phone], Tail(wire[Desktop]), wire[Phone] \o Message("hello", OwnHello(d)))
    BY <1>1, <1>2, <1>3, <1>7, <2>1, <2>2, <2>3, DesktopGreets DEF At
  <2> QED BY <1>4, <1>7, <2>4, <2>5
<1>8. ASSUME d = Phone, ~At(Desktop, "rest")
      PROVE  Together(run'[Desktop], run'[Phone], wire'[Desktop], wire'[Phone])
  <2>1. Together(run[Desktop], run[Phone], wire[Desktop], wire[Phone])
    BY <1>1, <1>8, PairIs DEF At
  <2>2. /\ run[Desktop] \in Runs /\ run[Phone] \in Runs /\ run'[Phone] \in Runs
        /\ wire[Desktop] \in Seq(Messages) /\ wire[Phone] \in Seq(Messages)
    BY <1>5, <1>8, PairIs
  <2>3. OwnHello(d) = run[Phone].own /\ Greets(d) = <<>>
    BY <1>8, DevicesAre DEF OwnHello, Greets
  <2>4. Together(run[Desktop], run'[Phone], wire[Desktop], Tail(wire[Phone]))
    BY <1>1, <1>2, <1>8, <2>1, <2>2, <2>3, PhoneGreets DEF At
  <2> QED BY <1>1, <1>4, <1>8, <2>3, <2>4, DevicesAre
<1>9. ~At(Other(d), "rest") => Together(run'[Desktop], run'[Phone], wire'[Desktop], wire'[Phone])
  BY <1>7, <1>8, DevicesAre
<1>10. run'[d].at = "currency" => run'[d].theirs.changes < Len(changes'[d])
  <2> SUFFICES ASSUME run'[d].at = "currency"
               PROVE  run'[d].theirs.changes < Len(changes'[d])
    OBVIOUS
  <2>1. d = Desktop /\ OwnHello(d).changes # Arriving(d).changes
    BY <1>1 DEF AfterHello
  <2>2. OwnHello(d).changes = Len(changes[d])
    BY <1>5, <2>1, HelloIs DEF OwnHello
  <2>3. OwnHello(d).changes >= Arriving(d).changes
    BY <1>1, <2>1 DEF CurrencyAgrees
  <2>4. Arriving(d).changes \in Nat /\ Len(changes[d]) \in Nat
    BY <1>2, SidesAre DEF Hellos
  <2> QED BY <1>1, <2>1, <2>2, <2>3, <2>4
<1> QED BY <1>1, <1>4, <1>6, <1>9, <1>10, GoesOn

\* A side that leaves says nothing, or, when it refuses a hello, its own.
LEMMA QuietlyLeaves ==
  ASSUME TypeInv, TypeInv', StepInv, NEW d \in Devices, NEW took, Ends(d, took, <<>>), changes' = changes
  PROVE  StepInv'
<1>1. run'[d] = Resting /\ run'[Other(d)] = run[Other(d)] /\ wire'[d] = <<>> /\ wire'[Other(d)] = wire[Other(d)]
  BY NoneIs, EndsIs
<1>2. Script(Other(d), run[Other(d)], wire'[Other(d)])
  BY <1>1, DevicesAre DEF StepInv
<1> QED BY <1>1, <1>2, Leaves

LEMMA TakeHelloLeaves ==
  ASSUME TypeInv, StepInv, NEW d \in Devices, TakeHello(d), Ends(d, TRUE, Greets(d))
  PROVE  StepInv'
<1>1. TypeInv' /\ At(d, "hello") /\ Arrived(d) /\ changes' = changes
  BY TakeHelloIs
<1>2. CASE d = Phone
  <2>1. Greets(d) = <<>>
    BY <1>2, DevicesAre DEF Greets
  <2> QED BY <1>1, <2>1, QuietlyLeaves
<1>3. CASE d = Desktop
  <2>1. /\ run'[d] = Resting /\ run'[Phone] = run[Phone] /\ wire'[d] = <<>>
        /\ At(Phone, "rest") => wire'[Phone] = wire[Phone]
        /\ ~At(Phone, "rest") => wire'[Phone] = wire[Phone] \o Greets(d)
    BY <1>3, OwnHelloIs, EndsIs, DevicesAre
  <2>2. wire[d] # <<>>
    BY <1>1, ArrivedIs
  <2>3. ASSUME ~At(Phone, "rest")
        PROVE  Script(Phone, run[Phone], wire'[Phone])
    <3>1. Together(run[Desktop], run[Phone], wire[Desktop], wire[Phone])
      BY <1>1, <1>3, <2>3, PairIs DEF At
    <3>2. Calling(run[Desktop], run[Phone], wire[Desktop], wire[Phone])
      BY <1>1, <1>3, <3>1, PairIs, DesktopAt DEF At
    <3>3. run[Phone].at = "hello" /\ wire[Phone] = <<>>
      BY <3>2 DEF Calling
    <3>4. PICK u \in Seq(Messages) : /\ u = wire[Phone] \o Message("hello", OwnHello(d))
                                     /\ Sent(wire[Phone], u, "hello", OwnHello(d))
      BY OwnHelloIs, PairIs, SendIs
    <3>5. One(u, "hello") /\ u = wire'[Phone]
      BY <1>3, <2>1, <2>3, <3>3, <3>4 DEF Sent, Greets
    <3> QED BY <3>3, <3>5 DEF Script
  <2>4. At(Phone, "rest") => Script(Phone, run[Phone], wire'[Phone])
    BY <2>1, DevicesAre DEF StepInv
  <2>5. Other(d) = Phone /\ Script(Phone, run[Phone], wire'[Phone])
    BY <1>3, <2>3, <2>4, DevicesAre
  <2> QED BY <1>1, <2>1, <2>5, Leaves
<1> QED BY <1>2, <1>3, DevicesAre

\* What happens around the conversation.
LEMMA AroundKeepsSteps ==
  ASSUME StepInv, run' = run, wire' = wire, \A d \in Devices : Len(changes[d]) <= Len(changes'[d]),
         \A d \in Devices : Len(changes[d]) \in Nat /\ Len(changes'[d]) \in Nat /\ run[d].theirs.changes \in Nat
  PROVE  StepInv'
<1>1. \A d \in Devices : run[d].at = "currency" => run[d].theirs.changes < Len(changes'[d])
  BY DEF StepInv, At
<1>2. \A d \in Devices : run'[d].at = "currency" => run'[d].theirs.changes < Len(changes'[d])
  BY <1>1
<1>3. \A d \in Devices : Script(d, run'[d], wire'[d])
  BY DEF StepInv
<1>4. run'[Desktop].at # "rest" /\ run'[Phone].at # "rest" =>
        Together(run'[Desktop], run'[Phone], wire'[Desktop], wire'[Phone])
  BY DEF StepInv, At
<1> QED BY <1>2, <1>3, <1>4 DEF StepInv, At

LEMMA ChangesGrow ==
  ASSUME TypeInv, ChangeCurrency
  PROVE  \A d \in Devices : Len(changes[d]) <= Len(changes'[d])
<1>1. PICK s \in Stamp : changes'[Desktop] = Append(changes[Desktop], s)
  BY ChangeCurrencyIs
<1>2. changes[Desktop] \in Seq(Stamp) /\ Len(changes[Desktop]) \in Nat /\ Len(changes[Phone]) \in Nat
  BY SidesAre, DevicesAre
<1>3. \A c \in Seq(Stamp) : Len(Append(c, s)) = Len(c) + 1
  OBVIOUS
<1>4. Len(changes[Desktop]) <= Len(changes'[Desktop])
  BY <1>1, <1>2, <1>3
<1>5. changes'[Phone] = changes[Phone]
  BY ChangeCurrencyIs
<1> QED BY <1>2, <1>4, <1>5, DevicesAre

LEMMA StartSteps ==
  ASSUME TypeInv, StepInv, NEW mode \in habit, Start(mode)
  PROVE  StepInv'
<1>1. /\ TypeInv' /\ Idle /\ changes' = changes
      /\ wire'[Desktop] = Message("hello", Hello(Phone, "both")) /\ wire'[Phone] = wire[Phone]
      /\ [kind |-> "hello", body |-> Hello(Phone, "both")] \in Messages
      /\ \A d \in Devices : run'[d].at = "hello" /\ ~run'[d].reviewed
      /\ run'[Phone].own = Hello(Phone, "both")
  BY StartIs
<1>2. wire[Phone] = <<>>
  <2>1. Script(Phone, run[Phone], wire[Phone]) /\ run[Phone].at = "rest"
    BY <1>1, DevicesAre DEF StepInv, Idle, At
  <2> QED BY <2>1 DEF Script
<1>3. PICK u \in Seq(Messages) : /\ u = <<>> \o Message("hello", Hello(Phone, "both"))
                                 /\ Sent(<<>>, u, "hello", Hello(Phone, "both"))
  BY <1>1, NoneIs, SendIs
<1>4. Message("hello", Hello(Phone, "both")) \in Seq(Messages)
  BY <1>1, NoneIs, AddedIs
<1>5. Of(wire'[Desktop], "hello", run'[Phone].own)
  BY <1>1, <1>3, <1>4, NoneJoins DEF Sent, Of
<1>6. /\ run'[Desktop].at = "hello" /\ run'[Phone].at = "hello"
      /\ ~run'[Desktop].reviewed /\ ~run'[Phone].reviewed
  BY <1>1, DevicesAre
<1>7. Together(run'[Desktop], run'[Phone], wire'[Desktop], wire'[Phone])
  BY <1>1, <1>2, <1>5, <1>6 DEF Together, Calling, Fresh
<1>8. /\ run'[Desktop] \in Runs /\ run'[Phone] \in Runs
      /\ wire'[Desktop] \in Seq(Messages) /\ wire'[Phone] \in Seq(Messages)
  BY <1>1, DevicesAre DEF TypeInv
<1>9. Script(Desktop, run'[Desktop], wire'[Desktop]) /\ Script(Phone, run'[Phone], wire'[Phone])
  BY <1>7, <1>8, SidesFollow
<1>10. \A d \in Devices : Script(d, run'[d], wire'[d])
  BY <1>9, DevicesAre
<1>11. \A d \in Devices : run'[d].at # "currency"
  BY <1>1
<1> QED BY <1>7, <1>10, <1>11 DEF StepInv, At

-----------------------------------------------------------------------------
(***************************************************************************)
(* Every step keeps the types and the conversation.                        *)
(***************************************************************************)
LEMMA OneStepKeeps ==
  ASSUME FlowInv, NEW d \in Devices, Step(d) \/ Fail(d)
  PROVE  FlowInv'
<1> USE DEF FlowInv
<1>1. ASSUME Ends(d, FALSE, <<>>), Quiet PROVE FlowInv'
  <2>1. TypeInv' /\ changes' = changes
    BY <1>1, EndsQuietly DEF Quiet
  <2> QED BY <1>1, <2>1, QuietlyLeaves
<1>2. CASE TakeHello(d)
  BY <1>2, TakeHelloIs, TakeHelloGoesOn, TakeHelloLeaves
<1>3. CASE SendCurrency(d)
  BY <1>3, SendCurrencyIs, SendCurrencySteps
<1>4. CASE LearnCurrency(d)
  <2>1. At(d, "learn") /\ Arrived(d)
    BY <1>4 DEF LearnCurrency
  <2>2. Arriving(d) # <<>>
    BY <2>1, CurrencyComes
  <2>3. CASE FarAhead(d)
    <3>1. Ends(d, TRUE, <<>>) /\ Quiet /\ TypeInv'
      BY <1>4, <2>3, LearnCurrencyEnds
    <3>2. changes' = changes
      BY <3>1 DEF Quiet
    <3> QED BY <3>1, <3>2, QuietlyLeaves
  <2>4. CASE ~FarAhead(d)
    BY <1>4, <2>2, <2>4, LearnCurrencyIs, LearnCurrencySteps
  <2> QED BY <2>3, <2>4
<1>5. CASE Compare(d)
  BY <1>5, CompareIs, CompareSteps
<1>6. CASE TakeHashes(d)
  BY <1>6, TakeHashesEnds, TakeHashesGoesOn, HashesEqual, HashesDiffer
<1>7. CASE TakeLists(d)
  BY <1>7, TakeListsReviews, TakeListsWaits, TakeListsSends, ListsReviewed, ListsAwaited, ListsSent
<1>8. CASE TakeVersions(d)
  BY <1>8, TakeVersionsIs, VersionsTaken
<1>9. CASE Review(d)
  BY <1>9, ReviewIs, ReviewSteps
<1>10. CASE TakeReviewed(d)
  BY <1>10, TakeReviewedIs, ReviewedTaken
<1>11. CASE TakeRows(d)
  BY <1>11, TakeRowsIs, RowsTaken
<1>12. CASE Apply(d)
  <2>1. CASE Refused(d)
    BY <1>1, <1>12, <2>1, ApplyRefuses
  <2>2. CASE ~Refused(d)
    BY <1>12, <2>2, ApplyIs, ApplySteps
  <2> QED BY <2>1, <2>2
<1>13. CASE TakeDone(d)
  BY <1>13, TakeDoneIs, DoneTaken
<1>14. CASE Touch(d)
  <2>1. TypeInv' /\ changes' = changes
    BY <1>14, TouchIs
  <2>2. Ends(d, FALSE, <<>>)
    BY <1>14 DEF Touch
  <2> QED BY <2>1, <2>2, QuietlyLeaves
<1>15. CASE PeerGone(d)
  BY <1>1, <1>15 DEF PeerGone, Quiet
<1>16. CASE Fail(d)
  BY <1>1, <1>16 DEF Fail, Quiet
<1> QED BY <1>2, <1>3, <1>4, <1>5, <1>6, <1>7, <1>8, <1>9, <1>10, <1>11, <1>12, <1>13, <1>14, <1>15, <1>16 DEF Step

LEMMA NextKeeps == FlowInv /\ [Next]_vars => FlowInv'
<1> SUFFICES ASSUME FlowInv, [Next]_vars
             PROVE  FlowInv'
  OBVIOUS
<1> USE DEF FlowInv
<1>0. \A d \in Devices : Len(changes[d]) \in Nat /\ run[d].theirs.changes \in Nat
  BY SidesAre DEF Runs, Hellos
<1>1. ASSUME TypeInv', run' = run, wire' = wire, \A d \in Devices : Len(changes[d]) <= Len(changes'[d])
      PROVE  FlowInv'
  <2>1. \A d \in Devices : Len(changes'[d]) \in Nat
    BY <1>1 DEF TypeInv
  <2> QED BY <1>0, <1>1, <2>1, AroundKeepsSteps
<1>2. CASE Pass
  <2>1. TypeInv' /\ run' = run /\ wire' = wire /\ changes' = changes
    BY <1>2, PassIs
  <2> QED BY <1>0, <1>1, <2>1
<1>3. CASE ChangeCurrency
  <2>1. TypeInv' /\ run' = run /\ wire' = wire
    BY <1>3, ChangeCurrencyIs DEF Outside
  <2> QED BY <1>1, <1>3, <2>1, ChangesGrow
<1>4. ASSUME NEW mode \in habit, Start(mode) PROVE FlowInv'
  BY <1>4, StartIs, StartSteps
<1>5. ASSUME NEW d \in Devices, NEW i \in Written, Edit(d, i) PROVE FlowInv'
  <2>1. i \in Items
    BY DEF Written
  <2>2. TypeInv' /\ run' = run /\ wire' = wire /\ changes' = changes
    BY <1>5, <2>1, EditIs DEF Outside
  <2> QED BY <1>0, <1>1, <2>2
<1>6. ASSUME NEW d \in Devices, Step(d) \/ Fail(d) PROVE FlowInv'
  BY <1>6, OneStepKeeps
<1>7. CASE UNCHANGED vars
  <2>1. TypeInv' /\ run' = run /\ wire' = wire /\ changes' = changes
    BY <1>7 DEF TypeInv, vars, Wall
  <2> QED BY <1>0, <1>1, <2>1
<1> QED BY <1>2, <1>3, <1>4, <1>5, <1>6, <1>7 DEF Next

LEMMA FlowBegins == Init \/ InitMet => FlowInv
<1> SUFFICES ASSUME Init \/ InitMet
             PROVE  FlowInv
  OBVIOUS
<1>1. TypeInv
  BY BeginIs
<1>2. \A d \in Devices : run[d] = Resting /\ wire[d] = <<>>
  BY DEF Init, InitMet
<1>3. \A d \in Devices : run[d].at = "rest"
  BY <1>2, RestingIs
<1>4. \A d \in Devices : Script(d, run[d], wire[d])
  BY <1>2, <1>3 DEF Script
<1> QED BY <1>1, <1>3, <1>4, DevicesAre DEF FlowInv, StepInv, At

\* The types of the conversation, for two devices that were just paired or met before.
THEOREM FlowTypes == (Spec => []TypeInv) /\ (SpecMet => []TypeInv)
<1>1. FlowInv => TypeInv
  BY DEF FlowInv
<1> QED BY <1>1, FlowBegins, NextKeeps, PTL DEF Spec, SpecMet

LEMMA ScriptHeads ==
  ASSUME NEW d \in Devices, NEW r \in Runs, NEW w \in Seq(Messages), Script(d, r, w), w # <<>>,
         r.at \in DOMAIN WaitsFor
  PROVE  w[1].kind = WaitsFor[r.at]
<1>1. r.at \in {"hello", "learn", "hashes", "lists", "versions", "reviewed", "rows", "done"}
  BY DEF WaitsFor
<1>2. /\ r.at = "hello" => w[1].kind = "hello" /\ WaitsFor[r.at] = "hello"
      /\ r.at = "learn" => w[1].kind = "currency" /\ WaitsFor[r.at] = "currency"
      /\ r.at = "hashes" => w[1].kind = "hashes" /\ WaitsFor[r.at] = "hashes"
      /\ r.at = "lists" => w[1].kind = "list" /\ WaitsFor[r.at] = "list"
      /\ r.at = "versions" => w[1].kind = "rows" /\ WaitsFor[r.at] = "rows"
      /\ r.at = "reviewed" => w[1].kind = "reviewed" /\ WaitsFor[r.at] = "reviewed"
      /\ r.at = "rows" => w[1].kind = "rows" /\ WaitsFor[r.at] = "rows"
      /\ r.at = "done" => w[1].kind = "done" /\ WaitsFor[r.at] = "done"
  BY DEF Script, One, Two, Three, WaitsFor
<1> QED BY <1>1, <1>2

LEMMA SomebodySpeaks ==
  ASSUME NEW x \in Runs, NEW y \in Runs, NEW v \in Seq(Messages), NEW w \in Seq(Messages), Together(x, y, v, w),
         v = <<>>, w = <<>>, x.at \in DOMAIN WaitsFor, y.at \in DOMAIN WaitsFor
  PROVE  FALSE
<1>1. Len(v) = 0 /\ Len(w) = 0
  BY EmptyIs
<1>2. \A k : ~One(v, k) /\ ~One(w, k)
  BY <1>1 DEF One
<1>3. \A k, l : ~Two(v, k, l) /\ ~Two(w, k, l)
  BY <1>1 DEF Two
<1>4. \A k, l, m : ~Three(v, k, l, m) /\ ~Three(w, k, l, m)
  BY <1>1 DEF Three
<1>5. DOMAIN WaitsFor = {"hello", "learn", "hashes", "lists", "versions", "reviewed", "rows", "done"}
  BY DEF WaitsFor
<1>6. ~Calling(x, y, v, w)
  BY <1>2 DEF Calling, Of
<1>7. ~Greeting(x, y, v, w)
  BY <1>2, <1>3, <1>4 DEF Greeting
<1>8. ~Learning(x, y, v, w)
  BY <1>2, <1>3, <1>5 DEF Learning
<1>9. ~Comparing(x, y, v, w)
  BY <1>2, <1>3, <1>5 DEF Comparing, Hashed, Of
<1>10. ~Listing(x, y, v, w)
  BY <1>2, <1>3 DEF Listing, Of
<1>11. ~Reviewing(x, y, v, w)
  BY <1>2, <1>3, <1>5 DEF Reviewing
<1>12. ~Reviewing(y, x, w, v)
  BY <1>2, <1>3, <1>5 DEF Reviewing
<1>13. ~Exchanging(x, y, v, w)
  BY <1>2, <1>3, <1>5 DEF Exchanging, Of
<1> QED BY <1>6, <1>7, <1>8, <1>9, <1>10, <1>11, <1>12, <1>13 DEF Together

LEMMA FlowIsInStep == FlowInv => InStep
<1> SUFFICES ASSUME TypeInv, StepInv
             PROVE  InStep
  BY DEF FlowInv
<1>1. ASSUME NEW d \in Devices, Waiting(d), wire[d] # <<>>
      PROVE  Arrived(d)
  <2>1. Script(d, run[d], wire[d]) /\ run[d] \in Runs /\ wire[d] \in Seq(Messages)
    BY SidesAre DEF StepInv
  <2>2. wire[d][1].kind = WaitsFor[run[d].at]
    BY <1>1, <2>1, ScriptHeads DEF Waiting
  <2>3. Head(wire[d]) = wire[d][1]
    BY <1>1, <2>1, TailIs
  <2> QED BY <1>1, <2>2, <2>3 DEF Arrived
<1>2. ASSUME \A d \in Devices : Waiting(d) /\ wire[d] = <<>>
      PROVE  FALSE
  <2>1. /\ run[Desktop].at \in DOMAIN WaitsFor /\ run[Phone].at \in DOMAIN WaitsFor
        /\ wire[Desktop] = <<>> /\ wire[Phone] = <<>>
    BY <1>2, DevicesAre DEF Waiting
  <2>2. run[Desktop].at # "rest" /\ run[Phone].at # "rest"
    BY <2>1 DEF WaitsFor
  <2>3. /\ Together(run[Desktop], run[Phone], wire[Desktop], wire[Phone])
        /\ run[Desktop] \in Runs /\ run[Phone] \in Runs
        /\ wire[Desktop] \in Seq(Messages) /\ wire[Phone] \in Seq(Messages)
    BY <2>2, PairIs, DevicesAre DEF At
  <2> QED BY <2>1, <2>3, SomebodySpeaks
<1> QED BY <1>1, <1>2 DEF InStep

\* The two sides of a sync work out the same next step each on its own, whatever
\* is written meanwhile and wherever the sync breaks off (InStep, the safety part
\* of EverySyncEnds): no message finds the other at a step it does not belong to,
\* and the two never both wait (flow.rs, whose Protocol error this excludes).
THEOREM FlowStaysInStep == (Spec => []InStep) /\ (SpecMet => []InStep)
BY FlowIsInStep, FlowBegins, NextKeeps, PTL DEF Spec, SpecMet

-----------------------------------------------------------------------------
(***************************************************************************)
(* The messages on a wire, as a set.                                       *)
(***************************************************************************)

LEMMA MsgsAre ==
  ASSUME NEW w \in Seq(Messages)
  PROVE  /\ Msgs(w) \subseteq Messages /\ Msgs(<<>>) = {}
         /\ w # <<>> => w[1] \in Msgs(w) /\ Msgs(Tail(w)) \subseteq Msgs(w)
         /\ \A k : One(w, k) => Msgs(w) = {w[1]}
         /\ \A k, l : Two(w, k, l) => Msgs(w) = {w[1], w[2]}
<1>1. \A n \in 1..Len(w) : w[n] \in Messages
  OBVIOUS
<1>2. Msgs(<<>>) = {}
  BY NoneIs DEF Msgs
<1>3. w # <<>> => w[1] \in Msgs(w) /\ Msgs(Tail(w)) \subseteq Msgs(w)
  <2> SUFFICES ASSUME w # <<>>
               PROVE  w[1] \in Msgs(w) /\ Msgs(Tail(w)) \subseteq Msgs(w)
    OBVIOUS
  <2>1. Len(w) \in Nat \ {0} /\ Len(Tail(w)) = Len(w) - 1 /\ \A n \in 1..Len(w) - 1 : Tail(w)[n] = w[n + 1]
    BY TailIs
  <2>2. 1 \in 1..Len(w) /\ \A n \in 1..Len(w) - 1 : n + 1 \in 1..Len(w)
    BY <2>1
  <2> QED BY <2>1, <2>2 DEF Msgs
<1>4. ASSUME NEW k PROVE One(w, k) => Msgs(w) = {w[1]}
  <2>1. Len(w) = 1 => 1..Len(w) = {1}
    OBVIOUS
  <2> QED BY <2>1 DEF One, Msgs
<1>5. ASSUME NEW k, NEW l PROVE Two(w, k, l) => Msgs(w) = {w[1], w[2]}
  <2>1. Len(w) = 2 => 1..Len(w) = {1, 2}
    OBVIOUS
  <2> QED BY <2>1 DEF Two, Msgs
<1>6. Msgs(w) \subseteq Messages
  BY <1>1 DEF Msgs
<1> QED BY <1>2, <1>3, <1>4, <1>5, <1>6

LEMMA MsgsJoin ==
  ASSUME NEW v \in Seq(Messages), NEW w \in Seq(Messages)
  PROVE  Msgs(v \o w) \subseteq Msgs(v) \cup Msgs(w)
<1> DEFINE u == v \o w
<1>1. /\ Len(v) \in Nat /\ Len(w) \in Nat /\ Len(u) = Len(v) + Len(w)
      /\ \A n \in 1..Len(v) : u[n] = v[n]
      /\ \A n \in 1..Len(u) : n \notin 1..Len(v) => u[n] = w[n - Len(v)]
  OBVIOUS
<1> HIDE DEF u
<1> SUFFICES ASSUME NEW n \in 1..Len(u)
             PROVE  u[n] \in Msgs(v) \cup Msgs(w)
  BY DEF Msgs, u
<1>2. CASE n \in 1..Len(v)
  BY <1>1, <1>2 DEF Msgs
<1>3. CASE n \notin 1..Len(v)
  <2>1. n - Len(v) \in 1..Len(w)
    BY <1>1, <1>3
  <2> QED BY <1>1, <1>3, <2>1 DEF Msgs
<1> QED BY <1>2, <1>3

LEMMA MsgsOfOne ==
  ASSUME NEW k, NEW b, [kind |-> k, body |-> b] \in Messages
  PROVE  Message(k, b) \in Seq(Messages) /\ Msgs(Message(k, b)) = {[kind |-> k, body |-> b]}
<1> DEFINE m == [kind |-> k, body |-> b]
<1>1. <<m>> \in Seq(Messages) /\ Len(<<m>>) = 1 /\ <<m>>[1] = m
  OBVIOUS
<1>2. Message(k, b) = <<m>>
  BY DEF Message
<1>3. 1..1 = {1}
  OBVIOUS
<1> HIDE DEF m
<1>4. Message(k, b) \in Seq(Messages) /\ Msgs(Message(k, b)) = {m}
  BY <1>1, <1>2, <1>3 DEF Msgs
<1> QED BY <1>4 DEF m

\* What a step of d leaves on the wires.
LEMMA TalkMsgs ==
  ASSUME TypeInv, NEW d \in Devices, NEW took \in BOOLEAN, took => wire[d] # <<>>,
         NEW sent \in Seq(Messages), Talk(d, took, sent)
  PROVE  /\ Msgs(wire'[d]) \subseteq Msgs(wire[d])
         /\ Msgs(wire'[Other(d)]) \subseteq Msgs(wire[Other(d)]) \cup Msgs(sent)
<1>1. wire[d] \in Seq(Messages) /\ wire[Other(d)] \in Seq(Messages)
  BY SidesAre, DevicesAre
<1>2. /\ took => wire'[d] = Tail(wire[d])
      /\ ~took => wire'[d] = wire[d]
      /\ At(Other(d), "rest") => wire'[Other(d)] = wire[Other(d)]
      /\ ~At(Other(d), "rest") => wire'[Other(d)] = wire[Other(d)] \o sent
  BY TalkIs
<1> QED BY <1>1, <1>2, MsgsAre, MsgsJoin

LEMMA EndsMsgs ==
  ASSUME TypeInv, NEW d \in Devices, NEW took, NEW sent \in Seq(Messages), Ends(d, took, sent)
  PROVE  /\ Msgs(wire'[d]) = {}
         /\ Msgs(wire'[Other(d)]) \subseteq Msgs(wire[Other(d)]) \cup Msgs(sent)
<1>1. wire[Other(d)] \in Seq(Messages) /\ <<>> \in Seq(Messages)
  BY SidesAre, DevicesAre, NoneIs
<1>2. /\ wire'[d] = <<>>
      /\ At(Other(d), "rest") => wire'[Other(d)] = wire[Other(d)]
      /\ ~At(Other(d), "rest") => wire'[Other(d)] = wire[Other(d)] \o sent
  BY EndsIs
<1> QED BY <1>1, <1>2, MsgsAre, MsgsJoin

\* What d takes is one of the messages on its wire.
LEMMA ArrivedMsgs ==
  ASSUME TypeInv, NEW d \in Devices, Arrived(d)
  PROVE  /\ wire[d] # <<>> /\ wire[d][1] \in Msgs(wire[d]) /\ wire[d][1].body = Arriving(d)
         /\ wire[d][1].kind = WaitsFor[run[d].at]
<1>1. wire[d] # <<>> /\ wire[d] \in Seq(Messages) /\ Arriving(d) = wire[d][1].body /\ wire[d][1] = Head(wire[d])
  BY ArrivedIs, SidesAre
<1> QED BY <1>1, MsgsAre DEF Arrived

-----------------------------------------------------------------------------
(***************************************************************************)
(* The currency, where nobody writes during a sync.                        *)
(***************************************************************************)

LEMMA MoneyIs ==
  ASSUME MoneyInv, NEW d \in Devices
  PROVE  /\ RunFits(d, run[d]) /\ (\A m \in Msgs(wire[d]) : Fits(d, m))
         /\ InUnit(d, rows[d]) /\ (Past(d, run[d]) => Agreed)
BY DEF MoneyInv, AmountsInCurrency, InUnit, RunFits

LEMMA AgreedIs ==
  ASSUME Agreed, NEW d \in Devices
  PROVE  Len(changes[d]) = Len(changes[Other(d)]) /\ \A table : InUnit(d, table) => InUnit(Other(d), table)
<1>1. changes[d] = changes[Other(d)]
  BY DevicesAre DEF Agreed
<1> QED BY <1>1 DEF InUnit

LEMMA FitsStays ==
  ASSUME changes' = changes, NEW d \in Devices, NEW m, Fits(d, m)
  PROVE  Fits(d, m)'
<1>1. \A table : InUnit(d, table) => InUnit(d, table)'
  BY DEF InUnit, Live, Holds
<1>2. (Agreed => Agreed') /\ Unseen' = Unseen
  BY DEF Agreed, Unseen
<1> QED BY <1>1, <1>2 DEF Fits

LEMMA RunFitsStays ==
  ASSUME changes' = changes, NEW d \in Devices, RunFits(d, run'[d])
  PROVE  RunFits(d, run[d])'
<1>1. \A table : InUnit(d, table) => InUnit(d, table)'
  BY DEF InUnit, Live, Holds
<1>2. InUnit(d, run'[d].out) => InUnit(d, run[d].out)'
  BY DEF InUnit, Live, Holds
<1>3. InUnit(d, run'[d].got) => InUnit(d, run[d].got)'
  BY DEF InUnit, Live, Holds
<1>4. Past(d, run[d])' <=> Past(d, run'[d])
  BY DEF Past
<1>5. Agreed => Agreed'
  BY DEF Agreed
<1> QED BY <1>2, <1>3, <1>4, <1>5 DEF RunFits

\* A step of d that changes no currency.
LEMMA MoneyStep ==
  ASSUME MoneyInv, NEW d \in Devices, changes' = changes, run'[Other(d)] = run[Other(d)],
         AmountsInCurrency', RunFits(d, run'[d]), Msgs(wire'[d]) \subseteq Msgs(wire[d]),
         NEW sent, Msgs(wire'[Other(d)]) \subseteq Msgs(wire[Other(d)]) \cup sent,
         \A m \in sent : Fits(Other(d), m)
  PROVE  MoneyInv'
<1> DEFINE e == Other(d)
<1>1. e \in Devices /\ Devices = {d, e}
  BY DevicesAre
<1>2. RunFits(e, run'[e])
  BY <1>1, MoneyIs
<1>3. RunFits(d, run[d])' /\ RunFits(e, run[e])'
  BY <1>1, <1>2, RunFitsStays
<1>4. \A m \in Msgs(wire'[d]) : Fits(d, m)
  BY MoneyIs
<1>5. \A m \in Msgs(wire'[e]) : Fits(e, m)
  BY <1>1, MoneyIs
<1>6. \A m \in Msgs(wire'[d]) : Fits(d, m)'
  BY <1>4, FitsStays
<1>7. \A m \in Msgs(wire'[e]) : Fits(e, m)'
  BY <1>1, <1>5, FitsStays
<1>8. \A f \in Devices : RunFits(f, run[f])'
  BY <1>1, <1>3
<1>9. \A f \in Devices : (\A m \in Msgs(wire[f]) : Fits(f, m))'
  BY <1>1, <1>6, <1>7 DEF Msgs
<1>10. Behindhand'
  BY DEF MoneyInv, Behindhand
<1> QED BY <1>8, <1>9, <1>10 DEF MoneyInv

\* Rows that stay what they are are still in the currency.
LEMMA MoneyStays ==
  ASSUME MoneyInv, changes' = changes, rows' = rows
  PROVE  AmountsInCurrency'
BY DEF MoneyInv, AmountsInCurrency, Live, Holds

LEMMA MoneyEnds ==
  ASSUME TypeInv, MoneyInv, NEW d \in Devices, NEW took, Ends(d, took, <<>>), changes' = changes, rows' = rows
  PROVE  MoneyInv'
<1>1. run'[d] = Resting /\ run'[Other(d)] = run[Other(d)]
  BY NoneIs, EndsIs
<1>2. Msgs(wire'[d]) = {} /\ Msgs(wire'[Other(d)]) \subseteq Msgs(wire[Other(d)]) \cup Msgs(<<>>)
  BY NoneIs, EndsMsgs
<1>3. Msgs(<<>>) = {}
  BY NoneIs, MsgsAre
<1>4. RunFits(d, run'[d])
  BY <1>1, RestingIs DEF RunFits, Past
<1> QED BY <1>1, <1>2, <1>3, <1>4, MoneyStays, MoneyStep

\* What may be sent.
LEMMA SendsFit ==
  ASSUME NEW d \in Devices
  PROVE  /\ (d = Phone => Agreed) =>
              /\ \A b, k : k \notin {"hello", "currency", "rows"} => Fits(Other(d), [kind |-> k, body |-> b])
         /\ Agreed => \A b : InUnit(d, b) => Fits(Other(d), [kind |-> "rows", body |-> b])
<1>1. Other(d) = Desktop => d = Phone
  BY DevicesAre
<1> QED BY <1>1, AgreedIs DEF Fits

LEMMA UnitsAre ==
  ASSUME TypeInv, MoneyInv, NEW d \in Devices
  PROVE  /\ \A items : InUnit(d, Only(rows[d], items))
         /\ InUnit(d, NoRows)
<1>1. InUnit(d, rows[d]) /\ rows[d] \in Tables
  BY MoneyIs, SidesAre
<1>2. \A i \in Items : ~Live(NoRows, i)
  BY RowsAre DEF Live
<1>3. ASSUME NEW items, NEW i \in Items, Live(Only(rows[d], items), i)
      PROVE  Only(rows[d], items)[i].unit = Len(changes[d])
  <2>1. Absent.version = 0
    BY DEF Absent
  <2>2. Only(rows[d], items)[i] = rows[d][i]
    BY <1>1, <1>3, <2>1, OnlyIs DEF Live, Holds
  <2>3. Live(rows[d], i)
    BY <1>3, <2>2 DEF Live, Holds
  <2> QED BY <1>1, <2>2, <2>3 DEF InUnit
<1> QED BY <1>2, <1>3 DEF InUnit

LEMMA SameSeq ==
  ASSUME NEW c \in Seq(Stamp), NEW e \in Seq(Stamp), Len(c) = Len(e), \A n \in 1..Len(c) : e[n] = c[n]
  PROVE  c = e
OBVIOUS

LEMMA AgreedWhen ==
  ASSUME TypeInv, MoneyInv, Len(changes[Desktop]) = Len(changes[Phone])
  PROVE  Agreed
<1>1. changes[Desktop] \in Seq(Stamp) /\ changes[Phone] \in Seq(Stamp)
  BY SidesAre, DevicesAre
<1>2. \A n \in 1..Len(changes[Phone]) : changes[Desktop][n] = changes[Phone][n]
  BY DEF MoneyInv, Behindhand
<1>3. changes[Phone] = changes[Desktop]
  BY <1>1, <1>2, SameSeq
<1> QED BY <1>3 DEF Agreed

\* Who reads a message after the hellos and the changes is past the changes.
LEMMA ReadsAgreed ==
  ASSUME TypeInv, MoneyInv, NEW d \in Devices, Arrived(d), run[d].at \notin {"hello", "learn"}
  PROVE  Agreed
<1>1. /\ wire[d][1] \in Msgs(wire[d]) /\ wire[d][1].kind = WaitsFor[run[d].at]
      /\ run[d].at \in DOMAIN WaitsFor
  BY ArrivedMsgs DEF Arrived, Waiting
<1>2. WaitsFor[run[d].at] # "hello" /\ run[d].at # "rest"
  BY <1>1 DEF WaitsFor
<1>3. CASE d = Desktop
  BY <1>1, <1>2, <1>3, MoneyIs DEF Fits
<1>4. CASE d = Phone
  BY <1>2, <1>4, MoneyIs DEF Past
<1> QED BY <1>3, <1>4, DevicesAre

\* A step that leaves the rows and the currency alone.
LEMMA MoneyTalks ==
  ASSUME TypeInv, MoneyInv, NEW d \in Devices, changes' = changes, AmountsInCurrency',
         run'[Other(d)] = run[Other(d)], NEW took \in BOOLEAN, took => wire[d] # <<>>,
         NEW sent \in Seq(Messages), Talk(d, took, sent), RunFits(d, run'[d]),
         \A m \in Msgs(sent) : Fits(Other(d), m)
  PROVE  MoneyInv'
<1>1. /\ Msgs(wire'[d]) \subseteq Msgs(wire[d])
      /\ Msgs(wire'[Other(d)]) \subseteq Msgs(wire[Other(d)]) \cup Msgs(sent)
  BY TalkMsgs
<1> QED BY <1>1, MoneyStep

LEMMA NoMsgs == Msgs(<<>>) = {} /\ <<>> \in Seq(Messages)
BY NoneIs, MsgsAre

LEMMA HelloMoney ==
  ASSUME FlowInv, MoneyInv, NEW d \in Devices, TakeHello(d)
  PROVE  MoneyInv'
<1> USE DEF FlowInv
<1>1. /\ At(d, "hello") /\ Arrived(d) /\ changes' = changes /\ rows' = rows /\ run'[Other(d)] = run[Other(d)]
      /\ \/ Ends(d, TRUE, Greets(d))
         \/ /\ Talk(d, TRUE, Greets(d))
            /\ run'[d].at = AfterHello(d, OwnHello(d), Arriving(d))
            /\ run'[d].own = OwnHello(d) /\ run'[d].theirs = Arriving(d)
            /\ run'[d].reviewed = run[d].reviewed
  BY TakeHelloIs
<1>2. /\ wire[d] # <<>> /\ wire[d][1] \in Msgs(wire[d]) /\ wire[d][1].body = Arriving(d) /\ wire[d][1].kind = "hello"
  BY <1>1, ArrivedMsgs, ArrivedIs
<1>3. Arriving(d).changes = Len(changes[Other(d)])
  BY <1>2, MoneyIs DEF Fits
<1>4. OwnHello(d).changes = Len(changes[d])
  <2>1. CASE d = Desktop
    BY <2>1, HelloIs, SidesAre DEF OwnHello, Runs
  <2>2. CASE d = Phone
    BY <1>1, <2>2, MoneyIs, DevicesAre DEF OwnHello, RunFits, At
  <2> QED BY <2>1, <2>2, DevicesAre
<1>5. Greets(d) \in Seq(Messages) /\ \A m \in Msgs(Greets(d)) : Fits(Other(d), m)
  <2>1. CASE d = Desktop
    <3>1. Msgs(Greets(d)) = {[kind |-> "hello", body |-> OwnHello(d)]} /\ Other(Other(d)) = d
      BY <2>1, OwnHelloIs, MsgsOfOne, DevicesAre DEF Greets
    <3>2. Fits(Other(d), [kind |-> "hello", body |-> OwnHello(d)])
      BY <1>4, <3>1 DEF Fits
    <3> QED BY <3>1, <3>2, OwnHelloIs
  <2>2. CASE d = Phone
    BY <2>2, NoMsgs, DevicesAre DEF Greets
  <2> QED BY <2>1, <2>2, DevicesAre
<1>6. AmountsInCurrency'
  BY <1>1, MoneyStays
<1>7. CASE Ends(d, TRUE, Greets(d))
  <2>1. Msgs(wire'[d]) = {} /\ Msgs(wire'[Other(d)]) \subseteq Msgs(wire[Other(d)]) \cup Msgs(Greets(d))
    BY <1>5, <1>7, EndsMsgs
  <2>2. run'[d] = Resting
    BY <1>5, <1>7, EndsIs
  <2>3. RunFits(d, run'[d])
    BY <2>2, RestingIs DEF RunFits, Past
  <2> QED BY <1>1, <1>5, <1>6, <2>1, <2>3, MoneyStep
<1>8. CASE ~Ends(d, TRUE, Greets(d))
  <2>1. /\ Talk(d, TRUE, Greets(d))
        /\ run'[d].at = AfterHello(d, OwnHello(d), Arriving(d))
        /\ run'[d].own = OwnHello(d) /\ run'[d].theirs = Arriving(d)
        /\ run'[d].reviewed = run[d].reviewed
    BY <1>1, <1>8
  <2>2. CASE d = Desktop
    <3>1. run'[d].at \in {"compare", "currency"} /\ Other(d) = Phone
      BY <2>1, <2>2, DevicesAre DEF AfterHello
    <3>2. run'[d].reviewed => Agreed
      BY <1>1, <2>1, <2>2, MoneyIs, DevicesAre DEF Past, At
    <3>3. RunFits(d, run'[d])
      BY <1>3, <2>1, <2>2, <3>1, <3>2, DevicesAre DEF RunFits, Past
    <3> QED BY <1>1, <1>2, <1>5, <1>6, <2>1, <3>3, MoneyTalks
  <2>3. CASE d = Phone
    <3>1. run'[d].at = (IF OwnHello(d).changes = Arriving(d).changes THEN "compare" ELSE "learn") /\ Other(d) = Desktop
      BY <2>1, <2>3, DevicesAre DEF AfterHello
    <3>2. OwnHello(d).changes = Arriving(d).changes => Agreed
      BY <1>3, <1>4, <2>3, <3>1, AgreedWhen
    <3>3. RunFits(d, run'[d])
      BY <2>3, <3>1, <3>2, DevicesAre DEF RunFits, Past
    <3> QED BY <1>1, <1>2, <1>5, <1>6, <2>1, <3>3, MoneyTalks
  <2> QED BY <2>2, <2>3, DevicesAre
<1> QED BY <1>7, <1>8

LEMMA SendCurrencyMoney ==
  ASSUME FlowInv, MoneyInv, NEW d \in Devices, SendCurrency(d)
  PROVE  MoneyInv'
<1> USE DEF FlowInv
<1>1. /\ At(d, "currency") /\ changes' = changes /\ rows' = rows /\ run'[Other(d)] = run[Other(d)]
      /\ Talk(d, FALSE, Message("currency", Missing(d))) /\ run'[d].at = "compare"
      /\ run'[d].reviewed = run[d].reviewed
  BY SendCurrencyIs DEF Quiet
<1>2. d = Desktop
  BY <1>1, PairIs DEF Script, At
<1>3. run[d].theirs.changes = Len(changes[Phone])
  BY <1>1, <1>2, MoneyIs DEF RunFits, At
<1>4. Missing(d) = Unseen
  BY <1>2, <1>3 DEF Missing, Unseen
<1>5. [kind |-> "currency", body |-> Missing(d)] \in Messages
  BY MissingIs, KindsAre
<1>6. /\ Message("currency", Missing(d)) \in Seq(Messages)
      /\ Msgs(Message("currency", Missing(d))) = {[kind |-> "currency", body |-> Missing(d)]}
  BY <1>5, MsgsOfOne
<1>7. Fits(Phone, [kind |-> "currency", body |-> Missing(d)])
  BY <1>4, DevicesAre DEF Fits
<1>8. RunFits(d, run'[d])
  <2>1. run'[d].reviewed => Agreed
    BY <1>1, <1>2, MoneyIs, DevicesAre DEF Past, At
  <2> QED BY <1>1, <1>2, <2>1, DevicesAre DEF RunFits, Past
<1>9. AmountsInCurrency'
  BY <1>1, MoneyStays
<1> QED BY <1>1, <1>2, <1>6, <1>7, <1>8, <1>9, MoneyTalks, DevicesAre

LEMMA CompareMoney ==
  ASSUME FlowInv, MoneyInv, NEW d \in Devices, Compare(d)
  PROVE  MoneyInv'
<1> USE DEF FlowInv
<1>1. /\ At(d, "compare") /\ changes' = changes /\ rows' = rows /\ run'[Other(d)] = run[Other(d)]
      /\ Talk(d, FALSE, Message("hashes", List(rows[d])))
      /\ run'[d].at = "hashes" /\ run'[d].reviewed = run[d].reviewed
  BY CompareIs DEF Quiet, KeepsRows
<1>2. AmountsInCurrency'
  BY <1>1, MoneyStays
<1>3. (d = Phone => Agreed) /\ RunFits(d, run'[d])
  <2>1. /\ d = Phone => Agreed
        /\ d = Desktop => (run'[d].reviewed => Agreed)
    BY <1>1, MoneyIs, DevicesAre DEF Past, At
  <2> QED BY <1>1, <2>1, DevicesAre DEF RunFits, Past
<1>4. [kind |-> "hashes", body |-> List(rows[d])] \in Messages
  BY SidesAre, ListIs, KindsAre
<1>5. /\ Message("hashes", List(rows[d])) \in Seq(Messages)
      /\ \A m \in Msgs(Message("hashes", List(rows[d]))) : Fits(Other(d), m)
  BY <1>3, <1>4, MsgsOfOne, SendsFit
<1> QED BY <1>1, <1>2, <1>3, <1>5, MoneyTalks

LEMMA HashesEqualMoney ==
  ASSUME FlowInv, MoneyInv, NEW d \in Devices, TakeHashes(d), Arriving(d) = run[d].list
  PROVE  MoneyInv'
<1> USE DEF FlowInv
<1>1. /\ At(d, "hashes") /\ Arrived(d) /\ changes' = changes /\ rows' = rows /\ run'[Other(d)] = run[Other(d)]
      /\ Talk(d, TRUE, <<>>)
      /\ run'[d].at = "touch"
  BY TakeHashesEnds DEF Quiet, KeepsRows
<1>2. AmountsInCurrency'
  BY <1>1, MoneyStays
<1>3. Agreed /\ wire[d] # <<>>
  BY <1>1, ReadsAgreed, ArrivedIs DEF At
<1>4. RunFits(d, run'[d])
  BY <1>1, <1>3 DEF RunFits
<1> QED BY <1>1, <1>2, <1>3, <1>4, NoMsgs, MoneyTalks

LEMMA HashesDifferMoney ==
  ASSUME FlowInv, MoneyInv, NEW d \in Devices, TakeHashes(d), Arriving(d) # run[d].list
  PROVE  MoneyInv'
<1> USE DEF FlowInv
<1>1. /\ At(d, "hashes") /\ Arrived(d) /\ changes' = changes /\ rows' = rows /\ run'[Other(d)] = run[Other(d)]
      /\ Talk(d, TRUE, ListFirst(d))
      /\ run'[d].at = "lists"
  BY TakeHashesGoesOn DEF Quiet, KeepsRows
<1>2. AmountsInCurrency'
  BY <1>1, MoneyStays
<1>3. Agreed /\ wire[d] # <<>>
  BY <1>1, ReadsAgreed, ArrivedIs DEF At
<1>4. RunFits(d, run'[d])
  BY <1>1, <1>3 DEF RunFits
<1>5. [kind |-> "list", body |-> run[d].list] \in Messages
  BY SidesAre, KindsAre DEF Runs
<1>6. ListFirst(d) \in Seq(Messages) /\ \A m \in Msgs(ListFirst(d)) : Fits(Other(d), m)
  BY <1>3, <1>5, MsgsOfOne, NoMsgs, SendsFit DEF ListFirst
<1> QED BY <1>1, <1>2, <1>3, <1>4, <1>6, MoneyTalks

LEMMA ListsReviewedMoney ==
  ASSUME FlowInv, MoneyInv, NEW d \in Devices, TakeLists(d), ToAsk(d) # {}, d = Reviewer(run[d].mode)
  PROVE  MoneyInv'
<1> USE DEF FlowInv
<1>1. /\ At(d, "lists") /\ Arrived(d) /\ changes' = changes /\ rows' = rows /\ run'[Other(d)] = run[Other(d)]
      /\ Talk(d, TRUE, ListThen(d))
      /\ run'[d].at = "versions"
  BY TakeListsReviews DEF Quiet, KeepsRows
<1>2. AmountsInCurrency'
  BY <1>1, MoneyStays
<1>3. Agreed /\ wire[d] # <<>>
  BY <1>1, ReadsAgreed, ArrivedIs DEF At
<1>4. RunFits(d, run'[d])
  BY <1>1, <1>3 DEF RunFits
<1>5. [kind |-> "list", body |-> run[d].list] \in Messages
  BY SidesAre, KindsAre DEF Runs
<1>6. ListThen(d) \in Seq(Messages) /\ \A m \in Msgs(ListThen(d)) : Fits(Other(d), m)
  BY <1>3, <1>5, MsgsOfOne, NoMsgs, SendsFit DEF ListThen
<1> QED BY <1>1, <1>2, <1>3, <1>4, <1>6, MoneyTalks

LEMMA ListsAwaitedMoney ==
  ASSUME FlowInv, MoneyInv, NEW d \in Devices, TakeLists(d), ToAsk(d) # {}, d # Reviewer(run[d].mode)
  PROVE  MoneyInv'
<1> USE DEF FlowInv
<1>1. /\ At(d, "lists") /\ Arrived(d) /\ changes' = changes /\ rows' = rows /\ run'[Other(d)] = run[Other(d)]
      /\ Talk(d, TRUE, (ListThen(d) \o Message("rows", Only(rows[d], ToAsk(d)))))
      /\ run'[d].at = "reviewed"
  BY TakeListsWaits DEF Quiet, KeepsRows
<1>2. AmountsInCurrency'
  BY <1>1, MoneyStays
<1>3. Agreed /\ wire[d] # <<>>
  BY <1>1, ReadsAgreed, ArrivedIs DEF At
<1>4. RunFits(d, run'[d])
  BY <1>1, <1>3 DEF RunFits
<1>5. [kind |-> "list", body |-> run[d].list] \in Messages
  BY SidesAre, KindsAre DEF Runs
<1>6. ListThen(d) \in Seq(Messages) /\ \A m \in Msgs(ListThen(d)) : Fits(Other(d), m)
  BY <1>3, <1>5, MsgsOfOne, NoMsgs, SendsFit DEF ListThen
<1>7. InUnit(d, Only(rows[d], ToAsk(d))) /\ [kind |-> "rows", body |-> Only(rows[d], ToAsk(d))] \in Messages
  BY UnitsAre, SidesAre, OnlyIs, KindsAre
<1>8. /\ Message("rows", Only(rows[d], ToAsk(d))) \in Seq(Messages)
      /\ \A m \in Msgs(Message("rows", Only(rows[d], ToAsk(d)))) : Fits(Other(d), m)
  BY <1>3, <1>7, MsgsOfOne, SendsFit
<1>9. /\ (ListThen(d) \o Message("rows", Only(rows[d], ToAsk(d)))) \in Seq(Messages)
      /\ \A m \in Msgs(ListThen(d) \o Message("rows", Only(rows[d], ToAsk(d)))) : Fits(Other(d), m)
  BY <1>6, <1>8, AnswersAre, MsgsJoin
<1> QED BY <1>1, <1>2, <1>3, <1>4, <1>9, MoneyTalks

LEMMA ListsSentMoney ==
  ASSUME FlowInv, MoneyInv, NEW d \in Devices, TakeLists(d), ToAsk(d) = {}
  PROVE  MoneyInv'
<1> USE DEF FlowInv
<1>1. /\ At(d, "lists") /\ Arrived(d) /\ changes' = changes /\ rows' = rows /\ run'[Other(d)] = run[Other(d)]
      /\ Talk(d, TRUE, (ListThen(d) \o IF d = Desktop THEN Message("rows", Going(d)) ELSE <<>>))
      /\ run'[d].at = "rows" /\ run'[d].out = (IF d = Phone THEN Going(d) ELSE NoRows)
  BY TakeListsSends DEF Quiet, KeepsRows
<1>2. AmountsInCurrency'
  BY <1>1, MoneyStays
<1>3. Agreed /\ wire[d] # <<>>
  BY <1>1, ReadsAgreed, ArrivedIs DEF At
<1>4. InUnit(d, Going(d)) /\ InUnit(d, NoRows) /\ [kind |-> "rows", body |-> Going(d)] \in Messages
  BY UnitsAre, AnswersAre, KindsAre DEF Going
<1>5. [kind |-> "list", body |-> run[d].list] \in Messages
  BY SidesAre, KindsAre DEF Runs
<1>6. ListThen(d) \in Seq(Messages) /\ \A m \in Msgs(ListThen(d)) : Fits(Other(d), m)
  BY <1>3, <1>5, MsgsOfOne, NoMsgs, SendsFit DEF ListThen
<1> DEFINE then == IF d = Desktop THEN Message("rows", Going(d)) ELSE <<>>
<1>7. then \in Seq(Messages) /\ \A m \in Msgs(then) : Fits(Other(d), m)
  BY <1>3, <1>4, MsgsOfOne, NoMsgs, SendsFit
<1>8. ListThen(d) \o then \in Seq(Messages) /\ \A m \in Msgs(ListThen(d) \o then) : Fits(Other(d), m)
  BY <1>6, <1>7, AnswersAre, MsgsJoin
<1>9. RunFits(d, run'[d])
  BY <1>1, <1>3, <1>4 DEF RunFits
<1> QED BY <1>1, <1>2, <1>3, <1>8, <1>9, MoneyTalks

LEMMA VersionsMoney ==
  ASSUME FlowInv, MoneyInv, NEW d \in Devices, TakeVersions(d)
  PROVE  MoneyInv'
<1> USE DEF FlowInv
<1>1. /\ At(d, "versions") /\ Arrived(d) /\ changes' = changes /\ rows' = rows /\ run'[Other(d)] = run[Other(d)]
      /\ Talk(d, TRUE, <<>>)
      /\ run'[d].at = "review"
  BY TakeVersionsIs DEF Quiet, KeepsRows
<1>2. AmountsInCurrency'
  BY <1>1, MoneyStays
<1>3. Agreed /\ wire[d] # <<>>
  BY <1>1, ReadsAgreed, ArrivedIs DEF At
<1>4. RunFits(d, run'[d])
  BY <1>1, <1>3 DEF RunFits
<1> QED BY <1>1, <1>2, <1>3, <1>4, NoMsgs, MoneyTalks

LEMMA ReviewedMoney ==
  ASSUME FlowInv, MoneyInv, NEW d \in Devices, TakeReviewed(d)
  PROVE  MoneyInv'
<1> USE DEF FlowInv
<1>1. /\ At(d, "reviewed") /\ Arrived(d) /\ changes' = changes /\ rows' = rows /\ run'[Other(d)] = run[Other(d)]
      /\ Talk(d, TRUE, <<>>)
      /\ run'[d].at = "compare"
  BY TakeReviewedIs DEF Quiet, KeepsRows
<1>2. AmountsInCurrency'
  BY <1>1, MoneyStays
<1>3. Agreed /\ wire[d] # <<>>
  BY <1>1, ReadsAgreed, ArrivedIs DEF At
<1>4. RunFits(d, run'[d])
  BY <1>1, <1>3 DEF RunFits
<1> QED BY <1>1, <1>2, <1>3, <1>4, NoMsgs, MoneyTalks

LEMMA RowsMoney ==
  ASSUME FlowInv, MoneyInv, NEW d \in Devices, TakeRows(d)
  PROVE  MoneyInv'
<1> USE DEF FlowInv
<1>1. /\ At(d, "rows") /\ Arrived(d) /\ changes' = changes /\ rows' = rows /\ run'[Other(d)] = run[Other(d)]
      /\ Talk(d, TRUE, RowsThen(d))
      /\ run'[d].at = "apply" /\ run'[d].got = Arriving(d)
  BY TakeRowsIs DEF Quiet, KeepsRows
<1>2. AmountsInCurrency'
  BY <1>1, MoneyStays
<1>3. Agreed /\ wire[d] # <<>>
  BY <1>1, ReadsAgreed, ArrivedIs DEF At
<1>4. InUnit(d, Arriving(d)) /\ InUnit(d, run[d].out)
  <2>1. wire[d][1] \in Msgs(wire[d]) /\ wire[d][1].body = Arriving(d) /\ wire[d][1].kind = "rows"
    BY <1>1, ArrivedMsgs, ArrivedIs
  <2> QED BY <1>1, <2>1, MoneyIs DEF Fits, RunFits, At
<1>5. RunFits(d, run'[d])
  BY <1>1, <1>3, <1>4 DEF RunFits
<1>6. [kind |-> "rows", body |-> run[d].out] \in Messages
  BY SidesAre, KindsAre DEF Runs
<1>7. RowsThen(d) \in Seq(Messages) /\ \A m \in Msgs(RowsThen(d)) : Fits(Other(d), m)
  BY <1>3, <1>4, <1>6, MsgsOfOne, NoMsgs, SendsFit DEF RowsThen
<1> QED BY <1>1, <1>2, <1>3, <1>5, <1>7, MoneyTalks

LEMMA DoneMoney ==
  ASSUME FlowInv, MoneyInv, NEW d \in Devices, TakeDone(d)
  PROVE  MoneyInv'
<1> USE DEF FlowInv
<1>1. /\ At(d, "done") /\ Arrived(d) /\ changes' = changes /\ rows' = rows /\ run'[Other(d)] = run[Other(d)]
      /\ Talk(d, TRUE, DoneThen(d))
      /\ run'[d].at = "touch"
  BY TakeDoneIs DEF Quiet, KeepsRows
<1>2. AmountsInCurrency'
  BY <1>1, MoneyStays
<1>3. Agreed /\ wire[d] # <<>>
  BY <1>1, ReadsAgreed, ArrivedIs DEF At
<1>4. RunFits(d, run'[d])
  BY <1>1, <1>3 DEF RunFits
<1>5. [kind |-> "done", body |-> run[d].list] \in Messages
  BY SidesAre, KindsAre DEF Runs
<1>6. DoneThen(d) \in Seq(Messages) /\ \A m \in Msgs(DoneThen(d)) : Fits(Other(d), m)
  BY <1>3, <1>5, MsgsOfOne, NoMsgs, SendsFit DEF DoneThen
<1> QED BY <1>1, <1>2, <1>3, <1>4, <1>6, MoneyTalks

LEMMA ReviewMoney ==
  ASSUME FlowInv, MoneyInv, NEW d \in Devices, Review(d)
  PROVE  MoneyInv'
<1> USE DEF FlowInv
<1>1. /\ At(d, "review") /\ changes' = changes /\ run'[Other(d)] = run[Other(d)]
      /\ Talk(d, FALSE, Message("reviewed", {})) /\ run'[d].at = "compare"
      /\ rows'[Other(d)] = rows[Other(d)]
      /\ \E kept \in SUBSET run[d].asked : \A i \in Items : rows'[d][i] = Decided(d, i, kept)
  BY ReviewIs
<1>2. Agreed
  BY <1>1, MoneyIs DEF Past, At
<1>3. AmountsInCurrency'
  <2>1. run[d].asked \subseteq Items
    BY SidesAre DEF Runs
  <2>2. \A i \in Items : /\ rows'[d][i].version = rows[d][i].version /\ rows'[d][i].deleted = rows[d][i].deleted
                         /\ rows'[d][i].unit = rows[d][i].unit
    BY <1>1, <2>1, DecidedIs
  <2>3. \A i \in Items : Live(rows'[d], i) => rows'[d][i].unit = Len(changes[d])
    BY <2>2, MoneyIs DEF Live, Holds, InUnit
  <2>4. \A i \in Items : Live(rows'[Other(d)], i) => rows'[Other(d)][i].unit = Len(changes[Other(d)])
    BY <1>1, MoneyIs, DevicesAre DEF InUnit
  <2> QED BY <1>1, <2>3, <2>4, DevicesAre DEF AmountsInCurrency, Live, Holds
<1>4. RunFits(d, run'[d])
  BY <1>1, <1>2 DEF RunFits
<1>5. [kind |-> "reviewed", body |-> {}] \in Messages
  BY KindsAre
<1>6. /\ Message("reviewed", {}) \in Seq(Messages)
      /\ \A m \in Msgs(Message("reviewed", {})) : Fits(Other(d), m)
  BY <1>2, <1>5, MsgsOfOne, SendsFit
<1> QED BY <1>1, <1>3, <1>4, <1>6, MoneyTalks

LEMMA ApplyMoney ==
  ASSUME FlowInv, MoneyInv, NEW d \in Devices, Apply(d), ~Refused(d)
  PROVE  MoneyInv'
<1> USE DEF FlowInv
<1>1. /\ At(d, "apply") /\ changes' = changes /\ run'[Other(d)] = run[Other(d)]
      /\ Talk(d, FALSE, DoneFirst(d)) /\ run'[d].at = "done"
      /\ rows'[d] = Merged(d) /\ rows'[Other(d)] = rows[Other(d)]
  BY ApplyIs
<1>2. Agreed
  BY <1>1, MoneyIs, DevicesAre DEF Past, At
<1>3. InUnit(d, run[d].got) /\ InUnit(d, rows[d])
  BY <1>1, MoneyIs DEF RunFits, At
<1>4. InUnit(d, Merged(d))
  <2> SUFFICES ASSUME NEW i \in Items, Live(Merged(d), i)
               PROVE  Merged(d)[i].unit = Len(changes[d])
    BY DEF InUnit
  <2>1. Merged(d)[i] = rows[d][i] \/ Merged(d)[i] = run[d].got[i]
    BY MergedIs DEF Newer
  <2> QED BY <1>3, <2>1 DEF InUnit, Live, Holds
<1>5. AmountsInCurrency'
  <2>1. \A i \in Items : Live(rows'[d], i) => rows'[d][i].unit = Len(changes[d])
    BY <1>1, <1>4 DEF InUnit
  <2>2. \A i \in Items : Live(rows'[Other(d)], i) => rows'[Other(d)][i].unit = Len(changes[Other(d)])
    BY <1>1, MoneyIs, DevicesAre DEF InUnit
  <2> QED BY <1>1, <2>1, <2>2, DevicesAre DEF AmountsInCurrency, Live, Holds
<1>6. RunFits(d, run'[d])
  BY <1>1, <1>2 DEF RunFits
<1>7. [kind |-> "done", body |-> List(Merged(d))] \in Messages
  BY MergedIs, ListIs, KindsAre
<1>8. DoneFirst(d) \in Seq(Messages) /\ \A m \in Msgs(DoneFirst(d)) : Fits(Other(d), m)
  BY <1>2, <1>7, MsgsOfOne, NoMsgs, SendsFit DEF DoneFirst
<1> QED BY <1>1, <1>5, <1>6, <1>8, MoneyTalks

LEMMA SeqJoins ==
  ASSUME NEW p \in Seq(Stamp), NEW c \in Seq(Stamp), Len(p) <= Len(c), \A n \in 1..Len(p) : c[n] = p[n]
  PROVE  p \o SubSeq(c, Len(p) + 1, Len(c)) = c
<1> DEFINE u == SubSeq(c, Len(p) + 1, Len(c))
           v == p \o u
<1>1. Len(p) \in Nat /\ Len(c) \in Nat
  OBVIOUS
<1>2. u \in Seq(Stamp) /\ Len(u) = Len(c) - Len(p) /\ \A n \in 1..Len(c) - Len(p) : u[n] = c[Len(p) + n]
  BY <1>1
<1> HIDE DEF u
<1>3. v \in Seq(Stamp) /\ Len(v) = Len(p) + Len(u)
  BY <1>2
<1>4. \A n \in 1..Len(p) : v[n] = p[n]
  BY <1>2
<1>5. \A n \in 1..Len(u) : v[Len(p) + n] = u[n]
  BY <1>2
<1> HIDE DEF v
<1>6. Len(v) = Len(c)
  BY <1>1, <1>2, <1>3
<1>7. ASSUME NEW n \in 1..Len(c) PROVE v[n] = c[n]
  <2>1. CASE n <= Len(p)
    BY <1>1, <1>4, <2>1
  <2>2. CASE n > Len(p)
    <3>1. n - Len(p) \in 1..Len(c) - Len(p) /\ Len(p) + (n - Len(p)) = n
      BY <1>1, <2>2
    <3>2. u[n - Len(p)] = c[n]
      BY <1>2, <3>1
    <3>3. v[n] = u[n - Len(p)]
      BY <1>2, <1>5, <3>1
    <3> QED BY <3>2, <3>3
  <2> QED BY <1>1, <2>1, <2>2
<1>8. v = c
  BY <1>3, <1>6, <1>7, SameSeq
<1> QED BY <1>8 DEF u, v

LEMMA LearnMoney ==
  ASSUME FlowInv, MoneyInv, NEW d \in Devices, LearnCurrency(d), ~FarAhead(d)
  PROVE  MoneyInv'
<1> USE DEF FlowInv
<1>1. At(d, "learn") /\ Arrived(d)
  BY DEF LearnCurrency
<1>2. d = Phone /\ wire[d] # <<>> /\ Arriving(d) = wire[d][1].body /\ Arriving(d) # <<>> /\ Arriving(d) \in Seq(Stamp)
  BY <1>1, CurrencyComes
<1>3. /\ TypeInv' /\ run'[Other(d)] = run[Other(d)] /\ Talk(d, TRUE, <<>>) /\ run'[d].at = "compare"
      /\ changes'[d] = changes[d] \o Arriving(d) /\ changes'[Other(d)] = changes[Other(d)]
      /\ rows'[d] = Converted(rows[d], Len(Arriving(d))) /\ rows'[Other(d)] = rows[Other(d)]
  BY <1>2, LearnCurrencyIs
<1>4. Other(Phone) = Desktop /\ Desktop \in Devices
  BY DevicesAre
<1>5. Arriving(d) = Unseen
  <2>1. wire[d][1] \in Msgs(wire[d]) /\ wire[d][1].kind = "currency"
    BY <1>1, ArrivedMsgs, ArrivedIs
  <2> QED BY <1>2, <2>1, MoneyIs DEF Fits
<1>6. changes'[Phone] = changes[Desktop] /\ changes'[Desktop] = changes[Desktop]
  <2>1. changes[Desktop] \in Seq(Stamp) /\ changes[Phone] \in Seq(Stamp)
    BY SidesAre, DevicesAre
  <2>2. changes[Phone] \o Unseen = changes[Desktop]
    BY <2>1, SeqJoins DEF MoneyInv, Behindhand, Unseen
  <2> QED BY <1>2, <1>3, <1>4, <1>5, <2>2
<1>7. Agreed'
  BY <1>6 DEF Agreed
<1>8. Len(changes'[Phone]) = Len(changes[Phone]) + Len(Arriving(d))
  <2>1. changes[Phone] \in Seq(Stamp)
    BY SidesAre, DevicesAre
  <2>2. \A a, b \in Seq(Stamp) : Len(a \o b) = Len(a) + Len(b)
    OBVIOUS
  <2> QED BY <1>2, <1>3, <2>1, <2>2
<1>9. Behindhand'
  <2>1. \A c \in Seq(Stamp) : Len(c) \in Nat
    OBVIOUS
  <2>2. Len(changes[Desktop]) \in Nat
    BY <1>4, <2>1, SidesAre
  <2> QED BY <1>6, <2>2 DEF Behindhand
<1>10. AmountsInCurrency'
  <2>1. rows[d] \in Tables /\ Len(Arriving(d)) \in Nat
    BY <1>2, SidesAre
  <2>2. ASSUME NEW i \in Items
        PROVE  /\ rows'[d][i].version = rows[d][i].version /\ rows'[d][i].deleted = rows[d][i].deleted
               /\ Live(rows[d], i) => rows'[d][i].unit = rows[d][i].unit + Len(Arriving(d))
    <3> DEFINE table == rows[d]
               times == Len(Arriving(d))
    <3>1. table \in Tables /\ times \in Nat /\ rows'[d] = Converted(table, times)
      BY <1>3, <2>1
    <3> HIDE DEF table, times
    <3>2. /\ Converted(table, times)[i].version = table[i].version
          /\ Converted(table, times)[i].deleted = table[i].deleted
          /\ Converted(table, times)[i].unit = IF Live(table, i) THEN table[i].unit + times ELSE table[i].unit
      BY <3>1, ConvertedIs
    <3>3. /\ rows'[d][i].version = table[i].version /\ rows'[d][i].deleted = table[i].deleted
          /\ Live(table, i) => rows'[d][i].unit = table[i].unit + times
      BY <3>1, <3>2
    <3> QED BY <3>3 DEF table, times
  <2>3. \A i \in Items : Live(rows'[d], i) => rows'[d][i].unit = Len(changes'[Phone])
    BY <1>2, <1>8, <2>2, MoneyIs DEF Live, Holds, InUnit
  <2>4. \A i \in Items : Live(rows'[Desktop], i) => rows'[Desktop][i].unit = Len(changes'[Desktop])
    BY <1>2, <1>3, <1>4, <1>6, MoneyIs DEF InUnit
  <2> QED BY <1>2, <2>3, <2>4, DevicesAre DEF AmountsInCurrency, Live, Holds
<1>11. wire'[Phone] = Tail(wire[Phone]) /\ wire'[Desktop] = wire[Desktop]
  BY <1>2, <1>3, <1>4, NoneIs, TalksOn
<1>12. wire[Desktop] = <<>> /\ run[Desktop].at \in {"rest", "compare", "hashes"}
  <2>1. CASE At(Desktop, "rest")
    BY <1>4, <2>1, PairIs DEF Script, At
  <2>2. CASE ~At(Desktop, "rest")
    <3>1. /\ Together(run[Desktop], run[Phone], wire[Desktop], wire[Phone])
          /\ run[Desktop] \in Runs /\ run[Phone] \in Runs /\ run[Phone].at = "learn"
          /\ wire[Desktop] \in Seq(Messages) /\ wire[Phone] \in Seq(Messages)
      BY <1>1, <1>2, <2>2, PairIs DEF At
    <3>2. Learning(run[Desktop], run[Phone], wire[Desktop], wire[Phone])
      BY <3>1, PhoneAt
    <3> QED BY <1>2, <3>2 DEF Learning
  <2> QED BY <2>1, <2>2
<1>13. \A m \in Msgs(wire'[Phone]) : m.kind = "hashes"
  <2>1. run[Phone].at = "learn" /\ wire[Phone] # <<>> /\ wire[Phone] \in Seq(Messages) /\ Script(Phone, run[Phone], wire[Phone])
    BY <1>1, <1>2, PairIs DEF At
  <2>2. One(wire[Phone], "currency") \/ Two(wire[Phone], "currency", "hashes")
    BY <2>1 DEF Script
  <2>3. Tail(wire[Phone]) = <<>> \/ One(Tail(wire[Phone]), "hashes")
    BY <2>1, <2>2, OneGoes, TwoGo
  <2>4. Tail(wire[Phone]) \in Seq(Messages)
    BY <2>1, TailIs
  <2>5. \A m \in Msgs(Tail(wire[Phone])) : m.kind = "hashes"
    BY <2>3, <2>4, NoMsgs, MsgsAre DEF One
  <2> QED BY <1>11, <2>5
<1>14. \A m \in Msgs(wire'[Phone]) : Fits(Phone, m)'
  BY <1>13, DevicesAre DEF Fits
<1>15. Msgs(wire'[Desktop]) = {}
  BY <1>11, <1>12, NoMsgs
<1>16. RunFits(Phone, run[Phone])' /\ RunFits(Desktop, run[Desktop])'
  BY <1>2, <1>3, <1>4, <1>7, <1>12, DevicesAre DEF RunFits, Past
<1>17. \A e \in Devices : RunFits(e, run[e])' /\ (\A m \in Msgs(wire[e]) : Fits(e, m))'
  BY <1>14, <1>15, <1>16, DevicesAre DEF Msgs
<1> QED BY <1>9, <1>10, <1>17 DEF MoneyInv

\* Between two syncs.
LEMMA IdleIs ==
  ASSUME FlowInv, Idle, NEW d \in Devices
  PROVE  run[d].at = "rest" /\ wire[d] = <<>>
<1>1. run[d].at = "rest" /\ Script(d, run[d], wire[d])
  BY DEF FlowInv, StepInv, Idle, At
<1> QED BY <1>1 DEF Script

\* A step outside the conversation that changes no currency.
LEMMA MoneyAround ==
  ASSUME MoneyInv, UNCHANGED <<changes, run, wire>>, AmountsInCurrency'
  PROVE  MoneyInv'
<1>1. \A d \in Devices : RunFits(d, run'[d])
  BY DEF MoneyInv
<1>2. \A d \in Devices : RunFits(d, run[d])'
  BY <1>1, RunFitsStays
<1>3. \A d \in Devices : \A m \in Msgs(wire'[d]) : Fits(d, m)
  BY DEF MoneyInv
<1>4. \A d \in Devices : \A m \in Msgs(wire'[d]) : Fits(d, m)'
  BY <1>3, FitsStays
<1>5. \A d \in Devices : (\A m \in Msgs(wire[d]) : Fits(d, m))'
  BY <1>4 DEF Msgs
<1>6. Behindhand'
  BY DEF MoneyInv, Behindhand
<1> QED BY <1>2, <1>5, <1>6 DEF MoneyInv

LEMMA ChangeMoney ==
  ASSUME FlowInv, MoneyInv, ChangeCurrency, Idle
  PROVE  MoneyInv'
<1> USE DEF FlowInv
<1>1. /\ run' = run /\ wire' = wire
      /\ changes'[Phone] = changes[Phone]
      /\ rows'[Desktop] = Converted(rows[Desktop], 1) /\ rows'[Phone] = rows[Phone]
  BY ChangeCurrencyIs DEF Outside
<1>2. PICK s \in Stamp : changes'[Desktop] = Append(changes[Desktop], s)
  BY ChangeCurrencyIs
<1>3. changes[Desktop] \in Seq(Stamp) /\ changes[Phone] \in Seq(Stamp) /\ rows[Desktop] \in Tables
  BY SidesAre, DevicesAre
<1>4. \A c \in Seq(Stamp) : Len(c) \in Nat /\ Len(Append(c, s)) = Len(c) + 1 /\ \A n \in 1..Len(c) : Append(c, s)[n] = c[n]
  OBVIOUS
<1>5. Len(changes'[Desktop]) = Len(changes[Desktop]) + 1 /\ \A n \in 1..Len(changes[Desktop]) : changes'[Desktop][n] = changes[Desktop][n]
  BY <1>2, <1>3, <1>4
<1>6. Len(changes[Desktop]) \in Nat /\ Len(changes[Phone]) \in Nat
  BY <1>3, <1>4
<1>7. Behindhand'
  <2>1. Len(changes[Phone]) <= Len(changes[Desktop]) /\ \A n \in 1..Len(changes[Phone]) : changes[Desktop][n] = changes[Phone][n]
    BY DEF MoneyInv, Behindhand
  <2>2. Len(changes[Phone]) <= Len(changes'[Desktop]) /\ \A n \in 1..Len(changes[Phone]) : n \in 1..Len(changes[Desktop])
    BY <1>5, <1>6, <2>1
  <2> QED BY <1>1, <1>5, <2>1, <2>2 DEF Behindhand
<1>8. AmountsInCurrency'
  <2> DEFINE table == rows[Desktop]
  <2>1. table \in Tables /\ rows'[Desktop] = Converted(table, 1) /\ 1 \in Nat
    BY <1>1, <1>3
  <2> HIDE DEF table
  <2>2. \A i \in Items : /\ Converted(table, 1)[i].version = table[i].version
                         /\ Converted(table, 1)[i].deleted = table[i].deleted
                         /\ Converted(table, 1)[i].unit = IF Live(table, i) THEN table[i].unit + 1 ELSE table[i].unit
    BY <2>1, ConvertedIs
  <2>3. \A i \in Items : Live(rows'[Desktop], i) => Live(table, i) /\ rows'[Desktop][i].unit = table[i].unit + 1
    BY <2>1, <2>2 DEF Live, Holds
  <2>4. \A i \in Items : Live(rows'[Desktop], i) => rows'[Desktop][i].unit = Len(changes'[Desktop])
    BY <1>5, <2>3, MoneyIs, DevicesAre DEF InUnit, table
  <2>5. \A i \in Items : Live(rows'[Phone], i) => rows'[Phone][i].unit = Len(changes'[Phone])
    BY <1>1, MoneyIs, DevicesAre DEF InUnit
  <2> QED BY <2>4, <2>5, DevicesAre DEF AmountsInCurrency, Live, Holds
<1>9. \A d \in Devices : run'[d].at = "rest" /\ Msgs(wire'[d]) = {}
  BY <1>1, IdleIs, NoMsgs
<1>10. \A d \in Devices : RunFits(d, run[d])'
  BY <1>9 DEF RunFits, Past
<1>11. \A d \in Devices : (\A m \in Msgs(wire[d]) : Fits(d, m))'
  BY <1>9 DEF Msgs
<1> QED BY <1>7, <1>8, <1>10, <1>11 DEF MoneyInv

LEMMA EditMoney ==
  ASSUME FlowInv, MoneyInv, NEW d \in Devices, NEW i \in Items, Edit(d, i)
  PROVE  MoneyInv'
<1> USE DEF FlowInv
<1>1. /\ UNCHANGED <<changes, run, wire>>
      /\ (\A e \in Devices : ~Holds(rows[e], i)) \/ Live(rows[d], i)
      /\ rows'[Other(d)] = rows[Other(d)]
      /\ \A j \in Items : j # i => rows'[d][j] = rows[d][j]
      /\ \E deleted \in BOOLEAN : Edited(d, i, deleted, rows'[d][i])
  BY EditIs DEF Outside
<1>2. rows'[d][i].unit = Len(changes[d])
  <2>1. rows'[d][i].unit = IF Holds(rows[d], i) THEN rows[d][i].unit ELSE Len(changes[d])
    BY <1>1 DEF Edited
  <2>2. Holds(rows[d], i) => Live(rows[d], i)
    BY <1>1
  <2> QED BY <2>1, <2>2, MoneyIs DEF InUnit
<1>3. \A j \in Items : Live(rows'[d], j) => rows'[d][j].unit = Len(changes[d])
  BY <1>1, <1>2, MoneyIs DEF Live, Holds, InUnit
<1>4. \A j \in Items : Live(rows'[Other(d)], j) => rows'[Other(d)][j].unit = Len(changes[Other(d)])
  BY <1>1, MoneyIs, DevicesAre DEF InUnit
<1>5. AmountsInCurrency'
  BY <1>1, <1>3, <1>4, DevicesAre DEF AmountsInCurrency, Live, Holds
<1> QED BY <1>1, <1>5, MoneyAround

LEMMA StartMoney ==
  ASSUME FlowInv, MoneyInv, NEW mode \in habit, Start(mode)
  PROVE  MoneyInv'
<1> USE DEF FlowInv
<1>1. /\ Idle /\ changes' = changes /\ rows' = rows
      /\ wire'[Desktop] = Message("hello", Hello(Phone, "both")) /\ wire'[Phone] = wire[Phone]
      /\ [kind |-> "hello", body |-> Hello(Phone, "both")] \in Messages
      /\ \A d \in Devices : run'[d].at = "hello" /\ ~run'[d].reviewed
      /\ run'[Phone].own = Hello(Phone, "both")
  BY StartIs
<1>2. AmountsInCurrency'
  BY <1>1, MoneyStays
<1>3. Behindhand'
  BY <1>1 DEF MoneyInv, Behindhand
<1>4. Hello(Phone, "both").changes = Len(changes[Phone])
  <2>1. "both" \in Modes
    BY DEF Modes
  <2> QED BY <2>1, HelloIs, DevicesAre
<1>5. Msgs(wire'[Desktop]) = {[kind |-> "hello", body |-> Hello(Phone, "both")]} /\ Msgs(wire'[Phone]) = {}
  BY <1>1, MsgsOfOne, NoMsgs, IdleIs, DevicesAre
<1>6. Fits(Desktop, [kind |-> "hello", body |-> Hello(Phone, "both")])
  BY <1>4, DevicesAre DEF Fits
<1>7. \A m \in Msgs(wire'[Desktop]) : Fits(Desktop, m)'
  BY <1>1, <1>5, <1>6, FitsStays, DevicesAre
<1>8. \A d \in Devices : (\A m \in Msgs(wire[d]) : Fits(d, m))'
  BY <1>5, <1>7, DevicesAre DEF Msgs
<1>9. \A d \in Devices : RunFits(d, run'[d])
  BY <1>1, <1>4, DevicesAre DEF RunFits, Past
<1>10. \A d \in Devices : RunFits(d, run[d])'
  BY <1>1, <1>9, RunFitsStays
<1> QED BY <1>2, <1>3, <1>8, <1>10 DEF MoneyInv

LEMMA MoneyBegins == Init \/ InitMet => MoneyInv
<1> SUFFICES ASSUME Init \/ InitMet
             PROVE  MoneyInv
  OBVIOUS
<1>1. /\ \A d \in Devices : changes[d] = <<>> /\ run[d] = Resting /\ wire[d] = <<>>
      /\ \/ \A d \in Devices : rows[d] = NoRows
         \/ \A d \in Devices : rows[d] = [i \in Items |-> FirstRow]
  BY DEF Init, InitMet
<1>2. Len(<<>>) = 0
  OBVIOUS
<1>3. \A d \in Devices : run[d].at = "rest" /\ Msgs(wire[d]) = {} /\ Len(changes[d]) = 0
  BY <1>1, <1>2, RestingIs, NoMsgs
<1>4. Behindhand
  BY <1>3, DevicesAre DEF Behindhand
<1>5. FirstRow.unit = 0
  BY DEF FirstRow
<1>6. \A i \in Items : ~Live(NoRows, i)
  BY RowsAre DEF Live
<1>7. AmountsInCurrency
  BY <1>1, <1>3, <1>5, <1>6 DEF AmountsInCurrency
<1>8. \A d \in Devices : RunFits(d, run[d])
  BY <1>3 DEF RunFits, Past
<1> QED BY <1>3, <1>4, <1>7, <1>8 DEF MoneyInv

LEMMA OneStepMoney ==
  ASSUME FlowInv, MoneyInv, NEW d \in Devices, Step(d) \/ Fail(d)
  PROVE  MoneyInv'
<1>1. TypeInv
  BY DEF FlowInv
<1>2. ASSUME NEW took, Ends(d, took, <<>>), changes' = changes, rows' = rows PROVE MoneyInv'
  BY <1>1, <1>2, MoneyEnds
<1>3. CASE TakeHello(d)
  BY <1>3, HelloMoney
<1>4. CASE SendCurrency(d)
  BY <1>4, SendCurrencyMoney
<1>5. CASE LearnCurrency(d)
  <2>1. CASE FarAhead(d)
    <3>1. Ends(d, TRUE, <<>>) /\ Quiet
      BY <1>1, <1>5, <2>1, LearnCurrencyEnds
    <3> QED BY <1>2, <3>1 DEF Quiet
  <2> QED BY <1>5, <2>1, LearnMoney
<1>6. CASE Compare(d)
  BY <1>6, CompareMoney
<1>7. CASE TakeHashes(d)
  BY <1>7, HashesEqualMoney, HashesDifferMoney
<1>8. CASE TakeLists(d)
  BY <1>8, ListsReviewedMoney, ListsAwaitedMoney, ListsSentMoney
<1>9. CASE TakeVersions(d)
  BY <1>9, VersionsMoney
<1>10. CASE Review(d)
  BY <1>10, ReviewMoney
<1>11. CASE TakeReviewed(d)
  BY <1>11, ReviewedMoney
<1>12. CASE TakeRows(d)
  BY <1>12, RowsMoney
<1>13. CASE Apply(d)
  <2>1. CASE Refused(d)
    <3>1. Ends(d, FALSE, <<>>) /\ Quiet
      BY <1>1, <1>13, <2>1, ApplyRefuses
    <3> QED BY <1>2, <3>1 DEF Quiet
  <2> QED BY <1>13, <2>1, ApplyMoney
<1>14. CASE TakeDone(d)
  BY <1>14, DoneMoney
<1>15. CASE Touch(d)
  <2>1. Ends(d, FALSE, <<>>) /\ changes' = changes /\ rows' = rows
    BY <1>15 DEF Touch
  <2> QED BY <1>2, <2>1
<1>16. CASE PeerGone(d)
  BY <1>2, <1>16 DEF PeerGone
<1>17. CASE Fail(d)
  BY <1>2, <1>17 DEF Fail
<1> QED BY <1>3, <1>4, <1>5, <1>6, <1>7, <1>8, <1>9, <1>10, <1>11, <1>12, <1>13, <1>14, <1>15, <1>16, <1>17 DEF Step

LEMMA NextMoney == FlowInv /\ MoneyInv /\ ~Concurrent /\ [Next]_vars => MoneyInv'
<1> SUFFICES ASSUME FlowInv, MoneyInv, ~Concurrent, [Next]_vars
             PROVE  MoneyInv'
  OBVIOUS
<1>1. ASSUME UNCHANGED <<changes, rows, run, wire>> PROVE MoneyInv'
  BY <1>1, MoneyStays, MoneyAround
<1>2. CASE Pass
  BY <1>1, <1>2 DEF Pass
<1>3. CASE ChangeCurrency
  <2>1. Idle
    BY <1>3 DEF ChangeCurrency, MayWrite
  <2> QED BY <1>3, <2>1, ChangeMoney
<1>4. ASSUME NEW mode \in habit, Start(mode) PROVE MoneyInv'
  BY <1>4, StartMoney
<1>5. ASSUME NEW d \in Devices, NEW i \in Written, Edit(d, i) PROVE MoneyInv'
  <2>1. i \in Items
    BY DEF Written
  <2> QED BY <1>5, <2>1, EditMoney
<1>6. ASSUME NEW d \in Devices, Step(d) \/ Fail(d) PROVE MoneyInv'
  BY <1>6, OneStepMoney
<1>7. CASE UNCHANGED vars
  BY <1>1, <1>7 DEF vars
<1> QED BY <1>2, <1>3, <1>4, <1>5, <1>6, <1>7 DEF Next

\* Where nobody writes during a sync, every amount a device holds is in the
\* currency it shows, through any number of syncs, changes of currency and
\* broken connections (currency.rs: change, apply_incoming).
THEOREM FlowKeepsCurrency ==
  ASSUME ~Concurrent
  PROVE  (Spec => []AmountsInCurrency) /\ (SpecMet => []AmountsInCurrency)
<1>1. Init \/ InitMet => FlowInv /\ MoneyInv
  BY FlowBegins, MoneyBegins
<1>2. FlowInv /\ MoneyInv /\ [Next]_vars => FlowInv' /\ MoneyInv'
  BY NextKeeps, NextMoney
<1>3. MoneyInv => AmountsInCurrency
  BY DEF MoneyInv
<1> QED BY <1>1, <1>2, <1>3, PTL DEF Spec, SpecMet

-----------------------------------------------------------------------------
(***************************************************************************)
(* The order of stamps, and one row on both devices.                       *)
(***************************************************************************)
LEMMA StampOrder ==
  /\ \A a \in Stamp : ~Older(a, a) /\ ~Older(a, UNSET_STAMP)
  /\ \A a, b \in Stamp : /\ ~(Older(a, b) /\ Older(b, a))
                         /\ a = b \/ Older(a, b) \/ Older(b, a)
  /\ \A a, b, c \in Stamp : Older(a, b) /\ Older(b, c) => Older(a, c)
<1>1. \A a \in Stamp : a.ms \in Nat /\ a.counter \in Nat /\ a.device \in Nat
  BY MaxCounterAssumption, LastDeviceAssumption DEF Stamp
<1>2. \A a, b \in Stamp : a.ms = b.ms /\ a.counter = b.counter /\ a.device = b.device => a = b
  BY DEF Stamp
<1>3. UNSET_STAMP.ms = 0 /\ UNSET_STAMP.counter = 0 /\ UNSET_STAMP.device = 0
  BY DEF UNSET_STAMP, ZeroDevice
<1>4. \A a \in Stamp : ~Older(a, a) /\ ~Older(a, UNSET_STAMP)
  BY <1>1, <1>3 DEF Older, Behind
<1>5. \A a, b \in Stamp : ~(Older(a, b) /\ Older(b, a))
  BY <1>1 DEF Older, Behind
<1>6. \A a, b \in Stamp : a = b \/ Older(a, b) \/ Older(b, a)
  BY <1>1, <1>2 DEF Older, Behind
<1>7. \A a, b, c \in Stamp : Older(a, b) /\ Older(b, c) => Older(a, c)
  BY <1>1 DEF Older, Behind
<1> QED BY <1>4, <1>5, <1>6, <1>7

\* Times and stamps against the clock.
LEMMA ClockOrder ==
  /\ \A c \in Clock : AtMost(c, c) /\ AtMost(UNSET_STAMP, c)
  /\ \A c, k \in Clock, s \in Stamp : AtMost(s, c) /\ AtMost(c, k) => AtMost(s, k)
  /\ \A c \in Clock, s, t \in Stamp : AtMost(s, c) /\ Behind(c, t) => Older(s, t) /\ s # t
  /\ \A c, k, l \in Clock : AtMost(c, k) /\ Behind(k, l) => Behind(c, l) /\ AtMost(c, l)
  /\ \A c, k, l \in Clock : AtMost(c, k) /\ AtMost(k, l) => AtMost(c, l)
<1>1. \A a \in Stamp : a.ms \in Nat /\ a.counter \in Nat
  BY MaxCounterAssumption DEF Stamp
<1>2. \A a \in Clock : a.ms \in Nat /\ a.counter \in Nat
  BY MaxCounterAssumption DEF Clock
<1>3. UNSET_STAMP.ms = 0 /\ UNSET_STAMP.counter = 0
  BY DEF UNSET_STAMP
<1>4. \A c \in Clock : AtMost(c, c) /\ AtMost(UNSET_STAMP, c)
  BY <1>2, <1>3 DEF AtMost, Behind
<1>5. \A c, k \in Clock, s \in Stamp : AtMost(s, c) /\ AtMost(c, k) => AtMost(s, k)
  BY <1>1, <1>2 DEF AtMost, Behind
<1>6. \A c \in Clock, s, t \in Stamp : AtMost(s, c) /\ Behind(c, t) => Older(s, t) /\ s # t
  BY <1>1, <1>2 DEF AtMost, Behind, Older
<1>7. \A c, k, l \in Clock : AtMost(c, k) /\ Behind(k, l) => Behind(c, l) /\ AtMost(c, l)
  BY <1>2 DEF AtMost, Behind
<1>8. \A c, k, l \in Clock : AtMost(c, k) /\ AtMost(k, l) => AtMost(c, l)
  BY <1>2 DEF AtMost, Behind
<1> QED BY <1>4, <1>5, <1>6, <1>7, <1>8

LEMMA RowStaysSound ==
  ASSUME NEW d \in Devices, NEW a \in Row, NEW b \in Row, NEW n \in Row,
         NEW c \in Clock, NEW k \in Clock, NEW z \in Clock, AtMost(c, k),
         Sound(d, a, b, c, z), Sound(Other(d), b, a, z, c),
         NEW since, NEW others, RowGoes(d, a, b, n, c, k, since, others)
  PROVE  Sound(d, n, b, k, z) /\ Sound(Other(d), b, n, z, k)
<1> DEFINE e == Other(d)
<1>1. e # d /\ Other(e) = d /\ d # 0 /\ e # 0 /\ UNSET_STAMP.device = 0
  BY DevicesAre, DeviceIds DEF UNSET_STAMP, ZeroDevice
<1>2. a.stamp \in Stamp /\ b.stamp \in Stamp /\ n.stamp \in Stamp
  BY DEF Row
<1> HIDE DEF e
<1>3. /\ a.version # 0 => /\ AtMost(a.stamp, c) /\ (a.stamp.device = e => AtMost(a.stamp, z))
                          /\ (a.stamp = UNSET_STAMP => b.version # 0 /\ b.stamp # UNSET_STAMP)
                          /\ (b.version # 0 /\ a.stamp = b.stamp => Alike(a, b))
      /\ b.version # 0 => /\ AtMost(b.stamp, z) /\ (b.stamp.device = d => AtMost(b.stamp, c))
                          /\ (b.stamp = UNSET_STAMP => a.version # 0 /\ a.stamp # UNSET_STAMP)
                          /\ (a.version # 0 /\ b.stamp = a.stamp => Alike(b, a))
  BY <1>1 DEF Sound, e
<1>4. b.version # 0 => AtMost(b.stamp, z) /\ (b.stamp.device = d => AtMost(b.stamp, k))
  BY <1>2, <1>3, ClockOrder
<1>5. CASE Alike(n, a)
  <2>1. n.version = a.version /\ n.stamp = a.stamp
    BY <1>5 DEF Alike
  <2>2. n.version # 0 => AtMost(n.stamp, k)
    BY <1>2, <1>3, <2>1, ClockOrder
  <2>3. b.version # 0 /\ n.version # 0 /\ n.stamp = b.stamp => Alike(n, b) /\ Alike(b, n)
    BY <1>3, <1>5, <2>1 DEF Alike
  <2> QED BY <1>1, <1>3, <1>4, <2>1, <2>2, <2>3 DEF Sound, e
<1>6. CASE Restamped(d, n, c, k, since)
  <2>1. n.version # 0 /\ n.stamp.device = d /\ Behind(c, n.stamp) /\ AtMost(n.stamp, k)
    BY <1>6 DEF Restamped
  <2>2. b.version # 0 => b.stamp # n.stamp
    BY <1>2, <1>3, <2>1, ClockOrder
  <2>3. n.stamp # UNSET_STAMP
    BY <1>1, <2>1
  <2> QED BY <1>1, <1>3, <1>4, <2>1, <2>2, <2>3 DEF Sound, e
<1>7. CASE Given(a, b, n, others)
  <2>1. n.version # 0 /\ n.stamp = UNSET_STAMP /\ b.version # 0 /\ b.stamp # UNSET_STAMP
    BY <1>7 DEF Given
  <2>2. AtMost(n.stamp, k) /\ n.stamp.device # e
    BY <1>1, <2>1, ClockOrder
  <2> QED BY <1>1, <1>3, <1>4, <2>1, <2>2 DEF Sound, e
<1>8. CASE Taken(a, b, n, k)
  <2>1. n = b /\ AtMost(b.stamp, k) /\ b.version # 0 /\ (a.version = 0 \/ Older(a.stamp, b.stamp))
    BY <1>8 DEF Taken, Outdates
  <2>2. b.stamp # UNSET_STAMP
    BY <1>2, <1>3, <2>1, StampOrder
  <2>3. Alike(n, b) /\ Alike(b, n)
    BY <2>1 DEF Alike
  <2> QED BY <1>1, <1>3, <1>4, <2>1, <2>2, <2>3 DEF Sound, e
<1> QED BY <1>5, <1>6, <1>7, <1>8 DEF RowGoes

LEMMA RowStaysCounted ==
  ASSUME NEW d \in Devices, NEW a \in Row, NEW b \in Row, NEW n \in Row,
         NEW c \in Clock, NEW k \in Clock, NEW z \in Clock, Sound(d, a, b, c, z),
         NEW since \in SUBSET Nat, NEW others \in SUBSET Nat, RowGoes(d, a, b, n, c, k, since, others),
         Counted(d, a, b, since), Counted(Other(d), b, a, others)
  PROVE  Counted(d, n, b, since) /\ Counted(Other(d), b, n, others)
<1> DEFINE e == Other(d)
<1>1. e # d /\ Other(e) = d /\ d # 0 /\ e # 0 /\ UNSET_STAMP.device = 0
  BY DevicesAre, DeviceIds DEF UNSET_STAMP, ZeroDevice
<1>2. a.stamp \in Stamp /\ b.stamp \in Stamp /\ n.stamp \in Stamp /\ a.stamp.ms \in Nat /\ b.stamp.ms \in Nat /\ n.stamp.ms \in Nat
  BY DEF Row, Stamp
<1> HIDE DEF e
<1>3. CASE Alike(n, a)
  <2>1. n.version = a.version /\ n.stamp = a.stamp
    BY <1>3 DEF Alike
  <2> QED BY <2>1 DEF Counted, Outdates
<1>4. CASE Restamped(d, n, c, k, since)
  <2>1. n.version # 0 /\ Behind(c, n.stamp) /\ \A t \in since : n.stamp.ms > t
    BY <1>4 DEF Restamped
  <2>2. \A t \in since : ~(n.stamp.ms <= t)
    BY <1>2, <2>1
  <2>3. ~Outdates(b, a) => ~Outdates(b, n)
    <3> SUFFICES ASSUME ~Outdates(b, a), Outdates(b, n)
                 PROVE  FALSE
      OBVIOUS
    <3>1. b.version # 0 /\ Older(n.stamp, b.stamp) /\ a.version # 0 /\ ~Older(a.stamp, b.stamp)
      BY <2>1 DEF Outdates
    <3>2. Older(a.stamp, n.stamp)
      BY <1>2, <2>1, <3>1, ClockOrder DEF Sound
    <3> QED BY <1>2, <3>1, <3>2, StampOrder
  <2> QED BY <2>2, <2>3 DEF Counted
<1>5. CASE Given(a, b, n, others)
  <2>1. n.stamp = UNSET_STAMP /\ \A t \in others : b.stamp.ms > t
    BY <1>5 DEF Given
  <2>2. n.stamp.device # d
    BY <1>1, <2>1
  <2>3. \A t \in others : ~(b.stamp.ms <= t)
    BY <1>2, <2>1
  <2> QED BY <2>2, <2>3 DEF Counted
<1>6. CASE Taken(a, b, n, k)
  <2>1. n = b /\ Outdates(b, a) /\ b.version # 0
    BY <1>6 DEF Taken, Outdates
  <2>2. ~Outdates(n, b) /\ ~Outdates(b, n)
    BY <1>2, <2>1, StampOrder DEF Outdates
  <2> QED BY <2>2 DEF Counted
<1> QED BY <1>3, <1>4, <1>5, <1>6 DEF RowGoes

-----------------------------------------------------------------------------
(***************************************************************************)
(* The rows, where nobody writes during a sync.                            *)
(***************************************************************************)

\* Two tables: what one is to send the other, by the lists, is where it is ahead.
LEMMA ToSendIs ==
  ASSUME NEW mine \in Tables, NEW theirs \in Tables
  PROVE  ToSend(List(mine), List(theirs)) = Ahead(mine, theirs)
<1>1. /\ DOMAIN List(mine) = {i \in Items : mine[i].version # 0}
      /\ DOMAIN List(theirs) = {i \in Items : theirs[i].version # 0}
      /\ \A i \in Items : mine[i].version # 0 => List(mine)[i].stamp = mine[i].stamp
      /\ \A i \in Items : theirs[i].version # 0 => List(theirs)[i].stamp = theirs[i].stamp
  BY ListIs DEF Holds
<1> QED BY <1>1 DEF ToSend, Ahead, Outdates

\* Tables with equal lists are ahead of each other nowhere.
LEMMA EqualLists ==
  ASSUME NEW mine \in Tables, NEW theirs \in Tables, List(mine) = List(theirs)
  PROVE  Ahead(mine, theirs) = {}
<1>1. /\ DOMAIN List(mine) = {i \in Items : mine[i].version # 0}
      /\ DOMAIN List(theirs) = {i \in Items : theirs[i].version # 0}
      /\ \A i \in Items : mine[i].version # 0 => List(mine)[i].stamp = mine[i].stamp
      /\ \A i \in Items : theirs[i].version # 0 => List(theirs)[i].stamp = theirs[i].stamp
  BY ListIs DEF Holds
<1>2. \A i \in Items : mine[i].stamp \in Stamp
  BY DEF Tables, Row
<1>3. ASSUME NEW i \in Items, Outdates(mine[i], theirs[i]) PROVE FALSE
  <2>1. mine[i].version # 0 /\ theirs[i].version # 0
    BY <1>1, <1>3 DEF Outdates
  <2>2. mine[i].stamp = theirs[i].stamp
    BY <1>1, <2>1
  <2> QED BY <1>2, <1>3, <2>1, <2>2, StampOrder DEF Outdates
<1> QED BY <1>3 DEF Ahead

\* Tables that are ahead of each other nowhere have equal lists, where equal stamps
\* are of equal changes.
LEMMA NoneAhead ==
  ASSUME NEW mine \in Tables, NEW theirs \in Tables, Ahead(mine, theirs) = {}, Ahead(theirs, mine) = {},
         \A i \in Items : mine[i].version # 0 /\ theirs[i].version # 0 /\ mine[i].stamp = theirs[i].stamp =>
                            mine[i].deleted = theirs[i].deleted
  PROVE  List(mine) = List(theirs)
<1>1. \A i \in Items : mine[i].stamp \in Stamp /\ theirs[i].stamp \in Stamp
  BY DEF Tables, Row
<1>2. \A i \in Items : ~Outdates(mine[i], theirs[i]) /\ ~Outdates(theirs[i], mine[i])
  BY DEF Ahead
<1>3. \A i \in Items : Holds(mine, i) <=> Holds(theirs, i)
  BY <1>2 DEF Outdates, Holds
<1>4. \A i \in Items : Holds(mine, i) => mine[i].stamp = theirs[i].stamp /\ mine[i].deleted = theirs[i].deleted
  <2> SUFFICES ASSUME NEW i \in Items, Holds(mine, i)
               PROVE  mine[i].stamp = theirs[i].stamp /\ mine[i].deleted = theirs[i].deleted
    OBVIOUS
  <2>1. mine[i].version # 0 /\ theirs[i].version # 0
    BY <1>3 DEF Holds
  <2>2. ~Older(mine[i].stamp, theirs[i].stamp) /\ ~Older(theirs[i].stamp, mine[i].stamp)
    BY <1>2, <2>1 DEF Outdates
  <2>3. mine[i].stamp = theirs[i].stamp
    BY <1>1, <2>2, StampOrder
  <2> QED BY <2>1, <2>3
<1>5. {i \in Items : Holds(mine, i)} = {i \in Items : Holds(theirs, i)}
  BY <1>3
<1> DEFINE S == {i \in Items : Holds(mine, i)}
<1>6. \A i \in S : [stamp |-> mine[i].stamp, deleted |-> mine[i].deleted] = [stamp |-> theirs[i].stamp, deleted |-> theirs[i].deleted]
  BY <1>4
<1>7. List(mine) = [i \in S |-> [stamp |-> mine[i].stamp, deleted |-> mine[i].deleted]]
  BY DEF List
<1>8. List(theirs) = [i \in S |-> [stamp |-> theirs[i].stamp, deleted |-> theirs[i].deleted]]
  BY <1>5 DEF List
<1> QED BY <1>6, <1>7, <1>8

LEMMA AcrossFollows ==
  ASSUME NEW x \in Runs, NEW y \in Runs, NEW v \in Seq(Messages), NEW w \in Seq(Messages)
  PROVE  Together(x, y, v, w) => Across(Desktop, x, y, w) /\ Across(Phone, y, x, v)
<1>0. Desktop # Phone
  BY DevicesAre
<1>1. Calling(x, y, v, w) => Across(Desktop, x, y, w) /\ Across(Phone, y, x, v)
  BY DEF Calling, Across
<1>2. Greeting(x, y, v, w) => Across(Desktop, x, y, w) /\ Across(Phone, y, x, v)
  BY DEF Greeting, Across
<1>3. Learning(x, y, v, w) => Across(Desktop, x, y, w) /\ Across(Phone, y, x, v)
  BY DEF Learning, Across
<1>4. Comparing(x, y, v, w) => Across(Desktop, x, y, w) /\ Across(Phone, y, x, v)
  BY DEF Comparing, Hashed, Of, Met, Across
<1>5. Listing(x, y, v, w) => Across(Desktop, x, y, w) /\ Across(Phone, y, x, v)
  BY DEF Listing, Met, Across
<1>6. Reviewing(x, y, v, w) => Across(Desktop, x, y, w) /\ Across(Phone, y, x, v)
  BY DEF Reviewing, Met, Across
<1>7. Reviewing(y, x, w, v) => Across(Desktop, x, y, w) /\ Across(Phone, y, x, v)
  BY DEF Reviewing, Met, Across
<1>8. Exchanging(x, y, v, w) => Across(Desktop, x, y, w) /\ Across(Phone, y, x, v)
  BY <1>0 DEF Exchanging, Met, Of, Across
<1> QED BY <1>1, <1>2, <1>3, <1>4, <1>5, <1>6, <1>7, <1>8 DEF Together

LEMMA AcrossIs ==
  ASSUME FlowInv, NEW d \in Devices, run[d].at # "rest"
  PROVE  /\ run[Other(d)].at = "rest" => wire[Other(d)] = <<>>
         /\ run[Other(d)].at # "rest" => Across(d, run[d], run[Other(d)], wire[Other(d)])
<1>1. /\ run[d] \in Runs /\ run[Other(d)] \in Runs
      /\ wire[d] \in Seq(Messages) /\ wire[Other(d)] \in Seq(Messages)
      /\ Other(d) \in Devices
  BY SidesAre, DevicesAre DEF FlowInv
<1>2. run[Other(d)].at = "rest" => wire[Other(d)] = <<>>
  <2>1. Script(Other(d), run[Other(d)], wire[Other(d)])
    BY <1>1 DEF FlowInv, StepInv
  <2> QED BY <2>1 DEF Script
<1>3. ASSUME run[Other(d)].at # "rest" PROVE Across(d, run[d], run[Other(d)], wire[Other(d)])
  <2>1. Together(run[Desktop], run[Phone], wire[Desktop], wire[Phone])
    BY <1>3, DevicesAre DEF FlowInv, StepInv, At
  <2>2. Across(Desktop, run[Desktop], run[Phone], wire[Phone]) /\ Across(Phone, run[Phone], run[Desktop], wire[Desktop])
    BY <1>1, <2>1, AcrossFollows, DevicesAre
  <2> QED BY <2>2, DevicesAre
<1> QED BY <1>2, <1>3

LEMMA RowsAreTrue ==
  ASSUME RowsInv, NEW d \in Devices
  PROVE  /\ RunTrue(d, run[d], rows, last, habit)
         /\ \A m \in Msgs(wire[d]) : MsgTrue(d, run[d], m, rows, last, habit)
BY DEF RowsInv, RunsTrue, MsgsTrue

\* A step of d in which no row, clock or time of a sync changes.
LEMMA TruthTalks ==
  ASSUME TypeInv, RowsInv, NEW d \in Devices, Quiet, run'[Other(d)] = run[Other(d)],
         NEW took \in BOOLEAN, took => wire[d] # <<>>,
         NEW sent \in Seq(Messages), Talk(d, took, sent),
         run[d].at # "rest", RunTrue(d, run'[d], rows, last, habit),
         \A m \in Msgs(wire'[d]) : MsgTrue(d, run'[d], m, rows, last, habit),
         run[Other(d)].at # "rest" => \A m \in Msgs(sent) : MsgTrue(Other(d), run[Other(d)], m, rows, last, habit)
  PROVE  RowsInv'
<1> DEFINE e == Other(d)
<1>1. e \in Devices /\ Devices = {d, e}
  BY DevicesAre
<1>2. /\ rows' = rows /\ last' = last /\ habit' = habit /\ clock' = clock /\ now' = now /\ lead' = lead
  BY DEF Quiet, world
<1>3. \A m \in Msgs(wire'[e]) : MsgTrue(e, run[e], m, rows, last, habit)
  <2>1. CASE run[e].at = "rest"
    <3>1. wire'[e] = wire[e]
      BY <2>1, TalkIs DEF At
    <3> QED BY <1>1, <3>1, RowsAreTrue
  <2>2. CASE run[e].at # "rest"
    <3>1. Msgs(wire'[e]) \subseteq Msgs(wire[e]) \cup Msgs(sent)
      BY TalkMsgs
    <3> QED BY <1>1, <2>2, <3>1, RowsAreTrue
  <2> QED BY <2>1, <2>2
<1>4. RunTrue(e, run'[e], rows', last', habit') /\ RunTrue(d, run'[d], rows', last', habit')
  BY <1>1, <1>2, RowsAreTrue
<1>5. RunsTrue'
  BY <1>1, <1>4 DEF RunsTrue
<1>6. \A f \in Devices : \A m \in Msgs(wire'[f]) : MsgTrue(f, run'[f], m, rows', last', habit')
  BY <1>1, <1>2, <1>3
<1>7. MsgsTrue'
  BY <1>6 DEF MsgsTrue, Msgs
<1>8. SoundRows' /\ CountedRows'
  BY <1>2 DEF RowsInv, SoundRows, CountedRows, Plain
<1>9. Timely'
  <2>1. run'[d].at # "rest" => run[d].at # "rest"
    OBVIOUS
  <2>2. \A f \in Devices : run'[f].at # "rest" => run[f].at # "rest"
    BY <1>1, <2>1
  <2> QED BY <1>2, <2>2 DEF RowsInv, Timely, Wall
<1> QED BY <1>5, <1>7, <1>8, <1>9 DEF RowsInv

\* One where d stays what it is to the messages.
LEMMA TruthGoesOn ==
  ASSUME TypeInv, RowsInv, NEW d \in Devices, Quiet, run'[Other(d)] = run[Other(d)],
         NEW took \in BOOLEAN, took => wire[d] # <<>>,
         NEW sent \in Seq(Messages), Talk(d, took, sent),
         run[d].at # "rest", RunTrue(d, run'[d], rows, last, habit),
         run'[d].mode = run[d].mode, run'[d].at # "rows",
         run[Other(d)].at # "rest" => \A m \in Msgs(sent) : MsgTrue(Other(d), run[Other(d)], m, rows, last, habit)
  PROVE  RowsInv'
<1>1. Msgs(wire'[d]) \subseteq Msgs(wire[d])
  BY TalkMsgs
<1>2. \A m \in Msgs(wire[d]) : MsgTrue(d, run'[d], m, rows, last, habit)
  BY RowsAreTrue DEF MsgTrue
<1>3. \A m \in Msgs(wire'[d]) : MsgTrue(d, run'[d], m, rows, last, habit)
  BY <1>1, <1>2
<1> QED BY <1>3, TruthTalks

LEMMA TruthEnds ==
  ASSUME TypeInv, RowsInv, NEW d \in Devices, run[d].at # "rest", NEW took, NEW sent \in Seq(Messages), Ends(d, took, sent), Quiet,
         run[Other(d)].at # "rest" => \A m \in Msgs(sent) : MsgTrue(Other(d), run[Other(d)], m, rows, last, habit)
  PROVE  RowsInv'
<1> DEFINE e == Other(d)
<1>1. e \in Devices /\ Devices = {d, e}
  BY DevicesAre
<1>2. /\ rows' = rows /\ last' = last /\ habit' = habit /\ clock' = clock /\ now' = now /\ lead' = lead
  BY DEF Quiet, world
<1>3. /\ run'[d] = Resting /\ run'[e] = run[e] /\ wire'[d] = <<>>
      /\ run[e].at = "rest" => wire'[e] = wire[e]
  BY EndsIs DEF At
<1>4. \A m \in Msgs(wire'[e]) : MsgTrue(e, run[e], m, rows, last, habit)
  <2>1. CASE run[e].at = "rest"
    BY <1>1, <1>3, <2>1, RowsAreTrue
  <2>2. CASE run[e].at # "rest"
    <3>1. Msgs(wire'[e]) \subseteq Msgs(wire[e]) \cup Msgs(sent)
      BY EndsMsgs
    <3> QED BY <1>1, <2>2, <3>1, RowsAreTrue
  <2> QED BY <2>1, <2>2
<1>5. RunTrue(d, run'[d], rows, last, habit)
  BY <1>3, RestingIs DEF RunTrue, Listed
<1>6. RunTrue(e, run'[e], rows', last', habit') /\ RunTrue(d, run'[d], rows', last', habit')
  BY <1>1, <1>2, <1>3, <1>5, RowsAreTrue
<1>7. RunsTrue'
  BY <1>1, <1>6 DEF RunsTrue
<1>8. Msgs(wire'[d]) = {}
  BY <1>3, NoMsgs
<1>9. \A f \in Devices : \A m \in Msgs(wire'[f]) : MsgTrue(f, run'[f], m, rows', last', habit')
  BY <1>1, <1>2, <1>3, <1>4, <1>8
<1>10. MsgsTrue'
  BY <1>9 DEF MsgsTrue, Msgs
<1>11. SoundRows' /\ CountedRows'
  BY <1>2 DEF RowsInv, SoundRows, CountedRows, Plain
<1>12. Timely'
  <2>1. \A f \in Devices : run'[f].at # "rest" => run[f].at # "rest"
    BY <1>1, <1>3
  <2> QED BY <1>2, <2>1 DEF RowsInv, Timely, Wall
<1> QED BY <1>7, <1>10, <1>11, <1>12 DEF RowsInv

LEMMA HelloTruth ==
  ASSUME FlowInv, RowsInv, NEW d \in Devices, TakeHello(d)
  PROVE  RowsInv'
<1> USE DEF FlowInv
<1>1. /\ At(d, "hello") /\ Arrived(d) /\ Quiet /\ run'[Other(d)] = run[Other(d)]
      /\ \/ Ends(d, TRUE, Greets(d))
         \/ /\ Talk(d, TRUE, Greets(d))
            /\ run'[d].at = AfterHello(d, OwnHello(d), Arriving(d))
            /\ run'[d].own = OwnHello(d) /\ run'[d].theirs = Arriving(d)
            /\ d = Desktop => run'[d].mode = run[d].mode
            /\ d = Phone => run'[d].mode = Arriving(d).mode
            /\ run'[d].differs = run[d].differs
  BY TakeHelloIs DEF Quiet
<1>2. wire[d] # <<>> /\ run[d].at = "hello" /\ run[d] \in Runs
  BY <1>1, ArrivedIs, SidesAre DEF At
<1>3. RunTrue(d, run[d], rows, last, habit) /\ \A m \in Msgs(wire[d]) : MsgTrue(d, run[d], m, rows, last, habit)
  BY RowsAreTrue
<1>4. Arriving(d).since = last[Other(d)] /\ (habit = {"both"} => Arriving(d).mode = "both")
  <2>1. wire[d][1] \in Msgs(wire[d]) /\ wire[d][1].body = Arriving(d) /\ wire[d][1].kind = "hello"
    BY <1>1, ArrivedMsgs, ArrivedIs
  <2> QED BY <1>3, <2>1 DEF MsgTrue
<1>5. OwnHello(d).since = last[d] /\ (d = Desktop => OwnHello(d).mode = run[d].mode)
  <2>1. run[d].mode \in Modes
    BY <1>2 DEF Runs
  <2>2. Hello(d, run[d].mode).since = last[d] /\ Hello(d, run[d].mode).mode = run[d].mode
    BY <2>1, HelloIs
  <2>3. d # Desktop => run[d].own.since = last[d]
    BY <1>2, <1>3 DEF RunTrue
  <2> QED BY <2>2, <2>3 DEF OwnHello
<1>6. Greets(d) \in Seq(Messages) /\ \A m \in Msgs(Greets(d)) : MsgTrue(Other(d), run[Other(d)], m, rows, last, habit)
  <2>1. d = Desktop => MsgTrue(Other(d), run[Other(d)], [kind |-> "hello", body |-> OwnHello(d)], rows, last, habit)
    BY <1>3, <1>5, DevicesAre DEF MsgTrue, RunTrue
  <2>2. Greets(d) \in Seq(Messages) /\ [kind |-> "hello", body |-> OwnHello(d)] \in Messages
    BY OwnHelloIs
  <2> QED BY <2>1, <2>2, MsgsOfOne, NoMsgs DEF Greets
<1>7. CASE Ends(d, TRUE, Greets(d))
  BY <1>1, <1>2, <1>6, <1>7, TruthEnds
<1>8. CASE ~Ends(d, TRUE, Greets(d))
  <2>1. run'[d].at \in {"compare", "currency", "learn"}
    BY <1>1, <1>8 DEF AfterHello
  <2>2. RunTrue(d, run'[d], rows, last, habit)
    BY <1>1, <1>3, <1>4, <1>5, <1>8, <2>1, DevicesAre DEF RunTrue, Listed
  <2>3. FlowInv'
    BY OneStepKeeps DEF Step
  <2>4. Script(d, run'[d], wire'[d]) /\ wire'[d] \in Seq(Messages)
    BY <2>3 DEF StepInv, TypeInv
  <2>5. wire'[d] = <<>> \/ One(wire'[d], "hashes") \/ One(wire'[d], "currency") \/ Two(wire'[d], "currency", "hashes")
    BY <2>1, <2>4 DEF Script
  <2>6. \A m \in Msgs(wire'[d]) : m.kind \in {"hashes", "currency"}
    BY <2>4, <2>5, NoMsgs, MsgsAre DEF One, Two
  <2>7. Msgs(wire'[d]) \subseteq Msgs(wire[d])
    BY <1>1, <1>2, <1>6, <1>8, TalkMsgs
  <2>8. \A m \in Msgs(wire'[d]) : MsgTrue(d, run'[d], m, rows, last, habit)
    BY <1>3, <2>6, <2>7 DEF MsgTrue
  <2> QED BY <1>1, <1>2, <1>6, <1>8, <2>2, <2>8, TruthTalks
<1> QED BY <1>7, <1>8

LEMMA SendCurrencyTruth ==
  ASSUME FlowInv, RowsInv, NEW d \in Devices, SendCurrency(d)
  PROVE  RowsInv'
<1> USE DEF FlowInv
<1>1. /\ run[d].at = "currency" /\ Quiet /\ run'[Other(d)] = run[Other(d)]
      /\ Talk(d, FALSE, Message("currency", Missing(d))) /\ run'[d].at = "compare"
      /\ KeepsHello(d) /\ run'[d].reviewed = run[d].reviewed /\ run'[d].differs = run[d].differs
  BY SendCurrencyIs DEF At
<1>2. [kind |-> "currency", body |-> Missing(d)] \in Messages
  BY MissingIs, KindsAre
<1>3. /\ Message("currency", Missing(d)) \in Seq(Messages)
      /\ Msgs(Message("currency", Missing(d))) = {[kind |-> "currency", body |-> Missing(d)]}
  BY <1>2, MsgsOfOne
<1>4. \A m \in Msgs(Message("currency", Missing(d))) : MsgTrue(Other(d), run[Other(d)], m, rows, last, habit)
  BY <1>3 DEF MsgTrue
<1>5. RunTrue(d, run'[d], rows, last, habit)
  BY <1>1, RowsAreTrue DEF RunTrue, KeepsHello, Listed
<1> QED BY <1>1, <1>3, <1>4, <1>5, TruthGoesOn DEF KeepsHello

LEMMA CompareTruth ==
  ASSUME FlowInv, RowsInv, NEW d \in Devices, Compare(d)
  PROVE  RowsInv'
<1> USE DEF FlowInv
<1>1. /\ run[d].at = "compare" /\ Quiet /\ run'[Other(d)] = run[Other(d)]
      /\ Talk(d, FALSE, Message("hashes", List(rows[d]))) /\ run'[d].at = "hashes" /\ run'[d].list = List(rows[d])
      /\ KeepsHello(d) /\ run'[d].reviewed = run[d].reviewed /\ run'[d].differs = run[d].differs
  BY CompareIs DEF At
<1>2. [kind |-> "hashes", body |-> List(rows[d])] \in Messages
  BY SidesAre, ListIs, KindsAre
<1>3. /\ Message("hashes", List(rows[d])) \in Seq(Messages)
      /\ Msgs(Message("hashes", List(rows[d]))) = {[kind |-> "hashes", body |-> List(rows[d])]}
  BY <1>2, MsgsOfOne
<1>4. \A m \in Msgs(Message("hashes", List(rows[d]))) : MsgTrue(Other(d), run[Other(d)], m, rows, last, habit)
  BY <1>3, DevicesAre DEF MsgTrue
<1>5. RunTrue(d, run'[d], rows, last, habit)
  BY <1>1, RowsAreTrue DEF RunTrue, KeepsHello, Listed
<1> QED BY <1>1, <1>3, <1>4, <1>5, TruthGoesOn DEF KeepsHello

\* The list that arrives is of the other's rows.
LEMMA ListArrives ==
  ASSUME FlowInv, RowsInv, NEW d \in Devices, Arrived(d), run[d].at \in {"hashes", "lists", "done"}
  PROVE  Arriving(d) = List(rows[Other(d)]) /\ run[d].list = List(rows[d])
<1>1. wire[d][1] \in Msgs(wire[d]) /\ wire[d][1].body = Arriving(d) /\ wire[d][1].kind \in {"hashes", "list", "done"}
  BY ArrivedMsgs, ArrivedIs DEF FlowInv, At
<1>2. MsgTrue(d, run[d], wire[d][1], rows, last, habit) /\ RunTrue(d, run[d], rows, last, habit)
  BY <1>1, RowsAreTrue
<1> QED BY <1>1, <1>2 DEF MsgTrue, RunTrue, Listed

LEMMA HashesEqualTruth ==
  ASSUME FlowInv, RowsInv, NEW d \in Devices, TakeHashes(d), Arriving(d) = run[d].list
  PROVE  RowsInv'
<1> USE DEF FlowInv
<1>1. /\ run[d].at = "hashes" /\ Arrived(d) /\ Quiet /\ run'[Other(d)] = run[Other(d)]
      /\ Talk(d, TRUE, <<>>) /\ run'[d].at = "touch" /\ run'[d].list = run[d].list
      /\ KeepsHello(d) /\ run'[d].reviewed = run[d].reviewed /\ run'[d].differs = run[d].differs
  BY TakeHashesEnds DEF At
<1>2. List(rows[d]) = List(rows[Other(d)]) /\ wire[d] # <<>>
  BY <1>1, ListArrives, ArrivedIs
<1>3. HasAll(d, rows) /\ HasAll(Other(d), rows)
  BY <1>2, EqualLists, SidesAre, DevicesAre DEF HasAll
<1>4. RunTrue(d, run'[d], rows, last, habit)
  BY <1>1, <1>3, RowsAreTrue DEF RunTrue, KeepsHello, Listed
<1> QED BY <1>1, <1>2, <1>4, NoMsgs, TruthGoesOn DEF KeepsHello

LEMMA HashesDifferTruth ==
  ASSUME FlowInv, RowsInv, NEW d \in Devices, TakeHashes(d), Arriving(d) # run[d].list
  PROVE  RowsInv'
<1> USE DEF FlowInv
<1>1. /\ run[d].at = "hashes" /\ Arrived(d) /\ Quiet /\ run'[Other(d)] = run[Other(d)]
      /\ Talk(d, TRUE, ListFirst(d)) /\ run'[d].at = "lists" /\ run'[d].list = run[d].list
      /\ KeepsHello(d) /\ run'[d].reviewed = run[d].reviewed /\ run'[d].differs = run[d].differs
  BY TakeHashesGoesOn DEF At
<1>2. List(rows[d]) # List(rows[Other(d)]) /\ wire[d] # <<>> /\ run[d].list = List(rows[d])
  BY <1>1, ListArrives, ArrivedIs
<1>3. RunTrue(d, run'[d], rows, last, habit)
  BY <1>1, <1>2, RowsAreTrue DEF RunTrue, KeepsHello, Listed
<1>4. [kind |-> "list", body |-> run[d].list] \in Messages
  BY SidesAre, KindsAre DEF Runs
<1>5. MsgTrue(Other(d), run[Other(d)], [kind |-> "list", body |-> run[d].list], rows, last, habit)
  BY <1>2, DevicesAre DEF MsgTrue
<1>6. ListFirst(d) \in Seq(Messages) /\ \A m \in Msgs(ListFirst(d)) : MsgTrue(Other(d), run[Other(d)], m, rows, last, habit)
  BY <1>4, <1>5, MsgsOfOne, NoMsgs DEF ListFirst
<1> QED BY <1>1, <1>2, <1>3, <1>6, TruthGoesOn DEF KeepsHello

\* Where a step has led the other side.
LEMMA AcrossLater ==
  ASSUME FlowInv', NEW d \in Devices, run'[d].at # "rest", run'[Other(d)].at # "rest"
  PROVE  Across(d, run'[d], run'[Other(d)], wire'[Other(d)])
<1>1. /\ run'[Desktop] \in Runs /\ run'[Phone] \in Runs
      /\ wire'[Desktop] \in Seq(Messages) /\ wire'[Phone] \in Seq(Messages)
  BY DevicesAre DEF FlowInv, TypeInv
<1>2. Together(run'[Desktop], run'[Phone], wire'[Desktop], wire'[Phone])
  BY DevicesAre DEF FlowInv, StepInv, At
<1>3. Across(Desktop, run'[Desktop], run'[Phone], wire'[Phone]) /\ Across(Phone, run'[Phone], run'[Desktop], wire'[Desktop])
  BY <1>1, <1>2, AcrossFollows
<1> QED BY <1>3, DevicesAre

\* What a person is asked about, both changed after the last syncs of both.
LEMMA AskedDisputed ==
  ASSUME FlowInv, RowsInv, NEW d \in Devices, Arrived(d), run[d].at = "lists"
  PROVE  \A i \in ToAsk(d) : i \in Items /\ Disputed(i, rows, last)
<1> USE DEF FlowInv
<1> SUFFICES ASSUME NEW i \in ToAsk(d)
             PROVE  i \in Items /\ Disputed(i, rows, last)
  OBVIOUS
<1>1. Arriving(d) = List(rows[Other(d)]) /\ run[d].list = List(rows[d])
  BY ListArrives
<1>2. ~run[d].reviewed
  BY DEF ToAsk, Asks
<1>3. run[d].own.since = last[d] /\ run[d].theirs.since = last[Other(d)]
  BY <1>2, RowsAreTrue DEF RunTrue
<1>4. i \in Conflicts(List(rows[d]), List(rows[Other(d)]), last[d] \cup last[Other(d)])
  BY <1>1, <1>2, <1>3 DEF ToAsk, Asks, Asked
<1> DEFINE mine == List(rows[d])
           theirs == List(rows[Other(d)])
           since == last[d] \cup last[Other(d)]
<1>5. /\ i \in DOMAIN mine /\ i \in DOMAIN theirs /\ since # {}
      /\ \A s \in since : mine[i].stamp.ms > s /\ theirs[i].stamp.ms > s
  BY <1>4 DEF Conflicts
<1>6. rows[d] \in Tables /\ rows[Other(d)] \in Tables /\ since \in SUBSET Nat
  BY SidesAre, DevicesAre
<1>7. /\ i \in Items /\ Holds(rows[d], i) /\ Holds(rows[Other(d)], i)
      /\ mine[i].stamp = rows[d][i].stamp /\ theirs[i].stamp = rows[Other(d)][i].stamp
  BY <1>5, <1>6, ListIs
<1>8. \A f \in Devices : \A s \in last[f] : rows[d][i].stamp.ms > s /\ rows[Other(d)][i].stamp.ms > s
  BY <1>5, <1>7, DevicesAre
<1>9. rows[d][i].stamp.ms # 0 /\ rows[Other(d)][i].stamp.ms # 0
  BY <1>5, <1>6, <1>7
<1>10. UNSET_STAMP.ms = 0
  BY DEF UNSET_STAMP
<1> QED BY <1>7, <1>8, <1>9, <1>10, DevicesAre DEF Disputed

LEMMA AnswersTrue ==
  ASSUME FlowInv, RowsInv, NEW d \in Devices, Arrived(d), run[d].at \in {"lists", "done"}
  PROVE  /\ ListThen(d) \in Seq(Messages)
         /\ \A m \in Msgs(ListThen(d)) : MsgTrue(Other(d), run[Other(d)], m, rows, last, habit)
<1>1. run[d].list = List(rows[d])
  BY ListArrives
<1>2. [kind |-> "list", body |-> run[d].list] \in Messages
  BY SidesAre, KindsAre DEF Runs, FlowInv
<1>3. MsgTrue(Other(d), run[Other(d)], [kind |-> "list", body |-> run[d].list], rows, last, habit)
  BY <1>1, DevicesAre DEF MsgTrue
<1> QED BY <1>2, <1>3, MsgsOfOne, NoMsgs DEF ListThen

LEMMA ListsReviewedTruth ==
  ASSUME FlowInv, RowsInv, NEW d \in Devices, TakeLists(d), ToAsk(d) # {}, d = Reviewer(run[d].mode)
  PROVE  RowsInv'
<1> USE DEF FlowInv
<1>1. /\ run[d].at = "lists" /\ Arrived(d) /\ Quiet /\ run'[Other(d)] = run[Other(d)]
      /\ Talk(d, TRUE, ListThen(d)) /\ run'[d].at = "versions" /\ run'[d].asked = ToAsk(d) /\ run'[d].list = run[d].list
      /\ KeepsHello(d) /\ run'[d].reviewed = run[d].reviewed /\ run'[d].differs = run[d].differs
  BY TakeListsReviews DEF At
<1>2. wire[d] # <<>>
  BY <1>1, ArrivedIs
<1>3. \A i \in ToAsk(d) : Disputed(i, rows, last)
  BY <1>1, AskedDisputed
<1>4. RunTrue(d, run'[d], rows, last, habit)
  BY <1>1, <1>3, RowsAreTrue DEF RunTrue, KeepsHello, Listed
<1> QED BY <1>1, <1>2, <1>4, AnswersTrue, TruthGoesOn DEF KeepsHello

LEMMA ListsAwaitedTruth ==
  ASSUME FlowInv, RowsInv, NEW d \in Devices, TakeLists(d), ToAsk(d) # {}, d # Reviewer(run[d].mode)
  PROVE  RowsInv'
<1> USE DEF FlowInv
<1>1. /\ run[d].at = "lists" /\ Arrived(d) /\ Quiet /\ run'[Other(d)] = run[Other(d)]
      /\ Talk(d, TRUE, (ListThen(d) \o Message("rows", Only(rows[d], ToAsk(d)))))
      /\ run'[d].at = "reviewed" /\ run'[d].list = run[d].list
      /\ KeepsHello(d) /\ run'[d].reviewed = run[d].reviewed /\ run'[d].differs = run[d].differs
  BY TakeListsWaits DEF At
<1>2. wire[d] # <<>>
  BY <1>1, ArrivedIs
<1>3. RunTrue(d, run'[d], rows, last, habit)
  BY <1>1, RowsAreTrue DEF RunTrue, KeepsHello, Listed
<1>4. [kind |-> "rows", body |-> Only(rows[d], ToAsk(d))] \in Messages
  BY SidesAre, OnlyIs, KindsAre
<1>5. run[Other(d)].at # "rest" => run[Other(d)].at # "rows"
  <2>1. FlowInv'
    BY OneStepKeeps DEF Step
  <2> QED BY <1>1, <2>1, AcrossLater DEF Across
<1>6. /\ Message("rows", Only(rows[d], ToAsk(d))) \in Seq(Messages)
      /\ run[Other(d)].at # "rest" =>
           \A m \in Msgs(Message("rows", Only(rows[d], ToAsk(d)))) : MsgTrue(Other(d), run[Other(d)], m, rows, last, habit)
  BY <1>4, <1>5, MsgsOfOne DEF MsgTrue
<1>7. /\ (ListThen(d) \o Message("rows", Only(rows[d], ToAsk(d)))) \in Seq(Messages)
      /\ run[Other(d)].at # "rest" =>
           \A m \in Msgs(ListThen(d) \o Message("rows", Only(rows[d], ToAsk(d)))) : MsgTrue(Other(d), run[Other(d)], m, rows, last, habit)
  BY <1>1, <1>6, AnswersAre, AnswersTrue, MsgsJoin
<1> QED BY <1>1, <1>2, <1>3, <1>7, TruthGoesOn DEF KeepsHello

LEMMA ListsSentTruth ==
  ASSUME FlowInv, RowsInv, NEW d \in Devices, TakeLists(d), ToAsk(d) = {}
  PROVE  RowsInv'
<1> USE DEF FlowInv
<1> DEFINE e == Other(d)
           then == IF d = Desktop THEN Message("rows", Going(d)) ELSE <<>>
<1>1. /\ run[d].at = "lists" /\ Arrived(d) /\ Quiet /\ run'[e] = run[e]
      /\ Talk(d, TRUE, ListThen(d) \o then)
      /\ run'[d].at = "rows" /\ run'[d].out = (IF d = Phone THEN Going(d) ELSE NoRows) /\ run'[d].list = run[d].list
      /\ KeepsHello(d) /\ run'[d].reviewed = run[d].reviewed /\ run'[d].differs = run[d].differs
  BY TakeListsSends DEF At
<1>2. wire[d] # <<>> /\ Arriving(d) = wire[d][1].body /\ wire[d] \in Seq(Messages)
  BY <1>1, ArrivedIs, SidesAre
<1>3. Going(d) = Due(e, run[d].mode, rows)
  <2>1. Arriving(d) = List(rows[e]) /\ run[d].list = List(rows[d]) /\ rows[d] \in Tables /\ rows[e] \in Tables
    BY <1>1, ListArrives, SidesAre, DevicesAre
  <2>2. ToSend(run[d].list, Arriving(d)) = Ahead(rows[d], rows[e])
    BY <2>1, ToSendIs
  <2> QED BY <2>2, DevicesAre DEF Going, Due, Receives
<1>4. RunTrue(d, run'[d], rows, last, habit)
  <2>1. d = Phone => e = Desktop
    BY DevicesAre
  <2> QED BY <1>1, <1>3, <2>1, RowsAreTrue DEF RunTrue, KeepsHello, Listed
<1>5. Msgs(wire'[d]) = {}
  <2>1. Script(d, run[d], wire[d]) /\ Asks(run[d], wire[d][1].body) = {}
    BY <1>2, PairIs DEF ToAsk
  <2>2. One(wire[d], "list")
    BY <1>1, <1>2, <2>1 DEF Script
  <2>3. ListThen(d) \o then \in Seq(Messages)
    BY AnswersAre
  <2>4. wire'[d] = Tail(wire[d])
    BY <1>1, <1>2, <2>3, TalkIs
  <2>5. Tail(wire[d]) = <<>>
    BY <1>2, <2>2, OneGoes
  <2> QED BY <2>4, <2>5, NoMsgs
<1>6. then \in Seq(Messages) /\ (run[e].at # "rest" => \A m \in Msgs(then) : MsgTrue(e, run[e], m, rows, last, habit))
  <2>1. [kind |-> "rows", body |-> Going(d)] \in Messages
    BY AnswersAre, KindsAre
  <2>2. run[e].at # "rest" => run[e].mode = run[d].mode
    BY <1>1, AcrossIs DEF Across
  <2>3. run[e].at # "rest" => MsgTrue(e, run[e], [kind |-> "rows", body |-> Going(d)], rows, last, habit)
    BY <1>3, <2>2 DEF MsgTrue
  <2> QED BY <2>1, <2>3, MsgsOfOne, NoMsgs
<1>7. /\ ListThen(d) \o then \in Seq(Messages)
      /\ run[e].at # "rest" => \A m \in Msgs(ListThen(d) \o then) : MsgTrue(e, run[e], m, rows, last, habit)
  BY <1>1, <1>6, AnswersAre, AnswersTrue, MsgsJoin
<1> QED BY <1>1, <1>2, <1>4, <1>5, <1>7, TruthTalks

LEMMA VersionsTruth ==
  ASSUME FlowInv, RowsInv, NEW d \in Devices, TakeVersions(d)
  PROVE  RowsInv'
<1> USE DEF FlowInv
<1>1. /\ run[d].at = "versions" /\ Arrived(d) /\ Quiet /\ run'[Other(d)] = run[Other(d)]
      /\ Talk(d, TRUE, <<>>) /\ run'[d].at = "review" /\ run'[d].asked = run[d].asked /\ run'[d].list = run[d].list
      /\ KeepsHello(d) /\ run'[d].reviewed = run[d].reviewed /\ run'[d].differs = run[d].differs
  BY TakeVersionsIs DEF At
<1>2. wire[d] # <<>>
  BY <1>1, ArrivedIs
<1>3. RunTrue(d, run'[d], rows, last, habit)
  BY <1>1, RowsAreTrue DEF RunTrue, KeepsHello, Listed
<1> QED BY <1>1, <1>2, <1>3, NoMsgs, TruthGoesOn DEF KeepsHello

LEMMA ReviewedTruth ==
  ASSUME FlowInv, RowsInv, NEW d \in Devices, TakeReviewed(d)
  PROVE  RowsInv'
<1> USE DEF FlowInv
<1>1. /\ run[d].at = "reviewed" /\ Arrived(d) /\ Quiet /\ run'[Other(d)] = run[Other(d)]
      /\ Talk(d, TRUE, <<>>) /\ run'[d].at = "compare" /\ run'[d].reviewed = TRUE
      /\ KeepsHello(d) /\ run'[d].differs = run[d].differs
  BY TakeReviewedIs DEF At
<1>2. wire[d] # <<>>
  BY <1>1, ArrivedIs
<1>3. RunTrue(d, run'[d], rows, last, habit)
  BY <1>1, RowsAreTrue DEF RunTrue, KeepsHello, Listed
<1> QED BY <1>1, <1>2, <1>3, NoMsgs, TruthGoesOn DEF KeepsHello

LEMMA RowsTruth ==
  ASSUME FlowInv, RowsInv, NEW d \in Devices, TakeRows(d)
  PROVE  RowsInv'
<1> USE DEF FlowInv
<1>1. /\ run[d].at = "rows" /\ Arrived(d) /\ Quiet /\ run'[Other(d)] = run[Other(d)]
      /\ Talk(d, TRUE, RowsThen(d)) /\ run'[d].at = "apply" /\ run'[d].got = Arriving(d) /\ run'[d].list = run[d].list
      /\ KeepsHello(d) /\ run'[d].reviewed = run[d].reviewed /\ run'[d].differs = run[d].differs
  BY TakeRowsIs DEF At
<1>2. wire[d] # <<>>
  BY <1>1, ArrivedIs
<1>3. Arriving(d) = Due(d, run[d].mode, rows)
  <2>1. wire[d][1] \in Msgs(wire[d]) /\ wire[d][1].body = Arriving(d) /\ wire[d][1].kind = "rows"
    BY <1>1, ArrivedMsgs, ArrivedIs DEF At
  <2> QED BY <1>1, <2>1, RowsAreTrue DEF MsgTrue
<1>4. RunTrue(d, run'[d], rows, last, habit)
  BY <1>1, <1>3, RowsAreTrue DEF RunTrue, KeepsHello, Listed
<1>5. [kind |-> "rows", body |-> run[d].out] \in Messages
  BY SidesAre, KindsAre DEF Runs
<1>6. d = Phone /\ run[Other(d)].at # "rest" => MsgTrue(Other(d), run[Other(d)], [kind |-> "rows", body |-> run[d].out], rows, last, habit)
  <2>1. run[Other(d)].at # "rest" => run[Other(d)].mode = run[d].mode
    BY <1>1, AcrossIs DEF Across
  <2>2. d = Phone => run[d].out = Due(Other(d), run[d].mode, rows)
    BY <1>1, RowsAreTrue, DevicesAre DEF RunTrue
  <2> QED BY <2>1, <2>2 DEF MsgTrue
<1>7. /\ RowsThen(d) \in Seq(Messages)
      /\ run[Other(d)].at # "rest" => \A m \in Msgs(RowsThen(d)) : MsgTrue(Other(d), run[Other(d)], m, rows, last, habit)
  BY <1>5, <1>6, MsgsOfOne, NoMsgs DEF RowsThen
<1> QED BY <1>1, <1>2, <1>4, <1>7, TruthGoesOn DEF KeepsHello

LEMMA DoneTruth ==
  ASSUME FlowInv, RowsInv, NEW d \in Devices, TakeDone(d)
  PROVE  RowsInv'
<1> USE DEF FlowInv
<1> DEFINE e == Other(d)
<1>1. /\ run[d].at = "done" /\ Arrived(d) /\ Quiet /\ run'[e] = run[e]
      /\ Talk(d, TRUE, DoneThen(d)) /\ run'[d].at = "touch" /\ run'[d].list = run[d].list
      /\ run'[d].differs = (run[d].mode = "both" /\ Arriving(d) # run[d].list)
      /\ KeepsHello(d) /\ run'[d].reviewed = run[d].reviewed
  BY TakeDoneIs DEF At
<1>2. wire[d] # <<>>
  BY <1>1, ArrivedIs
<1>3. Arriving(d) = List(rows[e]) /\ run[d].list = List(rows[d])
  BY <1>1, ListArrives
<1>4. Sends(d, run[d].mode) => HasAll(e, rows)
  <2>1. wire[d][1] \in Msgs(wire[d]) /\ wire[d][1].kind = "done"
    BY <1>1, ArrivedMsgs, ArrivedIs DEF At
  <2> QED BY <2>1, RowsAreTrue DEF MsgTrue
<1>5. Receives(d, run[d].mode) => HasAll(d, rows)
  BY <1>1, RowsAreTrue DEF RunTrue
<1>6. run[d].mode = "both" => List(rows[d]) = List(rows[e])
  <2>1. run[d].mode = "both" => Ahead(rows[d], rows[e]) = {} /\ Ahead(rows[e], rows[d]) = {}
    BY <1>4, <1>5, DevicesAre DEF Receives, Sends, HasAll
  <2>2. \A i \in Items : rows[d][i].version # 0 /\ rows[e][i].version # 0 /\ rows[d][i].stamp = rows[e][i].stamp =>
                           rows[d][i].deleted = rows[e][i].deleted
    BY DEF RowsInv, SoundRows, Sound, Alike
  <2> QED BY <2>1, <2>2, NoneAhead, SidesAre, DevicesAre
<1>7. RunTrue(d, run'[d], rows, last, habit)
  <2>1. ~run'[d].differs
    BY <1>1, <1>3, <1>6
  <2>2. run[d].at = "done" /\ run'[d].at = "touch" /\ run'[d].list = run[d].list /\ KeepsHello(d)
    BY <1>1
  <2> QED BY <1>3, <1>4, <1>5, <2>1, <2>2, RowsAreTrue DEF RunTrue, KeepsHello, Listed
<1>8. [kind |-> "done", body |-> run[d].list] \in Messages
  BY SidesAre, KindsAre DEF Runs
<1>9. run[e].at # "rest" => MsgTrue(e, run[e], [kind |-> "done", body |-> run[d].list], rows, last, habit)
  <2>1. run[e].at # "rest" => run[e].mode = run[d].mode
    BY <1>1, AcrossIs DEF Across
  <2>2. Sends(e, run[d].mode) => HasAll(d, rows)
    BY <1>5 DEF Receives
  <2> QED BY <1>3, <2>1, <2>2, DevicesAre DEF MsgTrue
<1>10. /\ DoneThen(d) \in Seq(Messages)
       /\ run[e].at # "rest" => \A m \in Msgs(DoneThen(d)) : MsgTrue(e, run[e], m, rows, last, habit)
  BY <1>8, <1>9, MsgsOfOne, NoMsgs DEF DoneThen
<1> QED BY <1>1, <1>2, <1>7, <1>10, TruthGoesOn DEF KeepsHello

\* The times of a review rise from the clock's, and none is behind the wall clock.
LEMMA TicksRise ==
  ASSUME TypeInv, NEW d \in Devices
  PROVE  /\ \A n \in 1..Cardinality(Items) : Behind(clock[d], Ticks(d)[n]) /\ Ticks(d)[n].ms >= Wall(d)
         /\ \A m, n \in 0..Cardinality(Items) : m <= n => AtMost(Ticks(d)[m], Ticks(d)[n])
<1>1. PICK K \in Nat : K = Cardinality(Items)
  BY ItemsCount
<1>2. PICK u : u = Ticks(d)
  OBVIOUS
<1>3. PICK t \in Nat : t = Wall(d)
  BY SidesAre
<1>4. u[0] = clock[d] /\ (\A n \in 1..K : u[n] = Tick(u[n - 1], t)) /\ \A n \in 0..K : u[n] \in Clock
  BY <1>1, <1>2, <1>3, TicksAre
<1>5. \A n \in 1..K : n - 1 \in 0..K /\ n \in 0..K
  OBVIOUS
<1>6. \A n \in 1..K : Behind(u[n - 1], u[n]) /\ u[n].ms >= t
  BY <1>4, <1>5, TickIs
<1>7. ASSUME NEW m \in 0..K PROVE \A n \in 1..K : m < n => Behind(u[m], u[n])
  <2> DEFINE bad == {n \in 1..K : m < n /\ ~Behind(u[m], u[n])}
  <2> SUFFICES ASSUME bad # {}
               PROVE  FALSE
    OBVIOUS
  <2>1. PICK n \in bad : \A k \in bad : n <= k
    BY OneIsLeast
  <2>2. n \in 1..K /\ m < n /\ ~Behind(u[m], u[n]) /\ n - 1 \notin bad
    BY <2>1
  <2>3. n - 1 = m \/ (n - 1 \in 1..K /\ m < n - 1)
    BY <2>2
  <2>4. n - 1 = m \/ Behind(u[m], u[n - 1])
    BY <2>2, <2>3
  <2>5. u[m] \in Clock /\ u[n - 1] \in Clock /\ u[n] \in Clock
    BY <1>4, <1>5, <2>2
  <2>6. AtMost(u[m], u[n - 1])
    BY <2>4, <2>5, ClockOrder DEF AtMost
  <2> QED BY <1>6, <2>2, <2>5, <2>6, ClockOrder
<1>8. \A n \in 1..K : Behind(u[0], u[n])
  <2>1. 0 \in 0..K /\ \A n \in 1..K : 0 < n
    OBVIOUS
  <2> QED BY <1>7, <2>1
<1>9. \A m, n \in 0..K : m <= n => AtMost(u[m], u[n])
  <2> SUFFICES ASSUME NEW m \in 0..K, NEW n \in 0..K, m <= n
               PROVE  AtMost(u[m], u[n])
    OBVIOUS
  <2>1. m = n \/ (m < n /\ n \in 1..K)
    OBVIOUS
  <2>2. CASE m = n
    BY <1>4, <2>2, ClockOrder
  <2>3. CASE m < n /\ n \in 1..K
    BY <1>7, <2>3 DEF AtMost
  <2> QED BY <2>1, <2>2, <2>3
<1> QED BY <1>1, <1>2, <1>3, <1>4, <1>6, <1>8, <1>9

\* Every row of d goes one of its ways.
LEMMA RowsGo ==
  ASSUME TypeInv, TypeInv', RowsInv, NEW d \in Devices, last' = last, habit' = habit,
         rows'[Other(d)] = rows[Other(d)], clock'[Other(d)] = clock[Other(d)], AtMost(clock[d], clock'[d]),
         \A i \in Items : RowGoes(d, rows[d][i], rows[Other(d)][i], rows'[d][i],
                                  clock[d], clock'[d], last[d], last[Other(d)])
  PROVE  SoundRows' /\ CountedRows'
<1>1. PICK e \in Devices : e = Other(d) /\ Other(e) = d /\ Devices = {d, e}
  BY DevicesAre
<1>2. PICK c \in Clock, k \in Clock, z \in Clock : c = clock[d] /\ k = clock'[d] /\ z = clock[e] /\ z = clock'[e]
  BY <1>1 DEF TypeInv
<1>3. PICK since \in SUBSET Nat, others \in SUBSET Nat : since = last[d] /\ others = last[e]
  BY <1>1, SidesAre
<1>4. AtMost(c, k)
  BY <1>2
<1>5. ASSUME NEW i \in Items
      PROVE  /\ Sound(d, rows'[d][i], rows'[e][i], k, z) /\ Sound(e, rows'[e][i], rows'[d][i], z, k)
             /\ Plain => Counted(d, rows'[d][i], rows'[e][i], since) /\ Counted(e, rows'[e][i], rows'[d][i], others)
  <2>1. PICK a \in Row, b \in Row, n \in Row : a = rows[d][i] /\ b = rows[e][i] /\ n = rows'[d][i] /\ b = rows'[e][i]
    BY <1>1, SidesAre DEF TypeInv, Tables
  <2>2. Sound(d, a, b, c, z) /\ Sound(Other(d), b, a, z, c)
    BY <1>1, <1>2, <2>1 DEF RowsInv, SoundRows
  <2>3. RowGoes(d, a, b, n, c, k, since, others)
    BY <1>1, <1>2, <1>3, <2>1
  <2>4. Sound(d, n, b, k, z) /\ Sound(Other(d), b, n, z, k)
    BY <1>4, <2>2, <2>3, RowStaysSound
  <2>5. Plain => Counted(d, a, b, since) /\ Counted(Other(d), b, a, others)
    BY <1>1, <1>3, <2>1 DEF RowsInv, CountedRows
  <2>6. Plain => Counted(d, n, b, since) /\ Counted(Other(d), b, n, others)
    BY <2>2, <2>3, <2>5, RowStaysCounted
  <2> QED BY <1>1, <2>1, <2>4, <2>6
<1>6. SoundRows'
  BY <1>1, <1>2, <1>5 DEF SoundRows
<1>7. CountedRows'
  <2>1. Plain' <=> Plain
    BY DEF Plain
  <2> QED BY <1>1, <1>3, <1>5, <2>1 DEF CountedRows
<1> QED BY <1>6, <1>7

\* A step of d in which it may change its rows.
LEMMA TruthMoves ==
  ASSUME TypeInv, RowsInv, NEW d \in Devices, UNCHANGED world, run'[Other(d)] = run[Other(d)], run[d].at # "rest",
         SoundRows', CountedRows',
         RunTrue(d, run'[d], rows', last, habit), RunTrue(Other(d), run[Other(d)], rows', last, habit),
         \A m \in Msgs(wire'[d]) : MsgTrue(d, run'[d], m, rows', last, habit),
         \A m \in Msgs(wire'[Other(d)]) : MsgTrue(Other(d), run[Other(d)], m, rows', last, habit)
  PROVE  RowsInv'
<1> DEFINE e == Other(d)
<1>1. e \in Devices /\ Devices = {d, e}
  BY DevicesAre
<1>2. last' = last /\ habit' = habit /\ now' = now /\ lead' = lead
  BY DEF world
<1>3. RunTrue(e, run'[e], rows', last', habit') /\ RunTrue(d, run'[d], rows', last', habit')
  BY <1>2
<1>4. RunsTrue'
  BY <1>1, <1>3 DEF RunsTrue
<1>5. \A f \in Devices : \A m \in Msgs(wire'[f]) : MsgTrue(f, run'[f], m, rows', last', habit')
  BY <1>1, <1>2
<1>6. MsgsTrue'
  BY <1>5 DEF MsgsTrue, Msgs
<1>7. Timely'
  <2>1. \A f \in Devices : run'[f].at # "rest" => run[f].at # "rest"
    BY <1>1
  <2> QED BY <1>2, <2>1 DEF RowsInv, Timely, Wall
<1> QED BY <1>4, <1>6, <1>7 DEF RowsInv

LEMMA ReviewTruth ==
  ASSUME FlowInv, RowsInv, NEW d \in Devices, Review(d)
  PROVE  RowsInv'
<1> USE DEF FlowInv
<1>1. PICK e \in Devices : e = Other(d) /\ Other(e) = d /\ Devices = {d, e}
  BY DevicesAre
<1>2. /\ TypeInv' /\ run[d].at = "review" /\ UNCHANGED world /\ run'[e] = run[e]
      /\ Talk(d, FALSE, Message("reviewed", {}))
      /\ run'[d].at = "compare" /\ run'[d].reviewed /\ KeepsHello(d) /\ run'[d].differs = run[d].differs
      /\ rows'[e] = rows[e] /\ clock'[e] = clock[e]
  BY <1>1, ReviewIs DEF At
<1>3. PICK kept \in SUBSET run[d].asked :
        (\A i \in Items : rows'[d][i] = Decided(d, i, kept)) /\ clock'[d] = Ticks(d)[Cardinality(kept)]
  BY ReviewIs
<1>4. run[d].asked \in SUBSET Items /\ kept \in SUBSET Items
  BY SidesAre DEF Runs
<1>5. PICK K \in Nat : K = Cardinality(Items) /\ Cardinality(kept) \in 0..K
  BY <1>4, ItemsCount
<1>6. AtMost(clock[d], clock'[d])
  <2>1. 0 \in 0..K /\ 0 <= Cardinality(kept)
    BY <1>5
  <2> QED BY <1>3, <1>5, <2>1, TicksAre, TicksRise
<1>7. RunTrue(d, run[d], rows, last, habit) /\ RunTrue(e, run[e], rows, last, habit)
  BY RowsAreTrue
<1>8. ASSUME NEW i \in Items
      PROVE  RowGoes(d, rows[d][i], rows[e][i], rows'[d][i], clock[d], clock'[d], last[d], last[e])
  <2> DEFINE a == rows[d][i]
             b == rows[e][i]
             n == rows'[d][i]
  <2>1. n = Decided(d, i, kept)
    BY <1>3
  <2>2. CASE ~Restamps(d, i, kept)
    <3>1. n = a
      BY <1>4, <2>1, <2>2, DecidedIs
    <3> QED BY <3>1 DEF RowGoes, Alike
  <2>3. CASE Restamps(d, i, kept)
    <3>1. n.version = a.version /\ n.stamp = IF i \in kept THEN StampAt(Ticks(d)[Place(i, kept)], d) ELSE UNSET_STAMP
      BY <1>4, <2>1, <2>3, DecidedIs
    <3>2. Disputed(i, rows, last)
      BY <1>2, <1>7, <2>3 DEF RunTrue, Restamps
    <3>3. /\ a.version # 0 /\ b.version # 0 /\ b.stamp # UNSET_STAMP /\ \A s \in last[e] : b.stamp.ms > s
      BY <1>1, <3>2 DEF Disputed, Holds
    <3>4. CASE i \in kept
      <4> DEFINE p == Place(i, kept)
      <4>1. p \in 1..K /\ p \in 0..K
        BY <1>4, <1>5, <3>4, PlaceIs
      <4>2. p <= Cardinality(kept)
        <5>1. {j \in kept : j <= i} \in SUBSET kept /\ IsFiniteSet(kept)
          BY <1>4, ItemsAssumption, FS_Subset
        <5>2. Cardinality({j \in kept : j <= i}) <= Cardinality(kept)
          BY <5>1, FS_Subset
        <5> QED BY <5>2 DEF Place
      <4> HIDE DEF p
      <4>3. PICK q : q = Ticks(d)[p]
        OBVIOUS
      <4>4. q \in Clock /\ Behind(clock[d], q) /\ q.ms >= Wall(d) /\ AtMost(q, clock'[d])
        BY <1>3, <1>5, <4>1, <4>2, <4>3, TicksAre, TicksRise
      <4>5. n.stamp = StampAt(q, d)
        BY <3>1, <3>4, <4>3 DEF p
      <4>6. n.stamp.device = d /\ n.stamp.ms = q.ms /\ n.stamp.counter = q.counter
        BY <4>4, <4>5, StampsAre
      <4>7. Behind(clock[d], n.stamp) /\ AtMost(n.stamp, clock'[d])
        BY <4>4, <4>6 DEF Behind, AtMost
      <4>8. \A s \in last[d] : n.stamp.ms > s
        <5>1. \A s \in last[d] : s < Wall(d) /\ s \in Nat
          BY <1>2, SidesAre DEF RowsInv, Timely
        <5>2. q.ms \in Nat /\ Wall(d) \in Nat
          BY <4>4, SidesAre DEF Clock
        <5> QED BY <4>4, <4>6, <5>1, <5>2
      <4> QED BY <3>1, <3>3, <4>6, <4>7, <4>8 DEF RowGoes, Restamped
    <3>5. CASE i \notin kept
      BY <3>1, <3>3, <3>5 DEF RowGoes, Given
    <3> QED BY <3>4, <3>5
  <2> QED BY <2>2, <2>3
<1>9. last' = last /\ habit' = habit
  BY <1>2 DEF world
<1>10. SoundRows' /\ CountedRows'
  BY <1>1, <1>2, <1>6, <1>8, <1>9, RowsGo
<1>11. run[e].at \in {"rest", "reviewed"} /\ wire[e] = <<>>
  BY <1>1, <1>2, AcrossIs DEF Across
<1>12. RunTrue(e, run[e], rows', last, habit)
  BY <1>1, <1>2, <1>7, <1>11 DEF RunTrue, Listed
<1>13. RunTrue(d, run'[d], rows', last, habit)
  BY <1>2, <1>7 DEF RunTrue, Listed, KeepsHello
<1>14. [kind |-> "reviewed", body |-> {}] \in Messages
  BY KindsAre
<1>15. Message("reviewed", {}) \in Seq(Messages) /\ Msgs(Message("reviewed", {})) = {[kind |-> "reviewed", body |-> {}]}
  BY <1>14, MsgsOfOne
<1>16. \A m \in Msgs(wire'[e]) : MsgTrue(e, run[e], m, rows', last, habit)
  <2>1. Msgs(wire'[e]) \subseteq {[kind |-> "reviewed", body |-> {}]}
    BY <1>1, <1>2, <1>11, <1>15, TalkMsgs, NoMsgs
  <2> QED BY <2>1 DEF MsgTrue
<1>17. Msgs(wire'[d]) = {}
  <2>1. wire[d] = <<>>
    BY <1>2, PairIs DEF Script
  <2>2. wire'[d] = wire[d]
    BY <1>2, <1>15, TalkIs
  <2> QED BY <2>1, <2>2, NoMsgs
<1> QED BY <1>1, <1>2, <1>10, <1>12, <1>13, <1>16, <1>17, TruthMoves

LEMMA ObserveRises ==
  ASSUME NEW c \in Clock, NEW s \in Stamp
  PROVE  AtMost(c, Observe(c, s))
<1>1. c.ms \in Nat /\ c.counter \in Nat /\ s.ms \in Nat /\ s.counter \in Nat
  BY MaxCounterAssumption DEF Clock, Stamp
<1>2. CASE Behind(c, s)
  <2>1. Observe(c, s).ms = s.ms /\ Observe(c, s).counter = s.counter
    BY <1>2 DEF Observe
  <2> QED BY <1>2, <2>1 DEF AtMost, Behind
<1>3. CASE ~Behind(c, s)
  BY <1>3 DEF Observe, AtMost
<1> QED BY <1>2, <1>3

\* An amount that is converted is the same row to a sync.
LEMMA ConvertedAlike ==
  ASSUME NEW table \in Tables, NEW times \in Nat
  PROVE  /\ \A i \in Items : Alike(Converted(table, times)[i], table[i])
         /\ List(Converted(table, times)) = List(table)
<1>1. \A i \in Items :
        /\ Converted(table, times)[i].stamp = table[i].stamp
        /\ Converted(table, times)[i].version = table[i].version
        /\ Converted(table, times)[i].deleted = table[i].deleted
        /\ Converted(table, times)[i].over = table[i].over
        /\ Converted(table, times)[i].unit = IF Live(table, i) THEN table[i].unit + times ELSE table[i].unit
  BY ConvertedIs
<1>2. List(Converted(table, times)) = List(table)
  BY ConvertedIs
<1> QED BY <1>1, <1>2 DEF Alike, Live

LEMMA LearnTruth ==
  ASSUME FlowInv, RowsInv, NEW d \in Devices, LearnCurrency(d), ~FarAhead(d)
  PROVE  RowsInv'
<1> USE DEF FlowInv
<1>1. PICK e \in Devices : e = Other(d) /\ Other(e) = d /\ Devices = {d, e}
  BY DevicesAre
<1>2. At(d, "learn") /\ Arrived(d)
  BY DEF LearnCurrency
<1>3. d = Phone /\ wire[d] # <<>> /\ Arriving(d) # <<>> /\ Arriving(d) \in Seq(Stamp)
  BY <1>2, CurrencyComes
<1>4. /\ TypeInv' /\ UNCHANGED world /\ run'[e] = run[e] /\ Talk(d, TRUE, <<>>) /\ run'[d].at = "compare"
      /\ KeepsHello(d) /\ run'[d].reviewed = run[d].reviewed /\ run'[d].differs = run[d].differs
      /\ rows'[d] = Converted(rows[d], Len(Arriving(d))) /\ rows'[e] = rows[e]
      /\ clock'[d] = Observe(clock[d], Arriving(d)[Len(Arriving(d))]) /\ clock'[e] = clock[e]
  BY <1>1, <1>3, LearnCurrencyIs
<1>5. AtMost(clock[d], clock'[d])
  <2>1. \A s \in Seq(Stamp) : s # <<>> => s[Len(s)] \in Stamp
    OBVIOUS
  <2>2. Arriving(d)[Len(Arriving(d))] \in Stamp /\ clock[d] \in Clock
    BY <1>3, <2>1, SidesAre
  <2> QED BY <1>4, <2>2, ObserveRises
<1>6. (\A i \in Items : Alike(rows'[d][i], rows[d][i])) /\ List(rows'[d]) = List(rows[d])
  <2>1. \A s \in Seq(Stamp) : Len(s) \in Nat
    OBVIOUS
  <2>2. PICK table \in Tables, times \in Nat : table = rows[d] /\ times = Len(Arriving(d))
    BY <1>3, <2>1, SidesAre
  <2>3. (\A i \in Items : Alike(Converted(table, times)[i], table[i])) /\ List(Converted(table, times)) = List(table)
    BY ConvertedAlike
  <2> QED BY <1>4, <2>2, <2>3
<1>7. last' = last /\ habit' = habit
  BY <1>4 DEF world
<1>8. SoundRows' /\ CountedRows'
  BY <1>1, <1>4, <1>5, <1>6, <1>7, RowsGo DEF RowGoes
<1>9. run[d].at = "learn" /\ RunTrue(d, run[d], rows, last, habit) /\ RunTrue(e, run[e], rows, last, habit)
  BY <1>2, RowsAreTrue DEF At
<1>10. run[e].at \in {"rest", "currency", "compare", "hashes"} /\ wire[e] = <<>>
  BY <1>1, <1>9, AcrossIs DEF Across
<1>11. RunTrue(d, run'[d], rows', last, habit)
  BY <1>1, <1>4, <1>9 DEF RunTrue, Listed, KeepsHello
<1>12. RunTrue(e, run[e], rows', last, habit)
  BY <1>1, <1>4, <1>6, <1>9, <1>10 DEF RunTrue, Listed
<1>13. Msgs(wire'[d]) \subseteq Msgs(wire[d]) /\ Msgs(wire'[e]) \subseteq {}
  BY <1>1, <1>3, <1>4, <1>10, TalkMsgs, NoMsgs
<1>14. \A m \in Msgs(wire'[d]) : m.kind = "hashes"
  <2>1. Script(Phone, run[Phone], wire[Phone]) /\ wire[Phone] \in Seq(Messages)
    BY <1>3, PairIs
  <2>2. One(wire[Phone], "currency") \/ Two(wire[Phone], "currency", "hashes")
    BY <1>3, <1>9, <2>1 DEF Script
  <2>3. Tail(wire[Phone]) = <<>> \/ One(Tail(wire[Phone]), "hashes")
    BY <2>1, <2>2, OneGoes, TwoGo
  <2>4. Tail(wire[Phone]) \in Seq(Messages)
    BY <1>3, <2>1, TailIs
  <2>5. \A m \in Msgs(Tail(wire[Phone])) : m.kind = "hashes"
    BY <2>3, <2>4, NoMsgs, MsgsAre DEF One
  <2>6. wire'[d] = Tail(wire[d])
    BY <1>3, <1>4, NoneIs, TalkIs
  <2> QED BY <1>3, <2>5, <2>6
<1>15. \A m \in Msgs(wire'[d]) : MsgTrue(d, run'[d], m, rows', last, habit)
  <2>1. \A m \in Msgs(wire[d]) : MsgTrue(d, run[d], m, rows, last, habit)
    BY RowsAreTrue
  <2> QED BY <1>1, <1>4, <1>13, <1>14, <2>1 DEF MsgTrue
<1> QED BY <1>1, <1>4, <1>8, <1>9, <1>11, <1>12, <1>13, <1>15, TruthMoves

\* A table that took over what the other was ahead in.
LEMMA MergeIs ==
  ASSUME NEW mine \in Tables, NEW theirs \in Tables, NEW new \in Tables,
         \A i \in Items : new[i] = IF Outdates(theirs[i], mine[i]) THEN theirs[i] ELSE mine[i]
  PROVE  /\ Ahead(new, theirs) = Ahead(mine, theirs)
         /\ Ahead(theirs, new) = {}
         /\ Only(new, Ahead(mine, theirs)) = Only(mine, Ahead(mine, theirs))
<1>1. \A i \in Items : mine[i].stamp \in Stamp /\ theirs[i].stamp \in Stamp
  BY DEF Tables, Row
<1>2. ASSUME NEW i \in Items
      PROVE  /\ Outdates(new[i], theirs[i]) <=> Outdates(mine[i], theirs[i])
             /\ Outdates(mine[i], theirs[i]) => new[i] = mine[i]
             /\ ~Outdates(theirs[i], new[i])
  <2>1. CASE Outdates(theirs[i], mine[i])
    <3>1. new[i] = theirs[i]
      BY <2>1
    <3>2. ~Outdates(theirs[i], theirs[i]) /\ ~Outdates(mine[i], theirs[i])
      BY <1>1, <2>1, StampOrder DEF Outdates
    <3> QED BY <3>1, <3>2
  <2>2. CASE ~Outdates(theirs[i], mine[i])
    BY <2>2
  <2> QED BY <2>1, <2>2
<1>3. \A i \in Ahead(mine, theirs) : new[i] = mine[i]
  BY <1>2 DEF Ahead
<1>4. Ahead(new, theirs) = Ahead(mine, theirs) /\ Ahead(theirs, new) = {}
  BY <1>2 DEF Ahead
<1> DEFINE S == Ahead(mine, theirs)
<1>5. \A i \in S : new[i] = mine[i]
  BY <1>3
<1> HIDE DEF S
<1>6. Only(new, S) = Only(mine, S)
  BY <1>5 DEF Only
<1> QED BY <1>4, <1>6 DEF S

\* What d has once it applied what it got.
LEMMA MergedTakes ==
  ASSUME FlowInv, RowsInv, NEW d \in Devices, run[d].at = "apply"
  PROVE  /\ Merged(d) \in Tables
         /\ Receives(d, run[d].mode) =>
              \A i \in Items : Merged(d)[i] = IF Outdates(rows[Other(d)][i], rows[d][i]) THEN rows[Other(d)][i] ELSE rows[d][i]
         /\ ~Receives(d, run[d].mode) => \A i \in Items : Merged(d)[i] = rows[d][i]
<1> USE DEF FlowInv
<1>1. /\ Merged(d) \in Tables
      /\ \A i \in Items : Merged(d)[i] = IF Receives(d, run[d].mode) THEN Newer(run[d].got[i], rows[d][i]) ELSE rows[d][i]
  BY MergedIs
<1>2. rows[d] \in Tables /\ rows[Other(d)] \in Tables
  BY SidesAre, DevicesAre
<1>3. ASSUME Receives(d, run[d].mode), NEW i \in Items
      PROVE  Merged(d)[i] = IF Outdates(rows[Other(d)][i], rows[d][i]) THEN rows[Other(d)][i] ELSE rows[d][i]
  <2> DEFINE S == Ahead(rows[Other(d)], rows[d])
  <2>1. run[d].got = Only(rows[Other(d)], S)
    BY <1>3, RowsAreTrue DEF RunTrue, Due
  <2>2. i \in S <=> Outdates(rows[Other(d)][i], rows[d][i])
    BY DEF Ahead
  <2> HIDE DEF S
  <2>3. (i \in S => run[d].got[i] = rows[Other(d)][i]) /\ (i \notin S => run[d].got[i] = Absent)
    BY <1>2, <2>1, OnlyIs
  <2>4. Merged(d)[i] = Newer(run[d].got[i], rows[d][i])
    BY <1>1, <1>3
  <2>5. Absent.version = 0
    BY DEF Absent
  <2>6. CASE i \in S
    BY <2>2, <2>3, <2>4, <2>6 DEF Newer, Outdates
  <2>7. CASE i \notin S
    BY <2>2, <2>3, <2>4, <2>5, <2>7 DEF Newer
  <2> QED BY <2>6, <2>7
<1> QED BY <1>1, <1>3

LEMMA ApplyTruth ==
  ASSUME FlowInv, RowsInv, NEW d \in Devices, Apply(d), ~Refused(d)
  PROVE  RowsInv'
<1> USE DEF FlowInv
<1>1. PICK e \in Devices : e = Other(d) /\ Other(e) = d /\ Devices = {d, e}
  BY DevicesAre
<1>2. /\ TypeInv' /\ run[d].at = "apply" /\ UNCHANGED world /\ run'[e] = run[e] /\ Talk(d, FALSE, DoneFirst(d))
      /\ run'[d].at = "done" /\ run'[d].list = List(Merged(d))
      /\ KeepsHello(d) /\ run'[d].reviewed = run[d].reviewed /\ run'[d].differs = run[d].differs
      /\ rows'[d] = Merged(d) /\ rows'[e] = rows[e]
      /\ Covers(clock'[d], Merged(d)) /\ AtMost(clock[d], clock'[d]) /\ clock'[e] = clock[e]
  BY <1>1, ApplyIs DEF At
<1>3. PICK mine \in Tables, theirs \in Tables, new \in Tables :
        mine = rows[d] /\ theirs = rows[e] /\ theirs = rows'[e] /\ new = rows'[d] /\ new = Merged(d)
  BY <1>1, <1>2, SidesAre, MergedIs
<1>4. /\ Receives(d, run[d].mode) => \A i \in Items : new[i] = IF Outdates(theirs[i], mine[i]) THEN theirs[i] ELSE mine[i]
      /\ ~Receives(d, run[d].mode) => \A i \in Items : new[i] = mine[i]
  BY <1>1, <1>2, <1>3, MergedTakes
<1>5. /\ Ahead(new, theirs) = Ahead(mine, theirs)
      /\ Receives(d, run[d].mode) => Ahead(theirs, new) = {}
      /\ Only(new, Ahead(mine, theirs)) = Only(mine, Ahead(mine, theirs))
  <2>1. CASE Receives(d, run[d].mode)
    BY <1>4, <2>1, MergeIs
  <2>2. CASE ~Receives(d, run[d].mode)
    <3>1. new = mine
      BY <1>4, <2>2 DEF Tables
    <3> QED BY <2>2, <3>1
  <2> QED BY <2>1, <2>2
<1>6. /\ \A mode : Due(e, mode, rows') = Due(e, mode, rows)
      /\ HasAll(e, rows') <=> HasAll(e, rows)
      /\ Receives(d, run[d].mode) => HasAll(d, rows')
  BY <1>1, <1>3, <1>5 DEF Due, HasAll
<1>7. last' = last /\ habit' = habit
  BY <1>2 DEF world
<1>8. ASSUME NEW i \in Items
      PROVE  RowGoes(d, rows[d][i], rows[e][i], rows'[d][i], clock[d], clock'[d], last[d], last[e])
  <2>1. new[i] = mine[i] \/ (Outdates(theirs[i], mine[i]) /\ new[i] = theirs[i])
    BY <1>4
  <2>2. Outdates(theirs[i], mine[i]) /\ new[i] = theirs[i] => AtMost(theirs[i].stamp, clock'[d])
    BY <1>2, <1>3 DEF Covers, Holds, Outdates
  <2>3. Alike(mine[i], mine[i])
    BY DEF Alike
  <2> QED BY <1>3, <2>1, <2>2, <2>3 DEF RowGoes, Taken
<1>9. SoundRows' /\ CountedRows'
  BY <1>1, <1>2, <1>7, <1>8, RowsGo
<1>10. RunTrue(d, run[d], rows, last, habit) /\ RunTrue(e, run[e], rows, last, habit)
  BY RowsAreTrue
<1>11. RunTrue(d, run'[d], rows', last, habit)
  BY <1>2, <1>6, <1>10 DEF RunTrue, Listed, KeepsHello
<1>12. /\ run[e].at = "rest" => wire[e] = <<>>
       /\ run[e].at # "rest" => /\ run[e].mode = run[d].mode /\ run[e].at \in {"rows", "apply", "done"}
                                /\ d = Desktop => run[e].at # "rows"
                                /\ wire[e] = <<>> \/ One(wire[e], "rows")
  BY <1>1, <1>2, AcrossIs DEF Across
<1>13. RunTrue(e, run[e], rows', last, habit)
  <2>1. run[e].at = "rows" => e # Phone
    BY <1>1, <1>12, DevicesAre
  <2> QED BY <1>2, <1>6, <1>10, <1>12, <2>1 DEF RunTrue, Listed
<1>14. [kind |-> "done", body |-> List(Merged(d))] \in Messages
  BY MergedIs, ListIs, KindsAre
<1>15. /\ DoneFirst(d) \in Seq(Messages)
       /\ Msgs(DoneFirst(d)) \subseteq {[kind |-> "done", body |-> List(Merged(d))]}
  BY <1>14, MsgsOfOne, NoMsgs DEF DoneFirst
<1>16. \A m \in Msgs(wire'[d]) : MsgTrue(d, run'[d], m, rows', last, habit)
  <2>1. Msgs(wire'[d]) \subseteq Msgs(wire[d])
    BY <1>2, <1>15, TalkMsgs
  <2>2. \A m \in Msgs(wire[d]) : MsgTrue(d, run[d], m, rows, last, habit)
    BY RowsAreTrue
  <2> QED BY <1>1, <1>2, <1>6, <2>1, <2>2 DEF MsgTrue, KeepsHello
<1>17. \A m \in Msgs(wire'[e]) : MsgTrue(e, run[e], m, rows', last, habit)
  <2>1. CASE run[e].at = "rest"
    <3>1. wire'[e] = <<>>
      BY <1>1, <1>2, <1>12, <1>15, <2>1, TalkIs DEF At
    <3> QED BY <3>1, NoMsgs
  <2>2. CASE run[e].at # "rest"
    <3>1. Msgs(wire'[e]) \subseteq Msgs(wire[e]) \cup {[kind |-> "done", body |-> List(Merged(d))]}
      BY <1>1, <1>2, <1>15, TalkMsgs
    <3>2. \A m \in Msgs(wire[e]) : m.kind = "rows"
      BY <1>12, <2>2, NoMsgs, MsgsAre, SidesAre DEF One
    <3>3. \A m \in Msgs(wire[e]) : MsgTrue(e, run[e], m, rows, last, habit)
      BY RowsAreTrue
    <3>4. \A m \in Msgs(wire[e]) : MsgTrue(e, run[e], m, rows', last, habit)
      BY <1>6, <3>2, <3>3 DEF MsgTrue
    <3>5. Sends(e, run[e].mode) => HasAll(d, rows')
      BY <1>1, <1>6, <1>12, <2>2 DEF Receives
    <3>6. MsgTrue(e, run[e], [kind |-> "done", body |-> List(Merged(d))], rows', last, habit)
      BY <1>1, <1>2, <3>5 DEF MsgTrue
    <3> QED BY <3>1, <3>4, <3>6
  <2> QED BY <2>1, <2>2
<1> QED BY <1>1, <1>2, <1>9, <1>11, <1>13, <1>16, <1>17, TruthMoves

LEMMA TouchTruth ==
  ASSUME FlowInv, RowsInv, NEW d \in Devices, Touch(d)
  PROVE  RowsInv'
<1> USE DEF FlowInv
<1>1. PICK e \in Devices : e = Other(d) /\ Other(e) = d /\ Devices = {d, e}
  BY DevicesAre
<1>2. /\ run[d].at = "touch" /\ run'[d] = Resting /\ run'[e] = run[e] /\ wire'[d] = <<>> /\ wire'[e] = wire[e]
      /\ last'[d] = {Wall(d)} /\ last'[e] = last[e]
      /\ habit' = habit /\ now' = now /\ lead' = lead /\ clock' = clock /\ rows' = rows
  BY <1>1, TouchIs DEF At
<1>3. RunTrue(d, run[d], rows, last, habit) /\ RunTrue(e, run[e], rows, last, habit)
  BY RowsAreTrue
<1>4. /\ run[e].at = "rest" => wire[e] = <<>>
      /\ run[e].at # "rest" => \/ run[e].at = "hashes" /\ run[d].list = run[e].list /\ One(wire[e], "hashes")
                               \/ run[e].at \in {"done", "touch"} /\ (wire[e] = <<>> \/ One(wire[e], "done"))
  BY <1>1, <1>2, AcrossIs DEF Across
<1>5. run[e].at = "hashes" => List(rows[e]) = List(rows[d])
  BY <1>2, <1>3, <1>4 DEF RunTrue, Listed
<1>6. RunTrue(d, run'[d], rows', last', habit')
  BY <1>2, RestingIs DEF RunTrue, Listed
<1>7. RunTrue(e, run'[e], rows', last', habit')
  BY <1>1, <1>2, <1>3, <1>4, <1>5 DEF RunTrue, Listed
<1>8. RunsTrue'
  BY <1>1, <1>6, <1>7 DEF RunsTrue
<1>9. \A m \in Msgs(wire'[d]) : FALSE
  BY <1>2, NoMsgs
<1>10. \A m \in Msgs(wire'[e]) : m.kind \in {"hashes", "done"}
  BY <1>2, <1>4, NoMsgs, MsgsAre, SidesAre DEF One
<1>11. \A m \in Msgs(wire'[e]) : MsgTrue(e, run[e], m, rows, last, habit)
  BY <1>2, RowsAreTrue
<1>12. \A m \in Msgs(wire'[e]) : MsgTrue(e, run'[e], m, rows', last', habit')
  BY <1>2, <1>10, <1>11 DEF MsgTrue
<1>13. MsgsTrue'
  <2>1. \A f \in Devices : \A m \in Msgs(wire'[f]) : MsgTrue(f, run'[f], m, rows', last', habit')
    BY <1>1, <1>9, <1>12
  <2> QED BY <2>1 DEF MsgsTrue, Msgs
<1>14. SoundRows'
  BY <1>2 DEF RowsInv, SoundRows
<1>15. CountedRows'
  <2>1. Plain => \A i \in Items : ~Outdates(rows[d][i], rows[e][i])
    BY <1>1, <1>2, <1>3 DEF Plain, RunTrue, Sends, HasAll, Ahead
  <2>2. Plain => \A i \in Items : Counted(d, rows[d][i], rows[e][i], last'[d])
    BY <2>1 DEF Counted
  <2>3. Plain => \A i \in Items : Counted(e, rows[e][i], rows[d][i], last'[e])
    BY <1>1, <1>2 DEF RowsInv, CountedRows
  <2>4. Plain' <=> Plain
    BY <1>2 DEF Plain
  <2> QED BY <1>1, <1>2, <2>2, <2>3, <2>4 DEF CountedRows
<1>16. Timely'
  <2>1. \A s \in last'[d] : s = Wall(d)
    BY <1>2
  <2>2. Wall(d) \in Nat /\ run'[d].at = "rest"
    BY <1>2, SidesAre, RestingIs
  <2>3. \A s \in last'[e] : s <= Wall(e) /\ (run'[e].at # "rest" => s < Wall(e))
    BY <1>2 DEF RowsInv, Timely
  <2>4. Wall(d)' = Wall(d) /\ Wall(e)' = Wall(e)
    BY <1>2 DEF Wall
  <2>5. \A f \in Devices : \A s \in last'[f] : s <= Wall(f) /\ (run'[f].at # "rest" => s < Wall(f))
    BY <1>1, <2>1, <2>2, <2>3
  <2> QED BY <1>2, <2>5 DEF Timely, Wall
<1> QED BY <1>8, <1>13, <1>14, <1>15, <1>16 DEF RowsInv

LEMMA OneStepTruth ==
  ASSUME FlowInv, RowsInv, NEW d \in Devices, Step(d) \/ Fail(d)
  PROVE  RowsInv'
<1>1. TypeInv
  BY DEF FlowInv
<1>2. ASSUME NEW took, run[d].at # "rest", Ends(d, took, <<>>), Quiet PROVE RowsInv'
  BY <1>1, <1>2, NoMsgs, TruthEnds
<1>3. CASE TakeHello(d)
  BY <1>3, HelloTruth
<1>4. CASE SendCurrency(d)
  BY <1>4, SendCurrencyTruth
<1>5. CASE LearnCurrency(d)
  <2>1. CASE FarAhead(d)
    <3>1. At(d, "learn") /\ Ends(d, TRUE, <<>>) /\ Quiet
      BY <1>1, <1>5, <2>1, LearnCurrencyEnds
    <3> QED BY <1>2, <3>1 DEF At
  <2> QED BY <1>5, <2>1, LearnTruth
<1>6. CASE Compare(d)
  BY <1>6, CompareTruth
<1>7. CASE TakeHashes(d)
  BY <1>7, HashesEqualTruth, HashesDifferTruth
<1>8. CASE TakeLists(d)
  BY <1>8, ListsReviewedTruth, ListsAwaitedTruth, ListsSentTruth
<1>9. CASE TakeVersions(d)
  BY <1>9, VersionsTruth
<1>10. CASE Review(d)
  BY <1>10, ReviewTruth
<1>11. CASE TakeReviewed(d)
  BY <1>11, ReviewedTruth
<1>12. CASE TakeRows(d)
  BY <1>12, RowsTruth
<1>13. CASE Apply(d)
  <2>1. CASE Refused(d)
    <3>1. At(d, "apply") /\ Ends(d, FALSE, <<>>) /\ Quiet
      BY <1>1, <1>13, <2>1, ApplyRefuses
    <3> QED BY <1>2, <3>1 DEF At
  <2> QED BY <1>13, <2>1, ApplyTruth
<1>14. CASE TakeDone(d)
  BY <1>14, DoneTruth
<1>15. CASE Touch(d)
  BY <1>15, TouchTruth
<1>16. CASE PeerGone(d)
  <2>1. run[d].at # "rest"
    BY <1>16 DEF PeerGone, Waiting, WaitsFor
  <2> QED BY <1>2, <1>16, <2>1 DEF PeerGone, Quiet
<1>17. CASE Fail(d)
  BY <1>2, <1>17 DEF Fail, Quiet, At
<1> QED BY <1>3, <1>4, <1>5, <1>6, <1>7, <1>8, <1>9, <1>10, <1>11, <1>12, <1>13, <1>14, <1>15, <1>16, <1>17 DEF Step

\* A step outside the conversation, between syncs.
LEMMA TruthAround ==
  ASSUME FlowInv, RowsInv, Idle, Outside, SoundRows', CountedRows', Timely'
  PROVE  RowsInv'
<1>1. last' = last /\ habit' = habit /\ run' = run /\ wire' = wire
  BY DEF Outside
<1>2. \A d \in Devices : run[d].at = "rest" /\ Msgs(wire[d]) = {} /\ RunTrue(d, run[d], rows, last, habit)
  BY IdleIs, NoMsgs, RowsAreTrue
<1>3. \A d \in Devices : RunTrue(d, run'[d], rows', last', habit')
  BY <1>1, <1>2 DEF RunTrue, Listed
<1>4. RunsTrue'
  BY <1>3 DEF RunsTrue
<1>5. \A d \in Devices : Msgs(wire'[d]) = {}
  BY <1>1, <1>2
<1>6. MsgsTrue'
  BY <1>5 DEF MsgsTrue, Msgs
<1> QED BY <1>4, <1>6 DEF RowsInv

LEMMA TimelyStays ==
  ASSUME FlowInv, RowsInv, Outside, UNCHANGED <<now, lead>>
  PROVE  Timely'
BY DEF RowsInv, Timely, Outside, Wall

LEMMA PassTruth ==
  ASSUME FlowInv, RowsInv, ~Concurrent, Pass
  PROVE  RowsInv'
<1>1. Idle /\ Outside /\ now' = now + 1 /\ lead' = lead /\ clock' = clock /\ rows' = rows /\ habit' = habit /\ last' = last
  BY PassIs DEF FlowInv, Outside
<1>2. SoundRows' /\ CountedRows'
  BY <1>1 DEF RowsInv, SoundRows, CountedRows, Plain
<1>3. Timely'
  <2>1. \A d \in Devices : Wall(d) \in Nat /\ lead[d] \in Nat /\ now \in Nat /\ last[d] \in SUBSET Nat
    BY SidesAre, BoundsAssumption DEF FlowInv, TypeInv
  <2>2. \A d \in Devices : now' + lead'[d] = Wall(d) + 1
    BY <1>1, <2>1 DEF Wall
  <2>3. \A d \in Devices : \A s \in last[d] : s <= Wall(d) /\ s \in Nat
    BY <2>1 DEF RowsInv, Timely
  <2>4. \A d \in Devices : \A s \in last[d] : s < Wall(d) + 1 /\ s <= Wall(d) + 1
    BY <2>1, <2>3
  <2> QED BY <1>1, <2>2, <2>4 DEF Timely, Wall
<1> QED BY <1>1, <1>2, <1>3, TruthAround

LEMMA EditTruth ==
  ASSUME FlowInv, RowsInv, ~Concurrent, NEW d \in Devices, NEW i \in Items, Edit(d, i)
  PROVE  RowsInv'
<1> USE DEF FlowInv
<1>1. /\ TypeInv' /\ MayWrite /\ Outside /\ UNCHANGED <<now, lead>>
      /\ clock'[d] = Tick(clock[d], Wall(d)) /\ clock'[Other(d)] = clock[Other(d)]
      /\ rows'[Other(d)] = rows[Other(d)]
      /\ \A j \in Items : j # i => rows'[d][j] = rows[d][j]
      /\ \E deleted \in BOOLEAN : Edited(d, i, deleted, rows'[d][i])
      /\ nextVersion \in 1..MaxVersion
  BY EditIs
<1>2. Idle /\ \A s \in last[d] : Wall(d) > s
  BY <1>1 DEF MayWrite
<1>3. PICK c \in Clock, t \in Nat, k \in Clock : c = clock[d] /\ t = Wall(d) /\ k = Tick(c, t)
  BY SidesAre, TickIs
<1>4. k \in Clock /\ Behind(c, k) /\ k.ms >= t /\ k = clock'[d]
  BY <1>1, <1>3, TickIs
<1>5. Restamped(d, rows'[d][i], clock[d], clock'[d], last[d])
  <2>1. rows'[d][i].stamp = StampAt(k, d) /\ rows'[d][i].version # 0
    <3>1. nextVersion # 0
      BY DEF TypeInv
    <3> QED BY <1>1, <1>3, <3>1 DEF Edited
  <2>2. /\ rows'[d][i].stamp.device = d /\ rows'[d][i].stamp.ms = k.ms /\ rows'[d][i].stamp.counter = k.counter
    BY <1>4, <2>1, StampsAre
  <2>3. Behind(c, rows'[d][i].stamp) /\ AtMost(rows'[d][i].stamp, k)
    BY <1>4, <2>2 DEF Behind, AtMost
  <2>4. \A s \in last[d] : k.ms > s
    <3>1. k.ms \in Nat /\ \A s \in last[d] : s \in Nat
      BY <1>4, SidesAre DEF Clock
    <3> QED BY <1>2, <1>3, <1>4, <3>1
  <2> QED BY <1>3, <1>4, <2>1, <2>2, <2>3, <2>4 DEF Restamped
<1>6. \A j \in Items : RowGoes(d, rows[d][j], rows[Other(d)][j], rows'[d][j], clock[d], clock'[d], last[d], last[Other(d)])
  BY <1>1, <1>5 DEF RowGoes, Alike
<1>7. AtMost(clock[d], clock'[d])
  BY <1>3, <1>4 DEF AtMost
<1>8. SoundRows' /\ CountedRows'
  BY <1>1, <1>6, <1>7, RowsGo DEF Outside
<1> QED BY <1>1, <1>2, <1>8, TimelyStays, TruthAround

LEMMA ChangeTruth ==
  ASSUME FlowInv, RowsInv, ~Concurrent, ChangeCurrency
  PROVE  RowsInv'
<1> USE DEF FlowInv
<1>1. /\ TypeInv' /\ MayWrite /\ Outside /\ UNCHANGED <<now, lead>>
      /\ clock'[Desktop] = Tick(clock[Desktop], Wall(Desktop)) /\ clock'[Phone] = clock[Phone]
      /\ rows'[Desktop] = Converted(rows[Desktop], 1) /\ rows'[Phone] = rows[Phone]
  BY ChangeCurrencyIs
<1>2. Idle
  BY <1>1 DEF MayWrite
<1>3. AtMost(clock[Desktop], clock'[Desktop])
  <2>1. PICK c \in Clock, t \in Nat : c = clock[Desktop] /\ t = Wall(Desktop)
    BY SidesAre, DevicesAre
  <2> QED BY <1>1, <2>1, TickIs DEF AtMost
<1>4. \A i \in Items : Alike(rows'[Desktop][i], rows[Desktop][i])
  <2>1. PICK table \in Tables : table = rows[Desktop]
    BY SidesAre, DevicesAre
  <2>2. \A i \in Items : Alike(Converted(table, 1)[i], table[i])
    BY ConvertedAlike
  <2> QED BY <1>1, <2>1, <2>2
<1>5. SoundRows' /\ CountedRows'
  <2>1. \A i \in Items : RowGoes(Desktop, rows[Desktop][i], rows[Phone][i], rows'[Desktop][i],
                                 clock[Desktop], clock'[Desktop], last[Desktop], last[Phone])
    BY <1>4 DEF RowGoes
  <2> QED BY <1>1, <1>3, <2>1, RowsGo, DevicesAre DEF Outside
<1> QED BY <1>1, <1>2, <1>5, TimelyStays, TruthAround

LEMMA StartTruth ==
  ASSUME FlowInv, RowsInv, NEW mode \in habit, Start(mode)
  PROVE  RowsInv'
<1> USE DEF FlowInv
<1>1. /\ Idle /\ UNCHANGED <<habit, lead, clock, rows, last>> /\ now' = now + 1
      /\ wire'[Desktop] = Message("hello", Hello(Phone, "both")) /\ wire'[Phone] = wire[Phone]
      /\ [kind |-> "hello", body |-> Hello(Phone, "both")] \in Messages
      /\ \A d \in Devices : run'[d].at = "hello" /\ ~run'[d].differs
      /\ run'[Desktop].mode = mode /\ run'[Phone].mode = "both"
      /\ run'[Phone].own = Hello(Phone, "both")
  BY StartIs
<1>2. Hello(Phone, "both").since = last[Phone] /\ Hello(Phone, "both").mode = "both"
  <2>1. "both" \in Modes
    BY DEF Modes
  <2> QED BY <2>1, HelloIs, DevicesAre
<1>3. \A d \in Devices : RunTrue(d, run'[d], rows', last', habit')
  BY <1>1, <1>2, DevicesAre DEF RunTrue, Listed
<1>4. RunsTrue'
  BY <1>3 DEF RunsTrue
<1>5. Msgs(wire'[Desktop]) = {[kind |-> "hello", body |-> Hello(Phone, "both")]} /\ Msgs(wire'[Phone]) = {}
  BY <1>1, MsgsOfOne, NoMsgs, IdleIs, DevicesAre
<1>6. MsgTrue(Desktop, run'[Desktop], [kind |-> "hello", body |-> Hello(Phone, "both")], rows', last', habit')
  BY <1>1, <1>2, DevicesAre DEF MsgTrue
<1>7. MsgsTrue'
  <2>1. \A d \in Devices : \A m \in Msgs(wire'[d]) : MsgTrue(d, run'[d], m, rows', last', habit')
    BY <1>5, <1>6, DevicesAre
  <2> QED BY <2>1 DEF MsgsTrue, Msgs
<1>8. SoundRows' /\ CountedRows'
  BY <1>1 DEF RowsInv, SoundRows, CountedRows, Plain
<1>9. Timely'
  <2>1. \A d \in Devices : Wall(d) \in Nat /\ lead[d] \in Nat /\ now \in Nat /\ last[d] \in SUBSET Nat
    BY SidesAre, BoundsAssumption DEF TypeInv
  <2>2. \A d \in Devices : now' + lead'[d] = Wall(d) + 1
    BY <1>1, <2>1 DEF Wall
  <2>3. \A d \in Devices : \A s \in last[d] : s <= Wall(d) /\ s \in Nat
    BY <2>1 DEF RowsInv, Timely
  <2>4. \A d \in Devices : \A s \in last[d] : s < Wall(d) + 1 /\ s <= Wall(d) + 1
    BY <2>1, <2>3
  <2> QED BY <1>1, <2>2, <2>4 DEF Timely, Wall
<1> QED BY <1>4, <1>7, <1>8, <1>9 DEF RowsInv

LEMMA RowsBegin == Init \/ InitMet => RowsInv
<1> SUFFICES ASSUME Init \/ InitMet
             PROVE  RowsInv
  OBVIOUS
<1>1. /\ now = 1 /\ TypeInv
      /\ \A d \in Devices : /\ run[d] = Resting /\ wire[d] = <<>> /\ clock[d] = [ms |-> lead[d], counter |-> 0]
                            /\ lead[d] \in Nat
      /\ \/ \A d \in Devices : rows[d] = NoRows /\ last[d] = {}
         \/ \A d \in Devices : rows[d] = [i \in Items |-> FirstRow] /\ last[d] = {lead[d]}
  BY BeginIs DEF Init, InitMet, TypeInv
<1>2. \A d \in Devices : RunTrue(d, run[d], rows, last, habit)
  BY <1>1, RestingIs DEF RunTrue, Listed
<1>3. \A d \in Devices : Msgs(wire[d]) = {}
  BY <1>1, NoMsgs
<1>4. Timely
  <2> SUFFICES ASSUME NEW d \in Devices, NEW s \in last[d]
               PROVE  s <= Wall(d) /\ (run[d].at # "rest" => s < Wall(d))
    BY DEF Timely
  <2>1. last[d] = {lead[d]}
    BY <1>1
  <2>2. s = lead[d] /\ lead[d] \in Nat /\ now = 1
    BY <1>1, <2>1
  <2> QED BY <2>2 DEF Wall
<1>5. CASE \A d \in Devices : rows[d] = NoRows
  <2>1. \A d \in Devices : \A i \in Items : rows[d][i].version = 0
    BY <1>5, RowsAre DEF Holds
  <2>2. SoundRows /\ CountedRows
    BY <2>1 DEF SoundRows, CountedRows, Sound, Counted
  <2> QED BY <1>2, <1>3, <1>4, <2>2 DEF RowsInv, RunsTrue, MsgsTrue
<1>6. CASE \A d \in Devices : rows[d] = [i \in Items |-> FirstRow]
  <2>1. \A d \in Devices : \A i \in Items : rows[d][i] = FirstRow
    BY <1>6
  <2>2. /\ FirstRow.stamp.ms = 0 /\ FirstRow.stamp.counter = 0 /\ FirstRow.stamp.device = Phone /\ FirstRow.version # 0
        /\ FirstRow.stamp # UNSET_STAMP /\ FirstRow.stamp \in Stamp
    <3>1. [ms |-> 0, counter |-> 0] \in Clock
      BY MaxCounterAssumption DEF Clock
    <3>2. StampAt([ms |-> 0, counter |-> 0], Phone) \in Stamp /\ StampAt([ms |-> 0, counter |-> 0], Phone) # UNSET_STAMP
      BY <3>1, StampsAre, DevicesAre
    <3> QED BY <3>2 DEF FirstRow, StampAt
  <2>3. \A d \in Devices : AtMost(FirstRow.stamp, clock[d])
    <3>1. \A d \in Devices : clock[d].ms \in Nat /\ clock[d].counter = 0
      <4> SUFFICES ASSUME NEW d \in Devices
                   PROVE  clock[d].ms \in Nat /\ clock[d].counter = 0
        OBVIOUS
      <4>1. clock[d] = [ms |-> lead[d], counter |-> 0] /\ lead[d] \in Nat
        BY <1>1
      <4> QED BY <4>1
    <3> QED BY <2>2, <3>1 DEF AtMost, Behind
  <2>4. Alike(FirstRow, FirstRow) /\ ~Outdates(FirstRow, FirstRow)
    BY <2>2, StampOrder DEF Alike, Outdates
  <2>5. SoundRows /\ CountedRows
    BY <2>1, <2>2, <2>3, <2>4, DevicesAre DEF SoundRows, CountedRows, Sound, Counted
  <2> QED BY <1>2, <1>3, <1>4, <2>5 DEF RowsInv, RunsTrue, MsgsTrue
<1> QED BY <1>1, <1>5, <1>6

LEMMA NextTruth == FlowInv /\ RowsInv /\ ~Concurrent /\ [Next]_vars => RowsInv'
<1> SUFFICES ASSUME FlowInv, RowsInv, ~Concurrent, [Next]_vars
             PROVE  RowsInv'
  OBVIOUS
<1>1. CASE Pass
  BY <1>1, PassTruth
<1>2. CASE ChangeCurrency
  BY <1>2, ChangeTruth
<1>3. ASSUME NEW mode \in habit, Start(mode) PROVE RowsInv'
  BY <1>3, StartTruth
<1>4. ASSUME NEW d \in Devices, NEW i \in Written, Edit(d, i) PROVE RowsInv'
  <2>1. i \in Items
    BY DEF Written
  <2> QED BY <1>4, <2>1, EditTruth
<1>5. ASSUME NEW d \in Devices, Step(d) \/ Fail(d) PROVE RowsInv'
  BY <1>5, OneStepTruth
<1>6. CASE UNCHANGED vars
  BY <1>6 DEF vars, RowsInv, SoundRows, CountedRows, Timely, RunsTrue, MsgsTrue, Plain, Wall, Msgs
<1> QED BY <1>1, <1>2, <1>3, <1>4, <1>5, <1>6 DEF Next

\* What both have at the end of a sync, and count between two.
LEMMA EndsAgreed == FlowInv /\ MoneyInv /\ RowsInv => EndsInAgreement
<1> SUFFICES ASSUME FlowInv, MoneyInv, RowsInv
             PROVE  EndsInAgreement
  OBVIOUS
<1> USE DEF FlowInv
<1>1. UnsentAreCounted
  <2> SUFFICES ASSUME Plain, NEW d \in Devices, NEW i \in ToSend(List(rows[d]), List(rows[Other(d)])),
                      rows[d][i].stamp.device = d
               PROVE  i \in ChangesSince(d)
    BY DEF UnsentAreCounted
  <2>1. rows[d] \in Tables /\ rows[Other(d)] \in Tables /\ last[d] \in SUBSET Nat
    BY SidesAre, DevicesAre
  <2>2. i \in Items /\ Outdates(rows[d][i], rows[Other(d)][i])
    BY <2>1, ToSendIs DEF Ahead
  <2>3. Counted(d, rows[d][i], rows[Other(d)][i], last[d])
    BY <2>2 DEF RowsInv, CountedRows
  <2>4. rows[d][i].version # 0 /\ \A t \in last[d] : ~(rows[d][i].stamp.ms <= t)
    BY <2>2, <2>3 DEF Counted, Outdates
  <2>5. rows[d][i].stamp.ms \in Nat
    BY <2>1, <2>2 DEF Tables, Row, Stamp
  <2>6. \A t \in last[d] : rows[d][i].stamp.ms > t
    BY <2>1, <2>4, <2>5
  <2> QED BY <2>2, <2>4, <2>6 DEF ChangesSince, Holds
<1>2. ASSUME \A d \in Devices : At(d, "touch")
      PROVE  /\ changes[Desktop] = changes[Phone]
             /\ \A d \in Devices : ~run[d].differs
             /\ \A d \in Devices : Receives(d, run[d].mode) =>
                  \A i \in Items : Holds(rows[Other(d)], i) =>
                    \/ rows[d][i] = rows[Other(d)][i]
                    \/ Holds(rows[d], i) /\ Older(rows[Other(d)][i].stamp, rows[d][i].stamp)
  <2>1. Agreed
    BY <1>2, MoneyIs, DevicesAre DEF Past, At
  <2>2. \A d \in Devices : RunTrue(d, run[d], rows, last, habit) /\ run[d].at = "touch"
    BY <1>2, RowsAreTrue DEF At
  <2>3. ASSUME NEW d \in Devices, Receives(d, run[d].mode), NEW i \in Items, Holds(rows[Other(d)], i)
        PROVE  \/ rows[d][i] = rows[Other(d)][i]
               \/ Holds(rows[d], i) /\ Older(rows[Other(d)][i].stamp, rows[d][i].stamp)
    <3>1. PICK a \in Row, b \in Row : a = rows[d][i] /\ b = rows[Other(d)][i]
      BY SidesAre, DevicesAre DEF Tables
    <3>2. ~Outdates(b, a) /\ b.version # 0
      BY <2>2, <2>3, <3>1 DEF RunTrue, HasAll, Ahead, Holds
    <3>3. a.version # 0 /\ ~Older(a.stamp, b.stamp) /\ a.stamp \in Stamp /\ b.stamp \in Stamp
      BY <3>2 DEF Outdates, Row
    <3>4. CASE a.stamp = b.stamp
      <4>1. Alike(a, b)
        BY <3>1, <3>2, <3>3, <3>4 DEF RowsInv, SoundRows, Sound
      <4>2. ~a.deleted => a.unit = Len(changes[d])
        BY <3>1, <3>3, MoneyIs DEF InUnit, Live, Holds
      <4>3. ~b.deleted => b.unit = Len(changes[Other(d)])
        BY <3>1, <3>2, MoneyIs, DevicesAre DEF InUnit, Live, Holds
      <4>4. a.unit = b.unit
        BY <2>1, <4>1, <4>2, <4>3, AgreedIs DEF Alike
      <4>5. a = b
        BY <4>1, <4>4 DEF Alike, Row
      <4> QED BY <3>1, <4>5
    <3>5. CASE a.stamp # b.stamp
      <4>1. Older(b.stamp, a.stamp)
        BY <3>3, <3>5, StampOrder
      <4> QED BY <3>1, <3>3, <4>1 DEF Holds
    <3> QED BY <3>4, <3>5
  <2> QED BY <2>1, <2>2, <2>3 DEF Agreed, RunTrue
<1> QED BY <1>1, <1>2 DEF EndsInAgreement

\* Where nobody writes during a sync, one that gets through on both sides leaves
\* the two equal, or the receiver behind in nothing, tells nobody that they differ
\* (flow.rs:125), and what it did not send is counted as still to be sent
\* (peers.rs:60): for any number of rows, syncs, reviews and broken connections.
THEOREM FlowEndsInAgreement ==
  ASSUME ~Concurrent
  PROVE  (Spec => []EndsInAgreement) /\ (SpecMet => []EndsInAgreement)
<1> DEFINE Inv == FlowInv /\ MoneyInv /\ RowsInv
<1>1. Init \/ InitMet => Inv
  BY FlowBegins, MoneyBegins, RowsBegin
<1>2. Inv /\ [Next]_vars => Inv'
  BY NextKeeps, NextMoney, NextTruth
<1>3. Inv => EndsInAgreement
  BY EndsAgreed
<1> HIDE DEF Inv
<1> QED BY <1>1, <1>2, <1>3, PTL DEF Spec, SpecMet

-----------------------------------------------------------------------------
(***************************************************************************)
(* Two copies of a row, and what one step does to them.                    *)
(***************************************************************************)
LEMMA NotBoth ==
  ASSUME NEW a \in Row, NEW b \in Row, Outdates(a, b)
  PROVE  ~Outdates(b, a)
BY StampOrder DEF Outdates, Row

\* Who is behind nobody has the same change.
LEMMA EvenAlike ==
  ASSUME NEW d \in Devices, NEW a \in Row, NEW b \in Row, NEW c, NEW k, Sound(d, a, b, c, k),
         a.version # 0, b.version # 0, ~Outdates(a, b), ~Outdates(b, a)
  PROVE  Alike(a, b)
<1>1. a.stamp = b.stamp
  BY StampOrder DEF Outdates, Row
<1> QED BY <1>1 DEF Sound

LEMMA OpenEither ==
  ASSUME NEW a, NEW b, NEW g
  PROVE  Open(a, b, g) = Open(b, a, g)
BY Zenon DEF Open

\* A row is written: the writer had seen the copy here.
LEMMA EditDescends ==
  ASSUME NEW d \in Devices, NEW a \in Row, NEW b \in Row, NEW m \in Row, NEW c, NEW k, Sound(d, a, b, c, k),
         NEW g, NEW times, NEW v \in Nat, v # 0, Known(g, v),
         Descends(a, b, g, times, v), Descends(b, a, g, times, v),
         m.version = v, m.over = a.over \cup ({a.version} \ {0}), Newest(m, times),
         (a.version = 0 /\ b.version = 0) \/ (a.version # 0 /\ ~a.deleted /\ Older(a.stamp, m.stamp))
  PROVE  Descends(m, b, g, times, v + 1) /\ Descends(b, m, g, times, v + 1)
<1>1. a.version \in Nat /\ b.version \in Nat /\ m.version \in Nat
  BY BoundsAssumption DEF Row
<1>2. m.version # b.version /\ m.version < v + 1 /\ b.version < v + 1 /\ m.version # a.version /\ m.version # 0
  BY <1>1 DEF Descends
<1>3. m.version \notin g /\ 0 \notin g
  BY DEF Known
<1>4. CASE a.version = 0 /\ b.version = 0
  <2>1. ~Outdates(b, m) /\ ~Open(m, b, g) /\ ~Open(b, m, g) /\ b.version \notin g
    BY <1>3, <1>4 DEF Outdates, Open
  <2> QED BY <1>2, <1>3, <1>4, <2>1 DEF Descends
<1>5. CASE a.version # 0 /\ ~a.deleted /\ Older(a.stamp, m.stamp)
  <2>1. Outdates(m, a)
    BY <1>2, <1>5 DEF Outdates
  <2>2. ASSUME Outdates(b, m)
        PROVE  Newest(b, times)
    <3>1. Older(a.stamp, b.stamp) /\ b.version # 0
      BY <1>2, <1>5, <2>2, StampOrder DEF Outdates, Row
    <3>2. Outdates(b, a) /\ a.stamp # b.stamp
      BY <3>1, StampOrder DEF Outdates, Row
    <3> QED BY <1>5, <3>2 DEF Descends, Alike
  <2>3. ASSUME b.version \in g
        PROVE  Outdates(m, b)
    <3>1. Outdates(a, b) /\ b.version # 0
      BY <1>3, <2>3 DEF Descends
    <3> QED BY <1>2, <1>5, <3>1, StampOrder DEF Outdates, Row
  <2>4. ASSUME Open(b, m, g)
        PROVE  Newest(b, times)
    <3>1. b.version # 0 /\ ~Follows(m, b) /\ b.version \notin g
      BY <2>4 DEF Open
    <3>2. a.version # b.version
      <4>1. SUFFICES ASSUME a.version = b.version
                     PROVE  FALSE
        OBVIOUS
      <4>2. a.stamp = b.stamp /\ b.version \in m.over
        BY <1>5, <4>1 DEF Descends, Alike
      <4> QED BY <1>2, <1>5, <3>1, <4>2 DEF Follows, Outdates
    <3>3. CASE Outdates(b, a)
      BY <1>5, <3>2, <3>3 DEF Descends
    <3>4. CASE ~Outdates(b, a)
      <4>1. Outdates(a, b)
        BY <1>5, <3>1, <3>2, <3>4, EvenAlike DEF Alike
      <4>2. Outdates(m, b)
        BY <1>2, <1>5, <3>1, <4>1, StampOrder DEF Outdates, Row
      <4>3. b.version \notin m.over
        BY <3>1, <4>2 DEF Follows
      <4>4. ~Follows(a, b) /\ ~Follows(b, a)
        BY <3>4, <4>3 DEF Follows
      <4>5. a.version \notin g
        BY <3>4 DEF Descends
      <4>6. Open(b, a, g)
        BY <1>5, <3>1, <3>2, <4>4, <4>5 DEF Open
      <4> QED BY <4>6 DEF Descends
    <3> QED BY <3>3, <3>4
  <2>5. Descends(m, b, g, times, v + 1)
    BY <1>2, <1>3, <2>2 DEF Descends
  <2>6. Descends(b, m, g, times, v + 1)
    BY <1>2, <1>3, <2>3, <2>4 DEF Descends
  <2> QED BY <2>5, <2>6
<1> QED BY <1>4, <1>5

\* The newer copy is taken over.
LEMMA MergeDescends ==
  ASSUME NEW a \in Row, NEW b \in Row, NEW g, NEW times, NEW v,
         Descends(a, b, g, times, v), Descends(b, a, g, times, v), Outdates(b, a)
  PROVE  Descends(b, b, g, times, v)
<1>1. b.version \notin g
  BY NotBoth DEF Descends
<1> QED BY <1>1 DEF Descends, Open, Alike

\* A version is kept: it gets a new stamp, the other is decided against.
LEMMA KeptDescends ==
  ASSUME NEW a \in Row, NEW b \in Row, NEW m \in Row, NEW g, NEW h, NEW times, NEW v,
         Descends(a, b, g, times, v), Descends(b, a, g, times, v),
         m.version = a.version, a.version # b.version, a.version # 0, b.version # 0,
         Older(b.stamp, m.stamp), Newest(m, times), a.version \notin h, b.version \in h
  PROVE  Descends(m, b, h, times, v) /\ Descends(b, m, h, times, v)
<1>1. Outdates(m, b) /\ ~Outdates(b, m)
  BY NotBoth DEF Outdates
<1>2. ~Open(m, b, h) /\ ~Open(b, m, h)
  BY DEF Open
<1> QED BY <1>1, <1>2 DEF Descends

\* A version is given up: its stamp is the oldest, the other goes on.
LEMMA GivenDescends ==
  ASSUME NEW a \in Row, NEW b \in Row, NEW m \in Row, NEW g, NEW h, NEW times, NEW v,
         Descends(a, b, g, times, v), Descends(b, a, g, times, v),
         m.version = a.version, a.version # b.version, a.version # 0, b.version # 0,
         m.stamp = UNSET_STAMP, b.stamp.ms > 0, Newest(b, times), a.version \in h, b.version \notin h
  PROVE  Descends(m, b, h, times, v) /\ Descends(b, m, h, times, v)
<1>1. Outdates(b, m) /\ ~Outdates(m, b)
  BY DEF Outdates, Older, Behind, Row, Stamp, UNSET_STAMP
<1>2. ~Open(m, b, h) /\ ~Open(b, m, h)
  BY DEF Open
<1> QED BY <1>1, <1>2 DEF Descends

\* A row nobody was asked about, where other rows were decided.
LEMMA AsideDescends ==
  ASSUME NEW a, NEW b, NEW g, NEW h, NEW times, NEW v, Descends(a, b, g, times, v),
         (a.version \in h) = (a.version \in g), (b.version \in h) = (b.version \in g)
  PROVE  Descends(a, b, h, times, v) /\ Open(a, b, h) = Open(a, b, g)
<1>1. Open(a, b, h) = Open(a, b, g)
  BY Zenon DEF Open
<1> QED BY <1>1 DEF Descends

\* Once neither is ahead, the time of the last sync may be any.
LEMMA SettledDescends ==
  ASSUME NEW d \in Devices, NEW a \in Row, NEW b \in Row, NEW c, NEW k, Sound(d, a, b, c, k),
         NEW g, NEW times, NEW v, NEW later, Descends(a, b, g, times, v), ~Outdates(a, b), ~Outdates(b, a)
  PROVE  Descends(a, b, g, later, v)
<1>1. ~Open(a, b, g)
  BY EvenAlike DEF Open, Alike
<1> QED BY <1>1 DEF Descends

LEMMA EarlyAsked ==
  ASSUME NEW C \in SUBSET Items, NEW i \in Early, i \in C
  PROVE  i \in Asked(C)
<1> DEFINE all == {j \in Items : j < i}
           some == {j \in C : j < i}
<1>1. IsFiniteSet(all) /\ all \in SUBSET Items /\ some \in SUBSET all
  BY ItemsAssumption, FS_Subset
<1>2. IsFiniteSet(some) /\ Cardinality(some) <= Cardinality(all)
  BY <1>1, FS_Subset
<1>3. Cardinality(some) \in Nat /\ Cardinality(all) \in Nat /\ MaxConflicts \in Nat
  BY <1>1, <1>2, FS_CardinalityType, BoundsAssumption
<1>4. Cardinality(all) < MaxConflicts
  BY DEF Early
<1>5. Cardinality(some) < MaxConflicts
  BY <1>2, <1>3, <1>4
<1> QED BY <1>5 DEF Asked

(***************************************************************************)
(* The conflicts of two tables.                                            *)
(***************************************************************************)
LEMMA ConflictIs ==
  ASSUME NEW mine \in Tables, NEW theirs \in Tables, NEW times, NEW i \in Items
  PROVE  /\ i \in Conflicts(List(mine), List(theirs), times) =>
              /\ times # {} /\ mine[i].version # 0 /\ theirs[i].version # 0
              /\ ~(mine[i].stamp = theirs[i].stamp /\ mine[i].deleted = theirs[i].deleted)
              /\ Newest(mine[i], times) /\ Newest(theirs[i], times)
         /\ /\ times # {} /\ mine[i].version # 0 /\ theirs[i].version # 0
            /\ mine[i].stamp # theirs[i].stamp /\ ~(mine[i].deleted /\ theirs[i].deleted)
            /\ Newest(mine[i], times) /\ Newest(theirs[i], times)
            => i \in Conflicts(List(mine), List(theirs), times)
<1> DEFINE m == List(mine)
           n == List(theirs)
<1>1. /\ DOMAIN m = {j \in Items : Holds(mine, j)} /\ DOMAIN n = {j \in Items : Holds(theirs, j)}
      /\ i \in DOMAIN m => m[i].stamp = mine[i].stamp /\ m[i].deleted = mine[i].deleted
      /\ i \in DOMAIN n => n[i].stamp = theirs[i].stamp /\ n[i].deleted = theirs[i].deleted
  BY ListIs
<1>2. /\ i \in DOMAIN m => m[i] = [stamp |-> mine[i].stamp, deleted |-> mine[i].deleted]
      /\ i \in DOMAIN n => n[i] = [stamp |-> theirs[i].stamp, deleted |-> theirs[i].deleted]
  BY DEF List
<1>3. ASSUME i \in Conflicts(m, n, times)
      PROVE  /\ times # {} /\ mine[i].version # 0 /\ theirs[i].version # 0
             /\ ~(mine[i].stamp = theirs[i].stamp /\ mine[i].deleted = theirs[i].deleted)
             /\ Newest(mine[i], times) /\ Newest(theirs[i], times)
  <2> HIDE DEF m, n
  <2>1. times # {} /\ i \in DOMAIN m /\ i \in DOMAIN n /\ m[i] # n[i]
    BY <1>3 DEF Conflicts
  <2>2. \A t \in times : m[i].stamp.ms > t /\ n[i].stamp.ms > t
    BY <1>3, <2>1 DEF Conflicts
  <2>3. mine[i].version # 0 /\ theirs[i].version # 0
    BY <1>1, <2>1 DEF Holds
  <2>4. Newest(mine[i], times) /\ Newest(theirs[i], times)
    BY <1>1, <2>1, <2>2 DEF Newest
  <2>5. ~(mine[i].stamp = theirs[i].stamp /\ mine[i].deleted = theirs[i].deleted)
    BY <1>2, <2>1
  <2> QED BY <2>1, <2>3, <2>4, <2>5
<1>4. ASSUME times # {}, mine[i].version # 0, theirs[i].version # 0,
             mine[i].stamp # theirs[i].stamp, ~(mine[i].deleted /\ theirs[i].deleted),
             Newest(mine[i], times), Newest(theirs[i], times)
      PROVE  i \in Conflicts(m, n, times)
  <2> HIDE DEF m, n
  <2>1. i \in DOMAIN m /\ i \in DOMAIN n
    BY <1>1, <1>4 DEF Holds
  <2>2. m[i] # n[i] /\ ~(m[i].deleted /\ n[i].deleted)
    BY <1>1, <1>4, <2>1
  <2>3. \A t \in times : m[i].stamp.ms > t /\ n[i].stamp.ms > t
    BY <1>1, <1>4, <2>1 DEF Newest
  <2> QED BY <1>4, <2>1, <2>2, <2>3 DEF Conflicts
<1> QED BY <1>3, <1>4

LEMMA ConflictsAlike ==
  ASSUME NEW m, NEW n, NEW times
  PROVE  Conflicts(m, n, times) = Conflicts(n, m, times)
BY DEF Conflicts

LEMMA ConflictsAre ==
  ASSUME NEW mine \in Tables, NEW theirs \in Tables, NEW times
  PROVE  Conflicts(List(mine), List(theirs), times) \in SUBSET Items
BY ListIs DEF Conflicts

LEMMA LineIs ==
  ASSUME NEW late \in BOOLEAN, LineInv(late), Plain, NEW d \in Devices
  PROVE  /\ changes[d] = <<>>
         /\ RunLine(late, d, run[d], rows, against, last)
         /\ \A m \in Msgs(wire[d]) : MsgLine(late, d, run[d], m, rows, against, last)
         /\ \A i \in Items : /\ Descends(rows[d][i], rows[Other(d)][i], against, Since(late, last), nextVersion)
                             /\ Descends(rows[Other(d)][i], rows[d][i], against, Since(late, last), nextVersion)
         /\ Known(against, nextVersion) /\ Strangers(rows) /\ nextVersion <= MaxVersion + 1
BY DevicesAre DEF LineInv, Line, RunsLine, MsgsLine

LEMMA RowsSound ==
  ASSUME TypeInv, RowsInv, NEW d \in Devices, NEW i \in Items
  PROVE  /\ rows[d][i] \in Row /\ rows[Other(d)][i] \in Row
         /\ clock[d] \in Clock /\ clock[Other(d)] \in Clock
         /\ Sound(d, rows[d][i], rows[Other(d)][i], clock[d], clock[Other(d)])
         /\ Sound(Other(d), rows[Other(d)][i], rows[d][i], clock[Other(d)], clock[d])
BY DevicesAre, SidesAre DEF RowsInv, SoundRows, Tables

\* What is open is in conflict.
LEMMA OpenConflicts ==
  ASSUME TypeInv, RowsInv, LineInv(TRUE), Plain, NEW i \in Items, Times(last) # {},
         Open(rows[Desktop][i], rows[Phone][i], against)
  PROVE  i \in Conflicts(List(rows[Desktop]), List(rows[Phone]), Times(last))
<1> DEFINE a == rows[Desktop][i]
           b == rows[Phone][i]
<1>1. /\ Descends(a, b, against, Since(TRUE, last), nextVersion) /\ Descends(b, a, against, Since(TRUE, last), nextVersion)
      /\ Sound(Desktop, a, b, clock[Desktop], clock[Phone]) /\ a \in Row /\ b \in Row
  BY LineIs, RowsSound, DevicesAre
<1>2. a.version # 0 /\ b.version # 0 /\ a.version # b.version /\ ~(a.deleted /\ b.deleted) /\ Open(b, a, against)
  BY OpenEither DEF Open
<1>3. Newest(a, Times(last)) /\ Newest(b, Times(last))
  BY <1>1, <1>2 DEF Descends, Since
<1>4. a.stamp # b.stamp
  BY <1>1, <1>2 DEF Sound, Alike
<1>5. rows[Desktop] \in Tables /\ rows[Phone] \in Tables
  BY SidesAre, DevicesAre
<1> QED BY <1>2, <1>3, <1>4, <1>5, ConflictIs

\* Nothing to ask about: nothing is open among the rows there would be a question about.
LEMMA NoneAsked ==
  ASSUME TypeInv, RowsInv, NEW late \in BOOLEAN, LineInv(late), Plain, Times(last) # {}, AskedNow(rows, last) = {}
  PROVE  Cleared(late, rows, against)
<1> SUFFICES ASSUME late, NEW i \in Early, Open(rows[Desktop][i], rows[Phone][i], against)
             PROVE  FALSE
  BY DEF Cleared
<1>1. i \in Items
  BY DEF Early
<1>2. i \in Conflicts(List(rows[Desktop]), List(rows[Phone]), Times(last))
  BY <1>1, OpenConflicts
<1>3. Conflicts(List(rows[Desktop]), List(rows[Phone]), Times(last)) \in SUBSET Items
  BY ConflictsAre, SidesAre, DevicesAre
<1> QED BY <1>2, <1>3, EarlyAsked DEF AskedNow

\* What is asked about: two contents, written on both sides since the last sync.
LEMMA AskedIs ==
  ASSUME TypeInv, RowsInv, NEW late \in BOOLEAN, LineInv(late), Plain, NEW d \in Devices, NEW i \in AskedNow(rows, last)
  PROVE  /\ i \in Items /\ Times(last) # {}
         /\ rows[d][i].version # 0 /\ rows[d][i].version # rows[Other(d)][i].version
         /\ Newest(rows[d][i], Times(last)) /\ rows[d][i].stamp.ms > 0
<1> DEFINE a == rows[Desktop][i]
           b == rows[Phone][i]
<1>1. rows[Desktop] \in Tables /\ rows[Phone] \in Tables
  BY SidesAre, DevicesAre
<1>2. i \in Conflicts(List(rows[Desktop]), List(rows[Phone]), Times(last)) /\ i \in Items
  BY <1>1, ConflictsAre DEF AskedNow, Asked
<1>3. /\ Times(last) # {} /\ a.version # 0 /\ b.version # 0 /\ ~(a.stamp = b.stamp /\ a.deleted = b.deleted)
      /\ Newest(a, Times(last)) /\ Newest(b, Times(last))
  BY <1>1, <1>2, ConflictIs
<1>4. Descends(a, b, against, Since(late, last), nextVersion)
  BY <1>2, LineIs, DevicesAre
<1>5. a.version # b.version
  BY <1>3, <1>4 DEF Descends, Alike
<1>6. Times(last) \subseteq Nat /\ a.stamp.ms \in Nat /\ b.stamp.ms \in Nat
  BY <1>1, <1>2, SidesAre, DevicesAre DEF Times, Tables, Row, Stamp
<1>7. a.stamp.ms > 0 /\ b.stamp.ms > 0
  BY <1>3, <1>6 DEF Newest
<1>8. d = Desktop \/ d = Phone
  BY DevicesAre
<1>9. CASE d = Desktop
  BY <1>2, <1>3, <1>5, <1>7, <1>9, DevicesAre
<1>10. CASE d = Phone
  BY <1>2, <1>3, <1>5, <1>7, <1>10, DevicesAre
<1> QED BY <1>8, <1>9, <1>10

(***************************************************************************)
(* The steps that leave rows and clocks alone.                             *)
(***************************************************************************)
LEMMA LineTalks ==
  ASSUME TypeInv, NEW late \in BOOLEAN, LineInv(late), NEW d \in Devices, Quiet, run'[Other(d)] = run[Other(d)],
         NEW took \in BOOLEAN, took => wire[d] # <<>>,
         NEW sent \in Seq(Messages), Talk(d, took, sent),
         run'[d].at \in {"versions", "review"} => d = Reviewer(run'[d].mode),
         Plain => RunLine(late, d, run'[d], rows, against, last),
         Plain => \A m \in Msgs(wire'[d]) : MsgLine(late, d, run'[d], m, rows, against, last),
         Plain /\ run[Other(d)].at # "rest" =>
           \A m \in Msgs(sent) : MsgLine(late, Other(d), run[Other(d)], m, rows, against, last)
  PROVE  LineInv(late)'
<1> DEFINE e == Other(d)
<1>1. e \in Devices /\ Devices = {d, e}
  BY DevicesAre
<1>2. /\ rows' = rows /\ last' = last /\ habit' = habit /\ clock' = clock /\ now' = now /\ lead' = lead
      /\ changes' = changes /\ against' = against /\ nextVersion' = nextVersion
  BY DEF Quiet, world
<1>3. Reviewers'
  <2>1. \A f \in Devices : run'[f].at \in {"versions", "review"} => f = Reviewer(run'[f].mode)
    BY <1>1 DEF LineInv, Reviewers
  <2> QED BY <2>1 DEF Reviewers
<1>4. ASSUME Plain'
      PROVE  /\ \A f \in Devices : changes'[f] = <<>>
             /\ Line(rows', against', Since(late, last'), nextVersion')
             /\ RunsLine(late)' /\ MsgsLine(late)'
  <2>1. Plain
    BY <1>2, <1>4 DEF Plain
  <2>2. (\A f \in Devices : changes'[f] = <<>>) /\ Line(rows', against', Since(late, last'), nextVersion')
    BY <1>2, <2>1 DEF LineInv
  <2>3. \A f \in Devices : RunLine(late, f, run'[f], rows, against, last)
    BY <1>1, <2>1, LineIs
  <2>4. RunsLine(late)'
    BY <1>2, <2>3 DEF RunsLine
  <2>5. \A m \in Msgs(wire'[e]) : MsgLine(late, e, run[e], m, rows, against, last)
    <3>1. CASE run[e].at = "rest"
      <4>1. wire'[e] = wire[e]
        BY <3>1, TalkIs DEF At
      <4> QED BY <1>1, <2>1, <4>1, LineIs
    <3>2. CASE run[e].at # "rest"
      <4>1. Msgs(wire'[e]) \subseteq Msgs(wire[e]) \cup Msgs(sent)
        BY TalkMsgs
      <4> QED BY <1>1, <2>1, <3>2, <4>1, LineIs
    <3> QED BY <3>1, <3>2
  <2>6. \A f \in Devices : \A m \in Msgs(wire'[f]) : MsgLine(late, f, run'[f], m, rows', against', last')
    BY <1>1, <1>2, <2>1, <2>5
  <2>7. MsgsLine(late)'
    BY <2>6 DEF MsgsLine, Msgs
  <2> QED BY <2>2, <2>4, <2>7
<1> QED BY <1>3, <1>4 DEF LineInv

\* One that keeps what d may read.
LEMMA LineGoesOn ==
  ASSUME TypeInv, NEW late \in BOOLEAN, LineInv(late), NEW d \in Devices, Quiet, run'[Other(d)] = run[Other(d)],
         NEW took \in BOOLEAN, took => wire[d] # <<>>,
         NEW sent \in Seq(Messages), Talk(d, took, sent),
         run'[d].at \in {"versions", "review"} => d = Reviewer(run'[d].mode),
         Plain => RunLine(late, d, run'[d], rows, against, last),
         run'[d].at \in {"lists", "versions"} => run[d].at = "lists",
         Plain /\ run[Other(d)].at # "rest" =>
           \A m \in Msgs(sent) : MsgLine(late, Other(d), run[Other(d)], m, rows, against, last)
  PROVE  LineInv(late)'
<1>1. Msgs(wire'[d]) \subseteq Msgs(wire[d])
  BY TalkMsgs
<1>2. Plain => \A m \in Msgs(wire[d]) : MsgLine(late, d, run'[d], m, rows, against, last)
  BY LineIs DEF MsgLine
<1>3. Plain => \A m \in Msgs(wire'[d]) : MsgLine(late, d, run'[d], m, rows, against, last)
  BY <1>1, <1>2
<1> QED BY <1>3, LineTalks

LEMMA LineEnds ==
  ASSUME TypeInv, NEW late \in BOOLEAN, LineInv(late), NEW d \in Devices, NEW took, NEW sent \in Seq(Messages), Ends(d, took, sent), Quiet,
         \A m \in Msgs(sent) : m.kind \notin {"reviewed", "rows"}
  PROVE  LineInv(late)'
<1> DEFINE e == Other(d)
<1>1. e \in Devices /\ Devices = {d, e}
  BY DevicesAre
<1>2. /\ rows' = rows /\ last' = last /\ habit' = habit /\ clock' = clock /\ now' = now /\ lead' = lead
      /\ changes' = changes /\ against' = against /\ nextVersion' = nextVersion
  BY DEF Quiet, world
<1>3. /\ run'[d] = Resting /\ run'[e] = run[e] /\ wire'[d] = <<>>
      /\ Msgs(wire'[d]) = {} /\ Msgs(wire'[e]) \subseteq Msgs(wire[e]) \cup Msgs(sent)
  BY EndsIs, EndsMsgs DEF At
<1>4. run'[d].at = "rest" /\ ~run'[d].reviewed
  BY <1>3, RestingIs
<1>5. Reviewers'
  <2>1. \A f \in Devices : run'[f].at \in {"versions", "review"} => f = Reviewer(run'[f].mode)
    BY <1>1, <1>3, <1>4 DEF LineInv, Reviewers
  <2> QED BY <2>1 DEF Reviewers
<1>6. ASSUME Plain'
      PROVE  /\ \A f \in Devices : changes'[f] = <<>>
             /\ Line(rows', against', Since(late, last'), nextVersion')
             /\ RunsLine(late)' /\ MsgsLine(late)'
  <2>1. Plain
    BY <1>2, <1>6 DEF Plain
  <2>2. (\A f \in Devices : changes'[f] = <<>>) /\ Line(rows', against', Since(late, last'), nextVersion')
    BY <1>2, <2>1 DEF LineInv
  <2>3. RunLine(late, d, run'[d], rows, against, last)
    BY <1>4 DEF RunLine
  <2>4. \A f \in Devices : RunLine(late, f, run'[f], rows, against, last)
    BY <1>1, <1>3, <2>1, <2>3, LineIs
  <2>5. RunsLine(late)'
    BY <1>2, <2>4 DEF RunsLine
  <2>6. \A m \in Msgs(wire'[e]) : MsgLine(late, e, run'[e], m, rows', against', last')
    <3>1. \A m \in Msgs(sent) : MsgLine(late, e, run[e], m, rows, against, last)
      BY DEF MsgLine
    <3> QED BY <1>1, <1>2, <1>3, <2>1, <3>1, LineIs
  <2>7. \A f \in Devices : \A m \in Msgs(wire'[f]) : MsgLine(late, f, run'[f], m, rows', against', last')
    BY <1>1, <1>3, <2>6
  <2>8. MsgsLine(late)'
    BY <2>7 DEF MsgsLine, Msgs
  <2> QED BY <2>2, <2>5, <2>8
<1> QED BY <1>5, <1>6 DEF LineInv

LEMMA HelloLine ==
  ASSUME FlowInv, NEW late \in BOOLEAN, LineInv(late), NEW d \in Devices, TakeHello(d)
  PROVE  LineInv(late)'
<1> USE DEF FlowInv
<1>1. /\ run[d].at = "hello" /\ Arrived(d) /\ Quiet /\ run'[Other(d)] = run[Other(d)]
      /\ \/ Ends(d, TRUE, Greets(d))
         \/ /\ Talk(d, TRUE, Greets(d))
            /\ run'[d].at = AfterHello(d, OwnHello(d), Arriving(d)) /\ run'[d].reviewed = run[d].reviewed
  BY TakeHelloIs DEF Quiet, At
<1>2. wire[d] # <<>>
  BY <1>1, ArrivedIs
<1>3. Greets(d) \in Seq(Messages) /\ \A m \in Msgs(Greets(d)) : m.kind = "hello"
  <2>1. Greets(d) \in Seq(Messages) /\ [kind |-> "hello", body |-> OwnHello(d)] \in Messages
    BY OwnHelloIs
  <2> QED BY <2>1, MsgsOfOne, NoMsgs DEF Greets
<1>4. CASE Ends(d, TRUE, Greets(d))
  BY <1>1, <1>3, <1>4, LineEnds
<1>5. CASE ~Ends(d, TRUE, Greets(d))
  <2>1. run'[d].at \in {"compare", "currency", "learn"}
    BY <1>1, <1>5 DEF AfterHello
  <2>2. Plain => RunLine(late, d, run'[d], rows, against, last)
    BY <1>1, <1>5, <2>1, LineIs DEF RunLine
  <2>3. \A m \in Msgs(Greets(d)) : MsgLine(late, Other(d), run[Other(d)], m, rows, against, last)
    BY <1>3 DEF MsgLine
  <2> QED BY <1>1, <1>2, <1>3, <1>5, <2>1, <2>2, <2>3, LineGoesOn
<1> QED BY <1>4, <1>5

LEMMA CompareLine ==
  ASSUME FlowInv, NEW late \in BOOLEAN, LineInv(late), NEW d \in Devices, Compare(d)
  PROVE  LineInv(late)'
<1> USE DEF FlowInv
<1>1. /\ run[d].at = "compare" /\ Quiet /\ run'[Other(d)] = run[Other(d)]
      /\ Talk(d, FALSE, Message("hashes", List(rows[d]))) /\ run'[d].at = "hashes"
      /\ run'[d].reviewed = run[d].reviewed
  BY CompareIs DEF At
<1>2. [kind |-> "hashes", body |-> List(rows[d])] \in Messages
  BY SidesAre, ListIs, KindsAre
<1>3. /\ Message("hashes", List(rows[d])) \in Seq(Messages)
      /\ Msgs(Message("hashes", List(rows[d]))) = {[kind |-> "hashes", body |-> List(rows[d])]}
  BY <1>2, MsgsOfOne
<1>4. \A m \in Msgs(Message("hashes", List(rows[d]))) : MsgLine(late, Other(d), run[Other(d)], m, rows, against, last)
  BY <1>3 DEF MsgLine
<1>5. Plain => RunLine(late, d, run'[d], rows, against, last)
  BY <1>1, LineIs DEF RunLine
<1> QED BY <1>1, <1>3, <1>4, <1>5, LineGoesOn

LEMMA HashesLine ==
  ASSUME FlowInv, NEW late \in BOOLEAN, LineInv(late), NEW d \in Devices, TakeHashes(d)
  PROVE  LineInv(late)'
<1> USE DEF FlowInv
<1>1. CASE Arriving(d) = run[d].list
  <2>1. /\ run[d].at = "hashes" /\ Arrived(d) /\ Quiet /\ run'[Other(d)] = run[Other(d)]
        /\ Talk(d, TRUE, <<>>) /\ run'[d].at = "touch" /\ run'[d].reviewed = run[d].reviewed
    BY <1>1, TakeHashesEnds DEF At
  <2>2. wire[d] # <<>>
    BY <2>1, ArrivedIs
  <2>3. Plain => RunLine(late, d, run'[d], rows, against, last)
    BY <2>1, LineIs DEF RunLine
  <2> QED BY <2>1, <2>2, <2>3, NoMsgs, LineGoesOn
<1>2. CASE Arriving(d) # run[d].list
  <2>1. /\ run[d].at = "hashes" /\ Arrived(d) /\ Quiet /\ run'[Other(d)] = run[Other(d)]
        /\ Talk(d, TRUE, ListFirst(d)) /\ run'[d].at = "lists" /\ run'[d].reviewed = run[d].reviewed
    BY <1>2, TakeHashesGoesOn DEF At
  <2>2. wire[d] # <<>> /\ wire[d] \in Seq(Messages)
    BY <2>1, ArrivedIs, SidesAre
  <2>3. Plain => RunLine(late, d, run'[d], rows, against, last)
    BY <2>1, LineIs DEF RunLine
  <2>4. [kind |-> "list", body |-> run[d].list] \in Messages
    BY SidesAre, KindsAre DEF Runs
  <2>5. /\ ListFirst(d) \in Seq(Messages)
        /\ \A m \in Msgs(ListFirst(d)) : MsgLine(late, Other(d), run[Other(d)], m, rows, against, last)
    BY <2>4, MsgsOfOne, NoMsgs DEF ListFirst, MsgLine
  <2>6. One(wire[d], "hashes") \/ Two(wire[d], "hashes", "list")
    <3>1. Script(d, run[d], wire[d])
      BY PairIs
    <3> QED BY <2>1, <2>2, <3>1 DEF Script
  <2>7. \A m \in Msgs(wire[d]) : m.kind \in {"hashes", "list"}
    BY <2>2, <2>6, MsgsAre DEF One, Two
  <2>8. Msgs(wire'[d]) \subseteq Msgs(wire[d])
    BY <2>1, <2>2, <2>5, TalkMsgs
  <2>9. \A m \in Msgs(wire'[d]) : MsgLine(late, d, run'[d], m, rows, against, last)
    BY <2>7, <2>8 DEF MsgLine
  <2> QED BY <2>1, <2>2, <2>3, <2>5, <2>9, LineTalks
<1> QED BY <1>1, <1>2

\* What a device is about to ask is what the two tables are in conflict about.
LEMMA ToAskNow ==
  ASSUME FlowInv, RowsInv, NEW d \in Devices, Arrived(d), run[d].at = "lists", ~run[d].reviewed
  PROVE  ToAsk(d) = AskedNow(rows, last) /\ run[d].own.since \cup run[d].theirs.since = Times(last)
<1>1. Arriving(d) = List(rows[Other(d)]) /\ run[d].list = List(rows[d])
  BY ListArrives
<1>2. run[d].own.since = last[d] /\ run[d].theirs.since = last[Other(d)]
  BY RowsAreTrue DEF RunTrue
<1>3. ToAsk(d) = Asked(Conflicts(List(rows[d]), List(rows[Other(d)]), last[d] \cup last[Other(d)]))
  BY <1>1, <1>2 DEF ToAsk, Asks
<1>4. last[d] \cup last[Other(d)] = Times(last)
  <2>1. last[Phone] \cup last[Desktop] = last[Desktop] \cup last[Phone]
    OBVIOUS
  <2>2. CASE d = Desktop
    BY <2>2, DevicesAre DEF Times
  <2>3. CASE d = Phone
    BY <2>1, <2>3, DevicesAre DEF Times
  <2> QED BY <2>2, <2>3, DevicesAre
<1>5. CASE d = Desktop
  BY <1>2, <1>3, <1>4, <1>5, DevicesAre DEF AskedNow
<1>6. CASE d = Phone
  <2>1. Conflicts(List(rows[d]), List(rows[Other(d)]), Times(last)) =
          Conflicts(List(rows[Desktop]), List(rows[Phone]), Times(last))
    BY <1>6, ConflictsAlike, DevicesAre
  <2> QED BY <1>2, <1>3, <1>4, <2>1 DEF AskedNow
<1> QED BY <1>5, <1>6, DevicesAre

LEMMA AsksUnreviewed ==
  ASSUME NEW d \in Devices, ToAsk(d) # {}
  PROVE  ~run[d].reviewed
BY DEF ToAsk, Asks

LEMMA ListLine ==
  ASSUME TypeInv, NEW late \in BOOLEAN, NEW d \in Devices
  PROVE  /\ ListThen(d) \in Seq(Messages)
         /\ \A m \in Msgs(ListThen(d)) : MsgLine(late, Other(d), run[Other(d)], m, rows, against, last)
<1>1. [kind |-> "list", body |-> run[d].list] \in Messages
  BY SidesAre, KindsAre DEF Runs
<1> QED BY <1>1, MsgsOfOne, NoMsgs DEF ListThen, MsgLine

LEMMA PlainMode ==
  ASSUME RowsInv, Plain, NEW d \in Devices
  PROVE  run[d].mode = "both" /\ Receives(d, run[d].mode) /\ Sends(d, run[d].mode) /\ Reviewer(run[d].mode) = Desktop
BY RowsAreTrue DEF RunTrue, Plain, Receives, Sends, Reviewer

LEMMA ListsReviewedLine ==
  ASSUME FlowInv, RowsInv, NEW late \in BOOLEAN, LineInv(late), NEW d \in Devices, TakeLists(d), ToAsk(d) # {}, d = Reviewer(run[d].mode)
  PROVE  LineInv(late)'
<1> USE DEF FlowInv
<1>1. /\ run[d].at = "lists" /\ Arrived(d) /\ Quiet /\ run'[Other(d)] = run[Other(d)]
      /\ Talk(d, TRUE, ListThen(d)) /\ run'[d].at = "versions" /\ run'[d].asked = ToAsk(d)
      /\ run'[d].mode = run[d].mode /\ run'[d].reviewed = run[d].reviewed
  BY TakeListsReviews DEF At, KeepsHello
<1>2. wire[d] # <<>> /\ ~run[d].reviewed
  BY <1>1, ArrivedIs, AsksUnreviewed
<1>3. ToAsk(d) = AskedNow(rows, last)
  BY <1>1, <1>2, ToAskNow
<1>4. ASSUME Plain
      PROVE  RunLine(late, d, run'[d], rows, against, last)
  <2>1. Times(last) # {} /\ d = Desktop
    BY <1>3, <1>4, AskedIs, PlainMode
  <2> QED BY <1>1, <1>2, <1>3, <2>1 DEF RunLine
<1> QED BY <1>1, <1>2, <1>4, ListLine, LineGoesOn

LEMMA ListsAwaitedLine ==
  ASSUME FlowInv, RowsInv, NEW late \in BOOLEAN, LineInv(late), NEW d \in Devices, TakeLists(d), ToAsk(d) # {}, d # Reviewer(run[d].mode)
  PROVE  LineInv(late)'
<1> USE DEF FlowInv
<1> DEFINE versions == Message("rows", Only(rows[d], ToAsk(d)))
<1>1. /\ run[d].at = "lists" /\ Arrived(d) /\ Quiet /\ run'[Other(d)] = run[Other(d)]
      /\ Talk(d, TRUE, ListThen(d) \o versions) /\ run'[d].at = "reviewed" /\ run'[d].reviewed = run[d].reviewed
  BY TakeListsWaits DEF At
<1>2. wire[d] # <<>> /\ ~run[d].reviewed
  BY <1>1, ArrivedIs, AsksUnreviewed
<1>3. ToAsk(d) = AskedNow(rows, last)
  BY <1>1, <1>2, ToAskNow
<1>4. Plain => RunLine(late, d, run'[d], rows, against, last)
  BY <1>1, <1>2 DEF RunLine
<1>5. [kind |-> "rows", body |-> Only(rows[d], ToAsk(d))] \in Messages
  BY SidesAre, OnlyIs, KindsAre
<1>6. versions \in Seq(Messages) /\ \A m \in Msgs(versions) : MsgLine(late, Other(d), run[Other(d)], m, rows, against, last)
  BY <1>3, <1>5, MsgsOfOne, DevicesAre DEF MsgLine
<1>7. /\ ListThen(d) \o versions \in Seq(Messages)
      /\ \A m \in Msgs(ListThen(d) \o versions) : MsgLine(late, Other(d), run[Other(d)], m, rows, against, last)
  BY <1>6, AnswersAre, ListLine, MsgsJoin
<1> QED BY <1>1, <1>2, <1>4, <1>7, LineGoesOn

LEMMA ListsSentLine ==
  ASSUME FlowInv, RowsInv, NEW late \in BOOLEAN, LineInv(late), NEW d \in Devices, TakeLists(d), ToAsk(d) = {}
  PROVE  LineInv(late)'
<1> USE DEF FlowInv
<1> DEFINE e == Other(d)
           then == IF d = Desktop THEN Message("rows", Going(d)) ELSE <<>>
<1>1. /\ run[d].at = "lists" /\ Arrived(d) /\ Quiet /\ run'[e] = run[e]
      /\ Talk(d, TRUE, ListThen(d) \o then) /\ run'[d].at = "rows"
      /\ run'[d].own = run[d].own /\ run'[d].theirs = run[d].theirs /\ run'[d].reviewed = run[d].reviewed
  BY TakeListsSends DEF At, KeepsHello
<1>2. wire[d] # <<>>
  BY <1>1, ArrivedIs
<1>3. ASSUME Plain
      PROVE  RunLine(late, d, run'[d], rows, against, last)
  <2>1. run[d].reviewed => Cleared(late, rows, against)
    BY <1>1, <1>3, LineIs DEF RunLine
  <2>2. ASSUME ~run[d].reviewed, run[d].own.since \cup run[d].theirs.since # {}
        PROVE  Cleared(late, rows, against)
    <3>1. ToAsk(d) = AskedNow(rows, last) /\ Times(last) # {}
      BY <1>1, <2>2, ToAskNow
    <3> QED BY <1>3, <3>1, NoneAsked
  <2> QED BY <1>1, <2>1, <2>2 DEF RunLine
<1>4. run[e].at # "rest" /\ d = Desktop => run[e].at \notin {"lists", "versions"}
  <2>1. FlowInv'
    BY OneStepKeeps DEF Step
  <2>2. ASSUME run[e].at # "rest", d = Desktop
        PROVE  run[e].at \in {"rows", "apply", "done"}
    <3>1. run'[Desktop].at = "rows" /\ run'[Phone].at # "rest" /\ run'[Phone] = run[e]
      BY <1>1, <2>2, DevicesAre
    <3>2. /\ Together(run'[Desktop], run'[Phone], wire'[Desktop], wire'[Phone])
          /\ run'[Desktop] \in Runs /\ run'[Phone] \in Runs
          /\ wire'[Desktop] \in Seq(Messages) /\ wire'[Phone] \in Seq(Messages)
      BY <2>1, <3>1, DevicesAre DEF StepInv, TypeInv, At
    <3>3. Exchanging(run'[Desktop], run'[Phone], wire'[Desktop], wire'[Phone])
      BY <3>1, <3>2, DesktopAt
    <3> QED BY <3>1, <3>3 DEF Exchanging
  <2> QED BY <2>2
<1>5. /\ then \in Seq(Messages)
      /\ run[e].at # "rest" => \A m \in Msgs(then) : MsgLine(late, e, run[e], m, rows, against, last)
  <2>1. [kind |-> "rows", body |-> Going(d)] \in Messages
    BY AnswersAre, KindsAre
  <2>2. run[e].at # "rest" /\ d = Desktop => MsgLine(late, e, run[e], [kind |-> "rows", body |-> Going(d)], rows, against, last)
    BY <1>4 DEF MsgLine
  <2> QED BY <2>1, <2>2, MsgsOfOne, NoMsgs
<1>6. /\ ListThen(d) \o then \in Seq(Messages)
      /\ run[e].at # "rest" => \A m \in Msgs(ListThen(d) \o then) : MsgLine(late, e, run[e], m, rows, against, last)
  BY <1>5, AnswersAre, ListLine, MsgsJoin
<1> QED BY <1>1, <1>2, <1>3, <1>6, LineGoesOn

LEMMA VersionsLine ==
  ASSUME FlowInv, NEW late \in BOOLEAN, LineInv(late), NEW d \in Devices, TakeVersions(d)
  PROVE  LineInv(late)'
<1> USE DEF FlowInv
<1>1. /\ run[d].at = "versions" /\ Arrived(d) /\ Quiet /\ run'[Other(d)] = run[Other(d)]
      /\ Talk(d, TRUE, <<>>) /\ run'[d].at = "review" /\ run'[d].asked = run[d].asked
      /\ run'[d].shown = Only(rows[d], run[d].asked) /\ run'[d].seen = Arriving(d)
      /\ run'[d].mode = run[d].mode /\ run'[d].reviewed = run[d].reviewed
  BY TakeVersionsIs DEF At, KeepsHello
<1>2. wire[d] # <<>> /\ d = Reviewer(run[d].mode)
  BY <1>1, ArrivedIs DEF LineInv, Reviewers
<1>3. ASSUME Plain
      PROVE  RunLine(late, d, run'[d], rows, against, last)
  <2>1. wire[d][1] \in Msgs(wire[d]) /\ wire[d][1].body = Arriving(d) /\ wire[d][1].kind = "rows"
    BY <1>1, ArrivedMsgs, ArrivedIs DEF At
  <2>2. MsgLine(late, d, run[d], wire[d][1], rows, against, last) /\ RunLine(late, d, run[d], rows, against, last)
    BY <1>3, <2>1, LineIs
  <2>3. Arriving(d) = Only(rows[Other(d)], AskedNow(rows, last))
    BY <1>1, <2>1, <2>2 DEF MsgLine
  <2> QED BY <1>1, <2>2, <2>3 DEF RunLine
<1> QED BY <1>1, <1>2, <1>3, NoMsgs, LineGoesOn

LEMMA ReviewedLine ==
  ASSUME FlowInv, NEW late \in BOOLEAN, LineInv(late), NEW d \in Devices, TakeReviewed(d)
  PROVE  LineInv(late)'
<1> USE DEF FlowInv
<1>1. /\ run[d].at = "reviewed" /\ Arrived(d) /\ Quiet /\ run'[Other(d)] = run[Other(d)]
      /\ Talk(d, TRUE, <<>>) /\ run'[d].at = "compare" /\ run'[d].reviewed = TRUE
  BY TakeReviewedIs DEF At
<1>2. wire[d] # <<>>
  BY <1>1, ArrivedIs
<1>3. ASSUME Plain
      PROVE  RunLine(late, d, run'[d], rows, against, last)
  <2>1. wire[d][1] \in Msgs(wire[d]) /\ wire[d][1].kind = "reviewed"
    BY <1>1, ArrivedMsgs, ArrivedIs DEF At
  <2>2. Cleared(late, rows, against)
    BY <1>3, <2>1, LineIs DEF MsgLine
  <2> QED BY <1>1, <2>2 DEF RunLine
<1> QED BY <1>1, <1>2, <1>3, NoMsgs, LineGoesOn

LEMMA RowsLine ==
  ASSUME FlowInv, NEW late \in BOOLEAN, LineInv(late), NEW d \in Devices, TakeRows(d)
  PROVE  LineInv(late)'
<1> USE DEF FlowInv
<1>1. /\ run[d].at = "rows" /\ Arrived(d) /\ Quiet /\ run'[Other(d)] = run[Other(d)]
      /\ Talk(d, TRUE, RowsThen(d)) /\ run'[d].at = "apply"
      /\ run'[d].own = run[d].own /\ run'[d].theirs = run[d].theirs /\ run'[d].reviewed = run[d].reviewed
  BY TakeRowsIs DEF At, KeepsHello
<1>2. wire[d] # <<>>
  BY <1>1, ArrivedIs
<1>3. Plain => RunLine(late, d, run'[d], rows, against, last)
  BY <1>1, LineIs DEF RunLine
<1>4. run[Other(d)].at # "rest" => run[Other(d)].at \notin {"lists", "versions"}
  <2>1. FlowInv'
    BY OneStepKeeps DEF Step
  <2> QED BY <1>1, <2>1, AcrossLater DEF Across
<1>5. [kind |-> "rows", body |-> run[d].out] \in Messages
  BY SidesAre, KindsAre DEF Runs
<1>6. /\ RowsThen(d) \in Seq(Messages)
      /\ run[Other(d)].at # "rest" => \A m \in Msgs(RowsThen(d)) : MsgLine(late, Other(d), run[Other(d)], m, rows, against, last)
  BY <1>4, <1>5, MsgsOfOne, NoMsgs DEF RowsThen, MsgLine
<1> QED BY <1>1, <1>2, <1>3, <1>6, LineGoesOn

LEMMA DoneLine ==
  ASSUME FlowInv, NEW late \in BOOLEAN, LineInv(late), NEW d \in Devices, TakeDone(d)
  PROVE  LineInv(late)'
<1> USE DEF FlowInv
<1>1. /\ run[d].at = "done" /\ Arrived(d) /\ Quiet /\ run'[Other(d)] = run[Other(d)]
      /\ Talk(d, TRUE, DoneThen(d)) /\ run'[d].at = "touch" /\ run'[d].reviewed = run[d].reviewed
  BY TakeDoneIs DEF At
<1>2. wire[d] # <<>>
  BY <1>1, ArrivedIs
<1>3. Plain => RunLine(late, d, run'[d], rows, against, last)
  BY <1>1, LineIs DEF RunLine
<1>4. [kind |-> "done", body |-> run[d].list] \in Messages
  BY SidesAre, KindsAre DEF Runs
<1>5. /\ DoneThen(d) \in Seq(Messages)
      /\ \A m \in Msgs(DoneThen(d)) : MsgLine(late, Other(d), run[Other(d)], m, rows, against, last)
  BY <1>4, MsgsOfOne, NoMsgs DEF DoneThen, MsgLine
<1> QED BY <1>1, <1>2, <1>3, <1>5, LineGoesOn

\* A plain pair never gets to the currency.
LEMMA NoCurrency ==
  ASSUME FlowInv, MoneyInv, NEW late \in BOOLEAN, LineInv(late), Plain, NEW d \in Devices
  PROVE  run[d].at # "currency" /\ ~LearnCurrency(d)
<1> USE DEF FlowInv
<1>1. changes[Desktop] = <<>> /\ changes[Phone] = <<>> /\ changes[d] = <<>>
  BY LineIs, DevicesAre
<1>2. run[d].at # "currency"
  <2>1. At(d, "currency") => run[d].theirs.changes < Len(changes[d])
    BY DEF StepInv
  <2>2. Len(changes[d]) = 0 /\ run[d].theirs.changes \in Nat
    BY <1>1, SidesAre DEF Runs, Hellos
  <2> QED BY <2>1, <2>2 DEF At
<1>3. ASSUME LearnCurrency(d)
      PROVE  FALSE
  <2>1. At(d, "learn") /\ Arrived(d)
    BY <1>3 DEF LearnCurrency
  <2>2. Arriving(d) # <<>>
    BY <2>1, CurrencyComes
  <2>3. wire[d][1] \in Msgs(wire[d]) /\ wire[d][1].body = Arriving(d) /\ wire[d][1].kind = "currency"
    BY <2>1, ArrivedMsgs, ArrivedIs DEF At
  <2>4. Arriving(d) = Unseen
    BY <2>3, MoneyIs DEF Fits
  <2>5. Unseen = <<>>
    BY <1>1 DEF Unseen
  <2> QED BY <2>2, <2>4, <2>5
<1> QED BY <1>2, <1>3

(***************************************************************************)
(* The steps of a sync that change rows or what is remembered of it.       *)
(***************************************************************************)
LEMMA LineMoves ==
  ASSUME TypeInv, NEW late \in BOOLEAN, LineInv(late), NEW d \in Devices, NEW e \in Devices, e = Other(d),
         UNCHANGED <<habit, nextVersion, changes>>, run'[e] = run[e],
         run'[d].at \notin {"versions", "review"},
         Plain => /\ Line(rows', against', Since(late, last'), nextVersion)
                  /\ RunLine(late, d, run'[d], rows', against', last')
                  /\ RunLine(late, e, run[e], rows', against', last')
                  /\ \A m \in Msgs(wire'[d]) : MsgLine(late, d, run'[d], m, rows', against', last')
                  /\ \A m \in Msgs(wire'[e]) : MsgLine(late, e, run[e], m, rows', against', last')
  PROVE  LineInv(late)'
<1>1. e \in Devices /\ Devices = {d, e}
  BY DevicesAre
<1>2. Reviewers'
  <2>1. \A f \in Devices : run'[f].at \in {"versions", "review"} => f = Reviewer(run'[f].mode)
    BY <1>1 DEF LineInv, Reviewers
  <2> QED BY <2>1 DEF Reviewers
<1>3. ASSUME Plain'
      PROVE  /\ \A f \in Devices : changes'[f] = <<>>
             /\ Line(rows', against', Since(late, last'), nextVersion')
             /\ RunsLine(late)' /\ MsgsLine(late)'
  <2>1. Plain
    BY <1>3 DEF Plain
  <2>2. (\A f \in Devices : changes'[f] = <<>>) /\ Line(rows', against', Since(late, last'), nextVersion')
    BY <2>1 DEF LineInv
  <2>3. \A f \in Devices : RunLine(late, f, run'[f], rows', against', last')
    BY <1>1, <2>1
  <2>4. RunsLine(late)'
    BY <2>3 DEF RunsLine
  <2>5. \A f \in Devices : \A m \in Msgs(wire'[f]) : MsgLine(late, f, run'[f], m, rows', against', last')
    BY <1>1, <2>1
  <2>6. MsgsLine(late)'
    BY <2>5 DEF MsgsLine, Msgs
  <2> QED BY <2>2, <2>4, <2>6
<1> QED BY <1>2, <1>3 DEF LineInv

\* Rows that share no content with others are decided each for itself.
LEMMA VerdictIs ==
  ASSUME NEW g, NEW t, NEW u, NEW kept, NEW given, kept \cap given = {},
         \A i \in kept \cup given : t[i].version # u[i].version,
         NEW n, \A i \in kept \cup given : t[i].version < n /\ u[i].version < n
                                           /\ t[i].version \in Nat \ {0} /\ u[i].version \in Nat \ {0},
         \A i, j \in kept \cup given : i # j => /\ t[i].version # t[j].version /\ u[i].version # u[j].version
                                                /\ t[i].version # u[j].version,
         Known(g, n)
  PROVE  LET h == Verdict(g, t, u, kept, given) IN
         /\ Known(h, n)
         /\ \A i \in kept : t[i].version \notin h /\ u[i].version \in h
         /\ \A i \in given : t[i].version \in h /\ u[i].version \notin h
         /\ \A v : (\A i \in kept \cup given : v # t[i].version /\ v # u[i].version) => (v \in h) = (v \in g)
<1> DEFINE h == Verdict(g, t, u, kept, given)
<1>1. \A v : v \in h <=> \/ /\ v \in g
                            /\ \A i \in kept : v # t[i].version
                            /\ \A i \in given : v # u[i].version
                         \/ \E i \in given : v = t[i].version
                         \/ \E i \in kept : v = u[i].version
  BY DEF Verdict
<1> HIDE DEF h
<1>2. Known(h, n)
  BY <1>1 DEF Known
<1>3. ASSUME NEW i \in kept
      PROVE  t[i].version \notin h /\ u[i].version \in h
  <2>1. u[i].version \in h
    BY <1>1
  <2>2. ~\E j \in given : t[i].version = t[j].version
    <3> SUFFICES ASSUME NEW j \in given
                 PROVE  t[i].version # t[j].version
      OBVIOUS
    <3>1. i # j /\ i \in kept \cup given /\ j \in kept \cup given
      OBVIOUS
    <3> QED BY <3>1
  <2>3. ~\E j \in kept : t[i].version = u[j].version
    <3> SUFFICES ASSUME NEW j \in kept
                 PROVE  t[i].version # u[j].version
      OBVIOUS
    <3>1. i \in kept \cup given /\ j \in kept \cup given
      OBVIOUS
    <3> QED BY <3>1
  <2> QED BY <1>1, <2>1, <2>2, <2>3
<1>4. ASSUME NEW i \in given
      PROVE  t[i].version \in h /\ u[i].version \notin h
  <2>1. t[i].version \in h
    BY <1>1
  <2>2. ~\E j \in given : u[i].version = t[j].version
    <3> SUFFICES ASSUME NEW j \in given
                 PROVE  u[i].version # t[j].version
      OBVIOUS
    <3>1. i \in kept \cup given /\ j \in kept \cup given
      OBVIOUS
    <3> QED BY <3>1
  <2>3. ~\E j \in kept : u[i].version = u[j].version
    <3> SUFFICES ASSUME NEW j \in kept
                 PROVE  u[i].version # u[j].version
      OBVIOUS
    <3>1. i # j /\ i \in kept \cup given /\ j \in kept \cup given
      OBVIOUS
    <3> QED BY <3>1
  <2> QED BY <1>1, <2>1, <2>2, <2>3
<1>5. ASSUME NEW v, \A i \in kept \cup given : v # t[i].version /\ v # u[i].version
      PROVE  (v \in h) = (v \in g)
  <2>1. (\A i \in kept : v # t[i].version /\ v # u[i].version) /\ (\A i \in given : v # t[i].version /\ v # u[i].version)
    BY <1>5
  <2> QED BY <1>1, <2>1
<1> QED BY <1>2, <1>3, <1>4, <1>5 DEF h

\* A content that is asked about is of that row alone.
LEMMA AskedApart ==
  ASSUME TypeInv, RowsInv, NEW late \in BOOLEAN, LineInv(late), Plain, NEW i \in AskedNow(rows, last), NEW j \in Items, i # j,
         NEW d \in Devices, NEW f \in Devices
  PROVE  rows[d][i].version # rows[f][j].version
<1>1. i \in Items /\ rows[d][i].version # 0 /\ rows[d][i].stamp.ms > 0
  BY AskedIs
<1>2. Strangers(rows)
  BY LineIs
<1>3. rows[d][i].stamp.ms # 0
  BY <1>1, RowsSound DEF Row, Stamp
<1> QED BY <1>1, <1>2, <1>3 DEF Strangers

\* Before a review, where nobody writes during a sync.
LEMMA ReviewBegins ==
  ASSUME FlowInv, RowsInv, NEW late \in BOOLEAN, LineInv(late), Plain, NEW d \in Devices, run[d].at = "review"
  PROVE  /\ d = Desktop /\ run[d].asked = AskedNow(rows, last) /\ Times(last) # {} /\ ~run[d].reviewed
         /\ run[d].shown = Only(rows[d], run[d].asked) /\ run[d].seen = Only(rows[Other(d)], run[d].asked)
         /\ run[d].asked \in SUBSET Items /\ IsFiniteSet(run[d].asked)
         /\ \A kept \in SUBSET run[d].asked, i \in run[d].asked : Restamps(d, i, kept)
<1> USE DEF FlowInv
<1>1. RunLine(late, d, run[d], rows, against, last) /\ RunTrue(d, run[d], rows, last, habit)
  BY LineIs, RowsAreTrue
<1>2. /\ d = Desktop /\ run[d].asked = AskedNow(rows, last) /\ Times(last) # {} /\ ~run[d].reviewed
      /\ run[d].shown = Only(rows[d], run[d].asked) /\ run[d].seen = Only(rows[Other(d)], run[d].asked)
  BY <1>1 DEF RunLine
<1>3. run[d].asked \in SUBSET Items /\ IsFiniteSet(run[d].asked)
  BY SidesAre, ItemsAssumption, FS_Subset DEF Runs
<1>4. ASSUME NEW kept \in SUBSET run[d].asked, NEW i \in run[d].asked
      PROVE  Restamps(d, i, kept)
  <2>1. run[d].list = List(rows[d])
    BY <1>1 DEF RunTrue, Listed
  <2>2. i \in Items /\ rows[d][i].version # 0
    BY <1>2, <1>4, AskedIs
  <2>3. run[d].list[i].deleted = rows[d][i].deleted
    BY <2>1, <2>2, SidesAre, ListIs DEF Holds
  <2> QED BY <1>4, <2>3 DEF Restamps
<1> QED BY <1>2, <1>3, <1>4

\* What the person decided against.
LEMMA ReviewJudges ==
  ASSUME FlowInv, RowsInv, NEW late \in BOOLEAN, LineInv(late), Plain, NEW d \in Devices, run[d].at = "review",
         NEW kept \in SUBSET run[d].asked
  PROVE  LET h == Judged(d, kept)
             e == Other(d)
         IN
         /\ Known(h, nextVersion)
         /\ \A i \in kept : rows[d][i].version \notin h /\ rows[e][i].version \in h
         /\ \A i \in run[d].asked \ kept : rows[d][i].version \in h /\ rows[e][i].version \notin h
         /\ \A i \in Items \ run[d].asked : /\ (rows[d][i].version \in h) = (rows[d][i].version \in against)
                                            /\ (rows[e][i].version \in h) = (rows[e][i].version \in against)
<1> USE DEF FlowInv
<1> DEFINE h == Judged(d, kept)
           given == run[d].asked \ kept
<1>1. PICK e \in Devices : e = Other(d) /\ Other(e) = d
  BY DevicesAre
<1>2. PICK t \in Tables, u \in Tables, A \in SUBSET Items : t = rows[d] /\ u = rows[e] /\ A = run[d].asked
  BY SidesAre, ReviewBegins
<1>3. A = AskedNow(rows, last) /\ run[d].shown = Only(t, A) /\ run[d].seen = Only(u, A)
  BY <1>1, <1>2, ReviewBegins
<1>4. (\A i \in A : run[d].shown[i] = t[i] /\ run[d].seen[i] = u[i]) /\ kept \in SUBSET A /\ given \in SUBSET A
  BY <1>2, <1>3, OnlyIs
<1>5. h = Verdict(against, t, u, kept, given)
  <2>1. {run[d].shown[i].version : i \in kept} = {t[i].version : i \in kept}
    BY <1>4
  <2>2. {run[d].seen[i].version : i \in kept} = {u[i].version : i \in kept}
    BY <1>4
  <2>3. {run[d].shown[i].version : i \in given} = {t[i].version : i \in given}
    BY <1>4
  <2>4. {run[d].seen[i].version : i \in given} = {u[i].version : i \in given}
    BY <1>4
  <2> QED BY <2>1, <2>2, <2>3, <2>4 DEF Judged, Verdict
<1>6. \A i \in A : /\ t[i].version # u[i].version /\ t[i].version < nextVersion /\ u[i].version < nextVersion
                   /\ t[i].version \in Nat \ {0} /\ u[i].version \in Nat \ {0}
  <2> SUFFICES ASSUME NEW i \in A
               PROVE  /\ t[i].version # u[i].version /\ t[i].version < nextVersion /\ u[i].version < nextVersion
                      /\ t[i].version \in Nat \ {0} /\ u[i].version \in Nat \ {0}
    OBVIOUS
  <2>1. t[i].version # 0 /\ t[i].version # u[i].version /\ u[i].version # 0
    BY <1>1, <1>2, <1>3, AskedIs
  <2>2. t[i].version < nextVersion /\ u[i].version < nextVersion
    BY <1>1, <1>2, LineIs DEF Descends
  <2>3. t[i].version \in Nat /\ u[i].version \in Nat
    BY BoundsAssumption DEF Tables, Row
  <2> QED BY <2>1, <2>2, <2>3
<1>7. \A i \in A, j \in Items : i # j => /\ t[i].version # t[j].version /\ u[i].version # u[j].version
                                         /\ t[i].version # u[j].version /\ u[i].version # t[j].version
  BY <1>1, <1>2, <1>3, AskedApart
<1>8. Known(against, nextVersion)
  BY LineIs
<1>9. kept \cup given = A /\ kept \cap given = {}
  BY <1>2
<1>10. /\ Known(h, nextVersion)
       /\ \A i \in kept : t[i].version \notin h /\ u[i].version \in h
       /\ \A i \in given : t[i].version \in h /\ u[i].version \notin h
       /\ \A v : (\A i \in A : v # t[i].version /\ v # u[i].version) => (v \in h) = (v \in against)
  <2> HIDE DEF given
  <2>1. \A i, j \in A : i # j => /\ t[i].version # t[j].version /\ u[i].version # u[j].version
                                 /\ t[i].version # u[j].version
    BY <1>2, <1>7
  <2> QED BY <1>5, <1>6, <1>8, <1>9, <2>1, VerdictIs
<1>11. ASSUME NEW i \in Items \ A
       PROVE  (t[i].version \in h) = (t[i].version \in against) /\ (u[i].version \in h) = (u[i].version \in against)
  <2> HIDE DEF h
  <2>1. \A j \in A : /\ t[i].version # t[j].version /\ t[i].version # u[j].version
                     /\ u[i].version # t[j].version /\ u[i].version # u[j].version
    BY <1>7
  <2> QED BY <1>10, <2>1
<1> QED BY <1>1, <1>2, <1>10, <1>11

\* One row of a review.
LEMMA ReviewRow ==
  ASSUME FlowInv, RowsInv, NEW late \in BOOLEAN, LineInv(late), Plain, NEW d \in Devices, run[d].at = "review",
         DecidesPastSeen, run'[d].reviewed,
         NEW kept \in SUBSET run[d].asked, NEW i \in Items
  PROVE  LET h == Judged(d, kept)
             b == rows[Other(d)][i]
             m == Decided(d, i, kept)
         IN
         /\ Descends(m, b, h, Since(late, last), nextVersion) /\ Descends(b, m, h, Since(late, last), nextVersion)
         /\ m.version = rows[d][i].version
         /\ i \notin run[d].asked => m = rows[d][i]
         /\ late /\ i \in Early => ~Open(m, b, h)
<1> USE DEF FlowInv
<1> DEFINE times == Since(late, last)
<1>1. PICK e \in Devices : e = Other(d) /\ Other(e) = d
  BY DevicesAre
<1>2. PICK a \in Row, b \in Row : a = rows[d][i] /\ b = rows[e][i]
  BY <1>1, RowsSound
<1>3. PICK A \in SUBSET Items : A = run[d].asked
  BY ReviewBegins
<1>4. kept \in SUBSET Items /\ kept \in SUBSET A
  BY <1>3
<1>5. PICK m \in Row : m = Decided(d, i, kept)
  BY <1>4, DecidedIs
<1>6. m.version = a.version
  BY <1>2, <1>4, <1>5, DecidedIs
<1>7. PICK h : h = Judged(d, kept)
  OBVIOUS
<1>8. /\ Descends(a, b, against, times, nextVersion) /\ Descends(b, a, against, times, nextVersion)
  BY <1>1, <1>2, LineIs
<1>9. d = Desktop /\ A = AskedNow(rows, last) /\ Times(last) # {} /\ run[d].seen = Only(rows[e], A)
  BY <1>1, <1>3, ReviewBegins
<1>10. CASE i \notin A
  <2>1. m = a
    BY <1>2, <1>3, <1>4, <1>5, <1>10, DecidedIs DEF Restamps
  <2>2. (a.version \in h) = (a.version \in against) /\ (b.version \in h) = (b.version \in against)
    BY <1>1, <1>2, <1>3, <1>7, <1>10, ReviewJudges
  <2>3. Descends(a, b, h, times, nextVersion) /\ Open(a, b, h) = Open(a, b, against)
    BY <1>8, <2>2, AsideDescends
  <2>4. Descends(b, a, h, times, nextVersion)
    BY <1>8, <2>2, AsideDescends
  <2>5. ASSUME late, i \in Early, Open(a, b, h)
        PROVE  FALSE
    <3>1. Open(rows[Desktop][i], rows[Phone][i], against)
      BY <1>1, <1>2, <1>9, <2>3, <2>5, DevicesAre
    <3>2. i \in Conflicts(List(rows[Desktop]), List(rows[Phone]), Times(last))
      BY <1>9, <2>5, <3>1, OpenConflicts
    <3>3. Conflicts(List(rows[Desktop]), List(rows[Phone]), Times(last)) \in SUBSET Items
      BY SidesAre, DevicesAre, ConflictsAre
    <3>4. i \in AskedNow(rows, last)
      BY <2>5, <3>2, <3>3, EarlyAsked DEF AskedNow
    <3> QED BY <1>9, <1>10, <3>4
  <2> QED BY <1>1, <1>2, <1>3, <1>5, <1>7, <2>1, <2>3, <2>4, <2>5
<1>11. CASE i \in A
  <2>1. /\ a.version # 0 /\ b.version # 0 /\ a.version # b.version
        /\ Newest(a, times) /\ Newest(b, times) /\ b.stamp.ms > 0
    BY <1>1, <1>2, <1>9, <1>11, AskedIs DEF Newest, Since
  <2>2. m.stamp = IF i \in kept THEN StampAt(Ticks(d)[Place(i, kept)], d) ELSE UNSET_STAMP
    <3>1. Restamps(d, i, kept)
      BY <1>3, <1>4, <1>11, ReviewBegins
    <3> QED BY <1>4, <1>5, <3>1, DecidedIs
  <2>3. CASE i \in kept
    <3>1. PICK q \in Clock, k \in Clock : /\ q = Ticks(d)[Place(i, kept)]
                                        /\ k = Tick(clock[d], Wall(d)) /\ AtMost(k, q)
      <4>1. Place(i, kept) \in 1..Cardinality(Items) /\ 1 \in 1..Cardinality(Items)
        BY <1>4, <2>3, PlaceIs, ItemsCount
      <4>2. Ticks(d)[1] = Tick(clock[d], Wall(d))
        BY <4>1, TicksAre
      <4> QED BY <4>1, <4>2, TicksAre, TicksRise, ItemsCount
    <3>2. Older(b.stamp, StampAt(k, d))
      <4>1. Only(rows[e], A)[i] = b
        BY <1>1, <1>2, <1>11, SidesAre, OnlyIs
      <4> QED BY <1>3, <1>9, <1>11, <3>1, <4>1 DEF DecidesPastSeen, At
    <3>3. /\ m.stamp = StampAt(q, d) /\ m.stamp.ms = q.ms /\ m.stamp.counter = q.counter /\ m.stamp.device = d
          /\ StampAt(k, d).ms = k.ms /\ StampAt(k, d).counter = k.counter /\ StampAt(k, d).device = d
      BY <2>2, <2>3, <3>1, StampsAre
    <3>4. Older(b.stamp, m.stamp) /\ b.stamp.ms <= m.stamp.ms
      BY <3>1, <3>2, <3>3, MaxCounterAssumption DEF Older, Behind, AtMost, Clock, Row, Stamp
    <3>5. b.stamp.ms \in Nat /\ m.stamp.ms \in Nat /\ \A s \in times : s \in Nat
      BY SidesAre, DevicesAre DEF Row, Stamp, Times, Since
    <3>6. Newest(m, times)
      BY <2>1, <3>4, <3>5 DEF Newest
    <3>7. a.version \notin h /\ b.version \in h
      BY <1>1, <1>2, <1>7, <2>3, ReviewJudges
    <3>8. Descends(m, b, h, times, nextVersion) /\ Descends(b, m, h, times, nextVersion)
      BY <1>6, <1>8, <2>1, <3>4, <3>6, <3>7, KeptDescends
    <3>9. ~Open(m, b, h)
      BY <3>7 DEF Open
    <3> QED BY <1>1, <1>2, <1>3, <1>5, <1>6, <1>7, <1>11, <3>8, <3>9
  <2>4. CASE i \notin kept
    <3>1. m.stamp = UNSET_STAMP
      BY <2>2, <2>4
    <3>2. a.version \in h /\ b.version \notin h
      BY <1>1, <1>2, <1>3, <1>7, <1>11, <2>4, ReviewJudges
    <3>3. Descends(m, b, h, times, nextVersion) /\ Descends(b, m, h, times, nextVersion)
      BY <1>6, <1>8, <2>1, <3>1, <3>2, GivenDescends
    <3>4. ~Open(m, b, h)
      BY <1>6, <3>2 DEF Open
    <3> QED BY <1>1, <1>2, <1>3, <1>5, <1>6, <1>7, <1>11, <3>3, <3>4
  <2> QED BY <2>3, <2>4
<1> QED BY <1>10, <1>11

LEMMA ReviewLine ==
  ASSUME FlowInv, RowsInv, NEW late \in BOOLEAN, LineInv(late), DecidesPastSeen, NEW d \in Devices, Review(d)
  PROVE  LineInv(late)'
<1> USE DEF FlowInv
<1>1. PICK e \in Devices : e = Other(d) /\ Other(e) = d /\ Devices = {d, e}
  BY DevicesAre
<1>2. /\ run[d].at = "review" /\ UNCHANGED <<habit, now, lead, nextVersion, changes, last>> /\ run'[e] = run[e]
      /\ Talk(d, FALSE, Message("reviewed", {})) /\ run'[d].at = "compare" /\ run'[d].reviewed
      /\ rows'[e] = rows[e] /\ clock'[e] = clock[e]
  BY <1>1, ReviewIs DEF At, world
<1>3. PICK kept \in SUBSET run[d].asked :
        /\ \A i \in Items : rows'[d][i] = Decided(d, i, kept)
        /\ clock'[d] = Ticks(d)[Cardinality(kept)] /\ against' = Judged(d, kept)
  BY ReviewIs
<1>4. run[e].at \in {"rest", "reviewed"}
  BY <1>1, <1>2, AcrossIs DEF Across
<1>5. ASSUME Plain
      PROVE  /\ Line(rows', against', Since(late, last'), nextVersion)
             /\ RunLine(late, d, run'[d], rows', against', last')
             /\ RunLine(late, e, run[e], rows', against', last')
             /\ \A m \in Msgs(wire'[d]) : MsgLine(late, d, run'[d], m, rows', against', last')
             /\ \A m \in Msgs(wire'[e]) : MsgLine(late, e, run[e], m, rows', against', last')
  <2>1. d = Desktop /\ e = Phone /\ run[d].asked = AskedNow(rows, last) /\ run[d].asked \in SUBSET Items
    BY <1>1, <1>2, <1>5, ReviewBegins, DevicesAre
  <2>2. \A i \in Items :
          /\ Descends(rows'[d][i], rows'[e][i], against', Since(late, last), nextVersion)
          /\ Descends(rows'[e][i], rows'[d][i], against', Since(late, last), nextVersion)
          /\ rows'[d][i].version = rows[d][i].version
          /\ i \notin run[d].asked => rows'[d][i] = rows[d][i]
          /\ late /\ i \in Early => ~Open(rows'[d][i], rows'[e][i], against')
    BY <1>1, <1>2, <1>3, <1>5, ReviewRow
  <2>3. Cleared(late, rows', against')
    BY <2>1, <2>2 DEF Cleared, Early
  <2>4. Strangers(rows')
    <3> SUFFICES ASSUME NEW f \in Devices, NEW g \in Devices, NEW i \in Items, NEW j \in Items,
                        i # j, rows'[f][i].version = rows'[g][j].version, rows'[f][i].version # 0
                 PROVE  rows'[f][i].stamp.ms = 0
      BY DEF Strangers
    <3>1. rows'[f][i].version = rows[f][i].version /\ rows'[g][j].version = rows[g][j].version
      BY <1>1, <1>2, <2>2
    <3>2. rows[f][i].stamp.ms = 0
      BY <1>5, <3>1, LineIs DEF Strangers
    <3>3. i \notin run[d].asked
      <4> SUFFICES ASSUME i \in AskedNow(rows, last)
                   PROVE  FALSE
        BY <2>1
      <4>1. rows[f][i].version # rows[g][j].version
        BY <1>5, AskedApart
      <4> QED BY <3>1, <4>1
    <3> QED BY <1>1, <1>2, <2>2, <3>2, <3>3
  <2>5. Known(against', nextVersion) /\ nextVersion <= MaxVersion + 1
    BY <1>2, <1>3, <1>5, ReviewJudges, LineIs
  <2>6. Line(rows', against', Since(late, last'), nextVersion)
    BY <1>1, <1>2, <2>2, <2>4, <2>5 DEF Line
  <2>7. RunLine(late, d, run'[d], rows', against', last')
    BY <1>2, <2>3 DEF RunLine
  <2>8. RunLine(late, e, run[e], rows', against', last')
    BY <1>4, <2>3 DEF RunLine
  <2>9. \A m : MsgLine(late, d, run'[d], m, rows', against', last') /\ MsgLine(late, e, run[e], m, rows', against', last')
    BY <1>2, <1>4, <2>3 DEF MsgLine
  <2> QED BY <2>6, <2>7, <2>8, <2>9
<1> QED BY <1>1, <1>2, <1>5, LineMoves

LEMMA ApplyLine ==
  ASSUME FlowInv, RowsInv, NEW late \in BOOLEAN, LineInv(late), NEW d \in Devices, Apply(d), ~Refused(d)
  PROVE  LineInv(late)'
<1> USE DEF FlowInv
<1>1. PICK e \in Devices : e = Other(d) /\ Other(e) = d /\ Devices = {d, e}
  BY DevicesAre
<1>2. /\ run[d].at = "apply" /\ UNCHANGED <<habit, now, lead, nextVersion, changes, last, against>> /\ run'[e] = run[e]
      /\ Talk(d, FALSE, DoneFirst(d)) /\ run'[d].at = "done" /\ run'[d].reviewed = run[d].reviewed
      /\ rows'[d] = Merged(d) /\ rows'[e] = rows[e] /\ clock'[e] = clock[e]
  BY <1>1, ApplyIs DEF At, world
<1>3. run[e].at \in {"rest", "rows", "apply", "done"}
  BY <1>1, <1>2, AcrossIs DEF Across
<1>4. /\ DoneFirst(d) \in Seq(Messages)
      /\ Msgs(DoneFirst(d)) \subseteq {[kind |-> "done", body |-> List(Merged(d))]}
  <2>1. [kind |-> "done", body |-> List(Merged(d))] \in Messages
    BY MergedIs, ListIs, KindsAre
  <2> QED BY <2>1, MsgsOfOne, NoMsgs DEF DoneFirst
<1>5. /\ Msgs(wire'[d]) \subseteq Msgs(wire[d])
      /\ Msgs(wire'[e]) \subseteq Msgs(wire[e]) \cup {[kind |-> "done", body |-> List(Merged(d))]}
  BY <1>1, <1>2, <1>4, TalkMsgs
<1>6. ASSUME Plain
      PROVE  /\ Line(rows', against', Since(late, last'), nextVersion)
             /\ RunLine(late, d, run'[d], rows', against', last')
             /\ RunLine(late, e, run[e], rows', against', last')
             /\ \A m \in Msgs(wire'[d]) : MsgLine(late, d, run'[d], m, rows', against', last')
             /\ \A m \in Msgs(wire'[e]) : MsgLine(late, e, run[e], m, rows', against', last')
  <2>1. \A i \in Items : rows'[d][i] = IF Outdates(rows[e][i], rows[d][i]) THEN rows[e][i] ELSE rows[d][i]
    BY <1>1, <1>2, <1>6, MergedTakes, PlainMode
  <2>2. ASSUME NEW i \in Items
        PROVE  /\ Descends(rows'[d][i], rows'[e][i], against, Since(late, last), nextVersion)
               /\ Descends(rows'[e][i], rows'[d][i], against, Since(late, last), nextVersion)
    <3>1. PICK a \in Row, b \in Row : a = rows[d][i] /\ b = rows[e][i] /\ rows'[e][i] = b
      BY <1>1, <1>2, RowsSound
    <3>2. /\ Descends(a, b, against, Since(late, last), nextVersion) /\ Descends(b, a, against, Since(late, last), nextVersion)
      BY <1>1, <1>6, <3>1, LineIs
    <3>3. CASE Outdates(b, a)
      <4>1. Descends(b, b, against, Since(late, last), nextVersion)
        BY <3>2, <3>3, MergeDescends
      <4> QED BY <2>1, <3>1, <3>3, <4>1
    <3>4. CASE ~Outdates(b, a)
      BY <2>1, <3>1, <3>2, <3>4
    <3> QED BY <3>3, <3>4
  <2>3. \A f \in Devices, i \in Items : \E g \in Devices : rows'[f][i] = rows[g][i]
    BY <1>1, <1>2, <2>1
  <2>4. Strangers(rows')
    <3> SUFFICES ASSUME NEW f \in Devices, NEW g \in Devices, NEW i \in Items, NEW j \in Items,
                        i # j, rows'[f][i].version = rows'[g][j].version, rows'[f][i].version # 0
                 PROVE  rows'[f][i].stamp.ms = 0
      BY DEF Strangers
    <3>1. PICK x \in Devices : rows'[f][i] = rows[x][i]
      BY <2>3
    <3>2. PICK y \in Devices : rows'[g][j] = rows[y][j]
      BY <2>3
    <3> QED BY <1>6, <3>1, <3>2, LineIs DEF Strangers
  <2>5. Line(rows', against', Since(late, last'), nextVersion)
    BY <1>1, <1>2, <1>6, <2>2, <2>4, LineIs DEF Line
  <2>6. ASSUME Cleared(late, rows, against)
        PROVE  Cleared(late, rows', against)
    <3> SUFFICES ASSUME late, NEW i \in Early
                 PROVE  ~Open(rows'[Desktop][i], rows'[Phone][i], against)
      BY DEF Cleared
    <3>1. i \in Items /\ ~Open(rows[Desktop][i], rows[Phone][i], against)
      BY <2>6 DEF Cleared, Early
    <3>2. \/ rows'[Desktop][i] = rows[Desktop][i] /\ rows'[Phone][i] = rows[Phone][i]
          \/ rows'[Desktop][i] = rows'[Phone][i]
      BY <1>1, <1>2, <2>1, <3>1, DevicesAre
    <3> QED BY <3>1, <3>2 DEF Open
  <2>7. RunLine(late, d, run'[d], rows', against', last')
    <3>1. run[d].reviewed => Cleared(late, rows, against)
      BY <1>2, <1>6, LineIs DEF RunLine
    <3> QED BY <1>2, <2>6, <3>1 DEF RunLine
  <2>8. RunLine(late, e, run[e], rows', against', last')
    <3>1. RunLine(late, e, run[e], rows, against, last)
      BY <1>6, LineIs
    <3> QED BY <1>2, <1>3, <2>6, <3>1 DEF RunLine
  <2>9. \A m \in Msgs(wire'[d]) : MsgLine(late, d, run'[d], m, rows', against', last')
    <3>1. \A m \in Msgs(wire[d]) : MsgLine(late, d, run[d], m, rows, against, last)
      BY <1>6, LineIs
    <3> QED BY <1>2, <1>5, <2>6, <3>1 DEF MsgLine
  <2>10. \A m \in Msgs(wire'[e]) : MsgLine(late, e, run[e], m, rows', against', last')
    <3>1. \A m \in Msgs(wire[e]) : MsgLine(late, e, run[e], m, rows, against, last)
      BY <1>6, LineIs
    <3> QED BY <1>2, <1>3, <1>5, <2>6, <3>1 DEF MsgLine
  <2> QED BY <2>5, <2>7, <2>8, <2>9, <2>10
<1> QED BY <1>1, <1>2, <1>6, LineMoves

\* A device notes a sync: at that moment neither is ahead of the other.
LEMMA TouchLine ==
  ASSUME FlowInv, RowsInv, NEW late \in BOOLEAN, LineInv(late), NEW d \in Devices, Touch(d)
  PROVE  LineInv(late)'
<1> USE DEF FlowInv
<1>1. PICK e \in Devices : e = Other(d) /\ Other(e) = d /\ Devices = {d, e}
  BY DevicesAre
<1>2. /\ run[d].at = "touch" /\ run'[d] = Resting /\ run'[e] = run[e] /\ wire'[d] = <<>> /\ wire'[e] = wire[e]
      /\ UNCHANGED <<habit, now, lead, clock, rows, changes, nextVersion, against>>
  BY <1>1, TouchIs DEF At
<1>3. run'[d].at = "rest" /\ Msgs(wire'[d]) = {}
  BY <1>2, RestingIs, NoMsgs
<1>4. run[e].at \in {"rest", "hashes", "done", "touch"}
  BY <1>1, <1>2, AcrossIs DEF Across
<1>5. ASSUME Plain
      PROVE  /\ Line(rows', against', Since(late, last'), nextVersion)
             /\ RunLine(late, d, run'[d], rows', against', last')
             /\ RunLine(late, e, run[e], rows', against', last')
             /\ \A m \in Msgs(wire'[d]) : MsgLine(late, d, run'[d], m, rows', against', last')
             /\ \A m \in Msgs(wire'[e]) : MsgLine(late, e, run[e], m, rows', against', last')
  <2>1. HasAll(d, rows) /\ HasAll(e, rows)
    BY <1>1, <1>2, <1>5, RowsAreTrue, PlainMode DEF RunTrue
  <2>2. \A i \in Items : ~Outdates(rows[d][i], rows[e][i]) /\ ~Outdates(rows[e][i], rows[d][i])
    BY <1>1, <2>1 DEF HasAll, Ahead
  <2>3. ASSUME NEW i \in Items
        PROVE  /\ Descends(rows[d][i], rows[e][i], against, Since(late, last'), nextVersion)
               /\ Descends(rows[e][i], rows[d][i], against, Since(late, last'), nextVersion)
    <3>1. PICK a \in Row, b \in Row : a = rows[d][i] /\ b = rows[e][i]
      BY <1>1, RowsSound
    <3>2. /\ Descends(a, b, against, Since(late, last), nextVersion) /\ Descends(b, a, against, Since(late, last), nextVersion)
      BY <1>1, <1>5, <3>1, LineIs
    <3>3. Sound(d, a, b, clock[d], clock[e]) /\ Sound(e, b, a, clock[e], clock[d])
      BY <1>1, <3>1, RowsSound
    <3>4. ~Outdates(a, b) /\ ~Outdates(b, a)
      BY <2>2, <3>1
    <3> QED BY <3>1, <3>2, <3>3, <3>4, SettledDescends
  <2>4. Line(rows', against', Since(late, last'), nextVersion)
    BY <1>1, <1>2, <1>5, <2>3, LineIs DEF Line
  <2>5. RunLine(late, d, run'[d], rows', against', last')
    BY <1>3 DEF RunLine
  <2>6. RunLine(late, e, run[e], rows', against', last')
    <3>1. RunLine(late, e, run[e], rows, against, last)
      BY <1>5, LineIs
    <3> QED BY <1>2, <1>4, <3>1 DEF RunLine
  <2>7. \A m \in Msgs(wire'[e]) : MsgLine(late, e, run[e], m, rows', against', last')
    <3>1. \A m \in Msgs(wire[e]) : MsgLine(late, e, run[e], m, rows, against, last)
      BY <1>5, LineIs
    <3> QED BY <1>2, <1>4, <3>1 DEF MsgLine
  <2> QED BY <1>3, <2>4, <2>5, <2>6, <2>7
<1> QED BY <1>1, <1>2, <1>3, <1>5, LineMoves

\* Where the pair has more to do than a plain one, only the reviewer matters.
LEMMA LineAside ==
  ASSUME NEW late \in BOOLEAN, ~Plain, habit' = habit, Reviewers'
  PROVE  LineInv(late)'
BY DEF LineInv, Plain

LEMMA SendCurrencyLine ==
  ASSUME FlowInv, MoneyInv, NEW late \in BOOLEAN, LineInv(late), NEW d \in Devices, SendCurrency(d)
  PROVE  LineInv(late)'
<1> USE DEF FlowInv
<1>1. /\ run[d].at = "currency" /\ Quiet /\ run'[Other(d)] = run[Other(d)] /\ run'[d].at = "compare"
  BY SendCurrencyIs DEF At
<1>2. ~Plain
  BY <1>1, NoCurrency
<1>3. \A f \in Devices : run'[f].at \in {"versions", "review"} => f = Reviewer(run'[f].mode)
  BY <1>1, DevicesAre DEF LineInv, Reviewers
<1>4. Reviewers'
  BY <1>3 DEF Reviewers
<1> QED BY <1>1, <1>2, <1>4, LineAside DEF Quiet, world

LEMMA LearnLine ==
  ASSUME FlowInv, MoneyInv, NEW late \in BOOLEAN, LineInv(late), NEW d \in Devices, LearnCurrency(d), ~FarAhead(d)
  PROVE  LineInv(late)'
<1> USE DEF FlowInv
<1>1. ~Plain
  BY NoCurrency
<1>2. Arriving(d) # <<>>
  <2>1. At(d, "learn") /\ Arrived(d)
    BY DEF LearnCurrency
  <2> QED BY <2>1, CurrencyComes
<1>3. UNCHANGED world /\ run'[Other(d)] = run[Other(d)] /\ run'[d].at = "compare"
  BY <1>2, LearnCurrencyIs
<1>4. \A f \in Devices : run'[f].at \in {"versions", "review"} => f = Reviewer(run'[f].mode)
  BY <1>3, DevicesAre DEF LineInv, Reviewers
<1>5. Reviewers'
  BY <1>4 DEF Reviewers
<1> QED BY <1>1, <1>3, <1>5, LineAside DEF world

LEMMA OneStepLine ==
  ASSUME FlowInv, MoneyInv, RowsInv, NEW late \in BOOLEAN, LineInv(late), DecidesPastSeen, NEW d \in Devices, Step(d) \/ Fail(d)
  PROVE  LineInv(late)'
<1>1. TypeInv
  BY DEF FlowInv
<1>2. ASSUME NEW took, Ends(d, took, <<>>), Quiet PROVE LineInv(late)'
  BY <1>1, <1>2, NoMsgs, LineEnds
<1>3. CASE TakeHello(d)
  BY <1>3, HelloLine
<1>4. CASE SendCurrency(d)
  BY <1>4, SendCurrencyLine
<1>5. CASE LearnCurrency(d)
  <2>1. CASE FarAhead(d)
    <3>1. Ends(d, TRUE, <<>>) /\ Quiet
      BY <1>1, <1>5, <2>1, LearnCurrencyEnds
    <3> QED BY <1>2, <3>1
  <2> QED BY <1>5, <2>1, LearnLine
<1>6. CASE Compare(d)
  BY <1>6, CompareLine
<1>7. CASE TakeHashes(d)
  BY <1>7, HashesLine
<1>8. CASE TakeLists(d)
  BY <1>8, ListsReviewedLine, ListsAwaitedLine, ListsSentLine
<1>9. CASE TakeVersions(d)
  BY <1>9, VersionsLine
<1>10. CASE Review(d)
  BY <1>10, ReviewLine
<1>11. CASE TakeReviewed(d)
  BY <1>11, ReviewedLine
<1>12. CASE TakeRows(d)
  BY <1>12, RowsLine
<1>13. CASE Apply(d)
  <2>1. CASE Refused(d)
    <3>1. Ends(d, FALSE, <<>>) /\ Quiet
      BY <1>1, <1>13, <2>1, ApplyRefuses
    <3> QED BY <1>2, <3>1
  <2> QED BY <1>13, <2>1, ApplyLine
<1>14. CASE TakeDone(d)
  BY <1>14, DoneLine
<1>15. CASE Touch(d)
  BY <1>15, TouchLine
<1>16. CASE PeerGone(d)
  BY <1>2, <1>16 DEF PeerGone, Quiet
<1>17. CASE Fail(d)
  BY <1>2, <1>17 DEF Fail, Quiet
<1> QED BY <1>3, <1>4, <1>5, <1>6, <1>7, <1>8, <1>9, <1>10, <1>11, <1>12, <1>13, <1>14, <1>15, <1>16, <1>17 DEF Step

(***************************************************************************)
(* Between syncs.                                                          *)
(***************************************************************************)
LEMMA LineAround ==
  ASSUME FlowInv, NEW late \in BOOLEAN, LineInv(late), Idle, Outside,
         Plain => /\ \A d \in Devices : changes'[d] = <<>>
                  /\ Line(rows', against', Since(late, last), nextVersion')
  PROVE  LineInv(late)'
<1>1. last' = last /\ habit' = habit /\ run' = run /\ wire' = wire
  BY DEF Outside
<1>2. \A d \in Devices : run[d].at = "rest" /\ Msgs(wire[d]) = {}
  BY IdleIs, NoMsgs
<1>3. Reviewers'
  BY <1>1 DEF LineInv, Reviewers
<1>4. \A d \in Devices : RunLine(late, d, run'[d], rows', against', last')
  BY <1>1, <1>2 DEF RunLine
<1>5. RunsLine(late)'
  BY <1>4 DEF RunsLine
<1>6. \A d \in Devices : Msgs(wire'[d]) = {}
  BY <1>1, <1>2
<1>7. MsgsLine(late)'
  BY <1>6 DEF MsgsLine, Msgs
<1>8. Plain' <=> Plain
  BY <1>1 DEF Plain
<1>9. ASSUME Plain
      PROVE  (\A d \in Devices : changes'[d] = <<>>) /\ Line(rows', against', Since(late, last'), nextVersion')
  BY <1>1, <1>9
<1> QED BY <1>3, <1>5, <1>7, <1>8, <1>9 DEF LineInv

LEMMA PassLine ==
  ASSUME FlowInv, NEW late \in BOOLEAN, LineInv(late), ~Concurrent, Pass
  PROVE  LineInv(late)'
<1> USE DEF FlowInv
<1>1. /\ Idle /\ Outside /\ now' = now + 1
      /\ UNCHANGED <<habit, lead, clock, rows, changes, last, nextVersion, against>>
  BY PassIs DEF Outside
<1>2. ASSUME Plain
      PROVE  /\ \A d \in Devices : changes'[d] = <<>>
             /\ Line(rows', against', Since(late, last), nextVersion')
  BY <1>1, <1>2 DEF LineInv
<1> QED BY <1>1, <1>2, LineAround

LEMMA ChangeLine ==
  ASSUME FlowInv, NEW late \in BOOLEAN, LineInv(late), ChangeCurrency
  PROVE  LineInv(late)'
<1>1. ~Plain /\ Outside /\ lead' = lead
  BY ChangeCurrencyIs DEF FlowInv
<1>2. Reviewers'
  BY <1>1 DEF Outside, LineInv, Reviewers
<1> QED BY <1>1, <1>2, LineAside DEF Outside

LEMMA StartLine ==
  ASSUME FlowInv, RowsInv, NEW late \in BOOLEAN, LineInv(late), NEW mode \in habit, Start(mode)
  PROVE  LineInv(late)'
<1> USE DEF FlowInv
<1>1. /\ Idle /\ UNCHANGED <<habit, lead, clock, rows, changes, last, nextVersion, against>> /\ now' = now + 1
      /\ wire'[Desktop] = Message("hello", Hello(Phone, "both")) /\ wire'[Phone] = wire[Phone]
      /\ [kind |-> "hello", body |-> Hello(Phone, "both")] \in Messages
      /\ \A d \in Devices : run'[d].at = "hello" /\ ~run'[d].reviewed
  BY StartIs
<1>2. Reviewers'
  BY <1>1 DEF LineInv, Reviewers
<1>3. \A d \in Devices : \A m \in Msgs(wire'[d]) : m.kind = "hello"
  <2>1. Msgs(wire'[Desktop]) = {[kind |-> "hello", body |-> Hello(Phone, "both")]} /\ Msgs(wire'[Phone]) = {}
    BY <1>1, MsgsOfOne, NoMsgs, IdleIs, DevicesAre
  <2>2. \A d \in Devices : d = Desktop \/ d = Phone
    BY DevicesAre
  <2> QED BY <2>1, <2>2
<1>4. ASSUME Plain'
      PROVE  /\ \A d \in Devices : changes'[d] = <<>>
             /\ Line(rows', against', Since(late, last'), nextVersion')
             /\ RunsLine(late)' /\ MsgsLine(late)'
  <2>1. Plain
    BY <1>1, <1>4 DEF Plain
  <2>2. (\A d \in Devices : changes'[d] = <<>>) /\ Line(rows', against', Since(late, last'), nextVersion')
    BY <1>1, <2>1 DEF LineInv
  <2>3. \A d \in Devices : RunLine(late, d, run'[d], rows', against', last')
    BY <1>1 DEF RunLine
  <2>4. RunsLine(late)'
    BY <2>3 DEF RunsLine
  <2>5. \A d \in Devices : \A m \in Msgs(wire'[d]) : MsgLine(late, d, run'[d], m, rows', against', last')
    BY <1>3 DEF MsgLine
  <2>6. MsgsLine(late)'
    BY <2>5 DEF MsgsLine, Msgs
  <2> QED BY <2>2, <2>4, <2>6
<1> QED BY <1>2, <1>4 DEF LineInv

LEMMA DescendsOn ==
  ASSUME NEW a \in Row, NEW b, NEW g, NEW times, NEW v \in Nat, Descends(a, b, g, times, v)
  PROVE  Descends(a, b, g, times, v + 1)
<1>1. a.version < v + 1
  BY BoundsAssumption DEF Descends, Row
<1> QED BY <1>1 DEF Descends

\* What a person writes between syncs is the last change of its row, and later than the
\* last syncs.
LEMMA EditIsLast ==
  ASSUME FlowInv, RowsInv, NEW late \in BOOLEAN, LineInv(late), Plain, late => WritesPastSyncs, NEW d \in Devices, NEW i \in Items, Edit(d, i)
  PROVE  /\ Newest(rows'[d][i], Since(late, last)) /\ rows'[d][i] \in Row
         /\ rows[d][i].version # 0 => Older(rows[d][i].stamp, rows'[d][i].stamp)
<1> USE DEF FlowInv
<1>1. /\ TypeInv' /\ nextVersion' # nextVersion
      /\ \E deleted \in BOOLEAN : Edited(d, i, deleted, rows'[d][i])
  BY EditIs
<1>2. PICK m \in Row : m = rows'[d][i]
  <2>1. rows'[d] \in Tables
    BY <1>1 DEF TypeInv
  <2> QED BY <2>1 DEF Tables
<1>3. PICK c \in Clock, w \in Nat, k \in Clock : c = clock[d] /\ w = Wall(d) /\ k = Tick(c, w)
  BY SidesAre, TickIs
<1>4. k.ms >= w /\ Behind(c, k) /\ m.stamp = StampAt(k, d)
  BY <1>1, <1>2, <1>3, TickIs DEF Edited
<1>5. m.stamp.ms = k.ms /\ m.stamp.counter = k.counter /\ m.stamp \in Stamp
  BY <1>4, StampsAre
<1>6. Newest(m, Since(late, last))
  <2>1. rows'[d] # rows[d]
    <3>1. m.version = nextVersion
      BY <1>1, <1>2 DEF Edited
    <3>2. rows[d][i].version < nextVersion /\ rows[d][i].version \in Nat
      BY LineIs, RowsSound, BoundsAssumption DEF Descends, Row
    <3> QED BY <1>2, <3>1, <3>2
  <2>2. late => \A e \in Devices : \A s \in last[e] : k.ms > s
    BY <1>1, <1>3, <2>1 DEF WritesPastSyncs
  <2> QED BY <1>5, <2>2, DevicesAre DEF Newest, Times, Since
<1>7. ASSUME rows[d][i].version # 0
      PROVE  Older(rows[d][i].stamp, m.stamp)
  <2>1. PICK a \in Row : a = rows[d][i] /\ AtMost(a.stamp, c)
    BY <1>3, <1>7, RowsSound DEF Sound
  <2>2. PICK s \in Stamp, t \in Stamp : s = a.stamp /\ t = m.stamp
    BY <1>5 DEF Row
  <2>3. Behind(c, t) /\ AtMost(s, c)
    BY <1>4, <1>5, <2>1, <2>2 DEF Behind
  <2> QED BY <2>1, <2>2, <2>3, ClockOrder
<1> QED BY <1>2, <1>6, <1>7

LEMMA EditLine ==
  ASSUME FlowInv, RowsInv, NEW late \in BOOLEAN, LineInv(late), ~Concurrent, late => WritesPastSyncs,
         NEW d \in Devices, NEW i \in Items, Edit(d, i)
  PROVE  LineInv(late)'
<1> USE DEF FlowInv
<1>1. PICK e \in Devices : e = Other(d) /\ Other(e) = d /\ Devices = {d, e}
  BY DevicesAre
<1>2. /\ MayWrite /\ Outside /\ UNCHANGED <<changes, against>>
      /\ (\A f \in Devices : ~Holds(rows[f], i)) \/ Live(rows[d], i)
      /\ nextVersion' = nextVersion + 1 /\ nextVersion \in 1..MaxVersion
      /\ rows'[e] = rows[e]
      /\ \A j \in Items : j # i => rows'[d][j] = rows[d][j]
      /\ \E deleted \in BOOLEAN : Edited(d, i, deleted, rows'[d][i])
  BY <1>1, EditIs
<1>3. Idle
  BY <1>2 DEF MayWrite
<1>4. PICK v \in Nat : v = nextVersion /\ v # 0 /\ v <= MaxVersion /\ MaxVersion \in Nat
  BY <1>2, BoundsAssumption
<1>5. ASSUME Plain
      PROVE  /\ \A f \in Devices : changes'[f] = <<>>
             /\ Line(rows', against', Since(late, last), nextVersion')
  <2> DEFINE times == Since(late, last)
  <2>1. PICK a \in Row, b \in Row, m \in Row :
          a = rows[d][i] /\ b = rows[e][i] /\ m = rows'[d][i]
    BY <1>1, <1>5, RowsSound, EditIsLast
  <2>2. Known(against, v)
    BY <1>4, <1>5, LineIs
  <2>3. Descends(m, b, against, times, v + 1) /\ Descends(b, m, against, times, v + 1)
    <3>1. Descends(a, b, against, times, v) /\ Descends(b, a, against, times, v)
      BY <1>1, <1>4, <1>5, <2>1, LineIs
    <3>2. Sound(d, a, b, clock[d], clock[e])
      BY <1>1, <2>1, RowsSound
    <3>3. m.version = v /\ m.over = a.over \cup ({a.version} \ {0})
      BY <1>2, <1>4, <2>1 DEF Edited
    <3>4. Newest(m, times) /\ (a.version # 0 => Older(a.stamp, m.stamp))
      BY <1>5, <2>1, EditIsLast
    <3>5. (a.version = 0 /\ b.version = 0) \/ (a.version # 0 /\ ~a.deleted)
      BY <1>2, <2>1 DEF Live, Holds
    <3> QED BY <1>4, <2>2, <3>1, <3>2, <3>3, <3>4, <3>5, EditDescends
  <2>4. ASSUME NEW j \in Items, j # i
        PROVE  /\ Descends(rows[d][j], rows[e][j], against, times, v + 1)
               /\ Descends(rows[e][j], rows[d][j], against, times, v + 1)
    <3>1. PICK x \in Row, y \in Row : x = rows[d][j] /\ y = rows[e][j]
      BY <1>1, RowsSound
    <3>2. Descends(x, y, against, times, v) /\ Descends(y, x, against, times, v)
      BY <1>1, <1>4, <1>5, <3>1, LineIs
    <3> QED BY <3>1, <3>2, DescendsOn
  <2>5. \A f \in Devices : \A j \in Items :
          Descends(rows'[f][j], rows'[Other(f)][j], against, times, v + 1)
    BY <1>1, <1>2, <2>1, <2>3, <2>4
  <2>6. Known(against, v + 1) /\ v + 1 <= MaxVersion + 1
    BY <1>4, <2>2 DEF Known
  <2>7. \A f \in Devices, j \in Items : rows[f][j].version < v
    BY <1>4, <1>5, LineIs DEF Descends
  <2>8. Strangers(rows')
    <3> SUFFICES ASSUME NEW f \in Devices, NEW g \in Devices, NEW j \in Items, NEW k \in Items,
                        j # k, rows'[f][j].version = rows'[g][k].version, rows'[f][j].version # 0
                 PROVE  rows'[f][j].stamp.ms = 0
      BY DEF Strangers
    <3>1. m.version = v
      BY <1>2, <1>4, <2>1 DEF Edited
    <3>2. rows'[f][j] = rows[f][j] \/ (f = d /\ j = i)
      BY <1>1, <1>2
    <3>3. rows'[g][k] = rows[g][k] \/ (g = d /\ k = i)
      BY <1>1, <1>2
    <3>4. CASE f = d /\ j = i
      <4>1. rows[g][k].version = v
        BY <2>1, <3>1, <3>3, <3>4
      <4> QED BY <2>7, <4>1
    <3>5. CASE g = d /\ k = i
      <4>1. rows[f][j].version = v
        BY <2>1, <3>1, <3>2, <3>5
      <4> QED BY <2>7, <4>1
    <3>6. CASE rows'[f][j] = rows[f][j] /\ rows'[g][k] = rows[g][k]
      BY <1>5, <3>6, LineIs DEF Strangers
    <3> QED BY <3>2, <3>3, <3>4, <3>5, <3>6
  <2>9. Line(rows', against', times, nextVersion')
    BY <1>2, <1>4, <2>5, <2>6, <2>8 DEF Line
  <2>10. \A f \in Devices : changes'[f] = <<>>
    BY <1>2, <1>5, LineIs
  <2> QED BY <2>9, <2>10
<1> QED BY <1>2, <1>3, <1>5, LineAround

LEMMA LineBegins ==
  ASSUME Init \/ InitMet, NEW late \in BOOLEAN
  PROVE  LineInv(late)
<1>1. /\ TypeInv /\ changes = [f \in Devices |-> <<>>] /\ against = {}
      /\ \A d \in Devices : run[d] = Resting /\ wire[d] = <<>>
      /\ \/ nextVersion = 1 /\ \A d \in Devices : rows[d] = NoRows
         \/ nextVersion = 2 /\ \A d \in Devices : rows[d] = [i \in Items |-> FirstRow]
  BY BeginIs DEF Init, InitMet, TypeInv
<1>2. \A d \in Devices : run[d].at = "rest" /\ ~run[d].reviewed /\ Msgs(wire[d]) = {} /\ changes[d] = <<>>
  BY <1>1, RestingIs, NoMsgs
<1>3. Reviewers /\ RunsLine(late) /\ MsgsLine(late)
  BY <1>2 DEF Reviewers, RunsLine, MsgsLine, RunLine
<1>4. MaxVersion \in Nat \ {0}
  BY BoundsAssumption
<1>5. CASE nextVersion = 1 /\ \A d \in Devices : rows[d] = NoRows
  <2>1. \A d \in Devices, i \in Items : rows[d][i] = Absent
    BY <1>5, RowsAre
  <2>2. Absent.version = 0
    BY DEF Absent
  <2>3. Descends(Absent, Absent, {}, Since(late, last), 1)
    BY <2>2 DEF Descends, Outdates, Open
  <2>4. Line(rows, against, Since(late, last), nextVersion)
    BY <1>1, <1>4, <1>5, <2>1, <2>2, <2>3, DevicesAre DEF Line, Known, Strangers
  <2> QED BY <1>2, <1>3, <2>4 DEF LineInv
<1>6. CASE nextVersion = 2 /\ \A d \in Devices : rows[d] = [i \in Items |-> FirstRow]
  <2>1. \A d \in Devices, i \in Items : rows[d][i] = FirstRow
    BY <1>6
  <2>2. FirstRow.version = 1 /\ FirstRow.stamp.ms = 0
    BY DEF FirstRow, StampAt
  <2>3. Descends(FirstRow, FirstRow, {}, Since(late, last), 2)
    BY <2>2 DEF Descends, Open, Alike
  <2>4. Line(rows, against, Since(late, last), nextVersion)
    BY <1>1, <1>4, <1>6, <2>1, <2>2, <2>3, DevicesAre DEF Line, Known, Strangers
  <2> QED BY <1>2, <1>3, <2>4 DEF LineInv
<1> QED BY <1>1, <1>5, <1>6

LEMMA NextLine ==
  ASSUME ~Concurrent, NEW late \in BOOLEAN
  PROVE  FlowInv /\ MoneyInv /\ RowsInv /\ LineInv(late) /\ [Next]_vars /\ [DecidesPastSeen]_vars
           /\ (late => [WritesPastSyncs]_vars) => LineInv(late)'
<1> SUFFICES ASSUME FlowInv, MoneyInv, RowsInv, LineInv(late), [Next]_vars, [DecidesPastSeen]_vars,
                    late => [WritesPastSyncs]_vars
             PROVE  LineInv(late)'
  OBVIOUS
<1>1. UNCHANGED vars \/ (DecidesPastSeen /\ (late => WritesPastSyncs))
  OBVIOUS
<1>2. CASE Pass
  BY <1>2, PassLine
<1>3. CASE ChangeCurrency
  BY <1>3, ChangeLine
<1>4. ASSUME NEW mode \in habit, Start(mode) PROVE LineInv(late)'
  BY <1>4, StartLine
<1>5. ASSUME NEW d \in Devices, NEW i \in Written, Edit(d, i), late => WritesPastSyncs PROVE LineInv(late)'
  <2>1. i \in Items
    BY DEF Written
  <2> QED BY <1>5, <2>1, EditLine
<1>6. ASSUME NEW d \in Devices, Step(d) \/ Fail(d), DecidesPastSeen PROVE LineInv(late)'
  BY <1>6, OneStepLine
<1>7. CASE UNCHANGED vars
  BY <1>7 DEF vars, LineInv, Reviewers, Plain, RunsLine, MsgsLine
<1> QED BY <1>1, <1>2, <1>3, <1>4, <1>5, <1>6, <1>7 DEF Next

(***************************************************************************)
(* What follows for the people at the two devices.                         *)
(***************************************************************************)
LEMMA ChosenWins == FlowInv /\ RowsInv /\ LineInv(FALSE) => ChosenVersionWins
<1> SUFFICES ASSUME FlowInv, RowsInv, LineInv(FALSE), Plain, \A d \in Devices : At(d, "touch"),
                    NEW d \in Devices, NEW i \in Items
             PROVE  rows[d][i].version \notin against
  BY DEF ChosenVersionWins
<1>1. RunTrue(d, run[d], rows, last, habit) /\ Receives(d, run[d].mode) /\ run[d].at = "touch"
  BY RowsAreTrue, PlainMode DEF At
<1>2. ~Outdates(rows[Other(d)][i], rows[d][i])
  BY <1>1 DEF RunTrue, HasAll, Ahead
<1>3. Descends(rows[d][i], rows[Other(d)][i], against, Since(FALSE, last), nextVersion)
  BY LineIs
<1> QED BY <1>2, <1>3 DEF Descends

\* Which steps of a sync do something to a row.
LEMMA RowsChange ==
  ASSUME FlowInv, NEW d \in Devices, Step(d) \/ Fail(d)
  PROVE  rows' = rows \/ (LearnCurrency(d) /\ ~FarAhead(d)) \/ Review(d) \/ (Apply(d) /\ ~Refused(d))
<1>1. CASE LearnCurrency(d) /\ FarAhead(d)
  BY <1>1, LearnCurrencyEnds DEF FlowInv, Quiet
<1>2. CASE Apply(d) /\ Refused(d)
  BY <1>2, ApplyRefuses DEF FlowInv, Quiet
<1>3. CASE \/ TakeHello(d) \/ SendCurrency(d) \/ Compare(d) \/ TakeHashes(d) \/ TakeLists(d)
           \/ TakeVersions(d) \/ TakeReviewed(d) \/ TakeRows(d) \/ TakeDone(d) \/ Touch(d) \/ PeerGone(d) \/ Fail(d)
  BY <1>3 DEF TakeHello, SendCurrency, Compare, TakeHashes, TakeLists, TakeVersions, TakeReviewed, TakeRows,
              TakeDone, Touch, PeerGone, Fail
<1> QED BY <1>1, <1>2, <1>3 DEF Step

\* Who reviews takes rows over.
LEMMA ReviewerReceives ==
  ASSUME FlowInv, NEW late \in BOOLEAN, LineInv(late), NEW d \in Devices, run[d].at = "review"
  PROVE  Receives(d, run[d].mode)
<1>1. d = Reviewer(run[d].mode)
  BY DEF LineInv, Reviewers
<1>2. run[d].mode \in Modes
  BY SidesAre DEF FlowInv, Runs
<1> QED BY <1>1, <1>2, DevicesAre DEF Reviewer, Receives, Sends, Modes

\* What a step does to the rows of d.
LEMMA ContentsStay ==
  ASSUME FlowInv, RowsInv, NEW late \in BOOLEAN, LineInv(late), ~Concurrent, [Next]_vars, NEW d \in Devices
  PROVE  \/ \A i \in Items : rows'[d][i].version = rows[d][i].version /\ rows'[d][i].stamp = rows[d][i].stamp
         \/ Review(d) /\ \A i \in Items : rows'[d][i].version = rows[d][i].version
         \/ Apply(d) /\ ~Refused(d)
         \/ \E i \in Items : Edit(d, i)
<1> USE DEF FlowInv
<1>1. ASSUME rows'[d] = rows[d]
      PROVE  \A i \in Items : rows'[d][i].version = rows[d][i].version /\ rows'[d][i].stamp = rows[d][i].stamp
  BY <1>1
<1>2. ASSUME NEW times \in Nat, rows'[d] = Converted(rows[d], times)
      PROVE  \A i \in Items : rows'[d][i].version = rows[d][i].version /\ rows'[d][i].stamp = rows[d][i].stamp
  <2>1. PICK table \in Tables : table = rows[d]
    BY SidesAre
  <2>2. \A i \in Items : Converted(table, times)[i].version = table[i].version /\ Converted(table, times)[i].stamp = table[i].stamp
    BY ConvertedIs
  <2> QED BY <1>2, <2>1, <2>2
<1>3. CASE Pass
  BY <1>1, <1>3, PassIs
<1>4. CASE ChangeCurrency
  <2>1. rows'[Desktop] = Converted(rows[Desktop], 1) /\ rows'[Phone] = rows[Phone]
    BY <1>4, ChangeCurrencyIs
  <2>2. d = Desktop \/ d = Phone
    BY DevicesAre
  <2> QED BY <1>1, <1>2, <2>1, <2>2
<1>5. ASSUME NEW mode \in habit, Start(mode)
      PROVE  rows'[d] = rows[d]
  BY <1>5, StartIs
<1>6. ASSUME NEW f \in Devices, NEW j \in Written, Edit(f, j)
      PROVE  rows'[d] = rows[d] \/ \E i \in Items : Edit(d, i)
  <2>1. j \in Items
    BY DEF Written
  <2>2. d = f \/ d = Other(f)
    BY DevicesAre
  <2>3. rows'[Other(f)] = rows[Other(f)]
    BY <1>6, <2>1, EditIs
  <2> QED BY <1>6, <2>1, <2>2, <2>3
<1>7. ASSUME NEW f \in Devices, Step(f) \/ Fail(f)
      PROVE  \/ \A i \in Items : rows'[d][i].version = rows[d][i].version /\ rows'[d][i].stamp = rows[d][i].stamp
             \/ Review(d) /\ \A i \in Items : rows'[d][i].version = rows[d][i].version
             \/ Apply(d) /\ ~Refused(d)
  <2>1. d = f \/ d = Other(f)
    BY DevicesAre
  <2>2. CASE rows' = rows
    BY <1>1, <2>2
  <2>3. CASE LearnCurrency(f) /\ ~FarAhead(f)
    <3>1. At(f, "learn") /\ Arrived(f)
      BY <2>3 DEF LearnCurrency
    <3>2. Arriving(f) # <<>> /\ Arriving(f) \in Seq(Stamp)
      BY <3>1, CurrencyComes
    <3>3. rows'[f] = Converted(rows[f], Len(Arriving(f))) /\ rows'[Other(f)] = rows[Other(f)]
      BY <2>3, <3>2, LearnCurrencyIs
    <3>4. Len(Arriving(f)) \in Nat
      BY <3>2
    <3> QED BY <1>1, <1>2, <2>1, <3>3, <3>4
  <2>4. CASE Review(f)
    <3>1. rows'[Other(f)] = rows[Other(f)]
      BY <2>4, ReviewIs
    <3>2. PICK kept \in SUBSET run[f].asked : \A i \in Items : rows'[f][i] = Decided(f, i, kept)
      BY <2>4, ReviewIs
    <3>3. kept \in SUBSET Items
      BY SidesAre DEF Runs
    <3>4. \A i \in Items : rows'[f][i].version = rows[f][i].version
      BY <3>2, <3>3, DecidedIs
    <3> QED BY <1>1, <2>1, <2>4, <3>1, <3>4
  <2>5. CASE Apply(f) /\ ~Refused(f)
    <3>1. rows'[Other(f)] = rows[Other(f)]
      BY <2>5, ApplyIs
    <3> QED BY <1>1, <2>1, <2>5, <3>1
  <2> QED BY <1>7, <2>2, <2>3, <2>4, <2>5, RowsChange
<1>8. CASE UNCHANGED vars
  BY <1>1, <1>8 DEF vars
<1> QED BY <1>1, <1>3, <1>4, <1>5, <1>6, <1>7, <1>8 DEF Next

LEMMA SenderIsLeft ==
  ASSUME FlowInv, RowsInv, NEW late \in BOOLEAN, LineInv(late), ~Concurrent, [Next]_vars, NEW d \in Devices
  PROVE  SenderStays(d)
<1> USE DEF FlowInv
<1> SUFFICES ASSUME ~Receives(d, run[d].mode), nextVersion' = nextVersion, NEW i \in Items
             PROVE  rows'[d][i].stamp = rows[d][i].stamp /\ rows'[d][i].version = rows[d][i].version
  BY DEF SenderStays
<1>1. ~Review(d)
  BY ReviewIs, ReviewerReceives DEF At
<1>2. ASSUME NEW j \in Items, Edit(d, j)
      PROVE  FALSE
  BY <1>2, EditIs, BoundsAssumption
<1>3. CASE Apply(d) /\ ~Refused(d)
  <2>1. run[d].at = "apply" /\ rows'[d] = Merged(d)
    BY <1>3, ApplyIs DEF At
  <2> QED BY <2>1, MergedTakes
<1> QED BY <1>1, <1>2, <1>3, ContentsStay

\* A content only gives way to one whose writer had seen it, or after it was decided against.
LEMMA NothingUnseen ==
  ASSUME FlowInv, RowsInv, LineInv(TRUE), ~Concurrent, [Next]_vars, Plain, NEW d \in Devices, NEW i \in Items,
         rows[d][i].version # 0, rows'[d][i].version # rows[d][i].version,
         ~(rows[d][i].deleted /\ rows'[d][i].deleted),
         run[d].own.since \cup run[d].theirs.since # {}, i \in Early
  PROVE  rows[d][i].version \in rows'[d][i].over \cup against
<1> USE DEF FlowInv
<1>1. CASE Apply(d) /\ ~Refused(d)
  <2>1. run[d].at = "apply" /\ rows'[d] = Merged(d)
    BY <1>1, ApplyIs DEF At
  <2>2. PICK a \in Row, b \in Row : a = rows[d][i] /\ b = rows[Other(d)][i]
    BY RowsSound
  <2>3. rows'[d][i] = b /\ Outdates(b, a)
    BY <2>1, <2>2, MergedTakes, PlainMode
  <2>4. Cleared(TRUE, rows, against)
    BY <2>1, LineIs DEF RunLine
  <2>5. ~Open(a, b, against)
    <3>1. ~Open(rows[Desktop][i], rows[Phone][i], against)
      BY <2>4 DEF Cleared
    <3>2. (a = rows[Desktop][i] /\ b = rows[Phone][i]) \/ (a = rows[Phone][i] /\ b = rows[Desktop][i])
      BY <2>2, DevicesAre
    <3> QED BY <3>1, <3>2, OpenEither
  <2>6. ~Outdates(a, b)
    BY <2>3, NotBoth
  <2>7. b.version \notin against
    <3>1. Descends(b, a, against, Since(TRUE, last), nextVersion)
      BY <2>2, LineIs
    <3> QED BY <2>6, <3>1 DEF Descends
  <2>8. b.version # 0
    BY <2>3 DEF Outdates
  <2>9. Follows(b, a) \/ a.version \in against
    BY <2>2, <2>3, <2>5, <2>6, <2>7, <2>8 DEF Open, Follows
  <2> QED BY <2>2, <2>3, <2>9 DEF Follows
<1>2. ASSUME NEW j \in Items, Edit(d, j)
      PROVE  rows[d][i].version \in rows'[d][i].over
  <2>1. /\ \A k \in Items : k # j => rows'[d][k] = rows[d][k]
        /\ \E deleted \in BOOLEAN : Edited(d, j, deleted, rows'[d][j])
    BY <1>2, EditIs
  <2>2. i = j
    BY <2>1
  <2>3. rows'[d][i].over = rows[d][i].over \cup ({rows[d][i].version} \ {0})
    BY <2>1, <2>2 DEF Edited
  <2> QED BY <2>3
<1> QED BY <1>1, <1>2, ContentsStay

\* The version a person chose in a review is what both devices hold when the sync that
\* asked gets through (engine.rs:2389-2391): wherever the wall clocks of the two stand, as
\* long as the one of the reviewer is past the stamps of what is decided on, where nobody
\* writes during a sync, and for any number of rows, conflicts, reviews and broken
\* connections.
THEOREM FlowChosenVersionWins ==
  ASSUME ~Concurrent
  PROVE  /\ Spec /\ [][DecidesPastSeen]_vars => []ChosenVersionWins
         /\ SpecMet /\ [][DecidesPastSeen]_vars => []ChosenVersionWins
<1> DEFINE Inv == FlowInv /\ MoneyInv /\ RowsInv /\ LineInv(FALSE)
<1>1. Init \/ InitMet => Inv
  BY FlowBegins, MoneyBegins, RowsBegin, LineBegins
<1>2. Inv /\ [Next]_vars /\ [DecidesPastSeen]_vars => Inv'
  BY NextKeeps, NextMoney, NextTruth, NextLine
<1>3. Inv => ChosenVersionWins
  BY ChosenWins
<1> HIDE DEF Inv
<1> QED BY <1>1, <1>2, <1>3, PTL DEF Spec, SpecMet

\* No content that a device holds goes unseen: it gives way to one whose writer had seen
\* it, or after a person decided against it, and who only sends gets through a sync as it
\* was (flow.rs:371-372). The wall clocks may differ as above, as long as besides whoever
\* writes stamps past what either side noted as its last sync; nobody writes during a sync.
THEOREM FlowNoSilentOverwrite ==
  ASSUME ~Concurrent
  PROVE  /\ Spec /\ [][InTurn]_vars => NoSilentOverwrite
         /\ SpecMet /\ [][InTurn]_vars => NoSilentOverwrite
<1> DEFINE Inv == FlowInv /\ MoneyInv /\ RowsInv /\ LineInv(TRUE)
<1>1. Init \/ InitMet => Inv
  BY FlowBegins, MoneyBegins, RowsBegin, LineBegins
<1>2. Inv /\ [Next]_vars /\ [InTurn]_vars => Inv'
  <2>1. [InTurn]_vars => [DecidesPastSeen]_vars /\ [WritesPastSyncs]_vars
    BY DEF InTurn
  <2> QED BY <2>1, NextKeeps, NextMoney, NextTruth, NextLine
<1>3. Inv /\ [Next]_vars =>
        [\A d \in Devices :
           /\ SenderStays(d)
           /\ \A i \in Items :
                LET old == rows[d][i]
                    new == rows'[d][i]
                IN
                /\ Plain /\ Holds(rows[d], i) /\ new.version # old.version
                /\ ~(old.deleted /\ new.deleted)
                /\ run[d].own.since \cup run[d].theirs.since # {}
                /\ Cardinality({j \in Items : j < i}) < MaxConflicts
                => old.version \in new.over \cup against]_vars
  <2> SUFFICES ASSUME Inv, [Next]_vars, NEW d \in Devices
               PROVE  /\ SenderStays(d)
                      /\ \A i \in Items :
                           /\ Plain /\ Holds(rows[d], i) /\ rows'[d][i].version # rows[d][i].version
                           /\ ~(rows[d][i].deleted /\ rows'[d][i].deleted)
                           /\ run[d].own.since \cup run[d].theirs.since # {}
                           /\ Cardinality({j \in Items : j < i}) < MaxConflicts
                           => rows[d][i].version \in rows'[d][i].over \cup against
    OBVIOUS
  <2>1. SenderStays(d)
    BY SenderIsLeft
  <2>2. ASSUME NEW i \in Items, Plain, Holds(rows[d], i), rows'[d][i].version # rows[d][i].version,
               ~(rows[d][i].deleted /\ rows'[d][i].deleted),
               run[d].own.since \cup run[d].theirs.since # {},
               Cardinality({j \in Items : j < i}) < MaxConflicts
        PROVE  rows[d][i].version \in rows'[d][i].over \cup against
    <3>1. i \in Early
      BY <2>2 DEF Early
    <3> QED BY <2>2, <3>1, NothingUnseen DEF Holds
  <2> QED BY <2>1, <2>2
<1> HIDE DEF Inv
<1> QED BY <1>1, <1>2, <1>3, PTL DEF Spec, SpecMet, NoSilentOverwrite
=============================================================================
