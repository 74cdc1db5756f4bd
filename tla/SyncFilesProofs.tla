-------------------------- MODULE SyncFilesProofs --------------------------
(***************************************************************************)
(* Proofs about SyncFiles, for any number of documents, any sizes, any     *)
(* budget and any bounds: the types and what becomes of a deleted document *)
(* first, then that the two sides of a sync stay in step, and what they    *)
(* send each other together.                                               *)
(***************************************************************************)
EXTENDS SyncFiles, TLAPS, FiniteSetTheorems

Steps == {"rest", "begin", "have", "need", "serve", "fetch", "stored"}
Requests == UNION {[asked -> Nat] : asked \in SUBSET Docs}

Run ==
  [at : Steps, mode : Modes \cup {"both"}, mine : SUBSET Docs, theirs : SUBSET Docs,
   want : Requests, asked : Requests, taking : [doc : Docs \cup {0}, open : BOOLEAN],
   arrived : SUBSET Docs, spent : Nat]

Messages ==
  [kind : {"have", "stored"}, body : SUBSET Docs] \cup [kind : {"need"}, body : Requests]
    \cup [kind : {"file"}, body : [doc : Docs, from : Nat]]
    \cup [kind : {"skip"}, body : [doc : Docs]] \cup [kind : {"piece"}, body : BOOLEAN]

TypeInv ==
  /\ rows \in [Devices -> [Docs -> Row]]
  /\ file \in [Devices -> [Docs -> {"none", "whole", "bad"}]]
  /\ part \in [Devices -> [Docs -> Nat]]
  /\ run \in [Devices -> Run]
  /\ wire \in [Devices -> Seq(Messages)]
  /\ gone \subseteq Docs /\ hurt \subseteq Docs

\* A file nobody has to answer for, or one the desktop can open.
Safe(i) == i \in gone \cup hurt \/ Opens(Desktop, i)

\* What a device is told it may let go of is safe.
Honest(messages) == \A m \in messages : m.kind = "stored" => \A i \in m.body : Safe(i)

\* A device that receives a file is at that step, of a document it has.
TakesKnown(d) ==
  run[d].taking # NotTaking =>
    /\ At(d, "fetch") /\ run[d].want # NoRequest /\ run[d].taking.doc \in Docs
    /\ run[d].taking.doc \notin gone => Live(d, run[d].taking.doc)

\* The rows: only a document that was deleted has a marker, or a file without a row.
RowsInv ==
  \A d \in Devices, i \in Docs :
    /\ rows[d][i].changed => rows[d][i].state # "none"
    /\ rows[d][i].state = "marker" => i \in gone
    /\ Has(d, i) /\ i \notin gone => Live(d, i)

\* The invariant: what the desktop received in this sync, or told the phone, it can open.
FilesInv ==
  /\ TypeInv
  /\ RowsInv
  /\ \A d \in Devices : TakesKnown(d)
  /\ \A i \in run[Desktop].arrived : Safe(i)
  /\ Honest(Range(wire[Phone]))
  /\ NoFileLost

-----------------------------------------------------------------------------
(***************************************************************************)
(* Sets of documents, requests and messages.                               *)
(***************************************************************************)
LEMMA DevicesAre ==
  /\ Desktop \in Devices /\ Phone \in Devices /\ Desktop # Phone
  /\ \A d \in Devices : /\ Other(d) \in Devices /\ Other(d) # d
                        /\ Devices = {d, Other(d)}
                        /\ d = Desktop \/ d = Phone
  /\ Other(Desktop) = Phone /\ Other(Phone) = Desktop
BY DEF Devices, Desktop, Phone, Other

\* A set of documents has a newest one: else adding one would map the documents up to
\* the set's into themselves, all but the first.
LEMMA OneIsNewest ==
  ASSUME NEW some \in SUBSET Docs, some # {}
  PROVE  \E i \in some : \A j \in some : j <= i
<1>0. LastDoc \in Nat
  BY DocsAssumption
<1> SUFFICES ASSUME \A i \in some : \E j \in some : i < j
             PROVE  FALSE
  BY <1>0 DEF Docs
<1> DEFINE below == {i \in Docs : \E j \in some : i <= j}
           next == [i \in below |-> i + 1]
<1>1. IsFiniteSet(below)
  <2>1. IsFiniteSet(Docs)
    BY <1>0, FS_Interval DEF Docs
  <2> QED BY <2>1, FS_Subset
<1>2. \A i \in below : i + 1 \in below
  <2>1. TAKE i \in below
  <2>2. PICK j \in some : i <= j
    OBVIOUS
  <2>3. PICK k \in some : j < k
    OBVIOUS
  <2>4. i \in Int /\ j \in Int /\ k \in Docs /\ i + 1 <= k /\ i + 1 \in Docs
    BY <2>2, <2>3, <1>0 DEF Docs
  <2>5. \E m \in some : i + 1 <= m
    BY <2>4
  <2> QED BY <2>4, <2>5
<1>3. next \in Injection(below, below)
  <2>1. next \in [below -> below]
    BY <1>2
  <2>2. \A i, j \in below : i + 1 = j + 1 => i = j
    BY <1>0 DEF Docs
  <2>3. IsInjective(next)
    BY <2>2 DEF IsInjective
  <2> QED BY <2>1, <2>3 DEF Injection
<1>4. next \in Surjection(below, below)
  BY <1>1, <1>3, FS_Injection
<1>5. 1 \in below
  <2>1. PICK j \in some : TRUE
    OBVIOUS
  <2> QED BY <2>1, <1>0 DEF Docs
<1>6. PICK i \in below : next[i] = 1
  BY <1>4, <1>5 DEF Surjection
<1> QED BY <1>6, <1>0 DEF Docs

LEMMA RequestsAre ==
  /\ NoRequest \in Requests
  /\ \A asked \in Requests : DOMAIN asked \in SUBSET Docs /\ asked \in [DOMAIN asked -> Nat]
  /\ \A some \in SUBSET Docs : [some -> Nat] \subseteq Requests
<1>1. NoRequest \in [{} -> Nat]
  BY DEF NoRequest
<1> QED BY <1>1 DEF Requests

LEMMA NewestIsAsked ==
  ASSUME NEW asked \in Requests, asked # NoRequest
  PROVE  Newest(asked) \in DOMAIN asked /\ Newest(asked) \in Docs /\ asked[Newest(asked)] \in Nat
<1>1. DOMAIN asked \in SUBSET Docs /\ asked \in [DOMAIN asked -> Nat]
  BY RequestsAre
<1>2. DOMAIN asked # {}
  <2> SUFFICES ASSUME DOMAIN asked = {}
               PROVE  FALSE
    OBVIOUS
  <2> QED BY <1>1 DEF NoRequest
<1>3. \E i \in DOMAIN asked : \A j \in DOMAIN asked : j <= i
  BY <1>1, <1>2, OneIsNewest
<1>4. Newest(asked) \in DOMAIN asked
  BY <1>3 DEF Newest
<1> QED BY <1>1, <1>4

LEMMA WithoutIsRequest ==
  ASSUME NEW asked \in Requests, NEW i
  PROVE  Without(asked, i) \in Requests
<1>1. DOMAIN asked \in SUBSET Docs /\ asked \in [DOMAIN asked -> Nat]
  BY RequestsAre
<1>2. Without(asked, i) \in [DOMAIN asked \ {i} -> Nat]
  BY <1>1 DEF Without
<1> QED BY <1>1, <1>2, RequestsAre

LEMMA WantedIsRequest ==
  ASSUME TypeInv, NEW d \in Devices, NEW theirs \in SUBSET Docs, NEW budget
  PROVE  WantedBy(d, theirs, budget) \in Requests
<1>1. \A some \in SUBSET Docs : [i \in some |-> part[d][i]] \in Requests
  <2>1. TAKE some \in SUBSET Docs
  <2>2. [i \in some |-> part[d][i]] \in [some -> Nat]
    BY DEF TypeInv
  <2> QED BY <2>2, RequestsAre
<1>2. \E some \in SUBSET Docs : Wanted(d, theirs, budget) = [i \in some |-> part[d][i]]
  BY DEF Wanted, Lacks
<1> QED BY <1>1, <1>2, RequestsAre DEF WantedBy

LEMMA RestingIsRun ==
  Resting \in Run /\ Resting.taking = NotTaking /\ Resting.arrived = {} /\ Resting.at = "rest"
BY RequestsAre DEF Resting, Run, Steps, NotTaking

LEMMA RangeOfTail ==
  ASSUME NEW messages \in Seq(Messages), messages # <<>>
  PROVE  /\ Tail(messages) \in Seq(Messages) /\ Range(Tail(messages)) \subseteq Range(messages)
         /\ Head(messages) \in Range(messages) /\ Head(messages) \in Messages
<1>1. /\ Tail(messages) \in Seq(Messages) /\ Len(Tail(messages)) = Len(messages) - 1
      /\ \A n \in 1..Len(messages) - 1 : Tail(messages)[n] = messages[n + 1]
      /\ Head(messages) = messages[1] /\ 1 \in DOMAIN messages
  OBVIOUS
<1>2. \A n \in DOMAIN Tail(messages) : \E m \in DOMAIN messages : Tail(messages)[n] = messages[m]
  BY <1>1
<1> QED BY <1>1, <1>2 DEF Range

LEMMA RangeOfJoin ==
  ASSUME NEW one \in Seq(Messages), NEW two \in Seq(Messages)
  PROVE  one \o two \in Seq(Messages) /\ Range(one \o two) \subseteq Range(one) \cup Range(two)
<1>1. /\ one \o two \in Seq(Messages) /\ Len(one \o two) = Len(one) + Len(two)
      /\ \A n \in 1..Len(one) + Len(two) :
           (one \o two)[n] = IF n <= Len(one) THEN one[n] ELSE two[n - Len(one)]
  OBVIOUS
<1>2. ASSUME NEW n \in DOMAIN (one \o two)
      PROVE  (one \o two)[n] \in Range(one) \cup Range(two)
  <2>1. n \in 1..Len(one) + Len(two)
    BY <1>1
  <2>2. CASE n <= Len(one)
    <3>1. n \in DOMAIN one /\ (one \o two)[n] = one[n]
      BY <2>1, <2>2, <1>1
    <3> QED BY <3>1 DEF Range
  <2>3. CASE n > Len(one)
    <3>1. n - Len(one) \in DOMAIN two /\ (one \o two)[n] = two[n - Len(one)]
      BY <2>1, <2>3, <1>1
    <3> QED BY <3>1 DEF Range
  <2> QED BY <2>1, <2>2, <2>3
<1> QED BY <1>1, <1>2 DEF Range

LEMMA RangeOfOne ==
  ASSUME NEW kind, NEW body, [kind |-> kind, body |-> body] \in Messages
  PROVE  /\ Message(kind, body) \in Seq(Messages)
         /\ Range(Message(kind, body)) = {[kind |-> kind, body |-> body]}
BY DEF Message, Range

LEMMA RangeOfNone == <<>> \in Seq(Messages) /\ Range(<<>>) = {}
BY DEF Range

LEMMA PiecesAre ==
  ASSUME NEW count \in Nat
  PROVE  Pieces(count) \in Seq(Messages) /\ \A m \in Range(Pieces(count)) : m.kind = "piece"
<1>1. Pieces(count) \in [1..count -> Messages]
  BY DEF Pieces, Messages
<1>2. \A n \in 1..count : Pieces(count)[n].kind = "piece"
  BY DEF Pieces
<1>3. Pieces(count) \in Seq(Messages)
  BY <1>1
<1> QED BY <1>1, <1>2, <1>3 DEF Range

\* A message that arrives is of the kind that is waited for, and so is its body.
LEMMA ArrivedIs ==
  ASSUME TypeInv, NEW d \in Devices, TakesKnown(d), Arrived(d)
  PROVE  /\ wire[d] # <<>> /\ Head(wire[d]) \in Range(wire[d])
         /\ At(d, "have") => Arriving(d) \in SUBSET Docs
         /\ At(d, "need") => Arriving(d) \in Requests
         /\ At(d, "stored") => Head(wire[d]).kind = "stored" /\ Arriving(d) \in SUBSET Docs
         /\ At(d, "fetch") => run[d].want # NoRequest
         /\ Head(wire[d]).kind = "piece" => run[d].taking # NotTaking /\ Arriving(d) \in BOOLEAN
         /\ Head(wire[d]).kind \in {"file", "skip"} => run[d].taking = NotTaking
<1>1. /\ wire[d] \in Seq(Messages) /\ wire[d] # <<>>
      /\ Waiting(d) /\ Head(wire[d]).kind \in Expected(d)
  BY DEF Arrived, TypeInv
<1>2. Head(wire[d]) \in Messages /\ Head(wire[d]) \in Range(wire[d])
  BY <1>1, RangeOfTail
<1>3. /\ Head(wire[d]).kind = "have" => Head(wire[d]).body \in SUBSET Docs
      /\ Head(wire[d]).kind = "stored" => Head(wire[d]).body \in SUBSET Docs
      /\ Head(wire[d]).kind = "need" => Head(wire[d]).body \in Requests
      /\ Head(wire[d]).kind = "piece" => Head(wire[d]).body \in BOOLEAN
  BY <1>2 DEF Messages
<1>4. At(d, "fetch") => run[d].want # NoRequest
  BY <1>1 DEF Waiting
<1>5. run[d].at \in {"have", "need", "fetch", "stored"}
  BY <1>1 DEF Waiting, WaitsFor
<1>6. /\ ~At(d, "fetch") => run[d].taking = NotTaking
      /\ run[d].taking # NotTaking => Expected(d) = {"piece"}
  BY DEF TakesKnown, Expected
<1>7. run[d].taking = NotTaking =>
        /\ At(d, "have") => Expected(d) = {"have"}
        /\ At(d, "need") => Expected(d) = {"need"}
        /\ At(d, "fetch") => Expected(d) = {"file", "skip"}
        /\ At(d, "stored") => Expected(d) = {"stored"}
  BY DEF Expected, WaitsFor, At
<1>8. Head(wire[d]).kind = "piece" => run[d].taking # NotTaking
  BY <1>1, <1>5, <1>7 DEF At
<1>9. Head(wire[d]).kind \in {"file", "skip"} => run[d].taking = NotTaking
  BY <1>1, <1>6
<1>10. /\ At(d, "have") => Head(wire[d]).kind = "have"
       /\ At(d, "need") => Head(wire[d]).kind = "need"
       /\ At(d, "stored") => Head(wire[d]).kind = "stored"
  BY <1>1, <1>6, <1>7 DEF At
<1> QED BY <1>1, <1>2, <1>3, <1>4, <1>8, <1>9, <1>10 DEF Arriving

-----------------------------------------------------------------------------
(***************************************************************************)
(* Steps that leave the rows and the files alone.                          *)
(***************************************************************************)
LEMMA UnmovedKeeps ==
  ASSUME FilesInv, UNCHANGED <<rows, file, part, gone, hurt>>, NEW sent, Honest(sent),
         run' \in [Devices -> Run], wire' \in [Devices -> Seq(Messages)],
         Range(wire'[Phone]) \subseteq Range(wire[Phone]) \cup sent,
         \A d \in Devices :
           \/ run'[d] = run[d]
           \/ run'[d].taking = NotTaking
           \/ /\ run'[d].at = "fetch" /\ run'[d].want # NoRequest /\ run'[d].taking.doc \in Docs
              /\ Live(d, run'[d].taking.doc),
         run'[Desktop].arrived \subseteq run[Desktop].arrived
  PROVE  FilesInv'
<1>1. TypeInv'
  BY DEF FilesInv, TypeInv
<1>2. /\ \A d, i : Live(d, i)' = Live(d, i) /\ Has(d, i)' = Has(d, i) /\ Opens(d, i)' = Opens(d, i)
      /\ \A i : Safe(i)' = Safe(i)
  BY DEF Live, Has, Opens, Safe
<1>3. RowsInv'
  BY <1>2 DEF FilesInv, RowsInv
<1>4. \A d \in Devices : TakesKnown(d)'
  <2>1. TAKE d \in Devices
  <2>2. CASE run'[d] = run[d]
    BY <2>2, <1>2 DEF FilesInv, TakesKnown, At
  <2>3. CASE run'[d].taking = NotTaking
    BY <2>3 DEF TakesKnown
  <2>4. CASE /\ run'[d].at = "fetch" /\ run'[d].want # NoRequest /\ run'[d].taking.doc \in Docs
             /\ Live(d, run'[d].taking.doc)
    BY <2>4, <1>2 DEF TakesKnown, At
  <2> QED BY <2>2, <2>3, <2>4
<1>5. \A i \in run'[Desktop].arrived : Safe(i)'
  BY <1>2 DEF FilesInv
<1>6. Honest(Range(wire[Phone]))'
  BY <1>2 DEF FilesInv, Honest
<1>7. NoFileLost'
  BY <1>2 DEF FilesInv, NoFileLost
<1> QED BY <1>1, <1>3, <1>4, <1>5, <1>6, <1>7 DEF FilesInv

\* A device that goes on puts nothing on the wires but what it sends.
LEMMA TalkSends ==
  ASSUME TypeInv, NEW d \in Devices, NEW took \in BOOLEAN, took => wire[d] # <<>>,
         NEW sent \in Seq(Messages), Talk(d, took, sent)
  PROVE  /\ wire' \in [Devices -> Seq(Messages)]
         /\ Range(wire'[Phone]) \subseteq Range(wire[Phone]) \cup Range(sent)
<1>1. \A e \in Devices : wire[e] \in Seq(Messages)
  BY DEF TypeInv
<1>2. took => Tail(wire[d]) \in Seq(Messages) /\ Range(Tail(wire[d])) \subseteq Range(wire[d])
  BY <1>1, RangeOfTail
<1>3. /\ wire[Other(d)] \o sent \in Seq(Messages)
      /\ Range(wire[Other(d)] \o sent) \subseteq Range(wire[Other(d)]) \cup Range(sent)
  BY <1>1, DevicesAre, RangeOfJoin
<1>4. /\ wire' \in [Devices -> Seq(Messages)]
      /\ Range(wire'[d]) \subseteq Range(wire[d])
      /\ Range(wire'[Other(d)]) \subseteq Range(wire[Other(d)]) \cup Range(sent)
  <2>1. wire \in [Devices -> Seq(Messages)]
    BY DEF TypeInv
  <2> DEFINE mine == IF took THEN Tail(wire[d]) ELSE wire[d]
             theirs == IF At(Other(d), "rest") THEN wire[Other(d)] ELSE wire[Other(d)] \o sent
  <2>2. mine \in Seq(Messages) /\ Range(mine) \subseteq Range(wire[d])
    BY <1>1, <1>2
  <2>3. /\ theirs \in Seq(Messages)
        /\ Range(theirs) \subseteq Range(wire[Other(d)]) \cup Range(sent)
    BY <1>1, <1>3, DevicesAre
  <2>4. wire' = [wire EXCEPT ![d] = mine, ![Other(d)] = theirs]
    BY DEF Talk
  <2> HIDE DEF mine, theirs
  <2>5. /\ wire' \in [Devices -> Seq(Messages)]
        /\ wire'[d] = mine /\ wire'[Other(d)] = theirs
    BY <2>1, <2>2, <2>3, <2>4, DevicesAre
  <2> QED BY <2>2, <2>3, <2>5
<1>5. Range(wire'[Phone]) \subseteq Range(wire[Phone]) \cup Range(sent)
  BY <1>4, DevicesAre
<1> QED BY <1>4, <1>5

LEMMA TalkKeeps ==
  ASSUME FilesInv, UNCHANGED <<rows, file, part, gone, hurt>>, NEW d \in Devices,
         NEW took \in BOOLEAN, took => wire[d] # <<>>,
         NEW sent \in Seq(Messages), Honest(Range(sent)), Talk(d, took, sent),
         run' \in [Devices -> Run], run'[Other(d)] = run[Other(d)],
         \/ run'[d].taking = NotTaking
         \/ /\ run'[d].at = "fetch" /\ run'[d].want # NoRequest /\ run'[d].taking.doc \in Docs
            /\ Live(d, run'[d].taking.doc),
         run'[d].arrived \subseteq run[d].arrived
  PROVE  FilesInv'
<1>1. /\ wire' \in [Devices -> Seq(Messages)]
      /\ Range(wire'[Phone]) \subseteq Range(wire[Phone]) \cup Range(sent)
  BY TalkSends DEF FilesInv
<1>2. run'[Desktop].arrived \subseteq run[Desktop].arrived
  BY DevicesAre
<1>3. \A e \in Devices :
        \/ run'[e] = run[e]
        \/ run'[e].taking = NotTaking
        \/ /\ run'[e].at = "fetch" /\ run'[e].want # NoRequest /\ run'[e].taking.doc \in Docs
           /\ Live(e, run'[e].taking.doc)
  BY DevicesAre
<1> QED BY <1>1, <1>2, <1>3, UnmovedKeeps

\* A device that leaves loses what was on its way to it; the other reads on.
LEMMA EndsSends ==
  ASSUME TypeInv, NEW d \in Devices, NEW sent \in Seq(Messages), Ends(d, sent)
  PROVE  /\ run' \in [Devices -> Run] /\ wire' \in [Devices -> Seq(Messages)]
         /\ run'[d] = Resting /\ run'[Other(d)] = run[Other(d)]
         /\ Range(wire'[Phone]) \subseteq Range(wire[Phone]) \cup Range(sent)
<1>1. /\ wire \in [Devices -> Seq(Messages)] /\ run \in [Devices -> Run]
      /\ wire[Other(d)] \in Seq(Messages)
  BY DevicesAre DEF TypeInv
<1>2. /\ wire[Other(d)] \o sent \in Seq(Messages)
      /\ Range(wire[Other(d)] \o sent) \subseteq Range(wire[Other(d)]) \cup Range(sent)
  BY <1>1, RangeOfJoin
<1> DEFINE theirs == IF At(Other(d), "rest") THEN wire[Other(d)] ELSE wire[Other(d)] \o sent
<1>3. theirs \in Seq(Messages) /\ Range(theirs) \subseteq Range(wire[Other(d)]) \cup Range(sent)
  BY <1>1, <1>2
<1>4. /\ run' = [run EXCEPT ![d] = Resting]
      /\ wire' = [wire EXCEPT ![d] = <<>>, ![Other(d)] = theirs]
  BY DEF Ends
<1> HIDE DEF theirs
<1> DEFINE none == <<>>
<1>5. none \in Seq(Messages) /\ Range(none) = {} /\ wire' = [wire EXCEPT ![d] = none, ![Other(d)] = theirs]
  BY <1>4, RangeOfNone
<1> HIDE DEF none
<1>6. /\ wire' \in [Devices -> Seq(Messages)]
      /\ wire'[d] = none /\ wire'[Other(d)] = theirs
  BY <1>1, <1>3, <1>5, DevicesAre
<1>7. Range(wire'[Phone]) \subseteq Range(wire[Phone]) \cup Range(sent)
  BY <1>3, <1>5, <1>6, DevicesAre
<1>8. run' \in [Devices -> Run] /\ run'[d] = Resting /\ run'[Other(d)] = run[Other(d)]
  BY <1>1, <1>4, DevicesAre, RestingIsRun
<1> QED BY <1>6, <1>7, <1>8

LEMMA EndsKeeps ==
  ASSUME FilesInv, UNCHANGED <<rows, file, part, gone, hurt>>, NEW d \in Devices,
         NEW sent \in Seq(Messages), Honest(Range(sent)), Ends(d, sent)
  PROVE  FilesInv'
<1>1. /\ run' \in [Devices -> Run] /\ wire' \in [Devices -> Seq(Messages)]
      /\ run'[d] = Resting /\ run'[Other(d)] = run[Other(d)]
      /\ Range(wire'[Phone]) \subseteq Range(wire[Phone]) \cup Range(sent)
  BY EndsSends DEF FilesInv
<1>2. run'[Desktop].arrived \subseteq run[Desktop].arrived
  BY <1>1, DevicesAre, RestingIsRun
<1>3. \A e \in Devices : run'[e] = run[e] \/ run'[e].taking = NotTaking
  BY <1>1, DevicesAre, RestingIsRun
<1> QED BY <1>1, <1>2, <1>3, UnmovedKeeps

\* No other message says what may be let go of.
LEMMA HonestOthers ==
  /\ Honest({}) /\ Honest(Range(<<>>))
  /\ \A kind, body : kind # "stored" => Honest({[kind |-> kind, body |-> body]})
BY RangeOfNone DEF Honest

LEMMA OneIsHonest ==
  ASSUME NEW kind, NEW body, kind # "stored", [kind |-> kind, body |-> body] \in Messages
  PROVE  Message(kind, body) \in Seq(Messages) /\ Honest(Range(Message(kind, body)))
<1>1. /\ Message(kind, body) \in Seq(Messages)
      /\ Range(Message(kind, body)) = {[kind |-> kind, body |-> body]}
  BY RangeOfOne
<1>2. Honest({[kind |-> kind, body |-> body]})
  BY HonestOthers
<1> QED BY <1>1, <1>2

\* What one device notes about its sync concerns no other.
LEMMA RunWithStep ==
  ASSUME NEW r \in Run, NEW step \in Steps
  PROVE  /\ [r EXCEPT !.at = step] \in Run
         /\ [r EXCEPT !.at = step].taking = r.taking /\ [r EXCEPT !.at = step].arrived = r.arrived
BY DEF Run

LEMMA RunWithTheirs ==
  ASSUME NEW r \in Run, NEW docs \in SUBSET Docs
  PROVE  /\ [r EXCEPT !.theirs = docs] \in Run /\ [r EXCEPT !.mine = docs] \in Run
         /\ [r EXCEPT !.theirs = docs].taking = r.taking /\ [r EXCEPT !.theirs = docs].arrived = r.arrived
         /\ [r EXCEPT !.mine = docs].taking = r.taking /\ [r EXCEPT !.mine = docs].arrived = r.arrived
BY DEF Run

LEMMA RunWithRequests ==
  ASSUME NEW r \in Run, NEW q \in Requests
  PROVE  /\ [r EXCEPT !.want = q] \in Run /\ [r EXCEPT !.asked = q] \in Run
         /\ [r EXCEPT !.want = q].taking = r.taking /\ [r EXCEPT !.want = q].arrived = r.arrived
         /\ [r EXCEPT !.asked = q].taking = r.taking /\ [r EXCEPT !.asked = q].arrived = r.arrived
BY DEF Run

LEMMA RunsAre ==
  ASSUME TypeInv, NEW d \in Devices, NEW noted \in Run, run' = [run EXCEPT ![d] = noted]
  PROVE  /\ run' \in [Devices -> Run] /\ run'[d] = noted /\ run'[Other(d)] = run[Other(d)]
         /\ \A e \in Devices : e = d \/ run'[e] = run[e]
BY DevicesAre DEF TypeInv

-----------------------------------------------------------------------------
(***************************************************************************)
(* One lemma for each step of a sync.                                      *)
(***************************************************************************)
LEMMA BeginKeeps ==
  ASSUME FilesInv, NEW d \in Devices, Begin(d)
  PROVE  FilesInv'
<1> DEFINE sent == IF d = Desktop THEN Message("have", HaveList(d)) ELSE <<>>
<1>1. sent \in Seq(Messages) /\ Honest(Range(sent))
  <2>1. [kind |-> "have", body |-> HaveList(d)] \in Messages
    BY DEF HaveList, Messages
  <2>2. Message("have", HaveList(d)) \in Seq(Messages) /\ Honest(Range(Message("have", HaveList(d))))
    BY <2>1, OneIsHonest
  <2> QED BY <2>2, RangeOfNone, HonestOthers
<1>2. Talk(d, FALSE, sent) /\ UNCHANGED <<rows, file, part, gone, hurt>>
  BY DEF Begin, ghosts
<1>3. /\ run' \in [Devices -> Run] /\ run'[Other(d)] = run[Other(d)]
      /\ run'[d].taking = run[d].taking /\ run'[d].arrived = run[d].arrived
  <2> DEFINE noted == [run[d] EXCEPT !.at = "have", !.mine = HaveList(d)]
  <2>1. run' = [run EXCEPT ![d] = noted]
    BY DEF Begin
  <2>2. noted \in Run /\ noted.taking = run[d].taking /\ noted.arrived = run[d].arrived
    <3>1. run[d] \in Run /\ "have" \in Steps /\ HaveList(d) \in SUBSET Docs
      BY DEF FilesInv, TypeInv, Steps, HaveList
    <3> DEFINE first == [run[d] EXCEPT !.at = "have"]
    <3>2. first \in Run /\ first.taking = run[d].taking /\ first.arrived = run[d].arrived
      BY <3>1, RunWithStep
    <3>3. noted = [first EXCEPT !.mine = HaveList(d)]
      OBVIOUS
    <3> HIDE DEF noted, first
    <3> QED BY <3>1, <3>2, <3>3, RunWithTheirs
  <2> HIDE DEF noted
  <2> QED BY <2>1, <2>2, RunsAre DEF FilesInv
<1>4. run'[d].taking = NotTaking
  BY <1>3 DEF FilesInv, TakesKnown, Begin, At
<1> HIDE DEF sent
<1> QED BY <1>1, <1>2, <1>3, <1>4, TalkKeeps

LEMMA TakeHaveKeeps ==
  ASSUME FilesInv, NEW d \in Devices, TakeHave(d)
  PROVE  FilesInv'
<1> DEFINE theirs == Arriving(d)
           want == IF d = Desktop THEN WantedBy(d, theirs, Budget) ELSE NoRequest
           sent == IF d = Desktop THEN Message("need", want) ELSE Message("have", run[d].mine)
<1>1. theirs \in SUBSET Docs /\ wire[d] # <<>>
  BY ArrivedIs DEF TakeHave, FilesInv
<1>2. want \in Requests
  BY <1>1, WantedIsRequest, RequestsAre DEF FilesInv
<1>3. sent \in Seq(Messages) /\ Honest(Range(sent))
  <2>1. [kind |-> "have", body |-> run[d].mine] \in Messages
    BY DEF FilesInv, TypeInv, Run, Messages
  <2>2. [kind |-> "need", body |-> want] \in Messages
    BY <1>2 DEF Messages
  <2> HIDE DEF want
  <2>3. Message("have", run[d].mine) \in Seq(Messages) /\ Honest(Range(Message("have", run[d].mine)))
    BY <2>1, OneIsHonest
  <2>4. Message("need", want) \in Seq(Messages) /\ Honest(Range(Message("need", want)))
    BY <2>2, OneIsHonest
  <2> QED BY <2>3, <2>4
<1>4. /\ Talk(d, TRUE, sent) /\ UNCHANGED <<rows, file, part, gone, hurt>>
      /\ run' = [run EXCEPT ![d].at = "need", ![d].theirs = theirs, ![d].want = want]
  BY DEF TakeHave, ghosts
<1> HIDE DEF sent, theirs, want
<1>5. /\ run' \in [Devices -> Run] /\ run'[Other(d)] = run[Other(d)]
      /\ run'[d].taking = run[d].taking /\ run'[d].arrived = run[d].arrived
  <2> DEFINE noted == [run[d] EXCEPT !.at = "need", !.theirs = theirs, !.want = want]
  <2>1. run' = [run EXCEPT ![d] = noted]
    BY <1>4
  <2>2. noted \in Run /\ noted.taking = run[d].taking /\ noted.arrived = run[d].arrived
    <3>1. run[d] \in Run /\ "need" \in Steps
      BY <1>1 DEF FilesInv, TypeInv, Steps
    <3> DEFINE first == [run[d] EXCEPT !.at = "need"]
    <3> DEFINE second == [first EXCEPT !.theirs = theirs]
    <3>2. first \in Run /\ first.taking = run[d].taking /\ first.arrived = run[d].arrived
      BY <3>1, RunWithStep
    <3>3. noted = [second EXCEPT !.want = want]
      OBVIOUS
    <3> HIDE DEF noted, first
    <3>4. second \in Run /\ second.taking = run[d].taking /\ second.arrived = run[d].arrived
      BY <3>2, <1>1, RunWithTheirs
    <3> HIDE DEF second
    <3> QED BY <3>3, <3>4, <1>2, RunWithRequests
  <2> HIDE DEF noted
  <2> QED BY <2>1, <2>2, RunsAre DEF FilesInv
<1>6. run'[d].taking = NotTaking
  BY <1>5 DEF FilesInv, TakesKnown, TakeHave, At
<1> QED BY <1>1, <1>3, <1>4, <1>5, <1>6, TalkKeeps

LEMMA TakeNeedKeeps ==
  ASSUME FilesInv, NEW d \in Devices, TakeNeed(d)
  PROVE  FilesInv'
<1> DEFINE asked == Arriving(d)
           want == IF d = Phone THEN WantedBy(d, run[d].theirs, Share(d, asked)) ELSE run[d].want
           answer == IF d = Phone THEN Message("need", want) ELSE <<>>
<1>1. asked \in Requests /\ wire[d] # <<>>
  BY ArrivedIs DEF TakeNeed, FilesInv
<1>2. want \in Requests
  <2>1. run[d].theirs \in SUBSET Docs /\ run[d].want \in Requests
    BY DEF FilesInv, TypeInv, Run
  <2> QED BY <2>1, WantedIsRequest DEF FilesInv
<1>3. answer \in Seq(Messages) /\ Honest(Range(answer))
  <2>1. [kind |-> "need", body |-> want] \in Messages
    BY <1>2 DEF Messages
  <2> HIDE DEF want
  <2>2. Message("need", want) \in Seq(Messages) /\ Honest(Range(Message("need", want)))
    BY <2>1, OneIsHonest
  <2> QED BY <2>2, RangeOfNone, HonestOthers
<1>4. /\ UNCHANGED <<rows, file, part, gone, hurt>>
      /\ \/ Ends(d, answer)
         \/ /\ run' = [run EXCEPT ![d].at = FirstHalf(d), ![d].asked = asked, ![d].want = want]
            /\ Talk(d, TRUE, answer)
  BY DEF TakeNeed, ghosts
<1> HIDE DEF answer, want, asked
<1>5. CASE Ends(d, answer)
  BY <1>3, <1>4, <1>5, EndsKeeps
<1>6. CASE /\ run' = [run EXCEPT ![d].at = FirstHalf(d), ![d].asked = asked, ![d].want = want]
           /\ Talk(d, TRUE, answer)
  <2>1. /\ run' \in [Devices -> Run] /\ run'[Other(d)] = run[Other(d)]
        /\ run'[d].taking = run[d].taking /\ run'[d].arrived = run[d].arrived
    <3> DEFINE noted == [run[d] EXCEPT !.at = FirstHalf(d), !.asked = asked, !.want = want]
    <3>1. run' = [run EXCEPT ![d] = noted]
      BY <1>6
    <3>2. noted \in Run /\ noted.taking = run[d].taking /\ noted.arrived = run[d].arrived
      <4>1. FirstHalf(d) \in Steps /\ run[d] \in Run
        BY <1>1 DEF FilesInv, TypeInv, Steps, FirstHalf
      <4> DEFINE first == [run[d] EXCEPT !.at = FirstHalf(d)]
      <4> DEFINE second == [first EXCEPT !.asked = asked]
      <4>2. first \in Run /\ first.taking = run[d].taking /\ first.arrived = run[d].arrived
        BY <4>1, RunWithStep
      <4>3. noted = [second EXCEPT !.want = want]
        OBVIOUS
      <4> HIDE DEF noted, first
      <4>4. second \in Run /\ second.taking = run[d].taking /\ second.arrived = run[d].arrived
        BY <4>2, <1>1, RunWithRequests
      <4> HIDE DEF second
      <4> QED BY <4>3, <4>4, <1>2, RunWithRequests
    <3> HIDE DEF noted
    <3> QED BY <3>1, <3>2, RunsAre DEF FilesInv
  <2>2. run'[d].taking = NotTaking
    BY <2>1 DEF FilesInv, TakesKnown, TakeNeed, At
  <2> QED BY <1>1, <1>3, <1>4, <1>6, <2>1, <2>2, TalkKeeps
<1> QED BY <1>4, <1>5, <1>6

LEMMA ServeKeeps ==
  ASSUME FilesInv, NEW d \in Devices, Serve(d)
  PROVE  FilesInv'
<1> DEFINE i == Newest(run[d].asked)
           from == run[d].asked[i]
           answers == from < Sizes[i] /\ Answers(d, i)
           spent == run[d].spent + IF answers THEN Sizes[i] - from ELSE 0
           given == Message("file", [doc |-> i, from |-> from]) \o Pieces(Sizes[i] - from)
           skipped == Message("skip", [doc |-> i])
           sends == answers /\ spent <= Budget
           sent == IF sends THEN given ELSE skipped
<1>1. /\ run[d].asked \in Requests /\ run[d].asked # NoRequest /\ run[d].spent \in Nat
      /\ At(d, "serve")
  BY DEF FilesInv, TypeInv, Run, Serve
<1>2. i \in Docs /\ from \in Nat /\ Sizes[i] \in Nat
  BY <1>1, NewestIsAsked, DocsAssumption
<1>3. spent \in Nat /\ (answers => Sizes[i] - from \in Nat)
  BY <1>1, <1>2
<1>4. /\ Talk(d, FALSE, sent) /\ UNCHANGED <<rows, file, part, gone, hurt>>
      /\ run' = [run EXCEPT ![d].asked = Without(@, i), ![d].spent = spent]
  BY DEF Serve, ghosts
<1> HIDE DEF i, from
<1>5. skipped \in Seq(Messages) /\ Honest(Range(skipped))
  <2>1. [kind |-> "skip", body |-> [doc |-> i]] \in Messages
    BY <1>2 DEF Messages
  <2> QED BY <2>1, OneIsHonest
<1>6. answers => given \in Seq(Messages) /\ Honest(Range(given))
  <2> SUFFICES ASSUME answers
               PROVE  given \in Seq(Messages) /\ Honest(Range(given))
    OBVIOUS
  <2> DEFINE named == Message("file", [doc |-> i, from |-> from])
             pieces == Pieces(Sizes[i] - from)
  <2>1. [kind |-> "file", body |-> [doc |-> i, from |-> from]] \in Messages
    BY <1>2 DEF Messages
  <2>2. named \in Seq(Messages) /\ Honest(Range(named))
    BY <2>1, OneIsHonest
  <2>3. pieces \in Seq(Messages) /\ \A m \in Range(pieces) : m.kind = "piece"
    BY <1>3, PiecesAre
  <2> HIDE DEF named, pieces
  <2>4. named \o pieces \in Seq(Messages) /\ Range(named \o pieces) \subseteq Range(named) \cup Range(pieces)
    BY <2>2, <2>3, RangeOfJoin
  <2>5. Honest(Range(named \o pieces))
    BY <2>2, <2>3, <2>4 DEF Honest
  <2> QED BY <2>4, <2>5 DEF named, pieces
<1> HIDE DEF given, skipped, answers, spent
<1>7. sent \in Seq(Messages) /\ Honest(Range(sent))
  BY <1>5, <1>6
<1>8. /\ run' \in [Devices -> Run] /\ run'[Other(d)] = run[Other(d)]
      /\ run'[d].taking = run[d].taking /\ run'[d].arrived = run[d].arrived
  <2>1. Without(run[d].asked, i) \in Requests
    BY <1>1, WithoutIsRequest
  <2> DEFINE noted == [run[d] EXCEPT !.asked = Without(run[d].asked, i), !.spent = spent]
  <2>2. run' = [run EXCEPT ![d] = noted]
    BY <1>4
  <2>3. noted \in Run /\ noted.taking = run[d].taking /\ noted.arrived = run[d].arrived
    BY <2>1, <1>3 DEF FilesInv, TypeInv, Run
  <2> HIDE DEF noted
  <2> QED BY <2>2, <2>3, RunsAre DEF FilesInv
<1>9. run'[d].taking = NotTaking
  BY <1>1, <1>8 DEF FilesInv, TakesKnown, At
<1> HIDE DEF sent
<1> QED BY <1>4, <1>7, <1>8, <1>9, TalkKeeps

\* Both sides go on, or leave, after the files: nothing is sent, nothing is taken.
LEMMA GoOnKeeps ==
  ASSUME FilesInv, UNCHANGED <<rows, file, part, gone, hurt>>, NEW d \in Devices,
         run[d].taking = NotTaking, NEW next \in Steps, GoOn(d, next)
  PROVE  FilesInv'
<1> DEFINE none == <<>>
<1>1. none \in Seq(Messages) /\ Honest(Range(none)) /\ Honest({})
  BY RangeOfNone, HonestOthers
<1>2. CASE next = "rest"
  <2>1. Ends(d, none)
    BY <1>2 DEF GoOn
  <2> HIDE DEF none
  <2> QED BY <1>1, <2>1, EndsKeeps
<1>3. CASE next # "rest"
  <2>1. run' = [run EXCEPT ![d].at = next] /\ wire' = wire
    BY <1>3 DEF GoOn
  <2>2. /\ run' \in [Devices -> Run] /\ wire' \in [Devices -> Seq(Messages)]
        /\ run'[d].taking = NotTaking
        /\ \A e \in Devices : run'[e].arrived = run[e].arrived /\ (e = d \/ run'[e] = run[e])
    <3> DEFINE noted == [run[d] EXCEPT !.at = next]
    <3>1. run' = [run EXCEPT ![d] = noted]
      BY <2>1
    <3>2. noted \in Run /\ noted.taking = NotTaking /\ noted.arrived = run[d].arrived
      BY DEF FilesInv, TypeInv, Run
    <3>3. wire \in [Devices -> Seq(Messages)]
      BY DEF FilesInv, TypeInv
    <3> HIDE DEF noted
    <3> QED BY <2>1, <3>1, <3>2, <3>3, RunsAre DEF FilesInv
  <2>3. /\ run'[Desktop].arrived \subseteq run[Desktop].arrived
        /\ Range(wire'[Phone]) \subseteq Range(wire[Phone]) \cup {}
    BY <2>1, <2>2, DevicesAre
  <2> QED BY <1>1, <2>2, <2>3, UnmovedKeeps
<1> QED BY <1>2, <1>3

LEMMA ServedKeeps ==
  ASSUME FilesInv, NEW d \in Devices, Served(d)
  PROVE  FilesInv'
<1>1. run[d].taking = NotTaking
  BY DEF FilesInv, TakesKnown, Served, At
<1>2. (IF d = Desktop THEN "fetch" ELSE AfterFiles(run[d].mode)) \in Steps
  BY DEF AfterFiles, Steps
<1> QED BY <1>1, <1>2, GoOnKeeps DEF Served, ghosts

LEMMA FetchedKeeps ==
  ASSUME FilesInv, NEW d \in Devices, Fetched(d)
  PROVE  FilesInv'
<1>1. (IF d = Phone THEN "serve" ELSE AfterFiles(run[d].mode)) \in Steps
  BY DEF AfterFiles, Steps
<1>2. run[d].taking = NotTaking
  BY DEF FilesInv, TakesKnown, Fetched
<1> QED BY <1>1, <1>2, GoOnKeeps DEF Fetched, ghosts

LEMMA TakeSkipKeeps ==
  ASSUME FilesInv, NEW d \in Devices, TakeSkip(d)
  PROVE  FilesInv'
<1> DEFINE none == <<>>
           noted == [run[d] EXCEPT !.want = Without(run[d].want, Newest(run[d].want))]
<1>1. wire[d] # <<>> /\ run[d].taking = NotTaking
  BY ArrivedIs DEF TakeSkip, FilesInv
<1>2. /\ run' = [run EXCEPT ![d] = noted] /\ Talk(d, TRUE, none)
      /\ UNCHANGED <<rows, file, part, gone, hurt>>
  BY DEF TakeSkip, ghosts
<1>3. noted \in Run /\ noted.taking = NotTaking /\ noted.arrived = run[d].arrived
  <2>1. run[d].want \in Requests
    BY DEF FilesInv, TypeInv, Run
  <2>2. Without(run[d].want, Newest(run[d].want)) \in Requests
    BY <2>1, WithoutIsRequest
  <2> QED BY <1>1, <2>2 DEF FilesInv, TypeInv, Run
<1>4. none \in Seq(Messages) /\ Honest(Range(none))
  BY RangeOfNone, HonestOthers
<1> HIDE DEF none, noted
<1>5. /\ run' \in [Devices -> Run] /\ run'[Other(d)] = run[Other(d)] /\ run'[d] = noted
  BY <1>2, <1>3, RunsAre DEF FilesInv
<1> QED BY <1>1, <1>2, <1>3, <1>4, <1>5, TalkKeeps

LEMMA TakeFileKeeps ==
  ASSUME FilesInv, NEW d \in Devices, TakeFile(d)
  PROVE  FilesInv'
<1> DEFINE none == <<>>
           i == Newest(run[d].want)
<1>1. wire[d] # <<>> /\ run[d].want # NoRequest /\ At(d, "fetch")
  BY ArrivedIs DEF TakeFile, FilesInv
<1>2. i \in Docs
  <2>1. run[d].want \in Requests
    BY DEF FilesInv, TypeInv, Run
  <2> QED BY <1>1, <2>1, NewestIsAsked
<1>3. none \in Seq(Messages) /\ Honest(Range(none))
  BY RangeOfNone, HonestOthers
<1>4. UNCHANGED <<rows, file, part, gone, hurt>>
  BY DEF TakeFile
<1>5. CASE ~Live(d, i)
  <2>1. Ends(d, none)
    BY <1>5 DEF TakeFile
  <2> HIDE DEF none
  <2> QED BY <1>3, <1>4, <2>1, EndsKeeps
<1>6. CASE Live(d, i)
  <2>1. PICK open \in BOOLEAN : run' = [run EXCEPT ![d].taking = [doc |-> i, open |-> open]]
    BY <1>6 DEF TakeFile
  <2>2. Talk(d, TRUE, none)
    BY <1>6 DEF TakeFile
  <2> DEFINE noted == [run[d] EXCEPT !.taking = [doc |-> i, open |-> open]]
  <2>3. run' = [run EXCEPT ![d] = noted]
    BY <2>1
  <2> HIDE DEF i, none
  <2>4. /\ noted \in Run /\ noted.arrived = run[d].arrived
        /\ noted.at = "fetch" /\ noted.want = run[d].want /\ noted.taking.doc = i
    BY <1>1, <1>2 DEF FilesInv, TypeInv, Run, At
  <2> HIDE DEF noted
  <2>5. /\ run' \in [Devices -> Run] /\ run'[Other(d)] = run[Other(d)] /\ run'[d] = noted
    BY <2>3, <2>4, RunsAre DEF FilesInv
  <2> QED BY <1>1, <1>2, <1>3, <1>4, <1>6, <2>2, <2>4, <2>5, TalkKeeps
<1> QED BY <1>5, <1>6

LEMMA ConfirmKeeps ==
  ASSUME FilesInv, Confirm
  PROVE  FilesInv'
<1> DEFINE fresh == run[Desktop].arrived
           held == {i \in fresh \cup run[Desktop].theirs : HoldsWhole(i, fresh)}
<1>1. \A i \in held : Safe(i)
  BY DEF FilesInv, HoldsWhole, Safe
<1>2. [kind |-> "stored", body |-> held] \in Messages
  <2>1. run[Desktop] \in Run
    BY DevicesAre DEF FilesInv, TypeInv
  <2>2. held \in SUBSET Docs
    BY <2>1 DEF Run
  <2> HIDE DEF held
  <2> QED BY <2>2 DEF Messages
<1>3. Ends(Desktop, Message("stored", held)) /\ UNCHANGED <<rows, file, part, gone, hurt>>
  BY DEF Confirm, ghosts
<1> HIDE DEF held
<1>4. /\ Message("stored", held) \in Seq(Messages)
      /\ Range(Message("stored", held)) = {[kind |-> "stored", body |-> held]}
  BY <1>2, RangeOfOne
<1>5. Honest(Range(Message("stored", held)))
  BY <1>1, <1>4 DEF Honest
<1> QED BY <1>3, <1>4, <1>5, DevicesAre, EndsKeeps

LEMMA PeerGoneKeeps ==
  ASSUME FilesInv, NEW d \in Devices, PeerGone(d)
  PROVE  FilesInv'
<1> DEFINE none == <<>>
<1>1. none \in Seq(Messages) /\ Honest(Range(none))
  BY RangeOfNone, HonestOthers
<1>2. Ends(d, none) /\ UNCHANGED <<rows, file, part, gone, hurt>>
  BY DEF PeerGone, ghosts
<1> HIDE DEF none
<1> QED BY <1>1, <1>2, EndsKeeps

LEMMA BreakKeeps ==
  ASSUME FilesInv, NEW d \in Devices, Break(d)
  PROVE  FilesInv'
<1> DEFINE none == <<>>
<1>1. none \in Seq(Messages) /\ Honest(Range(none))
  BY RangeOfNone, HonestOthers
<1>2. Ends(d, none) /\ UNCHANGED <<rows, file, part, gone, hurt>>
  BY DEF Break
<1> HIDE DEF none
<1> QED BY <1>1, <1>2, EndsKeeps

-----------------------------------------------------------------------------
(***************************************************************************)
(* Steps that change files or rows.                                        *)
(***************************************************************************)
\* What the desktop received and promised stays safe while it loses no file that
\* anybody answers for.
LEMMA SafeKeeps ==
  ASSUME FilesInv, \A i \in Docs : Safe(i) => Safe(i)',
         Range(wire'[Phone]) \subseteq Range(wire[Phone])
  PROVE  /\ \A i \in run[Desktop].arrived : Safe(i)'
         /\ Honest(Range(wire[Phone]))'
<1>1. run[Desktop].arrived \in SUBSET Docs /\ wire[Phone] \in Seq(Messages)
  BY DevicesAre DEF FilesInv, TypeInv, Run
<1>2. \A m \in Range(wire[Phone]) : m \in Messages
  BY <1>1 DEF Range
<1>3. \A m \in Range(wire[Phone]) : m.kind = "stored" => m.body \in SUBSET Docs
  BY <1>2 DEF Messages
<1>4. \A i \in run[Desktop].arrived : Safe(i)'
  BY <1>1 DEF FilesInv
<1>5. Honest(Range(wire[Phone]))'
  BY <1>3 DEF FilesInv, Honest
<1> QED BY <1>4, <1>5

LEMMA TakePieceKeeps ==
  ASSUME FilesInv, NEW d \in Devices, TakePiece(d)
  PROVE  FilesInv'
<1> DEFINE i == run[d].taking.doc
           last == Arriving(d)
<1>1. PICK works \in BOOLEAN :
        LET written == run[d].taking.open /\ works IN
        /\ part' = [part EXCEPT ![d][i] = IF ~written THEN @ ELSE IF last THEN 0 ELSE @ + 1]
        /\ file' = [file EXCEPT ![d][i] = IF written /\ last THEN "whole" ELSE @]
        /\ run' = [run EXCEPT
             ![d].taking = IF last THEN NotTaking ELSE [@ EXCEPT !.open = written],
             ![d].want = IF last THEN Without(@, i) ELSE @,
             ![d].arrived = IF written /\ last THEN @ \cup {i} ELSE @]
  BY DEF TakePiece
<1> DEFINE written == run[d].taking.open /\ works
           done == written /\ last
<1>2. /\ wire[d] # <<>> /\ run[d].taking # NotTaking /\ last \in BOOLEAN
      /\ i \in Docs /\ At(d, "fetch") /\ run[d].want # NoRequest
      /\ i \notin gone => Live(d, i)
  <2>1. wire[d] # <<>> /\ run[d].taking # NotTaking /\ last \in BOOLEAN
    BY ArrivedIs DEF TakePiece, FilesInv
  <2> QED BY <2>1 DEF FilesInv, TakesKnown
<1>3. written \in BOOLEAN /\ done \in BOOLEAN
  BY <1>2 DEF FilesInv, TypeInv, Run
<1>4. UNCHANGED <<rows, gone, hurt>>
  BY DEF TakePiece
<1> DEFINE noted == [run[d] EXCEPT !.taking = IF last THEN NotTaking ELSE [run[d].taking EXCEPT !.open = written],
                                   !.want = IF last THEN Without(run[d].want, i) ELSE run[d].want,
                                   !.arrived = IF done THEN run[d].arrived \cup {i} ELSE run[d].arrived]
<1>5. run' = [run EXCEPT ![d] = noted]
  BY <1>1
<1>6. /\ noted \in Run
      /\ noted.taking = NotTaking
           \/ (noted.at = "fetch" /\ noted.want # NoRequest /\ noted.taking.doc = i)
      /\ noted.arrived = IF done THEN run[d].arrived \cup {i} ELSE run[d].arrived
  <2>1. run[d] \in Run /\ run[d].at = "fetch"
    BY <1>2 DEF FilesInv, TypeInv, At
  <2>2. Without(run[d].want, i) \in Requests
    BY <2>1, WithoutIsRequest DEF Run
  <2>3. NotTaking \in [doc : Docs \cup {0}, open : BOOLEAN]
    BY DEF NotTaking
  <2>4. i \in Docs \cup {0} /\ run[d].taking \in [doc : Docs \cup {0}, open : BOOLEAN]
        /\ run[d].arrived \cup {i} \in SUBSET Docs
    BY <1>2, <2>1 DEF Run
  <2> HIDE DEF i, last, written, done
  <2> DEFINE taking == IF last THEN NotTaking ELSE [run[d].taking EXCEPT !.open = written]
             want == IF last THEN Without(run[d].want, i) ELSE run[d].want
             arrived == IF done THEN run[d].arrived \cup {i} ELSE run[d].arrived
  <2>5. taking \in [doc : Docs \cup {0}, open : BOOLEAN]
    BY <1>3, <2>3, <2>4
  <2>6. want \in Requests /\ arrived \in SUBSET Docs
    BY <2>1, <2>2, <2>4 DEF Run
  <2>7. taking = NotTaking \/ (taking.doc = i /\ want # NoRequest)
    <3>1. run[d].want # NoRequest /\ run[d].taking.doc = i
      BY <1>2 DEF i
    <3>2. [run[d].taking EXCEPT !.open = written].doc = run[d].taking.doc
      BY <2>4
    <3> QED BY <3>1, <3>2
  <2>8. noted = [run[d] EXCEPT !.taking = taking, !.want = want, !.arrived = arrived]
    OBVIOUS
  <2> HIDE DEF noted, taking, want, arrived
  <2>9. noted \in Run /\ noted.at = "fetch" /\ noted.taking = taking /\ noted.want = want /\ noted.arrived = arrived
    BY <2>1, <2>5, <2>6, <2>8 DEF Run
  <2> QED BY <2>7, <2>9 DEF arrived
<1>7. /\ file' \in [Devices -> [Docs -> {"none", "whole", "bad"}]]
      /\ \A e \in Devices, j \in Docs :
           file'[e][j] = IF e = d /\ j = i /\ done THEN "whole" ELSE file[e][j]
  BY <1>1, <1>2, <1>3 DEF FilesInv, TypeInv
<1>8. part' \in [Devices -> [Docs -> Nat]]
  BY <1>1, <1>2, <1>3 DEF FilesInv, TypeInv
<1>9. /\ wire' \in [Devices -> Seq(Messages)]
      /\ Range(wire'[Phone]) \subseteq Range(wire[Phone])
  <2> DEFINE none == <<>>
  <2>1. none \in Seq(Messages) /\ Range(none) = {}
    BY RangeOfNone
  <2>2. Talk(d, TRUE, none)
    BY DEF TakePiece
  <2> HIDE DEF none
  <2> QED BY <1>2, <2>1, <2>2, TalkSends DEF FilesInv
<1> HIDE DEF noted, i, last, written, done
<1>10. /\ run' \in [Devices -> Run] /\ run'[d] = noted
       /\ \A e \in Devices : e = d \/ run'[e] = run[e]
  BY <1>5, <1>6, RunsAre DEF FilesInv
<1>11. TypeInv'
  BY <1>4, <1>7, <1>8, <1>9, <1>10 DEF FilesInv, TypeInv
<1>12. /\ \A e, j : Live(e, j)' = Live(e, j)
       /\ \A e \in Devices, j \in Docs : Opens(e, j) => Opens(e, j)'
       /\ \A e \in Devices, j \in Docs : Has(e, j)' => Has(e, j) \/ (e = d /\ j = i)
  <2>1. \A e, j : Live(e, j)' = Live(e, j)
    BY <1>4 DEF Live
  <2>2. \A e \in Devices, j \in Docs : Opens(e, j) => Opens(e, j)'
    BY <1>7 DEF Opens
  <2>3. \A e \in Devices, j \in Docs : Has(e, j)' => Has(e, j) \/ (e = d /\ j = i)
    <3>1. TAKE e \in Devices, j \in Docs
    <3>2. CASE e = d /\ j = i
      BY <3>2
    <3>3. CASE ~(e = d /\ j = i)
      <4>1. file'[e][j] = file[e][j]
        BY <1>7, <3>3
      <4> QED BY <4>1 DEF Has
    <3> QED BY <3>2, <3>3
  <2> QED BY <2>1, <2>2, <2>3
<1>13. RowsInv'
  BY <1>2, <1>4, <1>12 DEF FilesInv, RowsInv
<1>14. \A e \in Devices : TakesKnown(e)'
  BY <1>2, <1>4, <1>6, <1>10, <1>12 DEF FilesInv, TakesKnown, At
<1>15. \A j \in Docs : Safe(j) => Safe(j)'
  BY <1>4, <1>12, DevicesAre DEF Safe
<1>16. \A j \in run[Desktop].arrived : Safe(j)'
  BY <1>9, <1>15, SafeKeeps
<1>17. \A j \in run'[Desktop].arrived : Safe(j)'
  <2>1. TAKE j \in run'[Desktop].arrived
  <2>2. CASE j \notin run[Desktop].arrived
    <3>1. d = Desktop /\ j = i /\ done
      BY <2>1, <2>2, <1>6, <1>10, DevicesAre
    <3>2. Opens(Desktop, j)'
      BY <3>1, <1>2, <1>7, DevicesAre DEF Opens
    <3> QED BY <3>2 DEF Safe
  <2> QED BY <2>2, <1>16
<1>18. Honest(Range(wire[Phone]))'
  BY <1>9, <1>15, SafeKeeps
<1>19. NoFileLost'
  BY <1>4, <1>12 DEF FilesInv, NoFileLost
<1> QED BY <1>11, <1>13, <1>14, <1>17, <1>18, <1>19 DEF FilesInv

\* The phone lets go of what the desktop can open, or of what nobody answers for.
LEMMA TakeStoredKeeps ==
  ASSUME FilesInv, TakeStored
  PROVE  FilesInv'
<1> DEFINE none == <<>>
           dropped == {i \in Arriving(Phone) : Live(Phone, i) /\ ~rows[Phone][i].keep /\ Has(Phone, i)}
<1>1. /\ Arriving(Phone) \in SUBSET Docs
      /\ \A i \in Arriving(Phone) : Safe(i)
  <2>1. /\ Head(wire[Phone]).kind = "stored" /\ Head(wire[Phone]) \in Range(wire[Phone])
        /\ Arriving(Phone) \in SUBSET Docs
    BY ArrivedIs, DevicesAre DEF TakeStored, FilesInv
  <2> QED BY <2>1 DEF FilesInv, Honest, Arriving
<1>2. /\ file' = [file EXCEPT ![Phone] = [i \in Docs |-> IF i \in dropped THEN "none" ELSE file[Phone][i]]]
      /\ part' = [part EXCEPT ![Phone] = [i \in Docs |-> IF i \in dropped THEN 0 ELSE part[Phone][i]]]
      /\ Ends(Phone, none) /\ UNCHANGED <<rows, gone, hurt>>
  BY DEF TakeStored, ghosts
<1>3. none \in Seq(Messages) /\ Range(none) = {}
  BY RangeOfNone
<1>4. \A i \in dropped : Safe(i)
  BY <1>1
<1> HIDE DEF none, dropped
<1>5. /\ run' \in [Devices -> Run] /\ wire' \in [Devices -> Seq(Messages)]
      /\ run'[Phone] = Resting /\ run'[Desktop] = run[Desktop]
      /\ Range(wire'[Phone]) \subseteq Range(wire[Phone])
  BY <1>2, <1>3, EndsSends, DevicesAre DEF FilesInv
<1>6. /\ file' \in [Devices -> [Docs -> {"none", "whole", "bad"}]]
      /\ part' \in [Devices -> [Docs -> Nat]]
      /\ file'[Desktop] = file[Desktop]
      /\ \A i \in Docs : file'[Phone][i] = IF i \in dropped THEN "none" ELSE file[Phone][i]
  BY <1>2, DevicesAre DEF FilesInv, TypeInv
<1>7. TypeInv'
  BY <1>2, <1>5, <1>6 DEF FilesInv, TypeInv
<1>8. /\ \A d, i : Live(d, i)' = Live(d, i)
      /\ \A i : Opens(Desktop, i)' = Opens(Desktop, i)
      /\ \A i \in Docs : Has(Phone, i)' => Has(Phone, i)
      /\ \A i \in Docs : Has(Desktop, i)' => Has(Desktop, i)
      /\ \A i \in Docs \ dropped : Opens(Phone, i)' = Opens(Phone, i)
  BY <1>2, <1>6 DEF Live, Opens, Has
<1>9. RowsInv'
  BY <1>2, <1>8, DevicesAre DEF FilesInv, RowsInv
<1>10. \A d \in Devices : TakesKnown(d)'
  BY <1>2, <1>5, <1>8, DevicesAre, RestingIsRun DEF FilesInv, TakesKnown, At
<1>11. \A i \in Docs : Safe(i) => Safe(i)'
  BY <1>2, <1>8 DEF Safe
<1>12. /\ \A i \in run'[Desktop].arrived : Safe(i)'
       /\ Honest(Range(wire[Phone]))'
  BY <1>5, <1>11, SafeKeeps
<1>13. NoFileLost'
  <2> SUFFICES ASSUME NEW i \in Docs \ (gone \cup hurt), \E d \in Devices : rows[d][i].state # "none"
               PROVE  \E d \in Devices : Opens(d, i)'
    BY <1>2 DEF NoFileLost
  <2>1. PICK d \in Devices : Opens(d, i)
    BY DEF FilesInv, NoFileLost
  <2>2. CASE i \in dropped
    BY <2>2, <1>4, <1>8, DevicesAre DEF Safe
  <2>3. CASE i \notin dropped
    BY <2>1, <2>3, <1>8, DevicesAre
  <2> QED BY <2>2, <2>3
<1> QED BY <1>7, <1>9, <1>10, <1>12, <1>13 DEF FilesInv

-----------------------------------------------------------------------------
(***************************************************************************)
(* What people and disks do between the steps of a sync.                   *)
(***************************************************************************)
LEMMA AddKeeps ==
  ASSUME FilesInv, NEW d \in Devices, NEW i \in Docs, Add(d, i)
  PROVE  FilesInv'
<1>1. PICK keep \in BOOLEAN :
        rows' = [rows EXCEPT ![d][i] = [state |-> "row", keep |-> keep, changed |-> TRUE]]
  BY DEF Add
<1>2. /\ file' = [file EXCEPT ![d][i] = "whole"] /\ UNCHANGED <<part, run, wire, gone, hurt>>
      /\ \A e \in Devices : rows[e][i].state = "none"
  BY DEF Add
<1>3. TypeInv'
  BY <1>1, <1>2 DEF FilesInv, TypeInv, Row
<1>4. /\ \A e \in Devices, j \in Docs :
           /\ e # d \/ j # i => rows'[e][j] = rows[e][j] /\ file'[e][j] = file[e][j]
      /\ rows'[d][i].state = "row" /\ file'[d][i] = "whole"
  BY <1>1, <1>2 DEF FilesInv, TypeInv
<1>5. RowsInv'
  BY <1>2, <1>4 DEF FilesInv, RowsInv, Has, Live
<1>6. \A e \in Devices : TakesKnown(e)'
  BY <1>2, <1>4 DEF FilesInv, TakesKnown, At, Live
<1>7. \A j \in Docs : Safe(j) => Safe(j)'
  BY <1>2, <1>4, DevicesAre DEF Safe, Opens
<1>8. /\ \A j \in run'[Desktop].arrived : Safe(j)'
      /\ Honest(Range(wire[Phone]))'
  BY <1>2, <1>7, SafeKeeps
<1>9. NoFileLost'
  BY <1>2, <1>4 DEF FilesInv, NoFileLost, Opens
<1> QED BY <1>3, <1>5, <1>6, <1>8, <1>9 DEF FilesInv

LEMMA AddAgainKeeps ==
  ASSUME FilesInv, NEW d \in Devices, NEW i \in Docs, AddAgain(d, i)
  PROVE  FilesInv'
<1>1. /\ file' = [file EXCEPT ![d][i] = "whole"] /\ Live(d, i)
      /\ UNCHANGED <<rows, part, run, wire, gone, hurt>>
  BY DEF AddAgain
<1>2. TypeInv'
  BY <1>1 DEF FilesInv, TypeInv
<1>3. \A e \in Devices, j \in Docs :
        file'[e][j] = IF e = d /\ j = i THEN "whole" ELSE file[e][j]
  BY <1>1 DEF FilesInv, TypeInv
<1>4. RowsInv'
  BY <1>1, <1>3 DEF FilesInv, RowsInv, Has, Live
<1>5. \A e \in Devices : TakesKnown(e)'
  BY <1>1 DEF FilesInv, TakesKnown, At, Live
<1>6. \A j \in Docs : Safe(j) => Safe(j)'
  BY <1>1, <1>3, DevicesAre DEF Safe, Opens
<1>7. /\ \A j \in run'[Desktop].arrived : Safe(j)'
      /\ Honest(Range(wire[Phone]))'
  BY <1>1, <1>6, SafeKeeps
<1>8. NoFileLost'
  BY <1>1, <1>3 DEF FilesInv, NoFileLost, Opens
<1> QED BY <1>2, <1>4, <1>5, <1>7, <1>8 DEF FilesInv

LEMMA UpdateKeeps ==
  ASSUME FilesInv, NEW d \in Devices, NEW i \in Docs, Update(d, i)
  PROVE  FilesInv'
<1>1. PICK keep \in BOOLEAN :
        rows' = [rows EXCEPT ![d][i] = [state |-> "row", keep |-> keep, changed |-> TRUE]]
  BY DEF Update
<1>2. UNCHANGED <<file, part, run, wire, gone, hurt>> /\ Live(d, i)
  BY DEF Update
<1>3. TypeInv'
  BY <1>1, <1>2 DEF FilesInv, TypeInv, Row
<1>4. /\ \A e \in Devices, j \in Docs : e # d \/ j # i => rows'[e][j] = rows[e][j]
      /\ rows'[d][i].state = "row" /\ rows[d][i].state = "row"
  BY <1>1, <1>2 DEF FilesInv, TypeInv, Live
<1>5. RowsInv'
  BY <1>2, <1>4 DEF FilesInv, RowsInv, Has, Live
<1>6. \A e \in Devices : TakesKnown(e)'
  BY <1>2, <1>4 DEF FilesInv, TakesKnown, At, Live
<1>7. \A j \in Docs : Safe(j) => Safe(j)'
  BY <1>2 DEF Safe, Opens
<1>8. /\ \A j \in run'[Desktop].arrived : Safe(j)'
      /\ Honest(Range(wire[Phone]))'
  BY <1>2, <1>7, SafeKeeps
<1>9. NoFileLost'
  BY <1>2, <1>4 DEF FilesInv, NoFileLost, Opens
<1> QED BY <1>3, <1>5, <1>6, <1>8, <1>9 DEF FilesInv

\* A file that loses its name may go on arriving, but is not written any more.
LEMMA ShutKeeps ==
  ASSUME TypeInv, NEW d \in Devices, NEW stays \in BOOLEAN,
         run' = [run EXCEPT ![d].taking.open = @ /\ stays]
  PROVE  /\ run' \in [Devices -> Run]
         /\ \A e \in Devices :
              /\ run'[e].at = run[e].at /\ run'[e].want = run[e].want
              /\ run'[e].arrived = run[e].arrived /\ run'[e].taking.doc = run[e].taking.doc
              /\ run[e].taking = NotTaking => run'[e].taking = NotTaking
<1> DEFINE taking == [run[d].taking EXCEPT !.open = run[d].taking.open /\ stays]
           noted == [run[d] EXCEPT !.taking = taking]
<1>1. run' = [run EXCEPT ![d] = noted]
  OBVIOUS
<1>2. run[d] \in Run /\ run[d].taking \in [doc : Docs \cup {0}, open : BOOLEAN]
  BY DEF TypeInv, Run
<1>3. /\ taking \in [doc : Docs \cup {0}, open : BOOLEAN] /\ taking.doc = run[d].taking.doc
      /\ run[d].taking = NotTaking => taking = NotTaking
  BY <1>2 DEF NotTaking
<1> HIDE DEF taking
<1>4. /\ noted \in Run /\ noted.at = run[d].at /\ noted.want = run[d].want
      /\ noted.arrived = run[d].arrived /\ noted.taking = taking
  BY <1>2, <1>3 DEF Run
<1> HIDE DEF noted
<1> QED BY <1>1, <1>3, <1>4, RunsAre

LEMMA DeleteKeeps ==
  ASSUME FilesInv, NEW d \in Devices, NEW i \in Docs, Delete(d, i)
  PROVE  FilesInv'
<1>1. /\ rows' = [rows EXCEPT ![d][i] = [state |-> "marker", keep |-> FALSE, changed |-> TRUE]]
      /\ gone' = gone \cup {i} /\ UNCHANGED <<wire, hurt>>
      /\ Removed(d, i) \/ UNCHANGED <<file, part, run>>
  BY DEF Delete
<1>2. /\ file' \in [Devices -> [Docs -> {"none", "whole", "bad"}]]
      /\ part' \in [Devices -> [Docs -> Nat]]
      /\ \A e \in Devices, j \in Docs : j # i => file'[e][j] = file[e][j]
  <2>1. CASE UNCHANGED <<file, part, run>>
    BY <2>1 DEF FilesInv, TypeInv
  <2>2. CASE Removed(d, i)
    <3>1. file' = [file EXCEPT ![d][i] = "none"] /\ part' = [part EXCEPT ![d][i] = 0]
      BY <2>2 DEF Removed
    <3> QED BY <3>1 DEF FilesInv, TypeInv
  <2> QED BY <1>1, <2>1, <2>2
<1>3. /\ run' \in [Devices -> Run]
      /\ \A e \in Devices :
           /\ run'[e].at = run[e].at /\ run'[e].want = run[e].want
           /\ run'[e].arrived = run[e].arrived /\ run'[e].taking.doc = run[e].taking.doc
           /\ run[e].taking = NotTaking => run'[e].taking = NotTaking
  <2>1. CASE UNCHANGED <<file, part, run>>
    BY <2>1 DEF FilesInv, TypeInv
  <2>2. CASE Removed(d, i)
    BY <2>2, ShutKeeps DEF Removed, FilesInv
  <2> QED BY <1>1, <2>1, <2>2
<1>4. /\ rows' \in [Devices -> [Docs -> Row]] /\ rows'[d][i].state = "marker"
      /\ \A e \in Devices, j \in Docs : e # d \/ j # i => rows'[e][j] = rows[e][j]
  BY <1>1 DEF FilesInv, TypeInv, Row
<1>5. TypeInv'
  BY <1>1, <1>2, <1>3, <1>4 DEF FilesInv, TypeInv
<1>6. RowsInv'
  BY <1>1, <1>2, <1>4 DEF FilesInv, RowsInv, Has, Live
<1>7. \A e \in Devices : TakesKnown(e)'
  BY <1>1, <1>3, <1>4 DEF FilesInv, TakesKnown, At, Live
<1>8. \A j \in Docs : Safe(j) => Safe(j)'
  BY <1>1, <1>2, DevicesAre DEF Safe, Opens
<1>9. /\ \A j \in run'[Desktop].arrived : Safe(j)'
      /\ Honest(Range(wire[Phone]))'
  <2>1. run'[Desktop].arrived = run[Desktop].arrived /\ wire' = wire
    BY <1>1, <1>3, DevicesAre
  <2>2. Range(wire'[Phone]) \subseteq Range(wire[Phone])
    BY <2>1
  <2>3. (\A j \in run[Desktop].arrived : Safe(j)') /\ Honest(Range(wire[Phone]))'
    BY <1>8, <2>2, SafeKeeps
  <2> QED BY <2>1, <2>3
<1>10. NoFileLost'
  <2> SUFFICES ASSUME NEW j \in Docs \ (gone' \cup hurt'), NEW e \in Devices,
                      rows'[e][j].state # "none"
               PROVE  \E f \in Devices : Opens(f, j)'
    BY DEF NoFileLost
  <2>1. j \in Docs \ (gone \cup hurt) /\ j # i /\ rows'[e][j] = rows[e][j]
    BY <1>1, <1>4
  <2>2. PICK f \in Devices : Opens(f, j)
    BY <2>1 DEF FilesInv, NoFileLost
  <2>3. Opens(f, j)'
    BY <1>2, <2>1, <2>2 DEF Opens
  <2> QED BY <2>3
<1> QED BY <1>5, <1>6, <1>7, <1>9, <1>10 DEF FilesInv

\* The check of the folder removes files of documents that were deleted, and no other.
LEMMA TidyKeeps ==
  ASSUME FilesInv, NEW d \in Devices, Tidy(d)
  PROVE  FilesInv'
<1>1. /\ file' = [file EXCEPT ![d] = [i \in Docs |-> IF Live(d, i) THEN @[i] ELSE "none"]]
      /\ part' = [part EXCEPT ![d] = [i \in Docs |-> IF Live(d, i) THEN @[i] ELSE 0]]
      /\ run' = [run EXCEPT ![d].taking.open =
                   @ /\ run[d].taking.doc \in {i \in Docs : Live(d, i)}]
      /\ UNCHANGED <<rows, wire, gone, hurt>>
  BY DEF Tidy, ghosts
<1>2. /\ file' \in [Devices -> [Docs -> {"none", "whole", "bad"}]]
      /\ part' \in [Devices -> [Docs -> Nat]]
      /\ \A e \in Devices, j \in Docs :
           file'[e][j] = IF e = d /\ ~Live(d, j) THEN "none" ELSE file[e][j]
  BY <1>1 DEF FilesInv, TypeInv
<1>3. /\ run' \in [Devices -> Run]
      /\ \A e \in Devices :
           /\ run'[e].at = run[e].at /\ run'[e].want = run[e].want
           /\ run'[e].arrived = run[e].arrived /\ run'[e].taking.doc = run[e].taking.doc
           /\ run[e].taking = NotTaking => run'[e].taking = NotTaking
  BY <1>1, ShutKeeps DEF FilesInv
<1>4. TypeInv'
  BY <1>1, <1>2, <1>3 DEF FilesInv, TypeInv
<1>5. \A e \in Devices, j \in Docs : j \notin gone => file'[e][j] = file[e][j]
  BY <1>2 DEF FilesInv, RowsInv, Has
<1>6. RowsInv'
  BY <1>1, <1>2 DEF FilesInv, RowsInv, Has, Live
<1>7. \A e \in Devices : TakesKnown(e)'
  BY <1>1, <1>3 DEF FilesInv, TakesKnown, At, Live
<1>8. \A j \in Docs : Safe(j) => Safe(j)'
  BY <1>1, <1>5, DevicesAre DEF Safe, Opens
<1>9. /\ \A j \in run'[Desktop].arrived : Safe(j)'
      /\ Honest(Range(wire[Phone]))'
  BY <1>1, <1>3, <1>8, DevicesAre, SafeKeeps
<1>10. NoFileLost'
  BY <1>1, <1>5 DEF FilesInv, NoFileLost, Opens
<1> QED BY <1>4, <1>6, <1>7, <1>9, <1>10 DEF FilesInv

\* A file that is damaged is answered for by the disk if the other device has no good
\* copy, or if this is the desktop and somebody relied on it.
LEMMA DamageKeeps ==
  ASSUME FilesInv, NEW d \in Devices, NEW i \in Docs, Damage(d, i)
  PROVE  FilesInv'
<1>1. /\ file' = [file EXCEPT ![d][i] = "bad"] /\ Opens(d, i)
      /\ hurt' = IF Opens(Other(d), i) /\ i \notin ReliedOn(d) THEN hurt ELSE hurt \cup {i}
      /\ UNCHANGED <<rows, part, run, wire, gone>>
  BY DEF Damage
<1>2. TypeInv'
  BY <1>1 DEF FilesInv, TypeInv
<1>3. /\ \A e \in Devices, j \in Docs : e # d \/ j # i => file'[e][j] = file[e][j]
      /\ file[d][i] = "whole"
  BY <1>1 DEF FilesInv, TypeInv, Opens
<1>4. RowsInv'
  BY <1>1, <1>3 DEF FilesInv, RowsInv, Has, Live
<1>5. \A e \in Devices : TakesKnown(e)'
  BY <1>1 DEF FilesInv, TakesKnown, At, Live
<1>6. hurt \subseteq hurt'
  BY <1>1
<1>7. \A j \in Docs : j # i \/ d # Desktop \/ i \in hurt' => (Safe(j) => Safe(j)')
  BY <1>1, <1>3, <1>6, DevicesAre DEF Safe, Opens
<1>8. ASSUME d = Desktop, i \notin hurt'
      PROVE  /\ \A j \in run'[Desktop].arrived : Safe(j)'
             /\ Honest(Range(wire[Phone]))'
  <2>1. i \notin ReliedOn(Desktop)
    BY <1>1, <1>8
  <2>2. i \notin run[Desktop].arrived
    BY <2>1 DEF ReliedOn
  <2>3. \A m \in Range(wire[Phone]) : m.kind = "stored" => i \notin m.body
    BY <2>1 DEF ReliedOn, Promised, Range
  <2>4. run[Desktop].arrived \in SUBSET Docs /\ wire[Phone] \in Seq(Messages)
    BY DevicesAre DEF FilesInv, TypeInv, Run
  <2>5. \A m \in Range(wire[Phone]) : m \in Messages
    BY <2>4 DEF Range
  <2>6. \A m \in Range(wire[Phone]) : m.kind = "stored" => m.body \in SUBSET Docs
    BY <2>5 DEF Messages
  <2>7. \A j \in run'[Desktop].arrived : Safe(j)'
    BY <1>1, <1>7, <2>2, <2>4 DEF FilesInv
  <2>8. Honest(Range(wire[Phone]))'
    BY <1>1, <1>7, <2>3, <2>6 DEF FilesInv, Honest
  <2> QED BY <2>7, <2>8
<1>9. ASSUME d # Desktop \/ i \in hurt'
      PROVE  /\ \A j \in run'[Desktop].arrived : Safe(j)'
             /\ Honest(Range(wire[Phone]))'
  <2>1. \A j \in Docs : Safe(j) => Safe(j)'
    BY <1>7, <1>9
  <2>2. run' = run /\ wire' = wire
    BY <1>1
  <2> QED BY <2>1, <2>2, SafeKeeps
<1>10. NoFileLost'
  <2> SUFFICES ASSUME NEW j \in Docs \ (gone' \cup hurt'), \E e \in Devices : rows'[e][j].state # "none"
               PROVE  \E e \in Devices : Opens(e, j)'
    BY DEF NoFileLost
  <2>1. CASE j = i
    <3>1. Opens(Other(d), i)
      BY <1>1, <2>1
    <3> QED BY <3>1, <2>1, <1>3, DevicesAre DEF Opens
  <2>2. CASE j # i
    BY <2>2, <1>1, <1>3, <1>6 DEF FilesInv, NoFileLost, Opens
  <2> QED BY <2>1, <2>2
<1> QED BY <1>2, <1>4, <1>5, <1>8, <1>9, <1>10 DEF FilesInv

\* Rows that are exchanged change no document into one nobody knew or one that is gone.
LEMMA MergedKeeps ==
  ASSUME FilesInv, NEW newer \in [Docs -> Devices], NEW mode, NEW applied,
         rows' = Merged(newer, mode, applied), UNCHANGED <<file, gone, hurt>>
  PROVE  /\ rows' \in [Devices -> [Docs -> Row]] /\ RowsInv' /\ NoFileLost'
         /\ \A d \in Devices, i \in Docs \ gone : Live(d, i) => Live(d, i)'
<1>1. \A d \in Devices, i \in Docs : rows[d][i] \in Row
  BY DEF FilesInv, TypeInv
<1>2. rows' \in [Devices -> [Docs -> Row]]
  <2>1. \A r \in Row, b \in BOOLEAN : [r EXCEPT !.changed = b] \in Row
    BY DEF Row
  <2>2. \A d \in Devices, i \in Docs : [rows[Other(d)][i] EXCEPT !.changed = FALSE] \in Row
    BY <1>1, <2>1, DevicesAre
  <2>3. \A d \in Devices, i \in Docs :
          [rows[d][i] EXCEPT !.changed =
             @ /\ newer[i] = d /\ ~Adopts(Other(d), i, newer, mode, applied)] \in Row
    <3>1. TAKE d \in Devices, i \in Docs
    <3> DEFINE still == rows[d][i].changed /\ newer[i] = d
                          /\ ~Adopts(Other(d), i, newer, mode, applied)
    <3>2. still \in BOOLEAN
      OBVIOUS
    <3>3. [rows[d][i] EXCEPT !.changed = still] \in Row
      <4> HIDE DEF still
      <4> QED BY <1>1, <2>1, <3>2
    <3> QED BY <3>3
  <2> QED BY <2>2, <2>3 DEF Merged
<1>3. \A d \in Devices, i \in Docs :
        \/ rows'[d][i].state = rows[d][i].state /\ (rows'[d][i].changed => rows[d][i].changed)
        \/ /\ rows'[d][i].state = rows[Other(d)][i].state /\ ~rows'[d][i].changed
           /\ rows[Other(d)][i].changed
  <2>1. TAKE d \in Devices, i \in Docs
  <2>2. rows'[d][i] =
          IF Adopts(d, i, newer, mode, applied)
          THEN [rows[Other(d)][i] EXCEPT !.changed = FALSE]
          ELSE [rows[d][i] EXCEPT !.changed =
                  @ /\ newer[i] = d /\ ~Adopts(Other(d), i, newer, mode, applied)]
    BY DEF Merged
  <2>3. CASE Adopts(d, i, newer, mode, applied)
    <3>1. newer[i] = Other(d) /\ rows[Other(d)][i].changed
      BY <2>3, DevicesAre DEF Adopts
    <3> QED BY <2>2, <2>3, <3>1, <1>1, DevicesAre DEF Row
  <2>4. CASE ~Adopts(d, i, newer, mode, applied)
    BY <2>2, <2>4, <1>1 DEF Row
  <2> QED BY <2>3, <2>4
<1>4. \A d \in Devices, i \in Docs : rows[d][i].state \in {"none", "row", "marker"}
  BY <1>1 DEF Row
<1>5. \A d \in Devices, i \in Docs \ gone : Live(d, i) => Live(d, i)'
  BY <1>3, <1>4, DevicesAre DEF Live, FilesInv, RowsInv
<1>6. RowsInv'
  BY <1>3, <1>5, DevicesAre DEF FilesInv, RowsInv, Has
<1>7. NoFileLost'
  <2>1. \A i \in Docs : (\E d \in Devices : rows'[d][i].state # "none")
                        => \E d \in Devices : rows[d][i].state # "none"
    BY <1>3, DevicesAre
  <2> QED BY <2>1 DEF FilesInv, NoFileLost, Opens
<1> QED BY <1>2, <1>5, <1>6, <1>7

LEMMA StartKeeps ==
  ASSUME FilesInv, NEW mode \in Modes, Start(mode)
  PROVE  FilesInv'
<1>1. PICK newer \in [Docs -> Devices] : rows' = Merged(newer, mode, Devices)
  BY DEF Start
<1>2. /\ run' = [d \in Devices |-> [Resting EXCEPT !.at = "begin", !.mode = mode]]
      /\ UNCHANGED <<file, part, wire, gone, hurt>>
  BY DEF Start, ghosts
<1>3. rows' \in [Devices -> [Docs -> Row]] /\ RowsInv' /\ NoFileLost'
  BY <1>1, <1>2, MergedKeeps
<1>4. /\ run' \in [Devices -> Run]
      /\ \A d \in Devices : run'[d].taking = NotTaking /\ run'[d].arrived = {}
  <2> DEFINE begun == [Resting EXCEPT !.at = "begin", !.mode = mode]
  <2>1. begun \in Run /\ begun.taking = NotTaking /\ begun.arrived = {}
    BY RestingIsRun DEF Run, Steps
  <2>2. run' = [d \in Devices |-> begun]
    BY <1>2
  <2> HIDE DEF begun
  <2> QED BY <2>1, <2>2
<1>5. TypeInv'
  BY <1>2, <1>3, <1>4 DEF FilesInv, TypeInv
<1>6. \A d \in Devices : TakesKnown(d)'
  BY <1>4 DEF TakesKnown
<1>7. \A i \in Docs : Safe(i) => Safe(i)'
  BY <1>2 DEF Safe, Opens
<1>8. Honest(Range(wire[Phone]))'
  BY <1>2, <1>7, SafeKeeps
<1>9. \A i \in run'[Desktop].arrived : Safe(i)'
  BY <1>4, DevicesAre
<1> QED BY <1>3, <1>5, <1>6, <1>8, <1>9 DEF FilesInv

LEMMA StartAndBreakKeeps ==
  ASSUME FilesInv, NEW mode \in Modes, NEW d \in Devices, StartAndBreak(mode, d)
  PROVE  FilesInv'
<1>1. PICK newer \in [Docs -> Devices] : rows' = Merged(newer, mode, {d})
  BY DEF StartAndBreak
<1>2. UNCHANGED <<file, part, run, wire, gone, hurt>>
  BY DEF StartAndBreak
<1>3. /\ rows' \in [Devices -> [Docs -> Row]] /\ RowsInv' /\ NoFileLost'
      /\ \A e \in Devices, i \in Docs \ gone : Live(e, i) => Live(e, i)'
  BY <1>1, <1>2, MergedKeeps
<1>4. TypeInv'
  BY <1>2, <1>3 DEF FilesInv, TypeInv
<1>5. \A e \in Devices : TakesKnown(e)'
  BY <1>2, <1>3 DEF FilesInv, TakesKnown, At
<1>6. \A i \in Docs : Safe(i) => Safe(i)'
  BY <1>2 DEF Safe, Opens
<1>7. /\ \A i \in run'[Desktop].arrived : Safe(i)'
      /\ Honest(Range(wire[Phone]))'
  BY <1>2, <1>6, SafeKeeps
<1> QED BY <1>3, <1>4, <1>5, <1>7 DEF FilesInv

-----------------------------------------------------------------------------
\* The invariant holds in every reachable state.
THEOREM FilesInvariant == Spec => []FilesInv
<1>1. Init => FilesInv
  <2> SUFFICES ASSUME Init
               PROVE  FilesInv
    OBVIOUS
  <2>1. /\ rows = [d \in Devices |-> [i \in Docs |-> NoRow]]
        /\ file = [d \in Devices |-> [i \in Docs |-> "none"]]
        /\ part = [d \in Devices |-> [i \in Docs |-> 0]]
        /\ run = [d \in Devices |-> Resting]
        /\ gone = {} /\ hurt = {}
    BY DEF Init
  <2>2. /\ wire \in [Devices -> Seq(Messages)]
        /\ Range(wire[Phone]) = {}
    <3> DEFINE none == <<>>
    <3>1. none \in Seq(Messages) /\ Range(none) = {} /\ wire = [d \in Devices |-> none]
      BY RangeOfNone DEF Init
    <3> HIDE DEF none
    <3> QED BY <3>1, DevicesAre
  <2>3. NoRow \in Row /\ NoRow.state = "none" /\ ~NoRow.changed
    BY DEF NoRow, Row
  <2>4. TypeInv
    BY <2>1, <2>2, <2>3, RestingIsRun DEF TypeInv
  <2>5. RowsInv /\ NoFileLost
    BY <2>1, <2>3 DEF RowsInv, NoFileLost, Has
  <2>6. \A d \in Devices : TakesKnown(d)
    BY <2>1, RestingIsRun DEF TakesKnown
  <2>7. (\A i \in run[Desktop].arrived : Safe(i)) /\ Honest(Range(wire[Phone]))
    BY <2>1, <2>2, RestingIsRun, DevicesAre DEF Honest
  <2> QED BY <2>4, <2>5, <2>6, <2>7 DEF FilesInv
<1>2. FilesInv /\ [Next]_vars => FilesInv'
  <2> SUFFICES ASSUME FilesInv, [Next]_vars
               PROVE  FilesInv'
    OBVIOUS
  <2>1. ASSUME NEW mode \in Modes, Start(mode)
        PROVE  FilesInv'
    BY <2>1, StartKeeps
  <2>2. ASSUME NEW mode \in Modes, NEW d \in Devices, StartAndBreak(mode, d)
        PROVE  FilesInv'
    BY <2>2, StartAndBreakKeeps
  <2>3. ASSUME NEW d \in Devices, Step(d)
        PROVE  FilesInv'
    BY <2>3, BeginKeeps, TakeHaveKeeps, TakeNeedKeeps, ServeKeeps, ServedKeeps, TakeSkipKeeps,
       TakeFileKeeps, TakePieceKeeps, FetchedKeeps, ConfirmKeeps, TakeStoredKeeps, PeerGoneKeeps
       DEF Step
  <2>4. ASSUME NEW d \in Devices, Person(d)
        PROVE  FilesInv'
    BY <2>4, AddKeeps, AddAgainKeeps, UpdateKeeps, DeleteKeeps DEF Person
  <2>5. ASSUME NEW d \in Devices, Tidy(d)
        PROVE  FilesInv'
    BY <2>5, TidyKeeps
  <2>6. ASSUME NEW d \in Devices, Break(d)
        PROVE  FilesInv'
    BY <2>6, BreakKeeps
  <2>7. ASSUME NEW d \in Devices, NEW i \in Docs, Damage(d, i)
        PROVE  FilesInv'
    BY <2>7, DamageKeeps
  <2>8. CASE UNCHANGED vars
    <3>1. /\ UNCHANGED <<rows, file, part, gone, hurt>> /\ run' = run /\ wire' = wire
      BY <2>8 DEF vars
    <3>2. run' \in [Devices -> Run] /\ wire' \in [Devices -> Seq(Messages)]
      BY <3>1 DEF FilesInv, TypeInv
    <3> QED BY <3>1, <3>2, HonestOthers, UnmovedKeeps
  <2> QED BY <2>1, <2>2, <2>3, <2>4, <2>5, <2>6, <2>7, <2>8 DEF Next
<1> QED BY <1>1, <1>2, PTL DEF Spec

\* A document that nobody deleted, and whose file no disk cost, has a good file on one of
\* the devices, in every sync and between them (files.rs:5-6): for any documents, any
\* budget and any number of changes and failures.
THEOREM NoFileLostTheorem == Spec => []NoFileLost
<1>1. FilesInv => NoFileLost
  BY DEF FilesInv
<1> QED BY <1>1, FilesInvariant, PTL

-----------------------------------------------------------------------------
(***************************************************************************)
(* Who gives files in a sync asks for none and lets go of none.            *)
(***************************************************************************)
Asks(d) ==
  /\ run[d].want # NoRequest => Receives(d, run[d].mode)
  /\ At(d, "stored") => run[d].mode # "to_desktop"

AsksInv == changes \in Nat /\ faults \in Nat /\ \A d \in Devices : Asks(d)

WayInv == FilesInv /\ AsksInv

\* What a step may do to a device so that this stays: the sync is over or new, or it
\* goes on the same way.
GoesOn(d) ==
  /\ run'[d].mode = run[d].mode
  /\ run'[d].want = NoRequest \/ run[d].want # NoRequest \/ Receives(d, run[d].mode)
  /\ run'[d].at = "stored" => (At(d, "stored") \/ run[d].mode # "to_desktop")

Goes(d) == GoesOn(d) \/ (run'[d].want = NoRequest /\ run'[d].at # "stored")

LEMMA GoesKeeps ==
  ASSUME NEW d \in Devices, Asks(d), Goes(d)
  PROVE  Asks(d)'
<1>1. CASE GoesOn(d)
  <2>1. run'[d].mode = run[d].mode
    BY <1>1 DEF GoesOn
  <2>2. run'[d].want # NoRequest => Receives(d, run[d].mode)
    BY <1>1 DEF GoesOn, Asks
  <2>3. run'[d].at = "stored" => run[d].mode # "to_desktop"
    BY <1>1 DEF GoesOn, Asks
  <2> QED BY <2>1, <2>2, <2>3 DEF Asks, At
<1>2. CASE run'[d].want = NoRequest /\ run'[d].at # "stored"
  BY <1>2 DEF Asks, At
<1> QED BY <1>1, <1>2 DEF Goes

\* A device where nothing, or only what arrives, changes.
LEMMA StaysGoes ==
  ASSUME NEW d \in Devices,
         run'[d].mode = run[d].mode, run'[d].want = run[d].want, run'[d].at = run[d].at
  PROVE  Goes(d)
BY DEF Goes, GoesOn, At

LEMMA EndsGoes ==
  ASSUME FilesInv, NEW d \in Devices, NEW sent, Ends(d, sent)
  PROVE  \A e \in Devices : Goes(e)
<1>1. run' = [run EXCEPT ![d] = Resting]
  BY DEF Ends
<1>2. run'[d] = Resting /\ \A e \in Devices : e = d \/ run'[e] = run[e]
  BY <1>1, RestingIsRun, RunsAre DEF FilesInv
<1>3. Resting.want = NoRequest /\ Resting.at # "stored"
  BY DEF Resting
<1>4. Goes(d)
  BY <1>2, <1>3 DEF Goes
<1> QED BY <1>2, <1>4, StaysGoes

\* A device goes on to another step of the sync, with another request or the same.
LEMMA StepGoes ==
  ASSUME FilesInv, NEW d \in Devices, NEW noted, run' = [run EXCEPT ![d] = noted],
         noted.mode = run[d].mode,
         noted.want = NoRequest \/ run[d].want # NoRequest \/ Receives(d, run[d].mode),
         noted.at = "stored" => (At(d, "stored") \/ run[d].mode # "to_desktop")
  PROVE  \A e \in Devices : Goes(e)
<1>1. run'[d] = noted /\ \A e \in Devices : e = d \/ run'[e] = run[e]
  BY DEF FilesInv, TypeInv
<1>2. GoesOn(d)
  BY <1>1 DEF GoesOn
<1> QED BY <1>1, <1>2, StaysGoes DEF Goes

LEMMA WantedByGoes ==
  ASSUME NEW d \in Devices, NEW theirs, NEW budget
  PROVE  WantedBy(d, theirs, budget) = NoRequest \/ Receives(d, run[d].mode)
BY DEF WantedBy

LEMMA StepsGo ==
  ASSUME FilesInv, NEW d \in Devices, Step(d)
  PROVE  \A e \in Devices : Goes(e)
<1>0. run[d] \in Run
  BY DEF FilesInv, TypeInv
<1>1. CASE Begin(d)
  <2> DEFINE noted == [run[d] EXCEPT !.at = "have", !.mine = HaveList(d)]
  <2>1. run' = [run EXCEPT ![d] = noted]
    BY <1>1 DEF Begin
  <2>2. noted.mode = run[d].mode /\ noted.want = run[d].want /\ noted.at = "have"
    BY <1>0 DEF Run
  <2> HIDE DEF noted
  <2> QED BY <2>1, <2>2, StepGoes
<1>2. CASE TakeHave(d)
  <2> DEFINE theirs == Arriving(d)
             want == IF d = Desktop THEN WantedBy(d, theirs, Budget) ELSE NoRequest
             noted == [run[d] EXCEPT !.at = "need", !.theirs = theirs, !.want = want]
  <2>1. run' = [run EXCEPT ![d] = noted]
    BY <1>2 DEF TakeHave
  <2>2. want = NoRequest \/ Receives(d, run[d].mode)
    BY WantedByGoes
  <2> HIDE DEF want, theirs
  <2>3. noted.mode = run[d].mode /\ noted.want = want /\ noted.at = "need"
    BY <1>0 DEF Run
  <2> HIDE DEF noted
  <2> QED BY <2>1, <2>2, <2>3, StepGoes
<1>3. CASE TakeNeed(d)
  <2> DEFINE asked == Arriving(d)
             want == IF d = Phone THEN WantedBy(d, run[d].theirs, Share(d, asked)) ELSE run[d].want
             answer == IF d = Phone THEN Message("need", want) ELSE <<>>
             noted == [run[d] EXCEPT !.at = FirstHalf(d), !.asked = asked, !.want = want]
  <2>1. Ends(d, answer) \/ run' = [run EXCEPT ![d] = noted]
    BY <1>3 DEF TakeNeed
  <2>2. want = NoRequest \/ run[d].want # NoRequest \/ Receives(d, run[d].mode)
    BY WantedByGoes
  <2> HIDE DEF want, asked, answer
  <2>3. noted.mode = run[d].mode /\ noted.want = want /\ noted.at # "stored"
    BY <1>0 DEF Run, FirstHalf
  <2> HIDE DEF noted
  <2> QED BY <2>1, <2>2, <2>3, StepGoes, EndsGoes
<1>4. CASE Serve(d)
  <2>1. PICK spent, asked : run' = [run EXCEPT ![d].asked = asked, ![d].spent = spent]
    BY <1>4 DEF Serve
  <2> DEFINE noted == [run[d] EXCEPT !.asked = asked, !.spent = spent]
  <2>2. run' = [run EXCEPT ![d] = noted]
    BY <2>1
  <2>3. noted.mode = run[d].mode /\ noted.want = run[d].want /\ noted.at = run[d].at
    BY <1>0 DEF Run
  <2> HIDE DEF noted
  <2> QED BY <2>2, <2>3, StepGoes DEF At
<1>5. ASSUME NEW next, GoOn(d, next), next = "stored" => run[d].mode # "to_desktop"
      PROVE  \A e \in Devices : Goes(e)
  <2>1. CASE next = "rest"
    BY <1>5, <2>1, EndsGoes DEF GoOn
  <2>2. CASE next # "rest"
    <3> DEFINE noted == [run[d] EXCEPT !.at = next]
    <3>1. run' = [run EXCEPT ![d] = noted]
      BY <1>5, <2>2 DEF GoOn
    <3>2. noted.mode = run[d].mode /\ noted.want = run[d].want /\ noted.at = next
      BY <1>0 DEF Run
    <3> HIDE DEF noted
    <3> QED BY <1>5, <3>1, <3>2, StepGoes
  <2> QED BY <2>1, <2>2
<1>6. CASE Served(d) \/ Fetched(d)
  <2>1. PICK next : GoOn(d, next) /\ next \in {"serve", "fetch", AfterFiles(run[d].mode)}
    BY <1>6 DEF Served, Fetched
  <2>2. next = "stored" => run[d].mode # "to_desktop"
    BY <2>1 DEF AfterFiles
  <2> QED BY <2>1, <2>2, <1>5
<1>7. CASE TakeSkip(d)
  <2> DEFINE noted == [run[d] EXCEPT !.want = Without(run[d].want, Newest(run[d].want))]
  <2>1. run' = [run EXCEPT ![d] = noted]
    BY <1>7 DEF TakeSkip
  <2>2. run[d].want # NoRequest
    BY <1>7 DEF TakeSkip, Arrived, Waiting
  <2>3. noted.mode = run[d].mode /\ noted.at = run[d].at
    BY <1>0 DEF Run
  <2> HIDE DEF noted
  <2> QED BY <2>1, <2>2, <2>3, StepGoes DEF At
<1>8. CASE TakeFile(d)
  <2>1. Ends(d, <<>>) \/ \E taking : run' = [run EXCEPT ![d].taking = taking]
    BY <1>8 DEF TakeFile
  <2>2. ASSUME NEW taking, run' = [run EXCEPT ![d].taking = taking]
        PROVE  \A e \in Devices : Goes(e)
    <3> DEFINE noted == [run[d] EXCEPT !.taking = taking]
    <3>1. run' = [run EXCEPT ![d] = noted]
      BY <2>2
    <3>2. noted.mode = run[d].mode /\ noted.want = run[d].want /\ noted.at = run[d].at
      BY <1>0 DEF Run
    <3> HIDE DEF noted
    <3> QED BY <3>1, <3>2, StepGoes DEF At
  <2> QED BY <2>1, <2>2, EndsGoes
<1>9. CASE TakePiece(d)
  <2> DEFINE i == run[d].taking.doc
             last == Arriving(d)
  <2>1. PICK works \in BOOLEAN :
          LET written == run[d].taking.open /\ works IN
          run' = [run EXCEPT
            ![d].taking = IF last THEN NotTaking ELSE [@ EXCEPT !.open = written],
            ![d].want = IF last THEN Without(@, i) ELSE @,
            ![d].arrived = IF written /\ last THEN @ \cup {i} ELSE @]
    BY <1>9 DEF TakePiece
  <2> DEFINE written == run[d].taking.open /\ works
             noted == [run[d] EXCEPT
               !.taking = IF last THEN NotTaking ELSE [run[d].taking EXCEPT !.open = written],
               !.want = IF last THEN Without(run[d].want, i) ELSE run[d].want,
               !.arrived = IF written /\ last THEN run[d].arrived \cup {i} ELSE run[d].arrived]
  <2>2. run' = [run EXCEPT ![d] = noted]
    BY <2>1
  <2>3. run[d].want # NoRequest
    BY <1>9 DEF TakePiece, Arrived, Waiting
  <2>4. noted.mode = run[d].mode /\ noted.at = run[d].at
    BY <1>0 DEF Run
  <2> HIDE DEF noted
  <2> QED BY <2>2, <2>3, <2>4, StepGoes DEF At
<1>10. CASE (d = Desktop /\ Confirm) \/ (d = Phone /\ TakeStored) \/ PeerGone(d)
  <2>1. \E e \in Devices : \E sent : Ends(e, sent)
    BY <1>10, DevicesAre DEF Confirm, TakeStored, PeerGone
  <2> QED BY <2>1, EndsGoes
<1> QED BY <1>1, <1>2, <1>3, <1>4, <1>6, <1>7, <1>8, <1>9, <1>10 DEF Step

LEMMA OthersGo ==
  ASSUME FilesInv, NEW d \in Devices, Person(d) \/ Tidy(d)
  PROVE  \A e \in Devices : Goes(e)
<1>0. run \in [Devices -> Run]
  BY DEF FilesInv, TypeInv
<1>1. run' = run \/ \E open : run' = [run EXCEPT ![d].taking.open = open]
  BY DEF Person, Add, AddAgain, Update, Delete, Removed, Tidy
<1>2. \A e \in Devices : /\ run'[e].mode = run[e].mode /\ run'[e].want = run[e].want
                         /\ run'[e].at = run[e].at
  BY <1>0, <1>1 DEF Run
<1> QED BY <1>2, StaysGoes

\* Every step of the system leaves each device asking the way its sync goes.
LEMMA AllGo ==
  ASSUME FilesInv, [Next]_vars
  PROVE  \A e \in Devices : Goes(e)
<1>1. ASSUME NEW mode \in Modes, Start(mode)
      PROVE  \A e \in Devices : Goes(e)
  <2> DEFINE begun == [Resting EXCEPT !.at = "begin", !.mode = mode]
  <2>1. begun.want = NoRequest /\ begun.at # "stored"
    BY DEF Resting
  <2>2. run' = [e \in Devices |-> begun]
    BY <1>1 DEF Start
  <2> HIDE DEF begun
  <2> QED BY <2>1, <2>2 DEF Goes
<1>2. ASSUME run' = run
      PROVE  \A e \in Devices : Goes(e)
  BY <1>2, StaysGoes
<1>3. ASSUME NEW mode \in Modes, NEW d \in Devices, StartAndBreak(mode, d)
      PROVE  run' = run
  BY <1>3 DEF StartAndBreak
<1>4. ASSUME NEW d \in Devices, NEW i \in Docs, Damage(d, i)
      PROVE  run' = run
  BY <1>4 DEF Damage
<1>5. ASSUME NEW d \in Devices, Break(d)
      PROVE  \A e \in Devices : Goes(e)
  BY <1>5, EndsGoes DEF Break
<1>6. CASE UNCHANGED vars
  BY <1>2, <1>6 DEF vars
<1> QED BY <1>1, <1>2, <1>3, <1>4, <1>5, <1>6, StepsGo, OthersGo DEF Next

\* What people and failures change is counted.
LEMMA CountersKeep ==
  ASSUME changes \in Nat, faults \in Nat, [Next]_vars
  PROVE  changes' \in Nat /\ faults' \in Nat
<1>1. ASSUME NEW d \in Devices, Step(d)
      PROVE  changes' = changes /\ (faults' = faults \/ faults' = faults + 1)
  BY <1>1 DEF Step, Begin, TakeHave, TakeNeed, Serve, Served, Fetched, TakeSkip, TakeFile,
     TakePiece, Confirm, TakeStored, PeerGone, ghosts, Fault
<1>2. ASSUME NEW d \in Devices, Person(d) \/ Tidy(d) \/ Break(d)
      PROVE  /\ changes' = changes \/ changes' = changes + 1
             /\ faults' = faults \/ faults' = faults + 1
  BY <1>2 DEF Person, Add, AddAgain, Update, Delete, Tidy, Break, ghosts, Fault, Changes
<1>3. ASSUME NEW d \in Devices, NEW i \in Docs, Damage(d, i)
      PROVE  changes' = changes /\ faults' = faults + 1
  BY <1>3 DEF Damage, Fault
<1>4. ASSUME NEW mode \in Modes, Start(mode)
      PROVE  changes' = changes /\ faults' = faults
  BY <1>4 DEF Start, ghosts
<1>5. ASSUME NEW mode \in Modes, NEW d \in Devices, StartAndBreak(mode, d)
      PROVE  changes' = changes /\ faults' = faults + 1
  BY <1>5 DEF StartAndBreak, Fault
<1>6. CASE UNCHANGED vars
  BY <1>6 DEF vars
<1> QED BY <1>1, <1>2, <1>3, <1>4, <1>5, <1>6 DEF Next

LEMMA WayInvariant == Spec => []WayInv
<1>1. Init => AsksInv
  <2> SUFFICES ASSUME Init
               PROVE  AsksInv
    OBVIOUS
  <2>1. Resting.want = NoRequest /\ Resting.at # "stored"
    BY DEF Resting
  <2>2. \A d \in Devices : run[d] = Resting
    BY DEF Init
  <2> QED BY <2>1, <2>2 DEF Init, Asks, At, AsksInv
<1>2. FilesInv /\ AsksInv /\ [Next]_vars => AsksInv'
  <2> SUFFICES ASSUME FilesInv, AsksInv, [Next]_vars
               PROVE  AsksInv'
    OBVIOUS
  <2>1. changes' \in Nat /\ faults' \in Nat
    BY CountersKeep DEF AsksInv
  <2>2. ASSUME NEW d \in Devices
        PROVE  Asks(d)'
    <3>1. Asks(d) /\ Goes(d)
      BY AllGo DEF AsksInv
    <3> QED BY <3>1, GoesKeeps
  <2> QED BY <2>1, <2>2 DEF AsksInv
<1> QED BY <1>1, <1>2, FilesInvariant, PTL DEF Spec, WayInv

LEMMA StepIsOneWay ==
  ASSUME WayInv, NEW d \in Devices, NEW e \in Devices, Step(e),
         ~At(d, "rest"), ~Receives(d, run[d].mode)
  PROVE  file'[d] = file[d]
<1>1. CASE UNCHANGED file
  BY <1>1
<1>2. CASE TakePiece(e)
  <2>1. run[e].want # NoRequest
    BY <1>2 DEF TakePiece, Arrived, Waiting
  <2>2. d # e
    BY <2>1 DEF WayInv, AsksInv, Asks
  <2> DEFINE i == run[e].taking.doc
  <2>3. PICK works \in BOOLEAN :
          file' = [file EXCEPT ![e][i] =
                     IF run[e].taking.open /\ works /\ Arriving(e) THEN "whole" ELSE @]
    BY <1>2 DEF TakePiece
  <2> QED BY <2>2, <2>3 DEF WayInv, FilesInv, TypeInv
<1>3. CASE e = Phone /\ TakeStored
  <2>1. d # Phone
    BY <1>3, DevicesAre DEF WayInv, AsksInv, Asks, TakeStored, Receives, Sends
  <2>2. PICK f : file' = [file EXCEPT ![Phone] = f]
    BY <1>3 DEF TakeStored
  <2> QED BY <2>1, <2>2 DEF WayInv, FilesInv, TypeInv
<1> QED BY <1>1, <1>2, <1>3 DEF Step, Begin, TakeHave, TakeNeed, Serve, Served, Fetched,
           TakeSkip, TakeFile, Confirm, PeerGone

\* Who gives files in a sync gets none by it and loses none (files.rs:277), for any
\* documents, budget and bounds: only people, disks and the check of the folder touch them.
THEOREM FilesOneWayTheorem == Spec => FilesOneWay
<1> DEFINE Given(d) == \A i \in Docs : file'[d][i] = file[d][i] \/ ~Live(d, i)
<1>1. ASSUME WayInv, [Next]_vars, NEW d \in Devices,
             ~At(d, "rest"), ~Receives(d, run[d].mode), changes' = changes, faults' = faults
      PROVE  Given(d)
  <2>0. changes' # changes + 1 /\ faults' # faults + 1
    BY <1>1 DEF WayInv, AsksInv
  <2>1. ASSUME UNCHANGED file
        PROVE  Given(d)
    BY <2>1
  <2>2. ASSUME NEW e \in Devices, Step(e)
        PROVE  Given(d)
    BY <1>1, <2>2, StepIsOneWay
  <2>3. ASSUME NEW e \in Devices, Tidy(e)
        PROVE  Given(d)
    <3>1. file' = [file EXCEPT ![e] = [i \in Docs |-> IF Live(e, i) THEN @[i] ELSE "none"]]
      BY <2>3 DEF Tidy
    <3> QED BY <1>1, <3>1 DEF WayInv, FilesInv, TypeInv
  <2>4. \A e \in Devices : ~Person(e) /\ ~Break(e) /\ \A i \in Docs : ~Damage(e, i)
    BY <2>0 DEF Person, Add, AddAgain, Update, Delete, Changes, Break, Damage, Fault
  <2>5. ASSUME NEW mode \in Modes, Start(mode) \/ \E e \in Devices : StartAndBreak(mode, e)
        PROVE  UNCHANGED file
    BY <2>5 DEF Start, StartAndBreak
  <2>6. CASE UNCHANGED vars
    BY <2>1, <2>6 DEF vars
  <2> HIDE DEF Given
  <2> QED BY <1>1, <2>1, <2>2, <2>3, <2>4, <2>5, <2>6 DEF Next
<1>2. WayInv /\ [Next]_vars =>
        [\A d \in Devices :
           /\ ~At(d, "rest") /\ ~Receives(d, run[d].mode)
           /\ changes' = changes /\ faults' = faults
           => \A i \in Docs : file'[d][i] = file[d][i] \/ ~Live(d, i)]_vars
  BY <1>1
<1> QED BY <1>2, WayInvariant, PTL DEF Spec, FilesOneWay

-----------------------------------------------------------------------------
(***************************************************************************)
(* The two sides in step. What is on its way to a device is a beginning of *)
(* what that device waits for, and what the other one has still to send is *)
(* the rest of it.                                                         *)
(***************************************************************************)
\* The messages that answer for a document: its file follows, or it is skipped.
Named(w) == {n \in DOMAIN w : w[n].kind \in {"file", "skip"}}

\* After the n-th message come c pieces, the last of a file, and no further one.
Block(w, n, c) ==
  /\ n + c <= Len(w)
  /\ \A k \in 1..c : w[n + k] = [kind |-> "piece", body |-> k = c]
  /\ n + c + 1 <= Len(w) => w[n + c + 1].kind # "piece"

\* The answer to one document that is still to come, with all of its pieces.
Answer(w, n, want) ==
  /\ w[n].kind = "skip" => Block(w, n, 0)
  /\ w[n].kind = "file" =>
       LET i == w[n].body.doc IN
       w[n].body.from = want[i] /\ want[i] < Sizes[i] /\ Block(w, n, Sizes[i] - want[i])

\* The answers to the documents in open come from the newest on, without a gap, and
\* after all of them what may be let go of.
Way(w, open, want) ==
  /\ \A n \in DOMAIN w : w[n].kind \in {"file", "skip", "piece", "stored"}
  /\ \A n \in Named(w) :
       /\ w[n].body.doc \in open /\ Answer(w, n, want)
       /\ \A m \in Named(w) : n < m => w[m].body.doc < w[n].body.doc
       /\ \A j \in open : w[n].body.doc < j => \E m \in Named(w) : m < n /\ w[m].body.doc = j
  /\ \A n \in DOMAIN w : w[n].kind = "stored" =>
       n = Len(w) /\ \A j \in open : \E m \in Named(w) : w[m].body.doc = j

\* What is asked of a device is what is open and not on its way.
Owes(w, open, want, asked) ==
  /\ \A n \in DOMAIN w : w[n].kind # "stored"
  /\ \A j \in DOMAIN asked : j \in open /\ asked[j] = want[j] /\ \A n \in Named(w) : j < w[n].body.doc
  /\ \A j \in open : j \in DOMAIN asked \/ \E n \in Named(w) : w[n].body.doc = j

\* Of the file that is arriving, where one is, c pieces are still to come.
Pending(w, c, taking, parts) ==
  /\ Block(w, 0, c)
  /\ c = 0 <=> taking = NotTaking
  /\ taking.open => parts[taking.doc] + c = Sizes[taking.doc]

\* What d wants and has had no answer for.
Open(d) == DOMAIN run[d].want \ {run[d].taking.doc}
Working == {"serve", "fetch", "stored"}

\* A request has come; the desktop may find the phone's answers behind it.
Ahead(d) == At(d, "need") /\ wire[d] # <<>>
Files(d) == IF At(d, "need") THEN Tail(wire[d]) ELSE wire[d]

\* What is on its way to d, once files may be: the rest of the file it takes, and the
\* answers to what is open.
Coming(d) ==
  /\ Way(Files(d), Open(d), run[d].want)
  /\ run[d].taking # NotTaking => run[d].taking.doc = Newest(run[d].want)
  /\ \E c \in Nat : Pending(Files(d), c, run[d].taking, part[d])

One(w, kind) == w = <<>> \/ (Len(w) = 1 /\ w[1].kind = kind)

\* The steps before the files, and what is done with after a step.
Early(d) ==
  /\ At(d, "rest") => wire[d] = <<>>
  /\ At(d, "begin") => One(wire[d], "have") /\ (d = Desktop => wire[d] = <<>>)
  /\ At(d, "have") => One(wire[d], "have")
  /\ Ahead(d) => wire[d][1].kind = "need" /\ (d = Phone => Len(wire[d]) = 1)
  /\ run[d].at \notin Working => run[d].spent = 0 /\ run[d].asked = NoRequest
  /\ At(d, "stored") => run[d].want = NoRequest /\ run[d].asked = NoRequest
  /\ d = Phone /\ At(d, "serve") => run[d].want = NoRequest
  /\ d = Desktop /\ At(d, "fetch") => run[d].asked = NoRequest

\* What d still waits for is on its way, or still to be served.
Owing(d) == Owes(Files(d), Open(d), run[d].want, run[Other(d)].asked)

\* How far both are, while both are there.
Together ==
  \/ At(Desktop, "rest") \/ At(Phone, "rest")
  \/ /\ At(Desktop, "begin") /\ run[Phone].at \in {"begin", "have"}
     /\ wire[Desktop] = <<>> /\ wire[Phone] = <<>>
  \/ /\ At(Desktop, "have") /\ run[Phone].at \in {"begin", "have"}
     /\ wire[Desktop] = <<>> /\ wire[Phone] # <<>>
  \/ At(Desktop, "have") /\ At(Phone, "need") /\ wire[Desktop] # <<>> /\ wire[Phone] = <<>>
  \/ /\ At(Desktop, "need") /\ At(Phone, "need")
     /\ wire[Desktop] = <<>> /\ wire[Phone] = Message("need", run[Desktop].want)
  \/ /\ Ahead(Desktop) /\ run[Phone].at \in Working /\ wire[Phone] = <<>>
     /\ wire[Desktop][1].body = run[Phone].want /\ Owing(Desktop)
  \/ run[Desktop].at \in Working /\ run[Phone].at \in Working /\ Owing(Desktop) /\ Owing(Phone)

\* The sum of what documents cost.
Sum(cost) ==
  LET upTo[i \in 0..LastDoc] == IF i = 0 THEN 0 ELSE upTo[i - 1] + cost[i]
  IN  upTo[LastDoc]

\* What each document of a request costs, all of them or those that are live.
Whole(q) == [i \in Docs |-> IF i \in DOMAIN q THEN Sizes[i] - q[i] ELSE 0]
Lively(q, live) == [i \in Docs |-> IF i \in DOMAIN q /\ i \in live THEN Sizes[i] - q[i] ELSE 0]
Fits(q) == \A i \in DOMAIN q : q[i] < Sizes[i]
Known(docs) == \A i \in docs : rows[Phone][i].state # "none"
Alive == {i \in Docs : Live(Phone, i)}

\* The request a device will find when it is done with its own.
Found(d) == IF Ahead(d) THEN Head(wire[d]).body ELSE NoRequest

\* What each may still come to send.
DesktopSends == run[Desktop].spent + Sum(Whole(run[Desktop].asked)) + Sum(Whole(Found(Desktop)))
PhoneSends == run[Phone].spent + Sum(Lively(run[Phone].asked, Alive))

\* The two shares of the budget, of documents the phone knows: one it knows may be
\* deleted there, which lowers what it sends, but never comes to life again in a sync.
Asked(d) == Fits(run[d].asked) /\ Fits(Found(d))
Shared ==
  /\ \A d \in Devices, i \in Docs : part[d][i] < Sizes[i]
  /\ \A d \in Devices : Asked(d)
  /\ Known(run[Phone].mine) /\ Known(DOMAIN run[Phone].asked) /\ Known(DOMAIN Found(Phone))
  /\ At(Desktop, "have") /\ wire[Desktop] # <<>> => Known(Head(wire[Desktop]).body)
  /\ Sum(Whole(Found(Phone))) <= Budget
  /\ DesktopSends + PhoneSends <= Budget

\* What a device sees of the sync.
Begun(d) == run[d].at \in Working \/ Ahead(d)
View(d) == Early(d) /\ (Begun(d) => Coming(d))
StepInv == (\A d \in Devices : View(d)) /\ Together /\ Shared
-----------------------------------------------------------------------------
(***************************************************************************)
(* Sums over the documents. A fact about every document is proved by the   *)
(* oldest one it would not hold of.                                        *)
(***************************************************************************)
LEMMA OneIsOldest ==
  ASSUME NEW some \in SUBSET Docs, some # {}
  PROVE  \E i \in some : \A j \in some : i <= j
<1>0. LastDoc \in Nat
  BY DocsAssumption
<1> DEFINE turned == {n \in Docs : LastDoc + 1 - n \in some}
<1>1. \A i \in some : LastDoc + 1 - i \in turned
  BY <1>0 DEF Docs
<1>2. turned \in SUBSET Docs /\ turned # {}
  BY <1>1
<1>3. PICK n \in turned : \A m \in turned : m <= n
  BY <1>2, OneIsNewest
<1>4. \A j \in some : LastDoc + 1 - n <= j
  <2>1. TAKE j \in some
  <2>2. LastDoc + 1 - j <= n
    BY <1>1, <1>3
  <2> QED BY <2>2, <1>0, <1>3 DEF Docs
<1> QED BY <1>3, <1>4

\* A function that is given by its first value and by how each follows from the one before.
Follows(f, n, first, step) ==
  f \in [0..n -> Int] /\ f[0] = first /\ \A i \in 1..n : f[i] = step[<<i, f[i - 1]>>]

LEMMA SomethingFollows ==
  ASSUME NEW first \in Int, NEW step \in [Docs \X Int -> Int]
  PROVE  \E f : Follows(f, LastDoc, first, step)
<1>0. LastDoc \in Nat
  BY DocsAssumption
<1> DEFINE good(n) == \E f : Follows(f, n, first, step)
           bad == {n \in Docs : ~good(n)}
<1>1. good(0)
  <2> DEFINE f == [i \in 0..0 |-> first]
  <2>1. Follows(f, 0, first, step)
    BY DEF Follows
  <2> QED BY <2>1
<1>2. \A n \in Docs : good(n - 1) => good(n)
  <2> SUFFICES ASSUME NEW n \in Docs, NEW f, Follows(f, n - 1, first, step)
               PROVE  \E g : Follows(g, n, first, step)
    OBVIOUS
  <2>1. n \in Nat \ {0} /\ f \in [0..n - 1 -> Int] /\ f[n - 1] \in Int /\ f[0] = first
    BY <1>0 DEF Docs, Follows
  <2> DEFINE next == step[<<n, f[n - 1]>>]
             g == [i \in 0..n |-> IF i = n THEN next ELSE f[i]]
  <2>2. next \in Int
    BY <2>1
  <2>3. g \in [0..n -> Int] /\ g[0] = first /\ g[n] = step[<<n, g[n - 1]>>]
    <3>1. 0 \in 0..n /\ n \in 0..n /\ n - 1 \in 0..n /\ n - 1 # n /\ 0 # n /\ \A i \in 0..n : i # n => i \in 0..n - 1
      BY <2>1
    <3>2. g \in [0..n -> Int]
      BY <2>1, <2>2, <3>1
    <3>3. g[0] = f[0] /\ g[n] = next /\ g[n - 1] = f[n - 1]
      BY <3>1
    <3> QED BY <2>1, <3>2, <3>3
  <2>4. \A i \in 1..n - 1 : g[i] = f[i] /\ g[i - 1] = f[i - 1]
    BY <2>1
  <2>5. \A i \in 1..n - 1 : f[i] = step[<<i, f[i - 1]>>]
    BY DEF Follows
  <2> HIDE DEF g, next
  <2>6. \A i \in 1..n : g[i] = step[<<i, g[i - 1]>>]
    <3>1. TAKE i \in 1..n
    <3>2. CASE i = n
      BY <3>2, <2>3
    <3>3. CASE i # n
      <4>1. i \in 1..n - 1
        BY <3>3, <2>1
      <4> QED BY <4>1, <2>4, <2>5
    <3> QED BY <3>2, <3>3
  <2> QED BY <2>3, <2>6 DEF Follows
<1> HIDE DEF good
<1>3. bad = {}
  <2> SUFFICES ASSUME bad # {}
               PROVE  FALSE
    OBVIOUS
  <2>1. PICK n \in bad : \A m \in bad : n <= m
    BY OneIsOldest
  <2>2. n - 1 \notin bad /\ n \in Nat \ {0}
    BY <2>1, <1>0 DEF Docs
  <2>3. n - 1 = 0 \/ n - 1 \in Docs
    BY <2>1, <1>0 DEF Docs
  <2>4. good(n - 1)
    BY <2>2, <2>3, <1>1
  <2> QED BY <2>1, <2>4, <1>2
<1>4. good(LastDoc)
  <2>1. LastDoc = 0 \/ LastDoc \in Docs
    BY <1>0 DEF Docs
  <2> QED BY <2>1, <1>1, <1>3
<1> QED BY <1>4 DEF good

\* How much the first documents cost.
Adds(u, cost) == DOMAIN u = 0..LastDoc /\ u[0] = 0 /\ \A i \in Docs : u[i] = u[i - 1] + cost[i]

LEMMA DocsBefore == LastDoc \in Nat /\ LastDoc \in 0..LastDoc /\ 0 \in 0..LastDoc /\ \A i \in Docs : i \in 0..LastDoc /\ i - 1 \in 0..LastDoc /\ i # 0
BY DocsAssumption DEF Docs

LEMMA AddsOnce ==
  ASSUME NEW cost, NEW u, NEW v, Adds(u, cost), Adds(v, cost)
  PROVE  \A i \in 0..LastDoc : u[i] = v[i]
<1>0. LastDoc \in Nat
  BY DocsAssumption
<1> DEFINE apart == {i \in Docs : u[i] # v[i]}
<1>1. apart = {}
  <2> SUFFICES ASSUME apart # {}
               PROVE  FALSE
    OBVIOUS
  <2>1. PICK n \in apart : \A m \in apart : n <= m
    BY OneIsOldest
  <2>2. n - 1 \notin apart /\ (n - 1 = 0 \/ n - 1 \in Docs)
    BY <2>1, <1>0 DEF Docs
  <2>3. u[n - 1] = v[n - 1]
    BY <2>2 DEF Adds
  <2>4. u[n] = u[n - 1] + cost[n] /\ v[n] = v[n - 1] + cost[n]
    BY <2>1 DEF Adds
  <2> QED BY <2>1, <2>3, <2>4
<1>2. \A i \in 0..LastDoc : i = 0 \/ i \in Docs
  BY <1>0 DEF Docs
<1> QED BY <1>1, <1>2 DEF Adds

LEMMA SumIs ==
  ASSUME NEW cost \in [Docs -> Int]
  PROVE  \E u : u \in [0..LastDoc -> Int] /\ Adds(u, cost) /\ u[LastDoc] = Sum(cost) /\ Sum(cost) \in Int
<1> DEFINE step == [p \in Docs \X Int |-> p[2] + cost[p[1]]]
<1>1. step \in [Docs \X Int -> Int]
  OBVIOUS
<1>2. PICK f : Follows(f, LastDoc, 0, step)
  <2> HIDE DEF step
  <2> QED BY <1>1, SomethingFollows
<1>3. f \in [0..LastDoc -> Int] /\ f[0] = 0
  BY <1>2 DEF Follows
<1>4. \A i \in Docs : f[i] = f[i - 1] + cost[i]
  <2>1. TAKE i \in Docs
  <2>2. f[i] = step[<<i, f[i - 1]>>]
    BY <1>2 DEF Follows, Docs
  <2>3. f[i - 1] \in Int
    BY <1>3, DocsBefore
  <2> QED BY <2>2, <2>3
<1> HIDE DEF step
<1>5. Adds(f, cost)
  BY <1>3, <1>4 DEF Adds
<1> DEFINE rule(u) == [i \in 0..LastDoc |-> IF i = 0 THEN 0 ELSE u[i - 1] + cost[i]]
<1>6. f = rule(f)
  <2>1. \A i \in 0..LastDoc : i # 0 => i \in Docs
    BY DocsBefore DEF Docs
  <2>2. \A i \in 0..LastDoc : f[i] = IF i = 0 THEN 0 ELSE f[i - 1] + cost[i]
    BY <1>3, <1>4, <2>1
  <2> QED BY <1>3, <2>2
<1> DEFINE upTo == CHOOSE u : u = rule(u)
<1>7. upTo = rule(upTo)
  <2> HIDE DEF rule
  <2> QED BY <1>6
<1>8. Sum(cost) = upTo[LastDoc]
  BY DEF Sum
<1> HIDE DEF upTo
<1>9. Adds(upTo, cost)
  <2>1. DOMAIN upTo = 0..LastDoc
    BY <1>7
  <2>2. \A i \in 0..LastDoc : upTo[i] = IF i = 0 THEN 0 ELSE upTo[i - 1] + cost[i]
    BY <1>7
  <2> HIDE DEF rule
  <2> QED BY <2>1, <2>2, DocsBefore DEF Adds
<1>10. f[LastDoc] = upTo[LastDoc]
  BY <1>5, <1>9, AddsOnce, DocsBefore
<1> QED BY <1>3, <1>5, <1>8, <1>10, DocsBefore

LEMMA SumLess ==
  ASSUME NEW cost \in [Docs -> Int], NEW more \in [Docs -> Int], \A i \in Docs : cost[i] <= more[i]
  PROVE  Sum(cost) <= Sum(more)
<1>1. PICK u : u \in [0..LastDoc -> Int] /\ Adds(u, cost) /\ u[LastDoc] = Sum(cost)
  BY SumIs
<1>2. PICK v : v \in [0..LastDoc -> Int] /\ Adds(v, more) /\ v[LastDoc] = Sum(more)
  BY SumIs
<1> DEFINE above == {i \in Docs : ~(u[i] <= v[i])}
<1>3. above = {}
  <2> SUFFICES ASSUME above # {}
               PROVE  FALSE
    OBVIOUS
  <2>1. PICK n \in above : \A m \in above : n <= m
    BY OneIsOldest
  <2>2. n - 1 \notin above /\ (n - 1 = 0 \/ n - 1 \in Docs)
    BY <2>1, DocsBefore DEF Docs
  <2>3. u[n - 1] <= v[n - 1]
    BY <1>1, <1>2, <2>2 DEF Adds
  <2>4. u[n] = u[n - 1] + cost[n] /\ v[n] = v[n - 1] + more[n]
    BY <2>1, <1>1, <1>2 DEF Adds
  <2>5. {u[n - 1], v[n - 1], u[n], v[n], cost[n], more[n]} \subseteq Int /\ cost[n] <= more[n]
    BY <2>1, <1>1, <1>2, DocsBefore
  <2> QED BY <2>1, <2>3, <2>4, <2>5
<1>4. LastDoc = 0 \/ LastDoc \in Docs
  BY DocsBefore DEF Docs
<1> QED BY <1>1, <1>2, <1>3, <1>4 DEF Adds

LEMMA SumNone ==
  ASSUME NEW cost, \A i \in Docs : cost[i] = 0, cost \in [Docs -> Int]
  PROVE  Sum(cost) = 0
<1>1. PICK u : u \in [0..LastDoc -> Int] /\ Adds(u, cost) /\ u[LastDoc] = Sum(cost)
  BY SumIs
<1> DEFINE none == [i \in 0..LastDoc |-> 0]
<1>2. Adds(none, cost)
  BY DocsBefore DEF Adds
<1>3. u[LastDoc] = none[LastDoc]
  <2> HIDE DEF none
  <2> QED BY <1>1, <1>2, AddsOnce, DocsBefore
<1> QED BY <1>1, <1>3, DocsBefore

LEMMA SumNat ==
  ASSUME NEW cost \in [Docs -> Nat]
  PROVE  Sum(cost) \in Nat
<1> DEFINE none == [i \in Docs |-> 0]
<1>1. cost \in [Docs -> Int] /\ none \in [Docs -> Int] /\ \A i \in Docs : none[i] = 0 /\ none[i] <= cost[i]
  OBVIOUS
<1> HIDE DEF none
<1>2. Sum(none) = 0 /\ Sum(none) <= Sum(cost)
  BY <1>1, SumNone, SumLess
<1>3. Sum(cost) \in Int
  BY <1>1, SumIs
<1> QED BY <1>2, <1>3

\* One document more.
LEMMA SumOneMore ==
  ASSUME NEW cost \in [Docs -> Int], NEW rest \in [Docs -> Int], NEW one \in Docs,
         rest[one] = 0, \A i \in Docs : i # one => rest[i] = cost[i]
  PROVE  Sum(cost) = Sum(rest) + cost[one]
<1>1. PICK u : u \in [0..LastDoc -> Int] /\ Adds(u, cost) /\ u[LastDoc] = Sum(cost)
  BY SumIs
<1>2. PICK v : v \in [0..LastDoc -> Int] /\ Adds(v, rest) /\ v[LastDoc] = Sum(rest)
  BY SumIs
<1> DEFINE w == [i \in 0..LastDoc |-> IF i < one THEN v[i] ELSE v[i] + cost[one]]
<1>3. Adds(w, cost)
  <2>1. w[0] = 0
    BY <1>2, DocsBefore DEF Adds, Docs
  <2>2. \A i \in Docs : w[i] = w[i - 1] + cost[i]
    <3>1. TAKE i \in Docs
    <3>2. /\ w[i] = IF i < one THEN v[i] ELSE v[i] + cost[one]
          /\ w[i - 1] = IF i - 1 < one THEN v[i - 1] ELSE v[i - 1] + cost[one]
      BY DocsBefore
    <3>3. v[i] = v[i - 1] + rest[i]
      BY <1>2 DEF Adds
    <3>4. {v[i], v[i - 1], rest[i], cost[i], cost[one]} \subseteq Int /\ i \in Int /\ one \in Int
      BY <1>2, DocsBefore DEF Docs
    <3>5. i = one => rest[i] = 0
      OBVIOUS
    <3>6. i # one => rest[i] = cost[i]
      OBVIOUS
    <3> HIDE DEF w
    <3>7. CASE i < one
      BY <3>2, <3>3, <3>4, <3>6, <3>7
    <3>8. CASE i = one
      BY <3>2, <3>3, <3>4, <3>5, <3>8
    <3>9. CASE one < i
      BY <3>2, <3>3, <3>4, <3>6, <3>9
    <3> QED BY <3>4, <3>7, <3>8, <3>9
  <2>3. DOMAIN w = 0..LastDoc
    OBVIOUS
  <2> HIDE DEF w
  <2> QED BY <2>1, <2>2, <2>3 DEF Adds
<1>4. w[LastDoc] = v[LastDoc] + cost[one]
  BY DocsBefore DEF Docs
<1>5. u[LastDoc] = w[LastDoc]
  <2> HIDE DEF w
  <2> QED BY <1>1, <1>3, AddsOnce, DocsBefore
<1> QED BY <1>1, <1>2, <1>4, <1>5

-----------------------------------------------------------------------------
(***************************************************************************)
(* What requests cost.                                                     *)
(***************************************************************************)
LEMMA CostsAre ==
  ASSUME NEW q \in Requests, NEW live
  PROVE  /\ Whole(q) \in [Docs -> Int] /\ Lively(q, live) \in [Docs -> Int]
         /\ Fits(q) => Whole(q) \in [Docs -> Nat] /\ Lively(q, live) \in [Docs -> Nat]
         /\ Fits(q) => Sum(Lively(q, live)) \in Nat /\ Sum(Whole(q)) \in Nat /\ Sum(Lively(q, live)) <= Sum(Whole(q))
<1>1. DOMAIN q \in SUBSET Docs /\ q \in [DOMAIN q -> Nat] /\ Sizes \in [Docs -> Nat \ {0}]
  BY RequestsAre, DocsAssumption
<1>2. Whole(q) \in [Docs -> Int] /\ Lively(q, live) \in [Docs -> Int]
  BY <1>1 DEF Whole, Lively
<1>3. Fits(q) => Whole(q) \in [Docs -> Nat] /\ Lively(q, live) \in [Docs -> Nat]
  <2> SUFFICES ASSUME Fits(q)
               PROVE  Whole(q) \in [Docs -> Nat] /\ Lively(q, live) \in [Docs -> Nat]
    OBVIOUS
  <2>1. \A i \in DOMAIN q : Sizes[i] - q[i] \in Nat
    BY <1>1 DEF Fits
  <2> QED BY <2>1 DEF Whole, Lively
<1>4. Fits(q) => \A i \in Docs : Lively(q, live)[i] <= Whole(q)[i]
  <2> SUFFICES ASSUME Fits(q), NEW i \in Docs
               PROVE  Lively(q, live)[i] <= Whole(q)[i]
    OBVIOUS
  <2>1. Whole(q)[i] \in Nat /\ (Lively(q, live)[i] = Whole(q)[i] \/ Lively(q, live)[i] = 0)
    BY <1>3 DEF Whole, Lively
  <2> QED BY <2>1
<1> QED BY <1>2, <1>3, <1>4, SumNat, SumLess

LEMMA CostsOfNone ==
  /\ Sum(Whole(NoRequest)) = 0 /\ \A live : Sum(Lively(NoRequest, live)) = 0
  /\ Fits(NoRequest) /\ DOMAIN NoRequest = {} /\ NoRequest \in Requests
<1>1. DOMAIN NoRequest = {}
  BY DEF NoRequest
<1>2. \A i \in Docs : Whole(NoRequest)[i] = 0 /\ \A live : Lively(NoRequest, live)[i] = 0
  BY <1>1 DEF Whole, Lively
<1>3. Whole(NoRequest) \in [Docs -> Int] /\ \A live : Lively(NoRequest, live) \in [Docs -> Int]
  BY CostsAre, RequestsAre
<1> QED BY <1>1, <1>2, <1>3, SumNone, RequestsAre DEF Fits

\* A document that was answered.
LEMMA CostsWithout ==
  ASSUME NEW q \in Requests, NEW live, Fits(q), NEW i \in DOMAIN q
  PROVE  /\ Fits(Without(q, i))
         /\ Sum(Whole(q)) = Sum(Whole(Without(q, i))) + (Sizes[i] - q[i])
         /\ Sum(Lively(q, live)) = Sum(Lively(Without(q, i), live)) + IF i \in live THEN Sizes[i] - q[i] ELSE 0
<1> DEFINE rest == Without(q, i)
<1>1. rest \in Requests /\ DOMAIN rest = DOMAIN q \ {i} /\ \A j \in DOMAIN rest : rest[j] = q[j]
  BY WithoutIsRequest DEF Without
<1>2. DOMAIN q \in SUBSET Docs /\ i \in Docs
  BY RequestsAre
<1> HIDE DEF rest
<1>3. Fits(rest)
  BY <1>1 DEF Fits
<1>4. Whole(rest)[i] = 0 /\ Lively(rest, live)[i] = 0
  BY <1>1, <1>2 DEF Whole, Lively
<1>5. \A j \in Docs : j # i => Whole(rest)[j] = Whole(q)[j] /\ Lively(rest, live)[j] = Lively(q, live)[j]
  BY <1>1 DEF Whole, Lively
<1>6. Whole(q)[i] = Sizes[i] - q[i] /\ Lively(q, live)[i] = IF i \in live THEN Sizes[i] - q[i] ELSE 0
  BY <1>2 DEF Whole, Lively
<1>7. {Whole(q), Lively(q, live), Whole(rest), Lively(rest, live)} \subseteq [Docs -> Int]
  BY <1>1, CostsAre
<1>8. Sum(Whole(q)) = Sum(Whole(rest)) + Whole(q)[i]
  BY <1>2, <1>4, <1>5, <1>7, SumOneMore
<1>9. Sum(Lively(q, live)) = Sum(Lively(rest, live)) + Lively(q, live)[i]
  BY <1>2, <1>4, <1>5, <1>7, SumOneMore
<1> QED BY <1>3, <1>6, <1>8, <1>9 DEF rest

LEMMA CostIs ==
  ASSUME NEW q \in Requests
  PROVE  Cost(Phone, q) = Sum(Lively(q, Alive))
<1> DEFINE rule(u) == [i \in 0..LastDoc |->
             IF i = 0 THEN 0 ELSE u[i - 1] + (IF i \in DOMAIN q /\ Live(Phone, i) THEN Sizes[i] - q[i] ELSE 0)]
           upTo == CHOOSE u : u = rule(u)
<1>1. PICK f : f \in [0..LastDoc -> Int] /\ Adds(f, Lively(q, Alive)) /\ f[LastDoc] = Sum(Lively(q, Alive))
  BY CostsAre, SumIs
<1>2. \A i \in 0..LastDoc : i # 0 => i \in Docs
  BY DocsBefore DEF Docs
<1>3. \A i \in Docs : Lively(q, Alive)[i] = IF i \in DOMAIN q /\ Live(Phone, i) THEN Sizes[i] - q[i] ELSE 0
  BY RequestsAre DEF Lively, Alive
<1>4. f = rule(f)
  <2>1. \A i \in 0..LastDoc : f[i] = IF i = 0 THEN 0 ELSE f[i - 1] + (IF i \in DOMAIN q /\ Live(Phone, i) THEN Sizes[i] - q[i] ELSE 0)
    BY <1>1, <1>2, <1>3 DEF Adds
  <2> QED BY <1>1, <2>1
<1>5. upTo = rule(upTo)
  <2> HIDE DEF rule
  <2> QED BY <1>4
<1>6. Cost(Phone, q) = upTo[LastDoc]
  BY DEF Cost
<1> HIDE DEF upTo
<1>7. Adds(upTo, Lively(q, Alive))
  <2>1. DOMAIN upTo = 0..LastDoc
    BY <1>5
  <2>2. \A i \in 0..LastDoc : upTo[i] = IF i = 0 THEN 0 ELSE upTo[i - 1] + (IF i \in DOMAIN q /\ Live(Phone, i) THEN Sizes[i] - q[i] ELSE 0)
    BY <1>5
  <2> HIDE DEF rule
  <2> QED BY <1>3, <2>1, <2>2, DocsBefore DEF Adds
<1> QED BY <1>1, <1>6, <1>7, AddsOnce, DocsBefore

\* What is asked for fits in what is left of the budget.
LEMMA WantedFits ==
  ASSUME NEW d \in Devices, part \in [Devices -> [Docs -> Nat]], \A i \in Docs : part[d][i] < Sizes[i],
         NEW theirs \in SUBSET Docs, NEW budget \in Nat
  PROVE  /\ DOMAIN Wanted(d, theirs, budget) \subseteq theirs /\ Fits(Wanted(d, theirs, budget))
         /\ Sum(Whole(Wanted(d, theirs, budget))) <= budget
<1> DEFINE lacks == Lacks(d, theirs)
           come == [i \in Docs |-> ToCome(d, i)]
           rule(f) == [i \in 1..LastDoc + 1 |->
             IF i = LastDoc + 1 THEN budget
             ELSE IF i \in lacks /\ ToCome(d, i) <= f[i + 1] THEN f[i + 1] - ToCome(d, i) ELSE f[i + 1]]
           left == CHOOSE f : f = rule(f)
           want == [i \in {j \in lacks : ToCome(d, j) <= left[j + 1]} |-> part[d][i]]
<1>0. lacks \in SUBSET Docs /\ lacks \subseteq theirs /\ LastDoc \in Nat
  BY DocsAssumption DEF Lacks
<1>1. \A i \in Docs : ToCome(d, i) \in Nat \ {0} /\ ToCome(d, i) = Sizes[i] - part[d][i]
  BY DocsAssumption DEF ToCome
<1>2. come \in [Docs -> Nat] /\ \A i \in Docs : come[i] = ToCome(d, i)
  BY <1>1
<1>3. Wanted(d, theirs, budget) = want
  BY DEF Wanted
<1> HIDE DEF come
<1> HIDE DEF lacks
<1> DEFINE turned(n) == LastDoc + 1 - n
           step == [p \in Docs \X Int |->
             IF turned(p[1]) \in lacks /\ come[turned(p[1])] <= p[2] THEN p[2] - come[turned(p[1])] ELSE p[2]]
<1>4. \A n \in Docs : turned(n) \in Docs /\ come[turned(n)] \in Nat
  BY <1>0, <1>2 DEF Docs
<1>5. step \in [Docs \X Int -> Int]
  BY <1>4
<1>6. PICK h : Follows(h, LastDoc, budget, step)
  <2>1. budget \in Int
    OBVIOUS
  <2> HIDE DEF step
  <2> QED BY <2>1, <1>5, SomethingFollows
<1>7. h \in [0..LastDoc -> Int] /\ h[0] = budget
  BY <1>6 DEF Follows
<1>8. \A n \in Docs : h[n] = IF turned(n) \in lacks /\ come[turned(n)] <= h[n - 1] THEN h[n - 1] - come[turned(n)] ELSE h[n - 1]
  <2>1. TAKE n \in Docs
  <2>2. h[n] = step[<<n, h[n - 1]>>] /\ h[n - 1] \in Int
    BY <1>6, <1>7, DocsBefore DEF Follows, Docs
  <2> QED BY <2>2
<1> HIDE DEF step
<1> DEFINE g == [i \in 1..LastDoc + 1 |-> h[turned(i)]]
<1>9. g = rule(g)
  <2>1. g[LastDoc + 1] = budget
    BY <1>0, <1>7
  <2>2. \A i \in Docs : g[i] = IF i \in lacks /\ ToCome(d, i) <= g[i + 1] THEN g[i + 1] - ToCome(d, i) ELSE g[i + 1]
    <3>1. TAKE i \in Docs
    <3>2. turned(i) \in Docs /\ turned(turned(i)) = i /\ turned(i) - 1 = turned(i + 1)
      BY <1>0 DEF Docs
    <3>3. g[i] = h[turned(i)] /\ g[i + 1] = h[turned(i) - 1]
      BY <1>0, <3>2 DEF Docs
    <3>4. come[i] = ToCome(d, i)
      BY <1>2
    <3> HIDE DEF g, turned
    <3> QED BY <1>8, <3>2, <3>3, <3>4
  <2>3. \A i \in 1..LastDoc + 1 : i = LastDoc + 1 \/ i \in Docs
    BY <1>0 DEF Docs
  <2> HIDE DEF turned
  <2>4. \A i \in 1..LastDoc + 1 : g[i] = rule(g)[i]
    <3> HIDE DEF g
    <3> QED BY <2>1, <2>2, <2>3
  <2> QED BY <2>4
<1>10. left = rule(left)
  <2> HIDE DEF rule
  <2> QED BY <1>9
<1> HIDE DEF left, g
<1>11. /\ left[LastDoc + 1] = budget
       /\ \A i \in Docs : left[i] = IF i \in lacks /\ come[i] <= left[i + 1] THEN left[i + 1] - come[i] ELSE left[i + 1]
  <2>1. \A i \in 1..LastDoc + 1 : left[i] = rule(left)[i]
    BY <1>10
  <2>2. LastDoc + 1 \in 1..LastDoc + 1 /\ \A i \in Docs : i \in 1..LastDoc + 1 /\ i # LastDoc + 1
    BY <1>0 DEF Docs
  <2> QED BY <1>2, <2>1, <2>2
<1>12. \A i \in Docs : i \in DOMAIN want <=> i \in lacks /\ come[i] <= left[i + 1]
  BY <1>0, <1>2
<1>13. DOMAIN want \subseteq lacks /\ \A i \in DOMAIN want : want[i] = part[d][i]
  OBVIOUS
<1> HIDE DEF want, rule
<1>14. Fits(want) /\ want \in Requests
  <2>1. DOMAIN want \in SUBSET Docs
    BY <1>0, <1>13
  <2>2. \A i \in DOMAIN want : want[i] \in Nat
    BY <1>13, <2>1
  <2>3. want \in [DOMAIN want -> Nat]
    BY <2>2 DEF want
  <2> QED BY <1>0, <1>13, <2>1, <2>3, RequestsAre DEF Fits
<1>15. \A i \in Docs : Whole(want)[i] = IF i \in DOMAIN want THEN come[i] ELSE 0
  BY <1>1, <1>2, <1>13 DEF Whole
<1>16. \A i \in Docs : left[i + 1] \in Nat => left[i] \in Nat /\ left[i + 1] = left[i] + Whole(want)[i]
  <2>1. TAKE i \in Docs
  <2>2. come[i] \in Nat
    BY <1>2
  <2> QED BY <2>2, <1>11, <1>12, <1>15
\* From the newest on there is something left or nothing more was asked for.
<1>17. \A i \in Docs : left[i] \in Nat
  <2> DEFINE lost == {i \in Docs : left[i] \notin Nat}
  <2> SUFFICES ASSUME lost # {}
               PROVE  FALSE
    OBVIOUS
  <2>1. PICK i \in lost : \A j \in lost : j <= i
    BY OneIsNewest
  <2>2. i + 1 \notin lost /\ (i + 1 \in Docs \/ i + 1 = LastDoc + 1)
    BY <2>1, <1>0 DEF Docs
  <2>3. left[i + 1] \in Nat
    BY <2>2, <1>11
  <2> QED BY <2>1, <2>3, <1>16
<1>18. \A i \in Docs : left[i + 1] \in Nat
  <2>1. \A i \in Docs : i + 1 \in Docs \/ i + 1 = LastDoc + 1
    BY <1>0 DEF Docs
  <2> QED BY <2>1, <1>11, <1>17
<1> DEFINE u == [i \in 0..LastDoc |-> left[i + 1] - left[1]]
<1>19. left[1] \in Nat
  <2>1. 1 \in Docs \/ 1 = LastDoc + 1
    BY <1>0 DEF Docs
  <2> QED BY <2>1, <1>11, <1>17
<1>20. Adds(u, Whole(want))
  <2>1. u[0] = 0
    BY <1>0, <1>19
  <2>2. \A i \in Docs : u[i] = u[i - 1] + Whole(want)[i]
    <3>1. TAKE i \in Docs
    <3>2. u[i] = left[i + 1] - left[1] /\ u[i - 1] = left[i] - left[1]
      BY DocsBefore DEF Docs
    <3>3. Whole(want)[i] \in Int
      BY <1>14, CostsAre
    <3> HIDE DEF u
    <3> QED BY <3>2, <3>3, <1>16, <1>17, <1>18, <1>19
  <2>3. DOMAIN u = 0..LastDoc
    OBVIOUS
  <2> HIDE DEF u
  <2> QED BY <2>1, <2>2, <2>3 DEF Adds
<1>21. Sum(Whole(want)) = budget - left[1]
  <2>1. u[LastDoc] = budget - left[1]
    BY <1>0, <1>11, DocsBefore
  <2>2. PICK v : Adds(v, Whole(want)) /\ v[LastDoc] = Sum(Whole(want))
    BY <1>14, CostsAre, SumIs
  <2>3. u[LastDoc] = v[LastDoc]
    <3> HIDE DEF u
    <3> QED BY <1>20, <2>2, AddsOnce, DocsBefore
  <2> QED BY <2>1, <2>2, <2>3
<1> QED BY <1>0, <1>3, <1>13, <1>14, <1>19, <1>21

-----------------------------------------------------------------------------
(***************************************************************************)
(* What is on its way: taking the first message, sending one more.         *)
(***************************************************************************)
LEMMA DocsInOrder == \A i, j \in Docs : i \in Nat /\ (i < j => i # j /\ ~(j < i)) /\ (i < j \/ i = j \/ j < i)
BY DocsAssumption DEF Docs

LEMMA TailIs ==
  ASSUME NEW S, NEW w \in Seq(S), w # <<>>
  PROVE  /\ Tail(w) \in Seq(S) /\ Len(w) \in Nat \ {0} /\ Len(Tail(w)) = Len(w) - 1 /\ w[1] = Head(w)
         /\ \A n \in 1..Len(w) - 1 : Tail(w)[n] = w[n + 1]
OBVIOUS

LEMMA JoinIs ==
  ASSUME NEW S, NEW w \in Seq(S), NEW v \in Seq(S)
  PROVE  /\ w \o v \in Seq(S) /\ Len(w) \in Nat /\ Len(v) \in Nat /\ Len(w \o v) = Len(w) + Len(v)
         /\ DOMAIN w = 1..Len(w) /\ DOMAIN v = 1..Len(v) /\ DOMAIN (w \o v) = 1..Len(w) + Len(v)
         /\ \A n \in DOMAIN w : (w \o v)[n] = w[n]
         /\ \A n \in DOMAIN v : (w \o v)[Len(w) + n] = v[n]
OBVIOUS

LEMMA EmptyIs ==
  ASSUME NEW S, NEW w \in Seq(S)
  PROVE  w = <<>> <=> Len(w) = 0
OBVIOUS

LEMMA BlockTail ==
  ASSUME NEW S, NEW w \in Seq(S), w # <<>>, NEW n \in Nat \ {0}, NEW c \in Nat, Block(w, n, c)
  PROVE  Block(Tail(w), n - 1, c)
<1>1. /\ Len(w) \in Nat \ {0} /\ Len(Tail(w)) = Len(w) - 1
      /\ \A k \in 1..Len(w) - 1 : Tail(w)[k] = w[k + 1]
  BY TailIs
<1>2. n + c <= Len(w)
  BY DEF Block
<1>3. \A k \in 1..c : Tail(w)[(n - 1) + k] = [kind |-> "piece", body |-> k = c]
  <2>1. TAKE k \in 1..c
  <2>2. (n - 1) + k \in 1..Len(w) - 1 /\ ((n - 1) + k) + 1 = n + k
    BY <1>1, <1>2
  <2>3. Tail(w)[(n - 1) + k] = w[n + k]
    BY <1>1, <2>2
  <2> QED BY <2>3 DEF Block
<1>4. (n - 1) + c + 1 <= Len(Tail(w)) => Tail(w)[(n - 1) + c + 1].kind # "piece"
  <2> SUFFICES ASSUME (n - 1) + c + 1 <= Len(Tail(w))
               PROVE  Tail(w)[(n - 1) + c + 1].kind # "piece"
    OBVIOUS
  <2>1. (n - 1) + c + 1 \in 1..Len(w) - 1 /\ ((n - 1) + c + 1) + 1 = n + c + 1 /\ n + c + 1 <= Len(w)
    BY <1>1, <1>2
  <2>2. Tail(w)[(n - 1) + c + 1] = w[n + c + 1]
    BY <1>1, <2>1
  <2> QED BY <2>1, <2>2 DEF Block
<1>5. (n - 1) + c <= Len(Tail(w))
  BY <1>1, <1>2
<1> QED BY <1>3, <1>4, <1>5 DEF Block

LEMMA BlockPiece ==
  ASSUME NEW S, NEW w \in Seq(S), NEW c \in Nat \ {0}, Block(w, 0, c)
  PROVE  w # <<>> /\ w[1] = [kind |-> "piece", body |-> 1 = c] /\ Block(Tail(w), 0, c - 1)
<1>1. c <= Len(w) /\ 1 \in 1..c
  BY DEF Block
<1>2. w # <<>>
  BY <1>1
<1>3. w[0 + 1] = [kind |-> "piece", body |-> 1 = c]
  BY <1>1 DEF Block
<1>4. /\ Len(w) \in Nat \ {0} /\ Len(Tail(w)) = Len(w) - 1
      /\ \A k \in 1..Len(w) - 1 : Tail(w)[k] = w[k + 1]
  BY <1>2, TailIs
<1>5. \A k \in 1..c - 1 : Tail(w)[0 + k] = [kind |-> "piece", body |-> k = c - 1]
  <2>1. TAKE k \in 1..c - 1
  <2>2. k \in 1..Len(w) - 1 /\ k + 1 \in 1..c /\ (k + 1 = c <=> k = c - 1)
    BY <1>1, <1>4
  <2>3. w[0 + (k + 1)] = [kind |-> "piece", body |-> k + 1 = c]
    BY <2>2 DEF Block
  <2> QED BY <1>4, <2>2, <2>3
<1>6. 0 + (c - 1) + 1 <= Len(Tail(w)) => Tail(w)[0 + (c - 1) + 1].kind # "piece"
  <2> SUFFICES ASSUME c <= Len(w) - 1
               PROVE  Tail(w)[c].kind # "piece"
    BY <1>4
  <2>1. Tail(w)[c] = w[c + 1]
    BY <1>4
  <2>2. w[0 + c + 1].kind # "piece"
    BY <1>4 DEF Block
  <2> QED BY <2>1, <2>2
<1>7. 0 + (c - 1) <= Len(Tail(w))
  BY <1>1, <1>4
<1> QED BY <1>2, <1>3, <1>5, <1>6, <1>7 DEF Block

LEMMA BlockJoin ==
  ASSUME NEW S, NEW w \in Seq(S), NEW v \in Seq(S), v # <<>>, v[1].kind # "piece",
         NEW n \in Nat, NEW c \in Nat, Block(w, n, c)
  PROVE  Block(w \o v, n, c)
<1>1. /\ w \o v \in Seq(S) /\ Len(w) \in Nat /\ Len(v) \in Nat /\ Len(w \o v) = Len(w) + Len(v)
      /\ DOMAIN w = 1..Len(w) /\ DOMAIN v = 1..Len(v)
      /\ \A k \in DOMAIN w : (w \o v)[k] = w[k]
      /\ \A k \in DOMAIN v : (w \o v)[Len(w) + k] = v[k]
  BY JoinIs
<1>2. n + c <= Len(w) /\ Len(v) # 0
  BY EmptyIs DEF Block
<1>3. \A k \in 1..c : (w \o v)[n + k] = [kind |-> "piece", body |-> k = c]
  <2>1. TAKE k \in 1..c
  <2>2. n + k \in DOMAIN w
    BY <1>1, <1>2
  <2> QED BY <1>1, <2>2 DEF Block
<1>4. (w \o v)[n + c + 1].kind # "piece"
  <2>1. CASE n + c + 1 <= Len(w)
    <3>1. n + c + 1 \in DOMAIN w
      BY <1>1, <2>1
    <3> QED BY <1>1, <2>1, <3>1 DEF Block
  <2>2. CASE n + c = Len(w)
    <3>1. 1 \in DOMAIN v
      BY <1>1, <1>2
    <3> QED BY <1>1, <2>2, <3>1
  <2>3. n + c + 1 <= Len(w) \/ n + c = Len(w)
    <3>1. n + c <= Len(w) /\ Len(w) \in Nat
      BY <1>1, <1>2
    <3> QED BY <3>1
  <2> QED BY <2>1, <2>2, <2>3
<1>5. n + c <= Len(w \o v)
  BY <1>1, <1>2
<1> QED BY <1>3, <1>4, <1>5 DEF Block

\* The first message is taken; what it names is open no longer.
Left(w, open) == IF w[1].kind \in {"file", "skip"} THEN open \ {w[1].body.doc} ELSE open

LEMMA WayTail ==
  ASSUME NEW w \in Seq(Messages), w # <<>>, NEW open \in SUBSET Docs, NEW want, Way(w, open, want),
         NEW still \in SUBSET open, NEW now, \A j \in still : now[j] = want[j],
         still = Left(w, open)
  PROVE  Way(Tail(w), still, now)
<1> USE DEF Left
<1> DEFINE t == Tail(w)
<1>1. /\ Len(w) \in Nat \ {0} /\ Len(t) = Len(w) - 1 /\ DOMAIN w = 1..Len(w) /\ DOMAIN t = 1..Len(w) - 1
      /\ \A n \in DOMAIN t : n \in Nat \ {0} /\ n + 1 \in DOMAIN w /\ t[n] = w[n + 1] /\ n + 1 # 1
      /\ \A n \in DOMAIN w : n # 1 => n - 1 \in DOMAIN t /\ t[n - 1] = w[n]
  BY TailIs
<1> HIDE DEF t
<1>2. \A n : n \in Named(t) => n \in DOMAIN t /\ n + 1 \in Named(w) /\ t[n] = w[n + 1]
  BY <1>1 DEF Named
<1>3. \A n \in Named(w) : n # 1 => n - 1 \in Named(t)
  BY <1>1 DEF Named
<1>4. \A n \in Named(w) : n # 1 => w[n].body.doc \in still
  <2>1. TAKE n \in Named(w)
  <2>2. HAVE n # 1
  <2>3. w[n].body.doc \in open /\ n \in DOMAIN w
    BY DEF Way, Named
  <2>4. CASE w[1].kind \in {"file", "skip"}
    <3>1. 1 \in Named(w) /\ 1 < n
      BY <1>1, <2>2, <2>3, <2>4 DEF Named
    <3>2. w[n].body.doc < w[1].body.doc /\ w[1].body.doc \in open
      BY <3>1 DEF Way
    <3>3. w[n].body.doc # w[1].body.doc
      BY <3>2, <2>3, DocsInOrder
    <3> QED BY <2>3, <2>4, <3>3
  <2> QED BY <2>3, <2>4
<1>5. \A j \in still : \A n \in Named(w) : w[n].body.doc = j => n # 1
  BY DEF Named
<1>6. \A n \in DOMAIN t : t[n].kind \in {"file", "skip", "piece", "stored"}
  BY <1>1 DEF Way
<1>7. ASSUME NEW n \in Named(t)
      PROVE  /\ t[n].body.doc \in still /\ Answer(t, n, now)
             /\ \A m \in Named(t) : n < m => t[m].body.doc < t[n].body.doc
             /\ \A j \in still : t[n].body.doc < j => \E m \in Named(t) : m < n /\ t[m].body.doc = j
  <2>1. /\ n \in DOMAIN t /\ n \in Nat \ {0} /\ n + 1 \in Named(w) /\ n + 1 # 1 /\ t[n] = w[n + 1]
        /\ (n + 1) - 1 = n
    BY <1>1, <1>2
  <2>2. t[n].body.doc \in still
    BY <1>4, <2>1
  <2>3. Answer(t, n, now)
    <3>1. Answer(w, n + 1, want)
      BY <2>1 DEF Way
    <3>2. t[n].kind = "skip" => Block(t, n, 0)
      <4> SUFFICES ASSUME t[n].kind = "skip"
                   PROVE  Block(t, n, 0)
        OBVIOUS
      <4>1. Block(w, n + 1, 0) /\ n + 1 \in Nat \ {0}
        BY <2>1, <3>1 DEF Answer
      <4>2. Block(Tail(w), (n + 1) - 1, 0)
        BY <4>1, BlockTail
      <4> QED BY <2>1, <4>2 DEF t
    <3>3. t[n].kind = "file" =>
            LET i == t[n].body.doc IN
            t[n].body.from = now[i] /\ now[i] < Sizes[i] /\ Block(t, n, Sizes[i] - now[i])
      <4> SUFFICES ASSUME t[n].kind = "file"
                   PROVE  LET i == t[n].body.doc IN
                          t[n].body.from = now[i] /\ now[i] < Sizes[i] /\ Block(t, n, Sizes[i] - now[i])
        OBVIOUS
      <4> DEFINE i == t[n].body.doc
      <4>1. t[n].body.from = want[i] /\ want[i] < Sizes[i] /\ Block(w, n + 1, Sizes[i] - want[i]) /\ now[i] = want[i]
        BY <2>1, <2>2, <3>1 DEF Answer
      <4>2. i \in Docs /\ t[n].body.from \in Nat /\ Sizes[i] \in Nat
        <5>1. w[n + 1] \in Messages
          BY <1>1, <2>1
        <5>2. t[n] \in Messages
          BY <2>1, <5>1
        <5> HIDE DEF i
        <5>3. t[n].body.from \in Nat
          BY <5>2 DEF Messages
        <5>4. i \in Docs
          BY <2>2 DEF i
        <5> QED BY <5>3, <5>4, DocsAssumption
      <4> HIDE DEF i
      <4>3. Sizes[i] - want[i] \in Nat
        BY <4>1, <4>2
      <4>4. Block(Tail(w), (n + 1) - 1, Sizes[i] - want[i])
        BY <2>1, <4>1, <4>3, BlockTail
      <4> QED BY <2>1, <4>1, <4>4 DEF t, i
    <3> QED BY <3>2, <3>3 DEF Answer
  <2>4. \A m \in Named(t) : n < m => t[m].body.doc < t[n].body.doc
    <3>1. TAKE m \in Named(t)
    <3>2. HAVE n < m
    <3>3. m + 1 \in Named(w) /\ t[m] = w[m + 1] /\ m \in Nat /\ n + 1 < m + 1
      BY <1>1, <1>2, <2>1, <3>2
    <3> QED BY <2>1, <3>3 DEF Way
  <2>5. \A j \in still : t[n].body.doc < j => \E m \in Named(t) : m < n /\ t[m].body.doc = j
    <3>1. TAKE j \in still
    <3>2. HAVE t[n].body.doc < j
    <3>3. PICK m \in Named(w) : m < n + 1 /\ w[m].body.doc = j
      BY <2>1, <3>2 DEF Way
    <3>4. m # 1 /\ m \in DOMAIN w
      BY <1>5, <3>3 DEF Named
    <3>5. m - 1 \in Named(t) /\ t[m - 1] = w[m] /\ m - 1 < n
      BY <1>1, <1>3, <2>1, <3>3, <3>4
    <3> QED BY <3>3, <3>5
  <2> QED BY <2>2, <2>3, <2>4, <2>5
<1>8. ASSUME NEW n \in DOMAIN t, t[n].kind = "stored"
      PROVE  n = Len(t) /\ \A j \in still : \E m \in Named(t) : t[m].body.doc = j
  <2>1. n + 1 \in DOMAIN w /\ w[n + 1].kind = "stored"
    BY <1>1, <1>8
  <2>2. n + 1 = Len(w) /\ \A j \in open : \E m \in Named(w) : w[m].body.doc = j
    BY <2>1 DEF Way
  <2>3. \A j \in still : \E m \in Named(t) : t[m].body.doc = j
    <3>1. TAKE j \in still
    <3>2. PICK m \in Named(w) : w[m].body.doc = j
      BY <2>2
    <3>3. m # 1 /\ m \in DOMAIN w
      BY <1>5, <3>2 DEF Named
    <3> QED BY <1>1, <1>3, <3>2, <3>3
  <2> QED BY <1>1, <2>2, <2>3
<1> QED BY <1>6, <1>7, <1>8 DEF Way, t

LEMMA NewestIsNewest ==
  ASSUME NEW asked \in Requests, asked # NoRequest
  PROVE  \A j \in DOMAIN asked : j \in Docs /\ j <= Newest(asked)
<1>1. DOMAIN asked \in SUBSET Docs /\ asked \in [DOMAIN asked -> Nat]
  BY RequestsAre
<1>2. DOMAIN asked # {}
  BY NewestIsAsked
<1>3. \E i \in DOMAIN asked : \A j \in DOMAIN asked : j <= i
  BY <1>1, <1>2, OneIsNewest
<1> QED BY <1>1, <1>3 DEF Newest

\* The answer of a device to the newest document it is still asked for.
Replies(v, i, from) ==
  /\ v \in Seq(Messages) /\ v # <<>> /\ v[1].kind \in {"file", "skip"} /\ v[1].body.doc = i
  /\ v[1].kind = "skip" => Len(v) = 1
  /\ v[1].kind = "file" =>
       /\ v[1].body.from = from /\ from < Sizes[i] /\ Len(v) = 1 + (Sizes[i] - from)
       /\ \A k \in 1..Sizes[i] - from : v[1 + k] = [kind |-> "piece", body |-> k = Sizes[i] - from]

LEMMA RepliesAre ==
  ASSUME NEW v, NEW i \in Docs, NEW from \in Nat, Replies(v, i, from)
  PROVE  \A n \in DOMAIN v : n # 1 => v[n].kind = "piece"
<1>1. v \in Seq(Messages) /\ Len(v) \in Nat /\ DOMAIN v = 1..Len(v) /\ Sizes[i] \in Nat
  BY DocsAssumption DEF Replies
<1>2. SUFFICES ASSUME NEW n \in DOMAIN v, n # 1
               PROVE  v[n].kind = "piece"
  OBVIOUS
<1>3. v[1].kind = "file"
  BY <1>1, <1>2 DEF Replies
<1>4. n - 1 \in 1..Sizes[i] - from /\ 1 + (n - 1) = n
  BY <1>1, <1>2, <1>3 DEF Replies
<1>5. v[1 + (n - 1)].kind = "piece"
  <2>1. \A k \in 1..Sizes[i] - from : v[1 + k] = [kind |-> "piece", body |-> k = Sizes[i] - from]
    BY <1>3 DEF Replies
  <2>2. v[1 + (n - 1)] = [kind |-> "piece", body |-> n - 1 = Sizes[i] - from]
    BY <1>4, <2>1
  <2> QED BY <2>2
<1> QED BY <1>4, <1>5

LEMMA WayReplies ==
  ASSUME NEW w \in Seq(Messages), NEW open \in SUBSET Docs, NEW want, NEW asked \in Requests,
         Way(w, open, want), Owes(w, open, want, asked), asked # NoRequest,
         NEW v, Replies(v, Newest(asked), asked[Newest(asked)])
  PROVE  /\ Way(w \o v, open, want) /\ Owes(w \o v, open, want, Without(asked, Newest(asked)))
         /\ w \o v \in Seq(Messages) /\ w \o v # <<>>
<1> DEFINE i == Newest(asked)
           x == w \o v
           l == Len(w) + 1
<1>1. i \in Docs /\ i \in DOMAIN asked /\ asked[i] \in Nat /\ i \in open /\ asked[i] = want[i] /\ Sizes[i] \in Nat
      /\ \A j \in DOMAIN asked : j \in Docs /\ j <= i
  <2>1. i \in DOMAIN asked /\ i \in Docs /\ asked[i] \in Nat /\ \A j \in DOMAIN asked : j \in Docs /\ j <= i
    BY NewestIsAsked, NewestIsNewest
  <2> HIDE DEF i
  <2> QED BY <2>1, DocsAssumption DEF Owes
<1>2. /\ x \in Seq(Messages) /\ Len(w) \in Nat /\ Len(v) \in Nat \ {0} /\ Len(x) = Len(w) + Len(v)
      /\ DOMAIN w = 1..Len(w) /\ DOMAIN v = 1..Len(v) /\ DOMAIN x = 1..Len(w) + Len(v)
      /\ \A n \in DOMAIN w : x[n] = w[n]
      /\ \A n \in DOMAIN v : x[Len(w) + n] = v[n]
      /\ v \in Seq(Messages)
  <2>1. v \in Seq(Messages) /\ v # <<>>
    BY DEF Replies
  <2> QED BY <2>1, JoinIs, EmptyIs
<1>3. /\ x[l] = v[1] /\ l \in DOMAIN x /\ l \notin DOMAIN w
      /\ \A n \in DOMAIN x : n \in DOMAIN w \/ n = l \/ (n - Len(w) \in DOMAIN v /\ n - Len(w) # 1 /\ Len(w) + (n - Len(w)) = n)
  BY <1>2
<1>4. \A n \in DOMAIN x : n \in DOMAIN w \/ n = l \/ x[n].kind = "piece"
  <2>1. \A n \in DOMAIN v : n # 1 => v[n].kind = "piece"
    BY <1>1, RepliesAre
  <2> HIDE DEF x, l
  <2>2. TAKE n \in DOMAIN x
  <2>3. CASE n - Len(w) \in DOMAIN v /\ n - Len(w) # 1 /\ Len(w) + (n - Len(w)) = n
    <3>1. x[Len(w) + (n - Len(w))] = v[n - Len(w)]
      BY <1>2, <2>3
    <3> QED BY <2>1, <2>3, <3>1
  <2> QED BY <1>3, <2>3
<1>5. v[1].kind \in {"file", "skip"} /\ v[1].body.doc = i
  BY DEF Replies
<1> HIDE DEF i
<1>6. DOMAIN Without(asked, i) = DOMAIN asked \ {i} /\ \A j \in DOMAIN asked \ {i} : Without(asked, i)[j] = asked[j]
  BY DEF Without
<1> HIDE DEF x, l
<1>7. Named(x) = Named(w) \cup {l} /\ (\A n \in Named(w) : x[n] = w[n] /\ n \in Nat /\ n < l) /\ l \in Nat
  <2>1. \A n : n \in Named(x) => n \in Named(w) \cup {l}
    BY <1>2, <1>4 DEF Named
  <2>2. \A n \in Named(w) : n \in DOMAIN w /\ x[n] = w[n] /\ n \in DOMAIN x
    BY <1>2 DEF Named
  <2>3. \A n : n \in Named(w) \cup {l} => n \in Named(x)
    BY <1>3, <1>5, <2>2 DEF Named
  <2>4. \A n \in DOMAIN w : n \in Nat /\ n < l
    BY <1>2 DEF l
  <2>5. l \in Nat
    BY <1>2 DEF l
  <2> QED BY <2>1, <2>2, <2>3, <2>4, <2>5
<1>8. \A j \in open : j \in DOMAIN asked \/ \E n \in Named(w) : w[n].body.doc = j
  BY DEF Owes
<1>9. \A n \in Named(w) : w[n].body.doc \in Docs /\ \A j \in DOMAIN asked : j < w[n].body.doc
  BY DEF Way, Owes
<1>10. Answer(x, l, want)
  <2>1. x[l] = v[1]
    BY <1>3
  <2> DEFINE c == Sizes[i] - asked[i]
  <2>2. x[l].kind = "skip" => Block(x, l, 0)
    BY <1>2, <2>1 DEF Block, Replies, l
  <2>3. x[l].kind = "file" => x[l].body.from = want[i] /\ want[i] < Sizes[i] /\ Block(x, l, Sizes[i] - want[i])
    <3> SUFFICES ASSUME v[1].kind = "file"
                 PROVE  v[1].body.from = asked[i] /\ asked[i] < Sizes[i] /\ Block(x, l, c)
      BY <1>1, <2>1
    <3>1. v[1].body.from = asked[i] /\ asked[i] < Sizes[i] /\ Len(v) = 1 + c
          /\ \A k \in 1..c : v[1 + k] = [kind |-> "piece", body |-> k = c]
      BY DEF Replies, i
    <3>2. c \in Nat
      BY <1>1, <3>1
    <3> HIDE DEF c
    <3>3. l + c = Len(x)
      BY <1>2, <3>1, <3>2 DEF l
    <3>4. \A k \in 1..c : x[l + k] = [kind |-> "piece", body |-> k = c]
      <4>1. TAKE k \in 1..c
      <4>2. 1 + k \in DOMAIN v /\ l + k = Len(w) + (1 + k)
        BY <1>2, <3>1, <3>2 DEF l
      <4>3. x[Len(w) + (1 + k)] = v[1 + k]
        BY <1>2, <4>2
      <4> QED BY <3>1, <4>2, <4>3
    <3>5. ~(l + c + 1 <= Len(x)) /\ l + c <= Len(x)
      BY <1>7, <3>2, <3>3
    <3> QED BY <3>1, <3>4, <3>5 DEF Block
  <2> QED BY <1>5, <2>1, <2>2, <2>3 DEF Answer
<1>11. ASSUME NEW n \in Named(w)
       PROVE  Answer(x, n, want)
  <2>1. Answer(w, n, want) /\ x[n] = w[n] /\ n \in Nat
    BY <1>7 DEF Way
  <2>2. \A c \in Nat : Block(w, n, c) => Block(x, n, c)
    <3>1. v \in Seq(Messages) /\ v # <<>> /\ v[1].kind # "piece"
      BY DEF Replies
    <3> QED BY <2>1, <3>1, BlockJoin DEF x
  <2>3. x[n].kind = "file" => Sizes[x[n].body.doc] - want[x[n].body.doc] \in Nat
    <3> SUFFICES ASSUME x[n].kind = "file"
                 PROVE  Sizes[x[n].body.doc] - want[x[n].body.doc] \in Nat
      OBVIOUS
    <3>1. want[w[n].body.doc] < Sizes[w[n].body.doc] /\ w[n].body.from = want[w[n].body.doc]
      BY <2>1 DEF Answer
    <3>2. w[n] \in Messages
      BY DEF Named
    <3>3. w[n].body.from \in Nat
      BY <2>1, <3>2 DEF Messages
    <3>4. Sizes[w[n].body.doc] \in Nat
      BY <1>9, DocsAssumption
    <3> QED BY <2>1, <3>1, <3>3, <3>4
  <2> QED BY <2>1, <2>2, <2>3 DEF Answer
<1>12. ASSUME NEW n \in Named(x)
       PROVE  /\ x[n].body.doc \in open /\ Answer(x, n, want)
              /\ \A m \in Named(x) : n < m => x[m].body.doc < x[n].body.doc
              /\ \A j \in open : x[n].body.doc < j => \E m \in Named(x) : m < n /\ x[m].body.doc = j
  <2>1. CASE n = l
    <3>1. x[n].body.doc = i
      BY <1>3, <1>5, <2>1
    <3>2. \A m \in Named(x) : ~(n < m)
      BY <1>7, <2>1
    <3>3. \A j \in open : i < j => \E m \in Named(x) : m < n /\ x[m].body.doc = j
      <4>1. TAKE j \in open
      <4>2. HAVE i < j
      <4>3. j \notin DOMAIN asked
        BY <1>1, <4>2, DocsInOrder
      <4> QED BY <1>7, <1>8, <2>1, <4>3
    <3> QED BY <1>1, <1>10, <2>1, <3>1, <3>2, <3>3
  <2>2. CASE n \in Named(w)
    <3>1. x[n] = w[n]
      BY <1>7, <2>2
    <3>2. \A m \in Named(x) : n < m => x[m].body.doc < x[n].body.doc
      <4>1. TAKE m \in Named(x)
      <4>2. CASE m = l
        BY <1>1, <1>3, <1>5, <1>9, <2>2, <3>1, <4>2
      <4>3. CASE m \in Named(w)
        BY <1>7, <2>2, <3>1, <4>3 DEF Way
      <4> QED BY <1>7, <4>2, <4>3
    <3>3. \A j \in open : x[n].body.doc < j => \E m \in Named(x) : m < n /\ x[m].body.doc = j
      <4>1. TAKE j \in open
      <4>2. HAVE x[n].body.doc < j
      <4>3. PICK m \in Named(w) : m < n /\ w[m].body.doc = j
        BY <2>2, <3>1, <4>2 DEF Way
      <4> QED BY <1>7, <4>3
    <3>4. w[n].body.doc \in open
      BY <2>2 DEF Way
    <3> QED BY <1>11, <2>2, <3>1, <3>2, <3>3, <3>4
  <2> QED BY <1>7, <2>1, <2>2
<1>13. \A n \in DOMAIN x : x[n].kind \in {"file", "skip", "piece"}
  <2>1. \A n \in DOMAIN w : w[n].kind \in {"file", "skip", "piece"}
    BY DEF Way, Owes
  <2> QED BY <1>2, <1>3, <1>4, <1>5, <2>1
<1>14. Way(x, open, want)
  BY <1>12, <1>13 DEF Way
<1>15. Owes(x, open, want, Without(asked, i))
  <2>1. \A n \in DOMAIN x : x[n].kind # "stored"
    BY <1>13
  <2>2. ASSUME NEW j \in DOMAIN Without(asked, i)
        PROVE  j \in open /\ Without(asked, i)[j] = want[j] /\ \A n \in Named(x) : j < x[n].body.doc
    <3>1. j \in DOMAIN asked /\ j # i
      BY <1>6, <2>2
    <3>2. j \in open /\ asked[j] = want[j]
      BY <3>1 DEF Owes
    <3>3. j < i
      BY <1>1, <3>1, DocsInOrder
    <3> QED BY <1>3, <1>5, <1>6, <1>7, <1>9, <3>1, <3>2, <3>3
  <2>3. ASSUME NEW j \in open
        PROVE  j \in DOMAIN Without(asked, i) \/ \E n \in Named(x) : x[n].body.doc = j
    BY <1>3, <1>5, <1>6, <1>7, <1>8
  <2> QED BY <2>1, <2>2, <2>3 DEF Owes
<1>16. x # <<>>
  BY <1>2, EmptyIs
<1> QED BY <1>2, <1>14, <1>15, <1>16 DEF x, i

\* Where nothing more is owed the way may end with what may be let go of.
LEMMA WayStored ==
  ASSUME NEW w \in Seq(Messages), NEW open \in SUBSET Docs, NEW want,
         Way(w, open, want), Owes(w, open, want, NoRequest),
         NEW docs, [kind |-> "stored", body |-> docs] \in Messages
  PROVE  Way(w \o Message("stored", docs), open, want)
<1> DEFINE m == [kind |-> "stored", body |-> docs]
           v == <<m>>
           x == w \o v
<1>1. v \in Seq(Messages) /\ Len(v) = 1 /\ v[1] = m /\ m.kind = "stored" /\ v # <<>>
  OBVIOUS
<1> HIDE DEF m, v
<1>2. /\ x \in Seq(Messages) /\ Len(w) \in Nat /\ Len(x) = Len(w) + 1
      /\ DOMAIN w = 1..Len(w) /\ DOMAIN x = 1..Len(w) + 1
      /\ \A n \in DOMAIN w : x[n] = w[n]
      /\ x[Len(w) + 1] = m
  <2>1. 1 \in DOMAIN v
    BY <1>1
  <2> QED BY <1>1, <2>1, JoinIs
<1>3. \A n \in DOMAIN x : n \in DOMAIN w \/ n = Len(w) + 1
  BY <1>2
<1> HIDE DEF x
<1>4. Named(x) = Named(w) /\ \A n \in Named(w) : x[n] = w[n] /\ n \in Nat /\ w[n].body.doc \in Docs
  <2>1. \A n : n \in Named(x) <=> n \in Named(w)
    BY <1>1, <1>2, <1>3 DEF Named
  <2>2. \A n \in Named(w) : n \in DOMAIN w
    BY DEF Named
  <2>3. \A n \in Named(w) : w[n].body.doc \in open
    BY DEF Way
  <2>4. Named(x) = Named(w)
    BY <2>1
  <2>5. \A n \in DOMAIN w : n \in Nat /\ x[n] = w[n]
    BY <1>2
  <2> QED BY <2>2, <2>3, <2>4, <2>5
<1>5. ASSUME NEW n \in Named(w)
      PROVE  Answer(x, n, want)
  <2>1. Answer(w, n, want) /\ x[n] = w[n] /\ n \in Nat
    BY <1>4 DEF Way
  <2>2. \A c \in Nat : Block(w, n, c) => Block(x, n, c)
    <3>1. v[1].kind # "piece"
      BY <1>1
    <3> QED BY <1>1, <2>1, <3>1, BlockJoin DEF x
  <2>3. x[n].kind = "file" => Sizes[x[n].body.doc] - want[x[n].body.doc] \in Nat
    <3> SUFFICES ASSUME x[n].kind = "file"
                 PROVE  Sizes[x[n].body.doc] - want[x[n].body.doc] \in Nat
      OBVIOUS
    <3>1. want[w[n].body.doc] < Sizes[w[n].body.doc] /\ w[n].body.from = want[w[n].body.doc]
      BY <2>1 DEF Answer
    <3>2. w[n] \in Messages
      BY DEF Named
    <3>3. w[n].body.from \in Nat
      BY <2>1, <3>2 DEF Messages
    <3>4. Sizes[w[n].body.doc] \in Nat
      BY <1>4, DocsAssumption
    <3> QED BY <2>1, <3>1, <3>3, <3>4
  <2> QED BY <2>1, <2>2, <2>3 DEF Answer
<1>6. \A j \in open : \E n \in Named(w) : w[n].body.doc = j
  BY CostsOfNone DEF Owes
<1>7. \A n \in DOMAIN x : x[n].kind \in {"file", "skip", "piece", "stored"}
  BY <1>1, <1>2, <1>3 DEF Way
<1>8. \A n \in DOMAIN x : x[n].kind = "stored" => n = Len(x)
  BY <1>2, <1>3 DEF Owes
<1>9. ASSUME NEW n \in Named(x)
      PROVE  /\ x[n].body.doc \in open /\ Answer(x, n, want)
             /\ \A k \in Named(x) : n < k => x[k].body.doc < x[n].body.doc
             /\ \A j \in open : x[n].body.doc < j => \E k \in Named(x) : k < n /\ x[k].body.doc = j
  BY <1>4, <1>5 DEF Way
<1>10. Way(x, open, want)
  BY <1>4, <1>6, <1>7, <1>8, <1>9 DEF Way
<1> QED BY <1>10 DEF x, v, m, Message

-----------------------------------------------------------------------------
(***************************************************************************)
(* What a device sees of a sync, and what both of them may send.           *)
(***************************************************************************)
LEMMA SidesAre ==
  ASSUME TypeInv, NEW d \in Devices
  PROVE  /\ run[d] \in Run /\ wire[d] \in Seq(Messages)
         /\ run[d].want \in Requests /\ run[d].asked \in Requests /\ run[d].spent \in Nat
         /\ run[d].mine \in SUBSET Docs /\ run[d].theirs \in SUBSET Docs
         /\ DOMAIN run[d].want \in SUBSET Docs /\ Open(d) \in SUBSET Docs
         /\ run[d].taking \in [doc : Docs \cup {0}, open : BOOLEAN]
<1>1. run[d] \in Run /\ wire[d] \in Seq(Messages)
  BY DEF TypeInv
<1>2. /\ run[d].want \in Requests /\ run[d].asked \in Requests /\ run[d].spent \in Nat
      /\ run[d].mine \in SUBSET Docs /\ run[d].theirs \in SUBSET Docs
      /\ run[d].taking \in [doc : Docs \cup {0}, open : BOOLEAN]
  BY <1>1 DEF Run
<1>3. DOMAIN run[d].want \in SUBSET Docs
  BY <1>2, RequestsAre
<1> QED BY <1>1, <1>2, <1>3 DEF Open

LEMMA NothingTaken ==
  ASSUME TypeInv, NEW d \in Devices, run[d].taking = NotTaking
  PROVE  Open(d) = DOMAIN run[d].want
<1>1. DOMAIN run[d].want \in SUBSET Docs
  BY SidesAre
<1>2. 0 \notin Docs
  BY DocsBefore DEF Docs
<1> QED BY <1>1, <1>2 DEF Open, NotTaking

LEMMA FoundIs ==
  ASSUME TypeInv, NEW d \in Devices, Early(d)
  PROVE  Found(d) \in Requests
<1>1. ASSUME Ahead(d)
      PROVE  Head(wire[d]).body \in Requests
  <2>1. wire[d] \in Seq(Messages) /\ wire[d] # <<>> /\ wire[d][1].kind = "need"
    BY <1>1, SidesAre DEF Ahead, Early
  <2>2. Head(wire[d]) \in Messages /\ Head(wire[d]) = wire[d][1]
    BY <2>1, RangeOfTail, TailIs
  <2> QED BY <2>1, <2>2 DEF Messages
<1> QED BY <1>1, RequestsAre DEF Found

LEMMA FilesAre ==
  ASSUME TypeInv, NEW d \in Devices, Begun(d)
  PROVE  Files(d) \in Seq(Messages)
<1>1. wire[d] \in Seq(Messages)
  BY SidesAre
<1>2. At(d, "need") => wire[d] # <<>>
  BY DEF Begun, Ahead, At, Working
<1> QED BY <1>1, <1>2, TailIs DEF Files

LEMMA LivelyLess ==
  ASSUME NEW q \in Requests, Fits(q), NEW live, NEW less, \A i \in DOMAIN q : i \in less => i \in live
  PROVE  Sum(Lively(q, less)) <= Sum(Lively(q, live))
<1>1. Lively(q, less) \in [Docs -> Int] /\ Lively(q, live) \in [Docs -> Nat]
  BY CostsAre
<1>2. \A i \in Docs : Lively(q, less)[i] <= Lively(q, live)[i]
  <2>1. TAKE i \in Docs
  <2>2. Lively(q, live)[i] \in Nat
    BY <1>1
  <2>3. Lively(q, less)[i] = Lively(q, live)[i] \/ Lively(q, less)[i] = 0
    BY DEF Lively
  <2> QED BY <2>2, <2>3
<1>3. Lively(q, live) \in [Docs -> Int]
  BY <1>1
<1> QED BY <1>1, <1>2, <1>3, SumLess

\* What each may still send is some number of chunks.
LEMMA SendsAre ==
  ASSUME TypeInv, \A d \in Devices : Early(d) /\ Asked(d)
  PROVE  /\ DesktopSends \in Nat /\ PhoneSends \in Nat
         /\ run[Desktop].spent <= DesktopSends /\ run[Phone].spent <= PhoneSends
<1>1. \A d \in Devices : run[d].asked \in Requests /\ Found(d) \in Requests /\ run[d].spent \in Nat
  BY SidesAre, FoundIs
<1>2. \A d \in Devices : /\ Sum(Whole(run[d].asked)) \in Nat /\ Sum(Whole(Found(d))) \in Nat
                         /\ Sum(Lively(run[d].asked, Alive)) \in Nat
  BY <1>1, CostsAre DEF Asked
<1>3. /\ run[Desktop].spent \in Nat /\ run[Phone].spent \in Nat
      /\ Sum(Whole(run[Desktop].asked)) \in Nat /\ Sum(Whole(Found(Desktop))) \in Nat
      /\ Sum(Lively(run[Phone].asked, Alive)) \in Nat
  BY <1>1, <1>2, DevicesAre
<1> QED BY <1>3 DEF DesktopSends, PhoneSends

-----------------------------------------------------------------------------
(***************************************************************************)
(* Steps that leave what is on its way alone.                              *)
(***************************************************************************)
LEMMA ComingStays ==
  ASSUME NEW d \in Devices, Coming(d), Files(d)' = Files(d),
         run'[d].want = run[d].want, run'[d].taking.doc = run[d].taking.doc,
         run'[d].taking = NotTaking <=> run[d].taking = NotTaking,
         run'[d].taking.open =>
           run[d].taking.open /\ part'[d][run[d].taking.doc] = part[d][run[d].taking.doc]
  PROVE  Coming(d)'
<1>1. Way(Files(d), Open(d), run[d].want)'
  BY DEF Coming, Pending, Open
<1>2. (run[d].taking # NotTaking => run[d].taking.doc = Newest(run[d].want))'
  BY DEF Coming, Pending
<1>3. PICK c \in Nat :
        /\ Block(Files(d), 0, c)
        /\ c = 0 <=> run[d].taking = NotTaking
        /\ run[d].taking.open => part[d][run[d].taking.doc] + c = Sizes[run[d].taking.doc]
  BY DEF Coming, Pending
<1>4. (\E k \in Nat :
         /\ Block(Files(d), 0, k)
         /\ k = 0 <=> run[d].taking = NotTaking
         /\ run[d].taking.open => part[d][run[d].taking.doc] + k = Sizes[run[d].taking.doc])'
  <2>1. /\ Block(Files(d)', 0, c)
        /\ c = 0 <=> run'[d].taking = NotTaking
        /\ run'[d].taking.open => part'[d][run'[d].taking.doc] + c = Sizes[run'[d].taking.doc]
    BY <1>3
  <2> QED BY <2>1
<1> QED BY <1>1, <1>2, <1>4 DEF Coming, Pending

\* What a device itself knows of a sync, and what is on its way to it, but for whether
\* the pieces of a file are still written.
LEMMA ViewStays ==
  ASSUME NEW d \in Devices, View(d), wire'[d] = wire[d], run'[d].at = run[d].at,
         run'[d].want = run[d].want, run'[d].asked = run[d].asked, run'[d].spent = run[d].spent,
         run'[d].taking.doc = run[d].taking.doc,
         run'[d].taking = NotTaking <=> run[d].taking = NotTaking,
         run'[d].taking.open =>
           run[d].taking.open /\ part'[d][run[d].taking.doc] = part[d][run[d].taking.doc]
  PROVE  View(d)' /\ Found(d)' = Found(d) /\ Files(d)' = Files(d) /\ Begun(d)' = Begun(d)
<1>1. Early(d)'
  BY DEF View, Early, At, Ahead
<1>2. Found(d)' = Found(d) /\ Files(d)' = Files(d) /\ Begun(d)' = Begun(d)
  BY DEF Found, Files, Begun, Ahead, At
<1>3. Begun(d) => Coming(d)'
  BY <1>2, ComingStays DEF View
<1> QED BY <1>1, <1>2, <1>3 DEF View

LEMMA TogetherStays ==
  ASSUME Together, wire' = wire,
         \A d \in Devices : /\ run'[d].at = run[d].at /\ run'[d].want = run[d].want
                            /\ run'[d].asked = run[d].asked /\ run'[d].taking.doc = run[d].taking.doc
  PROVE  Together'
<1>1. \A d \in Devices : \A step : At(d, step)' = At(d, step)
  BY DEF At
<1>2. \A d \in Devices : Ahead(d)' = Ahead(d) /\ Files(d)' = Files(d) /\ Open(d)' = Open(d)
  BY <1>1 DEF Ahead, Files, Open
<1>3. \A d \in Devices : Owing(d)' = Owing(d)
  BY <1>2, DevicesAre DEF Owing
<1> QED BY <1>1, <1>2, <1>3, DevicesAre DEF Together

LEMMA QuietKeepsStep ==
  ASSUME FilesInv, StepInv, FilesInv', wire' = wire,
         \A d \in Devices :
           /\ run'[d].at = run[d].at /\ run'[d].mine = run[d].mine
           /\ run'[d].want = run[d].want /\ run'[d].asked = run[d].asked /\ run'[d].spent = run[d].spent
           /\ run'[d].taking.doc = run[d].taking.doc
           /\ run'[d].taking = NotTaking <=> run[d].taking = NotTaking
           /\ run'[d].taking.open =>
                run[d].taking.open /\ part'[d][run[d].taking.doc] = part[d][run[d].taking.doc],
         \A d \in Devices, i \in Docs : part'[d][i] < Sizes[i],
         \A i \in Docs : rows[Phone][i].state # "none" =>
           rows'[Phone][i].state # "none" /\ (Live(Phone, i)' => Live(Phone, i))
  PROVE  StepInv'
<1>1. \A d \in Devices : View(d)' /\ Found(d)' = Found(d)
  BY ViewStays DEF StepInv
<1>2. Together'
  BY TogetherStays DEF StepInv
<1>3. \A d \in Devices : Asked(d)'
  BY <1>1 DEF StepInv, Shared, Asked
<1>4. \A docs \in SUBSET Docs : Known(docs) => Known(docs)'
  BY DEF Known
<1>5. (Known(run[Phone].mine) /\ Known(DOMAIN run[Phone].asked) /\ Known(DOMAIN Found(Phone)))'
  <2>1. run[Phone].mine \in SUBSET Docs /\ DOMAIN run[Phone].asked \in SUBSET Docs /\ DOMAIN Found(Phone) \in SUBSET Docs
    BY SidesAre, FoundIs, RequestsAre, DevicesAre DEF FilesInv, StepInv, View
  <2>2. /\ run'[Phone].mine = run[Phone].mine /\ run'[Phone].asked = run[Phone].asked
        /\ Found(Phone)' = Found(Phone)
    BY <1>1, DevicesAre
  <2>3. Known(run[Phone].mine) /\ Known(DOMAIN run[Phone].asked) /\ Known(DOMAIN Found(Phone))
    BY DEF StepInv, Shared
  <2> QED BY <2>1, <2>2, <2>3 DEF Known
<1>6. (At(Desktop, "have") /\ wire[Desktop] # <<>> => Known(Head(wire[Desktop]).body))'
  <2> SUFFICES ASSUME At(Desktop, "have"), wire[Desktop] # <<>>
               PROVE  Known(Head(wire[Desktop]).body)'
    BY DevicesAre DEF At
  <2>1. Head(wire[Desktop]).kind = "have" /\ wire[Desktop] \in Seq(Messages)
    BY SidesAre, DevicesAre, TailIs DEF StepInv, View, Early, One, FilesInv
  <2>2. Head(wire[Desktop]) \in Messages
    BY <2>1, RangeOfTail
  <2>3. Head(wire[Desktop]).body \in SUBSET Docs
    BY <2>1, <2>2 DEF Messages
  <2>4. Known(Head(wire[Desktop]).body)
    BY DEF StepInv, Shared
  <2> QED BY <2>3, <2>4 DEF Known
<1>7. (Sum(Whole(Found(Phone))) <= Budget)'
  BY <1>1, DevicesAre DEF StepInv, Shared
<1>8. (DesktopSends + PhoneSends <= Budget)'
  <2>1. DesktopSends' = DesktopSends
    BY <1>1, DevicesAre DEF DesktopSends
  <2>2. PhoneSends' <= PhoneSends /\ PhoneSends' \in Nat
    <3>1. run[Phone].asked \in Requests /\ run[Phone].spent \in Nat /\ Fits(run[Phone].asked) /\ Known(DOMAIN run[Phone].asked)
      BY SidesAre, DevicesAre DEF FilesInv, StepInv, Shared, Asked
    <3>2. PICK less : less = Alive'
      OBVIOUS
    <3>3. \A i \in DOMAIN run[Phone].asked : i \in less => i \in Alive
      <4>1. DOMAIN run[Phone].asked \in SUBSET Docs
        BY <3>1, RequestsAre
      <4> QED BY <3>1, <3>2, <4>1 DEF Known, Alive
    <3>4. Sum(Lively(run[Phone].asked, less)) <= Sum(Lively(run[Phone].asked, Alive))
      BY <3>1, <3>3, LivelyLess
    <3>5. PhoneSends' = run[Phone].spent + Sum(Lively(run[Phone].asked, less))
      BY <3>2, DevicesAre DEF PhoneSends
    <3>6. Sum(Lively(run[Phone].asked, less)) \in Nat /\ Sum(Lively(run[Phone].asked, Alive)) \in Nat
      BY <3>1, CostsAre
    <3> QED BY <3>1, <3>4, <3>5, <3>6 DEF PhoneSends
  <2>3. DesktopSends \in Nat /\ PhoneSends \in Nat /\ DesktopSends + PhoneSends <= Budget
    BY SendsAre DEF StepInv, View, Shared, FilesInv
  <2> QED BY <2>1, <2>2, <2>3, BoundsAssumption
<1>9. Shared'
  BY <1>3, <1>5, <1>6, <1>7, <1>8 DEF Shared
<1> QED BY <1>1, <1>2, <1>9 DEF StepInv

-----------------------------------------------------------------------------
(***************************************************************************)
(* What people and disks do, and syncs that end with their rows.           *)
(***************************************************************************)
LEMMA AddKeepsStep ==
  ASSUME FilesInv, StepInv, FilesInv', NEW d \in Devices, NEW i \in Docs, Add(d, i)
  PROVE  StepInv'
<1>1. UNCHANGED <<part, run, wire>> /\ \A e \in Devices : rows[e][i].state = "none"
  BY DEF Add
<1>2. PICK keep \in BOOLEAN :
        rows' = [rows EXCEPT ![d][i] = [state |-> "row", keep |-> keep, changed |-> TRUE]]
  BY DEF Add
<1>3. \A j \in Docs : rows[Phone][j].state # "none" => rows'[Phone][j] = rows[Phone][j]
  BY <1>1, <1>2, DevicesAre DEF FilesInv, TypeInv
<1>4. \A e \in Devices, j \in Docs : part'[e][j] < Sizes[j]
  BY <1>1 DEF StepInv, Shared
<1>5. \A j \in Docs : rows[Phone][j].state # "none" =>
        rows'[Phone][j].state # "none" /\ (Live(Phone, j)' => Live(Phone, j))
  BY <1>3 DEF Live
<1> QED BY <1>1, <1>4, <1>5, QuietKeepsStep

LEMMA AddAgainKeepsStep ==
  ASSUME FilesInv, StepInv, FilesInv', NEW d \in Devices, NEW i \in Docs, AddAgain(d, i)
  PROVE  StepInv'
<1>1. UNCHANGED <<rows, part, run, wire>>
  BY DEF AddAgain
<1>2. \A e \in Devices, j \in Docs : part'[e][j] < Sizes[j]
  BY <1>1 DEF StepInv, Shared
<1>3. \A j \in Docs : rows[Phone][j].state # "none" =>
        rows'[Phone][j].state # "none" /\ (Live(Phone, j)' => Live(Phone, j))
  BY <1>1 DEF Live
<1> QED BY <1>1, <1>2, <1>3, QuietKeepsStep

LEMMA UpdateKeepsStep ==
  ASSUME FilesInv, StepInv, FilesInv', NEW d \in Devices, NEW i \in Docs, Update(d, i)
  PROVE  StepInv'
<1>1. UNCHANGED <<part, run, wire>> /\ Live(d, i)
  BY DEF Update
<1>2. PICK keep \in BOOLEAN :
        rows' = [rows EXCEPT ![d][i] = [state |-> "row", keep |-> keep, changed |-> TRUE]]
  BY DEF Update
<1>3. \A j \in Docs : rows'[Phone][j].state = rows[Phone][j].state
  BY <1>1, <1>2, DevicesAre DEF FilesInv, TypeInv, Live
<1>4. \A e \in Devices, j \in Docs : part'[e][j] < Sizes[j]
  BY <1>1 DEF StepInv, Shared
<1>5. \A j \in Docs : rows[Phone][j].state # "none" =>
        rows'[Phone][j].state # "none" /\ (Live(Phone, j)' => Live(Phone, j))
  BY <1>3 DEF Live
<1> QED BY <1>1, <1>4, <1>5, QuietKeepsStep

LEMMA DamageKeepsStep ==
  ASSUME FilesInv, StepInv, FilesInv', NEW d \in Devices, NEW i \in Docs, Damage(d, i)
  PROVE  StepInv'
<1>1. UNCHANGED <<rows, part, run, wire>>
  BY DEF Damage
<1>2. \A e \in Devices, j \in Docs : part'[e][j] < Sizes[j]
  BY <1>1 DEF StepInv, Shared
<1>3. \A j \in Docs : rows[Phone][j].state # "none" =>
        rows'[Phone][j].state # "none" /\ (Live(Phone, j)' => Live(Phone, j))
  BY <1>1 DEF Live
<1> QED BY <1>1, <1>2, <1>3, QuietKeepsStep

\* An unfinished file is removed: what still arrives of it is no longer written.
LEMMA ShutKeepsStep ==
  ASSUME FilesInv, StepInv, FilesInv', NEW d \in Devices, NEW stays \in BOOLEAN,
         run' = [run EXCEPT ![d].taking.open = @ /\ stays], UNCHANGED wire,
         \A e \in Devices, i \in Docs :
           part'[e][i] = part[e][i]
             \/ (e = d /\ part'[e][i] = 0 /\ (i = run[d].taking.doc => ~stays)),
         \A i \in Docs : rows[Phone][i].state # "none" =>
           rows'[Phone][i].state # "none" /\ (Live(Phone, i)' => Live(Phone, i))
  PROVE  StepInv'
<1> DEFINE taking == [run[d].taking EXCEPT !.open = run[d].taking.open /\ stays]
           noted == [run[d] EXCEPT !.taking = taking]
<1>1. run[d] \in Run /\ run[d].taking \in [doc : Docs \cup {0}, open : BOOLEAN]
  BY SidesAre DEF FilesInv
<1>2. run' = [run EXCEPT ![d] = noted]
  OBVIOUS
<1>3. run[d].taking # NotTaking => run[d].taking.doc \in Docs
  BY DEF FilesInv, TakesKnown
<1>4. /\ taking.doc = run[d].taking.doc /\ (taking.open <=> run[d].taking.open /\ stays)
      /\ taking \in [doc : Docs \cup {0}, open : BOOLEAN]
  BY <1>1
<1> HIDE DEF taking
<1>5. taking = NotTaking <=> run[d].taking = NotTaking
  <2>1. 0 \notin Docs
    BY DocsBefore DEF Docs
  <2>2. run[d].taking = NotTaking => taking = NotTaking
    <3> SUFFICES ASSUME run[d].taking = NotTaking
                 PROVE  taking = NotTaking
      OBVIOUS
    <3>1. taking.doc = 0 /\ taking.open = FALSE
      BY <1>4 DEF NotTaking
    <3> QED BY <1>4, <3>1 DEF NotTaking
  <2>3. taking = NotTaking => run[d].taking.doc = 0
    BY <1>4 DEF NotTaking
  <2> QED BY <1>3, <2>1, <2>2, <2>3
<1>6. /\ noted.at = run[d].at /\ noted.mine = run[d].mine /\ noted.want = run[d].want
      /\ noted.asked = run[d].asked /\ noted.spent = run[d].spent /\ noted.taking = taking
  BY <1>1 DEF Run
<1> HIDE DEF noted
<1>7. run'[d] = noted /\ \A e \in Devices : e = d \/ run'[e] = run[e]
  BY <1>2 DEF FilesInv, TypeInv
<1>8. \A e \in Devices :
        /\ run'[e].at = run[e].at /\ run'[e].mine = run[e].mine
        /\ run'[e].want = run[e].want /\ run'[e].asked = run[e].asked /\ run'[e].spent = run[e].spent
        /\ run'[e].taking.doc = run[e].taking.doc
        /\ run'[e].taking = NotTaking <=> run[e].taking = NotTaking
  BY <1>4, <1>5, <1>6, <1>7
<1>9. ASSUME NEW e \in Devices, run'[e].taking.open
      PROVE  run[e].taking.open /\ part'[e][run[e].taking.doc] = part[e][run[e].taking.doc]
  <2>1. run[e].taking.open /\ (e = d => stays)
    BY <1>4, <1>6, <1>7, <1>9
  <2>2. run[e].taking # NotTaking
    BY <2>1 DEF NotTaking
  <2>3. run[e].taking.doc \in Docs
    BY <2>2 DEF FilesInv, TakesKnown
  <2> QED BY <2>1, <2>3
<1>10. \A e \in Devices, i \in Docs : part'[e][i] < Sizes[i]
  <2>1. \A e \in Devices, i \in Docs : part[e][i] < Sizes[i]
    BY DEF StepInv, Shared
  <2>2. \A i \in Docs : 0 < Sizes[i]
    BY DocsAssumption
  <2> QED BY <2>1, <2>2
<1> QED BY <1>8, <1>9, <1>10, QuietKeepsStep

LEMMA DeleteKeepsStep ==
  ASSUME FilesInv, StepInv, FilesInv', NEW d \in Devices, NEW i \in Docs, Delete(d, i)
  PROVE  StepInv'
<1>1. /\ rows' = [rows EXCEPT ![d][i] = [state |-> "marker", keep |-> FALSE, changed |-> TRUE]]
      /\ Live(d, i) /\ UNCHANGED wire
      /\ Removed(d, i) \/ UNCHANGED <<file, part, run>>
  BY DEF Delete
<1>2. \A j \in Docs : /\ rows'[Phone][j] = rows[Phone][j] \/ rows'[Phone][j].state = "marker"
  BY <1>1, DevicesAre DEF FilesInv, TypeInv
<1>3. \A j \in Docs : rows[Phone][j].state # "none" =>
        rows'[Phone][j].state # "none" /\ (Live(Phone, j)' => Live(Phone, j))
  BY <1>2 DEF Live
<1>4. CASE UNCHANGED <<file, part, run>>
  <2>1. \A e \in Devices, j \in Docs : part'[e][j] < Sizes[j]
    BY <1>4 DEF StepInv, Shared
  <2> QED BY <1>1, <1>3, <1>4, <2>1, QuietKeepsStep
<1>5. CASE Removed(d, i)
  <2> DEFINE stays == run[d].taking.doc # i
  <2>1. stays \in BOOLEAN /\ (i = run[d].taking.doc => ~stays)
    OBVIOUS
  <2>2. run' = [run EXCEPT ![d].taking.open = @ /\ stays] /\ part' = [part EXCEPT ![d][i] = 0]
    BY <1>5 DEF Removed
  <2>3. \A e \in Devices, j \in Docs :
          part'[e][j] = part[e][j] \/ (e = d /\ part'[e][j] = 0 /\ (j = run[d].taking.doc => ~stays))
    BY <2>1, <2>2 DEF FilesInv, TypeInv
  <2> HIDE DEF stays
  <2> QED BY <1>1, <1>3, <2>1, <2>2, <2>3, ShutKeepsStep
<1> QED BY <1>1, <1>4, <1>5

LEMMA TidyKeepsStep ==
  ASSUME FilesInv, StepInv, FilesInv', NEW d \in Devices, Tidy(d)
  PROVE  StepInv'
<1> DEFINE stays == run[d].taking.doc \in {i \in Docs : Live(d, i)}
<1>1. /\ run' = [run EXCEPT ![d].taking.open = @ /\ stays]
      /\ part' = [part EXCEPT ![d] = [i \in Docs |-> IF Live(d, i) THEN @[i] ELSE 0]]
      /\ UNCHANGED <<rows, wire>>
  BY DEF Tidy, ghosts
<1>2. stays \in BOOLEAN
  OBVIOUS
<1>3. \A e \in Devices, j \in Docs :
        part'[e][j] = part[e][j] \/ (e = d /\ part'[e][j] = 0 /\ (j = run[d].taking.doc => ~stays))
  BY <1>1 DEF FilesInv, TypeInv
<1>4. \A j \in Docs : rows[Phone][j].state # "none" =>
        rows'[Phone][j].state # "none" /\ (Live(Phone, j)' => Live(Phone, j))
  BY <1>1 DEF Live
<1> HIDE DEF stays
<1> QED BY <1>1, <1>2, <1>3, <1>4, ShutKeepsStep

-----------------------------------------------------------------------------
(***************************************************************************)
(* Before and after a sync.                                                *)
(***************************************************************************)
Fresh ==
  /\ \A d \in Devices : wire[d] = <<>> /\ run[d].asked = NoRequest /\ run[d].spent = 0
  /\ (\A d \in Devices : At(d, "rest")) \/ (\A d \in Devices : At(d, "begin"))
  /\ Known(run[Phone].mine)
  /\ \A d \in Devices, i \in Docs : part[d][i] < Sizes[i]

LEMMA FreshIsInStep == Fresh => StepInv
<1> SUFFICES ASSUME Fresh
             PROVE  StepInv
  OBVIOUS
<1>1. \A d \in Devices : ~Ahead(d) /\ run[d].at \in {"rest", "begin"} /\ ~Begun(d) /\ Found(d) = NoRequest
  BY DEF Fresh, Ahead, At, Begun, Working, Found
<1>2. \A d \in Devices : Early(d)
  BY <1>1 DEF Fresh, Early, At, One
<1>3. Together
  BY DevicesAre DEF Fresh, Together, At
<1>4. DesktopSends = 0 /\ PhoneSends = 0
  BY <1>1, CostsOfNone, DevicesAre DEF Fresh, DesktopSends, PhoneSends
<1>5. Shared
  <2>1. \A d \in Devices : Asked(d)
    BY <1>1, CostsOfNone DEF Fresh, Asked
  <2>2. Known(DOMAIN run[Phone].asked) /\ Known(DOMAIN Found(Phone)) /\ Sum(Whole(Found(Phone))) = 0
    BY <1>1, CostsOfNone, DevicesAre DEF Fresh, Known
  <2>3. ~At(Desktop, "have")
    BY <1>1, DevicesAre DEF At
  <2>4. 0 <= Budget /\ 0 + 0 <= Budget
    BY BoundsAssumption
  <2> QED BY <1>4, <2>1, <2>2, <2>3, <2>4 DEF Shared, Fresh
<1> QED BY <1>1, <1>2, <1>3, <1>5 DEF StepInv, View

LEMMA IdleIsFresh ==
  ASSUME StepInv, Idle
  PROVE  /\ \A d \in Devices : wire[d] = <<>> /\ run[d].asked = NoRequest /\ run[d].spent = 0
         /\ Known(run[Phone].mine) /\ \A d \in Devices, i \in Docs : part[d][i] < Sizes[i]
BY DEF StepInv, View, Early, Idle, At, Shared, Working

LEMMA MergedKnown ==
  ASSUME FilesInv, NEW newer \in [Docs -> Devices], NEW mode, NEW applied, rows' = Merged(newer, mode, applied)
  PROVE  \A i \in Docs : rows[Phone][i].state # "none" => rows'[Phone][i].state # "none"
<1>1. TAKE i \in Docs
<1>2. \A d \in Devices : rows[d][i] \in Row /\ (rows[d][i].changed => rows[d][i].state # "none")
  BY DEF FilesInv, TypeInv, RowsInv
<1>3. \A r \in Row : \A b : [r EXCEPT !.changed = b].state = r.state
  BY DEF Row
<1>4. Adopts(Phone, i, newer, mode, applied) => rows[Other(Phone)][i].changed
  BY DevicesAre DEF Adopts
<1>5. rows'[Phone][i] =
        IF Adopts(Phone, i, newer, mode, applied)
        THEN [rows[Other(Phone)][i] EXCEPT !.changed = FALSE]
        ELSE [rows[Phone][i] EXCEPT !.changed =
                @ /\ newer[i] = Phone /\ ~Adopts(Other(Phone), i, newer, mode, applied)]
  BY DevicesAre DEF Merged
<1> QED BY <1>2, <1>3, <1>4, <1>5, DevicesAre

LEMMA StartKeepsStep ==
  ASSUME FilesInv, StepInv, NEW mode \in Modes, Start(mode)
  PROVE  StepInv'
<1>1. /\ run' = [d \in Devices |-> [Resting EXCEPT !.at = "begin", !.mode = mode]]
      /\ UNCHANGED <<part, wire>> /\ Idle
  BY DEF Start, ghosts
<1>2. \A d \in Devices : /\ run'[d].at = "begin" /\ run'[d].asked = NoRequest /\ run'[d].spent = 0
                         /\ run'[d].mine = {}
  BY <1>1 DEF Resting
<1>3. Fresh'
  BY <1>1, <1>2, IdleIsFresh, DevicesAre DEF Fresh, At, Known
<1>4. (Fresh => StepInv)'
  BY FreshIsInStep, PTL
<1> QED BY <1>3, <1>4

LEMMA StartAndBreakKeepsStep ==
  ASSUME FilesInv, StepInv, NEW mode \in Modes, NEW d \in Devices, StartAndBreak(mode, d)
  PROVE  StepInv'
<1>1. UNCHANGED <<part, run, wire>> /\ Idle
  BY DEF StartAndBreak
<1>2. PICK newer \in [Docs -> Devices] : rows' = Merged(newer, mode, {d})
  BY DEF StartAndBreak
<1>3. Known(run[Phone].mine)'
  <2>1. run[Phone].mine \in SUBSET Docs /\ Known(run[Phone].mine)
    BY <1>1, IdleIsFresh, SidesAre, DevicesAre DEF FilesInv
  <2>2. \A i \in Docs : rows[Phone][i].state # "none" => rows'[Phone][i].state # "none"
    BY <1>2, MergedKnown
  <2> QED BY <1>1, <2>1, <2>2 DEF Known
<1>4. Fresh'
  BY <1>1, <1>3, IdleIsFresh DEF Fresh, At, Idle
<1>5. (Fresh => StepInv)'
  BY FreshIsInStep, PTL
<1> QED BY <1>4, <1>5

\* A device leaves: the other one goes on alone with what is on its way.
LEMMA LeavesKeepsStep ==
  ASSUME FilesInv, StepInv, UNCHANGED rows, NEW d \in Devices,
         run'[d] = Resting, run'[Other(d)] = run[Other(d)], wire'[d] = <<>>,
         \A e \in Devices, i \in Docs : part'[e][i] < Sizes[i],
         View(Other(d))', Asked(Other(d))',
         d = Desktop => Found(Phone)' = Found(Phone),
         d = Phone =>
           /\ DesktopSends' \in Nat /\ DesktopSends' <= Budget
           /\ (At(Desktop, "have") /\ wire[Desktop] # <<>> => Known(Head(wire[Desktop]).body))'
  PROVE  StepInv'
<1>1. /\ run'[d].at = "rest" /\ run'[d].mine = {} /\ run'[d].asked = NoRequest /\ run'[d].spent = 0
  BY DEF Resting
<1>2. View(d)' /\ Found(d)' = NoRequest /\ ~At(d, "have")'
  BY <1>1 DEF View, Early, Begun, Ahead, At, Working, Found
<1>3. Asked(d)'
  BY <1>1, <1>2, CostsOfNone DEF Asked
<1>4. Together'
  <2>1. At(d, "rest")'
    BY <1>1 DEF At
  <2> QED BY <2>1, DevicesAre DEF Together
<1>5. DesktopSends \in Nat /\ PhoneSends \in Nat /\ DesktopSends + PhoneSends <= Budget /\ Budget \in Nat
  BY SendsAre, BoundsAssumption DEF StepInv, View, Shared, FilesInv
<1>6. CASE d = Desktop
  <2>1. Other(d) = Phone /\ Phone \in Devices
    BY <1>6, DevicesAre
  <2>2. PhoneSends' = PhoneSends /\ DesktopSends' = 0
    BY <1>1, <1>2, <1>6, <2>1, CostsOfNone DEF PhoneSends, DesktopSends, Alive, Live
  <2>3. (DesktopSends + PhoneSends <= Budget)'
    BY <1>5, <2>2
  <2>4. (Known(run[Phone].mine) /\ Known(DOMAIN run[Phone].asked) /\ Known(DOMAIN Found(Phone)))'
    BY <1>6, <2>1 DEF StepInv, Shared, Known
  <2>5. (Sum(Whole(Found(Phone))) <= Budget)'
    BY <1>6 DEF StepInv, Shared
  <2>6. \A e \in Devices : View(e)' /\ Asked(e)'
    BY <1>2, <1>3, <2>1, DevicesAre
  <2>7. Shared'
    BY <1>2, <1>6, <2>3, <2>4, <2>5, <2>6 DEF Shared
  <2> QED BY <1>4, <2>6, <2>7 DEF StepInv
<1>7. CASE d = Phone
  <2>1. Other(d) = Desktop
    BY <1>7, DevicesAre
  <2>2. PhoneSends' = 0
    BY <1>1, <1>7, CostsOfNone DEF PhoneSends
  <2>3. (DesktopSends + PhoneSends <= Budget)'
    BY <1>7, <2>2
  <2>4. (Known(run[Phone].mine) /\ Known(DOMAIN run[Phone].asked) /\ Known(DOMAIN Found(Phone)))'
    BY <1>1, <1>2, <1>7, CostsOfNone DEF Known
  <2>5. (Sum(Whole(Found(Phone))) <= Budget)'
    BY <1>2, <1>5, <1>7, CostsOfNone
  <2>6. \A e \in Devices : View(e)' /\ Asked(e)'
    BY <1>2, <1>3, <2>1, DevicesAre
  <2>7. Shared'
    BY <1>7, <2>3, <2>4, <2>5, <2>6 DEF Shared
  <2> QED BY <1>4, <2>6, <2>7 DEF StepInv
<1> QED BY <1>6, <1>7, DevicesAre

LEMMA EndsIs ==
  ASSUME TypeInv, NEW d \in Devices, NEW sent \in Seq(Messages), Ends(d, sent)
  PROVE  /\ run'[d] = Resting /\ run'[Other(d)] = run[Other(d)] /\ wire'[d] = <<>>
         /\ At(Other(d), "rest") => wire'[Other(d)] = wire[Other(d)]
         /\ ~At(Other(d), "rest") => wire'[Other(d)] = wire[Other(d)] \o sent
         /\ sent = <<>> => wire'[Other(d)] = wire[Other(d)]
<1> DEFINE theirs == IF At(Other(d), "rest") THEN wire[Other(d)] ELSE wire[Other(d)] \o sent
           none == <<>>
<1>1. wire' = [wire EXCEPT ![d] = none, ![Other(d)] = theirs]
  BY DEF Ends
<1>2. sent = <<>> => theirs = wire[Other(d)]
  <2>1. wire[Other(d)] \in Seq(Messages)
    BY SidesAre, DevicesAre
  <2>2. wire[Other(d)] \o <<>> = wire[Other(d)]
    BY <2>1
  <2> QED BY <2>2
<1>3. At(Other(d), "rest") => theirs = wire[Other(d)]
  OBVIOUS
<1>4. ~At(Other(d), "rest") => theirs = wire[Other(d)] \o sent
  OBVIOUS
<1> HIDE DEF theirs, none
<1>5. wire'[d] = none /\ wire'[Other(d)] = theirs
  BY <1>1, DevicesAre DEF TypeInv
<1> QED BY <1>2, <1>3, <1>4, <1>5, EndsSends DEF none

LEMMA LeavesQuietly ==
  ASSUME FilesInv, StepInv, UNCHANGED rows, NEW d \in Devices, Ends(d, <<>>),
         part'[Other(d)] = part[Other(d)], \A e \in Devices, i \in Docs : part'[e][i] < Sizes[i]
  PROVE  StepInv'
<1> DEFINE none == <<>>
<1>1. none \in Seq(Messages) /\ Ends(d, none) /\ none = <<>>
  BY RangeOfNone
<1> HIDE DEF none
<1>2. /\ run'[d] = Resting /\ run'[Other(d)] = run[Other(d)] /\ wire'[d] = <<>>
      /\ wire'[Other(d)] = wire[Other(d)] /\ Other(d) \in Devices
  BY <1>1, EndsIs, DevicesAre DEF FilesInv
<1>3. View(Other(d))' /\ Found(Other(d))' = Found(Other(d))
  BY <1>2, ViewStays DEF StepInv
<1>4. Asked(Other(d))'
  BY <1>2, <1>3 DEF StepInv, Shared, Asked
<1>5. ASSUME d = Phone
      PROVE  /\ DesktopSends' \in Nat /\ DesktopSends' <= Budget
             /\ (At(Desktop, "have") /\ wire[Desktop] # <<>> => Known(Head(wire[Desktop]).body))'
  <2>1. Other(d) = Desktop
    BY <1>5, DevicesAre
  <2>2. DesktopSends' = DesktopSends
    BY <1>2, <1>3, <2>1 DEF DesktopSends
  <2>3. DesktopSends \in Nat /\ PhoneSends \in Nat /\ DesktopSends + PhoneSends <= Budget
    BY SendsAre DEF StepInv, View, Shared, FilesInv
  <2>4. (At(Desktop, "have") /\ wire[Desktop] # <<>> => Known(Head(wire[Desktop]).body))'
    BY <1>2, <2>1 DEF At, Known, StepInv, Shared
  <2> QED BY <2>2, <2>3, <2>4, BoundsAssumption
<1>6. d = Desktop => Found(Phone)' = Found(Phone)
  BY <1>3, DevicesAre
<1> QED BY <1>2, <1>3, <1>4, <1>5, <1>6, LeavesKeepsStep

LEMMA PeerGoneKeepsStep ==
  ASSUME FilesInv, StepInv, NEW d \in Devices, PeerGone(d) \/ Break(d)
  PROVE  StepInv'
<1>1. Ends(d, <<>>) /\ UNCHANGED <<rows, part>>
  BY DEF PeerGone, Break, ghosts
<1>2. \A e \in Devices, i \in Docs : part'[e][i] < Sizes[i]
  BY <1>1 DEF StepInv, Shared
<1> QED BY <1>1, <1>2, LeavesQuietly

LEMMA TakeStoredKeepsStep ==
  ASSUME FilesInv, StepInv, TakeStored
  PROVE  StepInv'
<1>1. Ends(Phone, <<>>) /\ UNCHANGED rows
  BY DEF TakeStored
<1>2. PICK dropped : part' = [part EXCEPT ![Phone] = [i \in Docs |-> IF i \in dropped THEN 0 ELSE @[i]]]
  BY DEF TakeStored
<1>3. \A i \in Docs : 0 < Sizes[i]
  BY DocsAssumption
<1>4. \A e \in Devices, i \in Docs : part'[e][i] < Sizes[i]
  BY <1>2, <1>3 DEF StepInv, Shared, FilesInv, TypeInv
<1>5. part'[Other(Phone)] = part[Other(Phone)]
  BY <1>2, DevicesAre DEF FilesInv, TypeInv
<1> QED BY <1>1, <1>4, <1>5, LeavesQuietly, DevicesAre

\* The desktop tells the phone, behind the last file it sent, what it holds.
LEMMA ConfirmKeepsStep ==
  ASSUME FilesInv, StepInv, Confirm
  PROVE  StepInv'
<1> DEFINE fresh == run[Desktop].arrived
           held == {i \in fresh \cup run[Desktop].theirs : HoldsWhole(i, fresh)}
           told == [kind |-> "stored", body |-> held]
           sent == Message("stored", held)
<1>0. /\ TypeInv /\ View(Desktop) /\ View(Phone) /\ Early(Phone) /\ Asked(Phone) /\ At(Desktop, "stored")
      /\ Desktop \in Devices /\ Phone \in Devices /\ Other(Desktop) = Phone /\ Other(Phone) = Desktop
  BY DevicesAre DEF FilesInv, StepInv, Shared, View, Confirm
<1>1. told \in Messages
  <2>1. run[Desktop] \in Run
    BY <1>0, SidesAre
  <2>2. held \subseteq Docs
    BY <2>1 DEF Run
  <2> QED BY <2>2 DEF Messages
<1>2. Ends(Desktop, sent) /\ UNCHANGED <<rows, part>>
  BY DEF Confirm, ghosts
<1> HIDE DEF held
<1>3. sent = <<told>> /\ sent \in Seq(Messages) /\ sent # <<>> /\ sent[1].kind # "piece"
  BY <1>1 DEF Message
<1> HIDE DEF sent
<1>4. /\ run'[Desktop] = Resting /\ run'[Phone] = run[Phone] /\ wire'[Desktop] = <<>>
      /\ At(Phone, "rest") => wire'[Phone] = wire[Phone]
      /\ ~At(Phone, "rest") => wire'[Phone] = wire[Phone] \o sent
  BY <1>0, <1>2, <1>3, EndsIs
<1>5. View(Phone)' /\ Found(Phone)' = Found(Phone)
  <2>1. CASE At(Phone, "rest")
    BY <1>0, <1>2, <1>4, <2>1, ViewStays
  <2>2. CASE ~At(Phone, "rest")
    <3>1. run[Phone].at \in Working /\ Owing(Phone)
      BY <1>0, <2>2 DEF StepInv, Together, Ahead, At, Working
    <3>2. ~At(Phone, "need") /\ ~At(Phone, "begin") /\ ~At(Phone, "have") /\ Begun(Phone)
      BY <3>1 DEF At, Working, Begun
    <3>3. run[Desktop].asked = NoRequest
      BY <1>0 DEF View, Early
    <3>4. Coming(Phone) /\ Files(Phone) = wire[Phone] /\ wire[Phone] \in Seq(Messages) /\ Open(Phone) \in SUBSET Docs
      BY <1>0, <3>2, SidesAre DEF View, Files
    <3>5. Way(wire[Phone] \o sent, Open(Phone), run[Phone].want)
      <4>1. Way(wire[Phone], Open(Phone), run[Phone].want) /\ Owes(wire[Phone], Open(Phone), run[Phone].want, NoRequest)
        BY <1>0, <3>1, <3>3, <3>4 DEF Coming, Pending, Owing
      <4> QED BY <1>1, <3>4, <4>1, WayStored DEF sent
    <3>6. \A c \in Nat : Block(wire[Phone], 0, c) => Block(wire[Phone] \o sent, 0, c)
      BY <1>3, <3>4, BlockJoin
    <3>7. Files(Phone)' = wire[Phone] \o sent /\ Open(Phone)' = Open(Phone)
      BY <1>4, <2>2, <3>2 DEF Files, Open, At
    <3>8. Coming(Phone)'
      <4>1. Way(Files(Phone), Open(Phone), run[Phone].want)'
        BY <1>4, <3>5, <3>7
      <4>2. PICK c \in Nat :
              /\ Block(wire[Phone], 0, c)
              /\ c = 0 <=> run[Phone].taking = NotTaking
              /\ run[Phone].taking.open => part[Phone][run[Phone].taking.doc] + c = Sizes[run[Phone].taking.doc]
        BY <3>4 DEF Coming, Pending
      <4>3. /\ Block(Files(Phone)', 0, c)
            /\ c = 0 <=> run'[Phone].taking = NotTaking
            /\ run'[Phone].taking.open => part'[Phone][run'[Phone].taking.doc] + c = Sizes[run'[Phone].taking.doc]
        BY <1>2, <1>4, <3>6, <3>7, <4>2
      <4>4. (run[Phone].taking # NotTaking => run[Phone].taking.doc = Newest(run[Phone].want))'
        BY <1>4, <3>4 DEF Coming, Pending
      <4> QED BY <4>1, <4>3, <4>4 DEF Coming, Pending
    <3>9. Early(Phone)'
      BY <1>0, <1>4, <2>2, <3>2 DEF View, Early, At, Ahead
    <3>10. Found(Phone)' = Found(Phone)
      BY <1>4, <3>2 DEF Found, Ahead, At
    <3> QED BY <3>8, <3>9, <3>10 DEF View
  <2> QED BY <2>1, <2>2
<1>6. Asked(Phone)'
  BY <1>0, <1>4, <1>5 DEF Asked
<1>7. \A e \in Devices, i \in Docs : part'[e][i] < Sizes[i]
  BY <1>2 DEF StepInv, Shared
<1>8. Desktop # Phone
  BY DevicesAre
<1> QED BY <1>0, <1>2, <1>4, <1>5, <1>6, <1>7, <1>8, LeavesKeepsStep

-----------------------------------------------------------------------------
(***************************************************************************)
(* The lists and the requests.                                             *)
(***************************************************************************)
LEMMA TalkIs ==
  ASSUME TypeInv, NEW d \in Devices, NEW took \in BOOLEAN, NEW sent \in Seq(Messages), Talk(d, took, sent)
  PROVE  /\ took => wire'[d] = Tail(wire[d])
         /\ ~took => wire'[d] = wire[d]
         /\ At(Other(d), "rest") => wire'[Other(d)] = wire[Other(d)]
         /\ ~At(Other(d), "rest") => wire'[Other(d)] = wire[Other(d)] \o sent
         /\ sent = <<>> => wire'[Other(d)] = wire[Other(d)]
<1> DEFINE theirs == IF At(Other(d), "rest") THEN wire[Other(d)] ELSE wire[Other(d)] \o sent
           mine == IF took THEN Tail(wire[d]) ELSE wire[d]
<1>1. wire' = [wire EXCEPT ![d] = mine, ![Other(d)] = theirs]
  BY DEF Talk
<1>2. sent = <<>> => theirs = wire[Other(d)]
  <2>1. wire[Other(d)] \in Seq(Messages)
    BY SidesAre, DevicesAre
  <2>2. wire[Other(d)] \o <<>> = wire[Other(d)]
    BY <2>1
  <2> QED BY <2>2
<1>3. /\ At(Other(d), "rest") => theirs = wire[Other(d)]
      /\ ~At(Other(d), "rest") => theirs = wire[Other(d)] \o sent
      /\ took => mine = Tail(wire[d])
      /\ ~took => mine = wire[d]
  OBVIOUS
<1> HIDE DEF theirs, mine
<1>4. wire'[d] = mine /\ wire'[Other(d)] = theirs
  BY <1>1, DevicesAre DEF TypeInv
<1> QED BY <1>2, <1>3, <1>4

\* A message to a device that waits with nothing on its way.
LEMMA FirstIs ==
  ASSUME NEW kind, NEW body, [kind |-> kind, body |-> body] \in Messages
  PROVE  /\ Message(kind, body) \in Seq(Messages) /\ <<>> \o Message(kind, body) = Message(kind, body)
         /\ Message(kind, body) # <<>> /\ Len(Message(kind, body)) = 1
         /\ Head(Message(kind, body)) = [kind |-> kind, body |-> body]
         /\ Message(kind, body)[1] = [kind |-> kind, body |-> body]
         /\ Tail(Message(kind, body)) = <<>>
<1> DEFINE m == [kind |-> kind, body |-> body]
<1>1. Message(kind, body) = <<m>> /\ m \in Messages
  BY DEF Message
<1> HIDE DEF m
<1>2. /\ <<m>> \in Seq(Messages) /\ <<>> \o <<m>> = <<m>> /\ <<m>> # <<>> /\ Len(<<m>>) = 1
      /\ Head(<<m>>) = m /\ <<m>>[1] = m /\ Tail(<<m>>) = <<>>
  BY <1>1
<1> QED BY <1>1, <1>2 DEF m

\* A message that was alone is taken.
LEMMA LastIs ==
  ASSUME NEW w \in Seq(Messages), w # <<>>, Len(w) = 1
  PROVE  Tail(w) = <<>>
<1>1. Tail(w) \in Seq(Messages) /\ Len(Tail(w)) = 0
  BY TailIs
<1> QED BY <1>1, EmptyIs

LEMMA SharedStays ==
  ASSUME StepInv, UNCHANGED <<rows, part>>,
         \A e \in Devices : /\ run'[e].asked = run[e].asked /\ run'[e].spent = run[e].spent
                            /\ Found(e)' = Found(e),
         Known(run'[Phone].mine),
         (At(Desktop, "have") /\ wire[Desktop] # <<>> => Known(Head(wire[Desktop]).body))'
  PROVE  Shared'
<1>1. \A e \in Devices, i \in Docs : part'[e][i] < Sizes[i]
  BY DEF StepInv, Shared
<1>2. \A e \in Devices : Asked(e)'
  BY DEF StepInv, Shared, Asked
<1>3. (Known(run[Phone].mine) /\ Known(DOMAIN run[Phone].asked) /\ Known(DOMAIN Found(Phone)))'
  BY DevicesAre DEF StepInv, Shared, Known
<1>4. (Sum(Whole(Found(Phone))) <= Budget)'
  BY DevicesAre DEF StepInv, Shared
<1>5. DesktopSends' = DesktopSends /\ PhoneSends' = PhoneSends
  BY DevicesAre DEF DesktopSends, PhoneSends, Alive, Live
<1> QED BY <1>1, <1>2, <1>3, <1>4, <1>5 DEF StepInv, Shared

LEMMA BeginKeepsStep ==
  ASSUME FilesInv, StepInv, NEW d \in Devices, Begin(d)
  PROVE  StepInv'
<1> DEFINE noted == [run[d] EXCEPT !.at = "have", !.mine = HaveList(d)]
           sent == IF d = Desktop THEN Message("have", HaveList(d)) ELSE <<>>
           o == Other(d)
<1>0. /\ TypeInv /\ View(d) /\ View(o) /\ At(d, "begin") /\ o \in Devices /\ run[d] \in Run
      /\ UNCHANGED <<rows, part>>
  BY SidesAre, DevicesAre DEF FilesInv, StepInv, Begin, ghosts
<1>1. [kind |-> "have", body |-> HaveList(d)] \in Messages
  BY DEF HaveList, Messages
<1>2. /\ Message("have", HaveList(d)) \in Seq(Messages) /\ <<>> \in Seq(Messages)
      /\ <<>> \o Message("have", HaveList(d)) = Message("have", HaveList(d))
      /\ Message("have", HaveList(d)) # <<>> /\ One(Message("have", HaveList(d)), "have")
  BY <1>1, FirstIs, RangeOfNone DEF One
<1>3. /\ noted.at = "have" /\ noted.mine = HaveList(d) /\ noted.want = run[d].want
      /\ noted.asked = run[d].asked /\ noted.spent = run[d].spent /\ noted.taking = run[d].taking
  BY <1>0 DEF Run
<1>4. run' = [run EXCEPT ![d] = noted] /\ Talk(d, FALSE, sent)
  BY DEF Begin
<1> HIDE DEF noted
<1>5. run'[d] = noted /\ run'[o] = run[o]
  BY <1>0, <1>4, DevicesAre DEF TypeInv
<1>6. /\ wire'[d] = wire[d]
      /\ At(o, "rest") => wire'[o] = wire[o]
      /\ ~At(o, "rest") => wire'[o] = wire[o] \o sent
      /\ sent = <<>> => wire'[o] = wire[o]
  BY <1>0, <1>2, <1>4, TalkIs
<1>7. View(d)' /\ Found(d)' = NoRequest /\ Found(d) = NoRequest
  BY <1>0, <1>3, <1>5, <1>6 DEF View, Early, Begun, Ahead, At, Working, Found
<1>8. Known(HaveList(Phone))
  BY DEF Known, HaveList, Live
<1>9. CASE d = Desktop
  <2>1. o = Phone /\ sent = Message("have", HaveList(d)) /\ wire[Desktop] = <<>>
    BY <1>0, <1>9, DevicesAre DEF View, Early
  <2>2. \/ At(Phone, "rest")
        \/ run[Phone].at \in {"begin", "have"} /\ wire[Phone] = <<>>
    BY <1>0, <1>9 DEF StepInv, Together, At, Ahead, Working
  <2>3. CASE At(Phone, "rest")
    <3>1. View(Phone)' /\ Found(Phone)' = Found(Phone)
      BY <1>0, <1>5, <1>6, <2>1, <2>3, ViewStays
    <3>2. Together'
      BY <1>5, <2>1, <2>3 DEF Together, At
    <3>3. Known(run'[Phone].mine)
      BY <1>5, <2>1 DEF StepInv, Shared
    <3>4. Shared'
      BY <1>0, <1>3, <1>5, <1>6, <1>7, <1>9, <2>1, <3>1, <3>3, SharedStays, DevicesAre
    <3> QED BY <1>7, <1>9, <3>1, <3>2, <3>4, DevicesAre DEF StepInv
  <2>4. CASE run[Phone].at \in {"begin", "have"} /\ wire[Phone] = <<>>
    <3>1. wire'[Phone] = Message("have", HaveList(d))
      BY <1>2, <1>6, <2>1, <2>4 DEF At
    <3>2. View(Phone)' /\ Found(Phone)' = NoRequest /\ Found(Phone) = NoRequest
      <4>1. Early(Phone)'
        BY <1>0, <1>2, <1>5, <2>1, <2>4, <3>1, DevicesAre DEF View, Early, At, Ahead, Working
      <4> QED BY <1>5, <2>1, <2>4, <4>1 DEF View, Begun, Ahead, At, Working, Found
    <3>3. Together'
      BY <1>2, <1>3, <1>5, <1>6, <1>9, <2>1, <2>4, <3>1 DEF Together, At
    <3>4. Known(run'[Phone].mine)
      BY <1>5, <2>1 DEF StepInv, Shared
    <3>5. Shared'
      BY <1>0, <1>3, <1>5, <1>6, <1>7, <1>9, <2>1, <3>2, <3>4, SharedStays, DevicesAre
    <3> QED BY <1>7, <1>9, <3>2, <3>3, <3>5, DevicesAre DEF StepInv
  <2> QED BY <2>2, <2>3, <2>4
<1>10. CASE d = Phone
  <2>1. o = Desktop /\ sent = <<>> /\ wire'[Desktop] = wire[Desktop]
    BY <1>6, <1>10, DevicesAre
  <2>2. View(Desktop)' /\ Found(Desktop)' = Found(Desktop)
    BY <1>0, <1>5, <2>1, ViewStays
  <2>3. Together'
    <3>1. \/ At(Desktop, "rest")
          \/ At(Desktop, "begin") /\ wire[Desktop] = <<>> /\ wire[Phone] = <<>>
          \/ At(Desktop, "have") /\ wire[Desktop] = <<>> /\ wire[Phone] # <<>>
      BY <1>0, <1>10 DEF StepInv, Together, At, Ahead, Working
    <3> QED BY <1>3, <1>5, <1>6, <1>10, <2>1, <3>1 DEF Together, At
  <2>4. Known(run'[Phone].mine)
    BY <1>3, <1>5, <1>8, <1>10
  <2>5. (At(Desktop, "have") /\ wire[Desktop] # <<>> => Known(Head(wire[Desktop]).body))'
    BY <1>0, <1>5, <2>1 DEF StepInv, Shared, At, Known
  <2>6. Shared'
    BY <1>0, <1>3, <1>5, <1>7, <1>10, <2>1, <2>2, <2>4, <2>5, SharedStays, DevicesAre
  <2> QED BY <1>7, <1>10, <2>1, <2>2, <2>3, <2>6, DevicesAre DEF StepInv
<1> QED BY <1>9, <1>10, DevicesAre

\* Nothing is on its way to a device that takes nothing.
LEMMA WayOfNone ==
  /\ Block(<<>>, 0, 0) /\ (\A c \in Nat : Block(<<>>, 0, c) => c = 0)
  /\ \A open, want : Way(<<>>, open, want)
  /\ \A open, want, asked :
       Owes(<<>>, open, want, asked) <=>
         /\ \A j \in DOMAIN asked : j \in open /\ asked[j] = want[j]
         /\ \A j \in open : j \in DOMAIN asked
<1>1. DOMAIN <<>> = {} /\ Len(<<>>) = 0 /\ 1..0 = {}
  OBVIOUS
<1>2. Named(<<>>) = {}
  BY <1>1 DEF Named
<1>3. Block(<<>>, 0, 0)
  BY <1>1 DEF Block
<1>4. \A c \in Nat : Block(<<>>, 0, c) => c = 0
  BY <1>1 DEF Block
<1> QED BY <1>1, <1>2, <1>3, <1>4 DEF Way, Owes

LEMMA ComingNone ==
  ASSUME NEW d \in Devices, Files(d)' = <<>>, run'[d].taking = NotTaking
  PROVE  Coming(d)'
<1>1. Way(Files(d), Open(d), run[d].want)' /\ Block(Files(d), 0, 0)'
  BY WayOfNone
<1>2. (\E c \in Nat :
         /\ Block(Files(d), 0, c)
         /\ c = 0 <=> run[d].taking = NotTaking
         /\ run[d].taking.open => part[d][run[d].taking.doc] + c = Sizes[run[d].taking.doc])'
  <2>1. ~run'[d].taking.open
    BY DEF NotTaking
  <2>2. /\ Block(Files(d)', 0, 0)
        /\ 0 = 0 <=> run'[d].taking = NotTaking
        /\ run'[d].taking.open => part'[d][run'[d].taking.doc] + 0 = Sizes[run'[d].taking.doc]
    BY <1>1, <2>1
  <2> QED BY <2>2
<1> QED BY <1>1, <1>2 DEF Coming, Pending

LEMMA WantedByFits ==
  ASSUME FilesInv, StepInv, NEW d \in Devices, NEW theirs \in SUBSET Docs, NEW budget \in Nat
  PROVE  /\ WantedBy(d, theirs, budget) \in Requests /\ DOMAIN WantedBy(d, theirs, budget) \subseteq theirs
         /\ Fits(WantedBy(d, theirs, budget)) /\ Sum(Whole(WantedBy(d, theirs, budget))) <= budget
<1>1. WantedBy(d, theirs, budget) \in Requests
  BY WantedIsRequest DEF FilesInv
<1>2. /\ DOMAIN Wanted(d, theirs, budget) \subseteq theirs /\ Fits(Wanted(d, theirs, budget))
      /\ Sum(Whole(Wanted(d, theirs, budget))) <= budget
  BY WantedFits DEF FilesInv, TypeInv, StepInv, Shared
<1>3. 0 <= budget
  OBVIOUS
<1> QED BY <1>1, <1>2, <1>3, CostsOfNone DEF WantedBy

LEMMA TakeHaveKeepsStep ==
  ASSUME FilesInv, StepInv, NEW d \in Devices, TakeHave(d)
  PROVE  StepInv'
<1> DEFINE theirs == Arriving(d)
           want == IF d = Desktop THEN WantedBy(d, theirs, Budget) ELSE NoRequest
           sent == IF d = Desktop THEN Message("need", want) ELSE Message("have", run[d].mine)
           noted == [run[d] EXCEPT !.at = "need", !.theirs = theirs, !.want = want]
           o == Other(d)
<1>0. /\ TypeInv /\ View(d) /\ View(o) /\ At(d, "have") /\ o \in Devices /\ run[d] \in Run
      /\ UNCHANGED <<rows, part>> /\ run[d].mine \in SUBSET Docs /\ run[d].taking = NotTaking
  BY SidesAre, DevicesAre DEF FilesInv, StepInv, TakeHave, ghosts, TakesKnown, At
<1>1. wire[d] # <<>> /\ theirs \in SUBSET Docs /\ Tail(wire[d]) = <<>>
  <2>1. wire[d] # <<>> /\ theirs \in SUBSET Docs
    BY ArrivedIs DEF FilesInv, TakeHave
  <2>2. wire[d] \in Seq(Messages) /\ Len(wire[d]) = 1
    BY <1>0, <2>1, SidesAre DEF View, Early, One
  <2> QED BY <2>1, <2>2, LastIs
<1>2. want \in Requests /\ DOMAIN want \subseteq theirs /\ Fits(want) /\ Sum(Whole(want)) <= Budget
  <2>1. Budget \in Nat /\ 0 <= Budget
    BY BoundsAssumption
  <2> HIDE DEF theirs
  <2> QED BY <1>1, <2>1, WantedByFits, CostsOfNone
<1>3. /\ run' = [run EXCEPT ![d] = noted] /\ Talk(d, TRUE, sent)
  BY DEF TakeHave
<1>4. Known(theirs) \/ d = Phone
  BY <1>0, <1>1, DevicesAre DEF StepInv, Shared, Arriving
<1> HIDE DEF theirs
<1>5. d = Phone => want = NoRequest
  BY DevicesAre
<1> HIDE DEF want
<1>6. /\ noted.at = "need" /\ noted.mine = run[d].mine /\ noted.want = want
      /\ noted.asked = run[d].asked /\ noted.spent = run[d].spent /\ noted.taking = run[d].taking
  BY <1>0 DEF Run
<1> HIDE DEF noted
<1>7. run'[d] = noted /\ run'[o] = run[o]
  BY <1>0, <1>3, DevicesAre DEF TypeInv
<1>8. [kind |-> "need", body |-> want] \in Messages /\ [kind |-> "have", body |-> run[d].mine] \in Messages
  BY <1>0, <1>2 DEF Messages
<1>9. sent \in Seq(Messages) /\ <<>> \o sent = sent
  BY <1>8, FirstIs
<1>10. /\ wire'[d] = <<>>
       /\ At(o, "rest") => wire'[o] = wire[o]
       /\ ~At(o, "rest") => wire'[o] = wire[o] \o sent
  BY <1>0, <1>1, <1>3, <1>9, TalkIs
<1>11. View(d)' /\ Found(d)' = NoRequest /\ Found(d) = NoRequest
  BY <1>0, <1>6, <1>7, <1>10 DEF View, Early, Begun, Ahead, At, Working, Found
<1>12. CASE d = Desktop
  <2>1. o = Phone /\ sent = Message("need", want)
    BY <1>12, DevicesAre
  <2>2. At(Phone, "rest") \/ (At(Phone, "need") /\ wire[Phone] = <<>>)
    BY <1>0, <1>1, <1>12 DEF StepInv, Together, At, Ahead, Working
  <2>3. CASE At(Phone, "rest")
    <3>1. View(Phone)' /\ Found(Phone)' = Found(Phone)
      BY <1>0, <1>7, <1>10, <2>1, <2>3, ViewStays
    <3>2. Together'
      BY <1>7, <2>1, <2>3 DEF Together, At
    <3>3. Known(run'[Phone].mine)
      BY <1>7, <2>1 DEF StepInv, Shared
    <3>4. ~At(Desktop, "have")'
      BY <1>6, <1>7, <1>12 DEF At
    <3>5. Shared'
      BY <1>0, <1>6, <1>7, <1>11, <1>12, <2>1, <3>1, <3>3, <3>4, SharedStays, DevicesAre
    <3> QED BY <1>11, <1>12, <3>1, <3>2, <3>5, DevicesAre DEF StepInv
  <2>4. CASE At(Phone, "need") /\ wire[Phone] = <<>>
    <3>1. /\ wire'[Phone] = Message("need", want) /\ run'[Phone].at = "need"
          /\ wire'[Phone] # <<>> /\ Len(wire'[Phone]) = 1 /\ wire'[Phone][1].kind = "need"
          /\ Head(wire'[Phone]).body = want /\ Tail(wire'[Phone]) = <<>>
      BY <1>7, <1>8, <1>9, <1>10, <2>1, <2>4, FirstIs DEF At
    <3>2. run[Phone].taking = NotTaking /\ Found(Phone) = NoRequest
      BY <2>4, DevicesAre DEF FilesInv, TakesKnown, At, Found, Ahead
    <3>3. Found(Phone)' = want
      BY <3>1 DEF Found, Ahead, At
    <3>4. View(Phone)'
      <4>1. Early(Phone)'
        BY <1>0, <1>7, <2>1, <2>4, <3>1, DevicesAre DEF View, Early, At, Ahead, Working
      <4>2. Files(Phone)' = <<>> /\ run'[Phone].taking = NotTaking
        BY <1>7, <2>1, <3>1, <3>2 DEF Files, At
      <4> QED BY <4>1, <4>2, ComingNone, DevicesAre DEF View
    <3>5. Together'
      <4>1. wire'[Desktop] = <<>> /\ run'[Desktop].at = "need" /\ run'[Desktop].want = want
        BY <1>6, <1>7, <1>10, <1>12
      <4> QED BY <3>1, <4>1 DEF Together, At
    <3>6. Shared'
      <4>1. \A e \in Devices : Asked(e)'
        BY <1>2, <1>6, <1>7, <1>11, <1>12, <2>1, <3>3, CostsOfNone, DevicesAre DEF StepInv, Shared, Asked
      <4>2. (Known(run[Phone].mine) /\ Known(DOMAIN run[Phone].asked) /\ Known(DOMAIN Found(Phone)))'
        BY <1>0, <1>2, <1>4, <1>7, <1>12, <2>1, <3>3, DevicesAre DEF StepInv, Shared, Known
      <4>3. ~At(Desktop, "have")'
        BY <1>6, <1>7, <1>12 DEF At
      <4>4. (Sum(Whole(Found(Phone))) <= Budget)'
        BY <1>2, <3>3
      <4>5. DesktopSends' = DesktopSends /\ PhoneSends' = PhoneSends
        BY <1>0, <1>6, <1>7, <1>11, <1>12, <2>1 DEF DesktopSends, PhoneSends, Alive, Live
      <4>6. \A e \in Devices, i \in Docs : part'[e][i] < Sizes[i]
        BY <1>0 DEF StepInv, Shared
      <4> QED BY <4>1, <4>2, <4>3, <4>4, <4>5, <4>6 DEF StepInv, Shared
    <3> QED BY <1>11, <1>12, <3>4, <3>5, <3>6, DevicesAre DEF StepInv
  <2> QED BY <2>2, <2>3, <2>4
<1>13. CASE d = Phone
  <2>1. o = Desktop /\ sent = Message("have", run[Phone].mine)
    BY <1>13, DevicesAre
  <2>2. At(Desktop, "rest") \/ (At(Desktop, "have") /\ wire[Desktop] = <<>>)
    BY <1>0, <1>1, <1>13 DEF StepInv, Together, At, Ahead, Working
  <2>3. Known(run[Phone].mine) /\ run'[Phone].mine = run[Phone].mine
    BY <1>6, <1>7, <1>13 DEF StepInv, Shared
  <2>4. CASE At(Desktop, "rest")
    <3>1. View(Desktop)' /\ Found(Desktop)' = Found(Desktop)
      BY <1>0, <1>7, <1>10, <2>1, <2>4, ViewStays
    <3>2. Together' /\ ~At(Desktop, "have")'
      BY <1>7, <2>1, <2>4 DEF Together, At
    <3>3. Shared'
      BY <1>0, <1>6, <1>7, <1>11, <1>13, <2>1, <2>3, <3>1, <3>2, SharedStays, DevicesAre DEF Known
    <3> QED BY <1>11, <1>13, <3>1, <3>2, <3>3, DevicesAre DEF StepInv
  <2>5. CASE At(Desktop, "have") /\ wire[Desktop] = <<>>
    <3>1. /\ wire'[Desktop] = Message("have", run[Phone].mine)
          /\ wire'[Desktop] # <<>> /\ Len(wire'[Desktop]) = 1 /\ wire'[Desktop][1].kind = "have"
          /\ Head(wire'[Desktop]).body = run[Phone].mine
      BY <1>8, <1>9, <1>10, <1>13, <2>1, <2>5, FirstIs DEF At
    <3>2. View(Desktop)' /\ Found(Desktop)' = NoRequest /\ Found(Desktop) = NoRequest
      <4>1. run'[Desktop] = run[Desktop] /\ run[Desktop].at = "have"
        BY <1>7, <2>1, <2>5 DEF At
      <4>2. Early(Desktop)'
        BY <1>0, <2>1, <3>1, <4>1, DevicesAre DEF View, Early, At, Ahead, Working, One
      <4> QED BY <4>1, <4>2 DEF View, Begun, Ahead, At, Working, Found
    <3>3. Together'
      BY <1>6, <1>7, <1>10, <1>13, <2>1, <2>5, <3>1 DEF Together, At
    <3>4. Shared'
      <4>1. (At(Desktop, "have") /\ wire[Desktop] # <<>> => Known(Head(wire[Desktop]).body))'
        BY <1>0, <2>3, <3>1 DEF Known
      <4>2. Known(run'[Phone].mine)
        BY <2>3
      <4> QED BY <1>0, <1>6, <1>7, <1>11, <1>13, <2>1, <3>2, <4>1, <4>2, SharedStays, DevicesAre
    <3> QED BY <1>11, <1>13, <3>2, <3>3, <3>4, DevicesAre DEF StepInv
  <2> QED BY <2>2, <2>4, <2>5
<1> QED BY <1>12, <1>13, DevicesAre

\* The desktop has the phone's request: what is on its way behind it stays.
LEMMA DesktopServes ==
  ASSUME FilesInv, StepInv, At(Desktop, "need"), wire[Desktop] # <<>>, UNCHANGED <<rows, part>>,
         NEW noted, noted.at = "serve", noted.asked = Found(Desktop), noted.want = run[Desktop].want,
         noted.spent = run[Desktop].spent, noted.taking = run[Desktop].taking,
         run'[Desktop] = noted, run'[Phone] = run[Phone],
         wire'[Desktop] = Tail(wire[Desktop]), wire'[Phone] = wire[Phone]
  PROVE  StepInv'
<1>0. /\ TypeInv /\ View(Desktop) /\ View(Phone) /\ Ahead(Desktop) /\ Coming(Desktop) /\ Early(Desktop)
      /\ Desktop \in Devices /\ Phone \in Devices /\ Desktop # Phone
      /\ Other(Desktop) = Phone /\ Other(Phone) = Desktop
  BY DevicesAre DEF FilesInv, StepInv, View, Ahead, Begun
<1>1. View(Phone)' /\ Found(Phone)' = Found(Phone) /\ Files(Phone)' = Files(Phone)
  BY <1>0, ViewStays
<1>2. Files(Desktop)' = Files(Desktop) /\ Open(Desktop)' = Open(Desktop) /\ Found(Desktop)' = NoRequest
  BY DEF Files, Open, Found, Ahead, At
<1>3. View(Desktop)'
  <2>1. Early(Desktop)'
    BY <1>0 DEF Early, At, Ahead, Working
  <2>2. Coming(Desktop)'
    BY <1>0, <1>2, ComingStays
  <2> QED BY <2>1, <2>2 DEF View
<1>4. \/ At(Phone, "rest")
      \/ /\ run[Phone].at \in Working /\ wire[Phone] = <<>>
         /\ Found(Desktop) = run[Phone].want /\ Owing(Desktop)
  <2>1. Found(Desktop) = wire[Desktop][1].body
    <3>1. wire[Desktop] \in Seq(Messages)
      BY <1>0, SidesAre
    <3> QED BY <1>0, <3>1, TailIs DEF Found
  <2> QED BY <1>0, <2>1 DEF StepInv, Together, At, Working
<1>5. Together'
  <2>1. CASE At(Phone, "rest")
    BY <2>1 DEF Together, At
  <2>2. CASE /\ run[Phone].at \in Working /\ wire[Phone] = <<>>
             /\ Found(Desktop) = run[Phone].want /\ Owing(Desktop)
    <3>1. run'[Phone].at \in Working /\ run'[Desktop].at \in Working
      BY <2>2 DEF Working
    <3>2. Owing(Desktop)'
      BY <1>0, <1>2, <2>2 DEF Owing
    <3>3. Files(Phone) = <<>> /\ Begun(Phone)
      BY <2>2 DEF Files, At, Working, Begun
    <3>4. run[Phone].taking = NotTaking
      <4>1. Coming(Phone)
        BY <1>0, <3>3 DEF View
      <4> QED BY <3>3, <4>1, WayOfNone DEF Coming, Pending
    <3>5. Open(Phone) = DOMAIN run[Phone].want
      BY <1>0, <3>4, NothingTaken
    <3>6. Owes(<<>>, Open(Phone), run[Phone].want, run[Phone].want)
      BY <3>5, WayOfNone
    <3>7. Owing(Phone)'
      <4>1. Open(Phone)' = Open(Phone) /\ Files(Phone)' = <<>> /\ run'[Desktop].asked = run[Phone].want
        BY <1>1, <2>2, <3>3 DEF Open
      <4> QED BY <1>0, <3>6, <4>1 DEF Owing
    <3> QED BY <3>1, <3>2, <3>7 DEF Together
  <2> QED BY <1>4, <2>1, <2>2
<1>6. Shared'
  <2>1. \A e \in Devices : Asked(e)'
    BY <1>0, <1>1, <1>2, CostsOfNone, DevicesAre DEF StepInv, Shared, Asked
  <2>2. (Known(run[Phone].mine) /\ Known(DOMAIN run[Phone].asked) /\ Known(DOMAIN Found(Phone)))'
    BY <1>1 DEF StepInv, Shared, Known
  <2>3. ~At(Desktop, "have")'
    BY DEF At
  <2>4. (Sum(Whole(Found(Phone))) <= Budget)'
    BY <1>1 DEF StepInv, Shared
  <2>5. PhoneSends' = PhoneSends
    BY DEF PhoneSends, Alive, Live
  <2>6. DesktopSends' = DesktopSends
    <3>1. run[Desktop].asked = NoRequest /\ Sum(Whole(NoRequest)) = 0
      BY <1>0, CostsOfNone DEF Early, At, Working
    <3>2. Found(Desktop) \in Requests /\ Fits(Found(Desktop)) /\ run[Desktop].spent \in Nat
      BY <1>0, FoundIs, SidesAre DEF StepInv, Shared, Asked
    <3>3. Sum(Whole(Found(Desktop))) \in Nat
      BY <3>2, CostsAre
    <3>4. DesktopSends' = run[Desktop].spent + Sum(Whole(Found(Desktop))) + 0
      BY <1>2, <3>1 DEF DesktopSends
    <3>5. DesktopSends = run[Desktop].spent + 0 + Sum(Whole(Found(Desktop)))
      BY <3>1 DEF DesktopSends
    <3> QED BY <3>2, <3>3, <3>4, <3>5
  <2>7. \A e \in Devices, i \in Docs : part'[e][i] < Sizes[i]
    BY DEF StepInv, Shared
  <2> QED BY <2>1, <2>2, <2>3, <2>4, <2>5, <2>6, <2>7 DEF StepInv, Shared
<1> QED BY <1>1, <1>3, <1>5, <1>6, DevicesAre DEF StepInv

\* The desktop, which waits for it, is sent the phone's request.
LEMMA DesktopIsAsked ==
  ASSUME FilesInv, StepInv, At(Phone, "need"), wire[Phone] # <<>>,
         NEW want \in Requests, Fits(want), run'[Desktop] = run[Desktop],
         At(Desktop, "rest") => wire'[Desktop] = wire[Desktop],
         ~At(Desktop, "rest") => wire'[Desktop] = wire[Desktop] \o Message("need", want),
         part'[Desktop] = part[Desktop]
  PROVE  /\ View(Desktop)' /\ Asked(Desktop)' /\ ~At(Desktop, "have")
         /\ run[Desktop].spent = 0 /\ run[Desktop].asked = NoRequest
         /\ Found(Desktop)' \in {NoRequest, want}
         /\ \/ At(Desktop, "rest")
            \/ /\ At(Desktop, "need") /\ Found(Phone) = run[Desktop].want
               /\ wire'[Desktop] # <<>> /\ wire'[Desktop][1].body = want
               /\ Files(Desktop)' = <<>> /\ run[Desktop].taking = NotTaking
<1>0. /\ TypeInv /\ View(Desktop) /\ View(Phone) /\ Early(Desktop)
      /\ Desktop \in Devices /\ Phone \in Devices /\ Desktop # Phone
  BY DevicesAre DEF FilesInv, StepInv, View
<1>1. \/ At(Desktop, "rest")
      \/ At(Desktop, "need") /\ wire[Desktop] = <<>> /\ wire[Phone] = Message("need", run[Desktop].want)
  BY <1>0 DEF StepInv, Together, At, Working
<1>2. run[Desktop].spent = 0 /\ run[Desktop].asked = NoRequest /\ ~At(Desktop, "have")
  BY <1>0, <1>1 DEF Early, At, Working
<1>3. CASE At(Desktop, "rest")
  <2>1. View(Desktop)' /\ Found(Desktop)' = NoRequest
    BY <1>0, <1>3, ViewStays DEF Found, Ahead, At
  <2>2. Asked(Desktop)'
    BY <1>2, <2>1, CostsOfNone DEF Asked
  <2> QED BY <1>2, <1>3, <2>1, <2>2
<1>4. CASE At(Desktop, "need") /\ wire[Desktop] = <<>> /\ wire[Phone] = Message("need", run[Desktop].want)
  <2>1. [kind |-> "need", body |-> want] \in Messages /\ [kind |-> "need", body |-> run[Desktop].want] \in Messages
    BY <1>0, SidesAre DEF Messages
  <2>2. wire'[Desktop] = Message("need", want)
    BY <1>4, <2>1, FirstIs DEF At
  <2>3. /\ wire'[Desktop] # <<>> /\ wire'[Desktop][1].kind = "need" /\ wire'[Desktop][1].body = want
        /\ Head(wire'[Desktop]).body = want /\ Tail(wire'[Desktop]) = <<>>
    BY <2>1, <2>2, FirstIs
  <2>4. Found(Phone) = run[Desktop].want
    BY <1>4, <2>1, FirstIs DEF Found, Ahead
  <2>5. Found(Desktop)' = want /\ Files(Desktop)' = <<>>
    BY <1>4, <2>3 DEF Found, Ahead, At, Files
  <2>6. run[Desktop].taking = NotTaking
    BY <1>0, <1>4 DEF FilesInv, TakesKnown, At
  <2>7. Early(Desktop)'
    BY <1>0, <1>4, <2>3 DEF Early, At, Ahead, Working
  <2>8. View(Desktop)'
    BY <1>0, <2>5, <2>6, <2>7, ComingNone DEF View
  <2>9. Asked(Desktop)'
    BY <1>2, <2>5, CostsOfNone DEF Asked
  <2> QED BY <1>2, <1>4, <2>3, <2>4, <2>5, <2>6, <2>8, <2>9
<1> QED BY <1>1, <1>3, <1>4

\* What the desktop's request leaves of the budget.
LEMMA ShareIs ==
  ASSUME FilesInv, StepInv
  PROVE  /\ Found(Phone) \in Requests /\ Sum(Lively(Found(Phone), Alive)) \in Nat
         /\ Share(Phone, Found(Phone)) \in Nat
         /\ Share(Phone, Found(Phone)) + Sum(Lively(Found(Phone), Alive)) = Budget
<1>1. Found(Phone) \in Requests /\ Fits(Found(Phone)) /\ Sum(Whole(Found(Phone))) <= Budget
  BY FoundIs, DevicesAre DEF FilesInv, StepInv, View, Shared, Asked
<1>2. /\ Sum(Lively(Found(Phone), Alive)) \in Nat /\ Sum(Whole(Found(Phone))) \in Nat
      /\ Sum(Lively(Found(Phone), Alive)) <= Sum(Whole(Found(Phone)))
  BY <1>1, CostsAre
<1>3. Cost(Phone, Found(Phone)) = Sum(Lively(Found(Phone), Alive))
  BY <1>1, CostIs
<1>4. Budget \in Nat /\ ~(Sum(Lively(Found(Phone), Alive)) > Budget)
  BY <1>1, <1>2, BoundsAssumption
<1>5. Share(Phone, Found(Phone)) = Budget - Sum(Lively(Found(Phone), Alive))
  BY <1>3, <1>4 DEF Share
<1> QED BY <1>1, <1>2, <1>4, <1>5

LEMMA TakeNeedKeepsStep ==
  ASSUME FilesInv, StepInv, NEW d \in Devices, TakeNeed(d)
  PROVE  StepInv'
<1> DEFINE asked == Arriving(d)
           want == IF d = Phone THEN WantedBy(d, run[d].theirs, Share(d, asked)) ELSE run[d].want
           answer == IF d = Phone THEN Message("need", want) ELSE <<>>
           noted == [run[d] EXCEPT !.at = FirstHalf(d), !.asked = asked, !.want = want]
           o == Other(d)
<1>0. /\ TypeInv /\ View(d) /\ View(o) /\ At(d, "need") /\ o \in Devices /\ run[d] \in Run
      /\ UNCHANGED <<rows, part>> /\ run[d].taking = NotTaking
  BY SidesAre, DevicesAre DEF FilesInv, StepInv, TakeNeed, ghosts, TakesKnown, At
<1>1. wire[d] # <<>> /\ asked = Found(d) /\ asked \in Requests
  BY <1>0, ArrivedIs DEF FilesInv, TakeNeed, Found, Ahead, Arriving
<1>2. \/ Ends(d, answer)
      \/ run' = [run EXCEPT ![d] = noted] /\ Talk(d, TRUE, answer)
  BY DEF TakeNeed
<1> HIDE DEF asked
<1>3. d = Phone => /\ want \in Requests /\ Fits(want)
                   /\ Sum(Whole(want)) \in Nat
                   /\ Sum(Whole(want)) + Sum(Lively(Found(Phone), Alive)) <= Budget
                   /\ Sum(Lively(Found(Phone), Alive)) \in Nat
  <2> SUFFICES ASSUME d = Phone
               PROVE  /\ want \in Requests /\ Fits(want)
                      /\ Sum(Whole(want)) \in Nat
                      /\ Sum(Whole(want)) + Sum(Lively(Found(Phone), Alive)) <= Budget
                      /\ Sum(Lively(Found(Phone), Alive)) \in Nat
    OBVIOUS
  <2> DEFINE share == Share(Phone, Found(Phone))
  <2>1. want = WantedBy(Phone, run[Phone].theirs, share)
    BY <1>1
  <2>2. /\ share \in Nat /\ share + Sum(Lively(Found(Phone), Alive)) = Budget
        /\ Sum(Lively(Found(Phone), Alive)) \in Nat
    BY ShareIs
  <2>3. run[Phone].theirs \in SUBSET Docs /\ Phone \in Devices
    BY <1>0, SidesAre, DevicesAre
  <2> HIDE DEF share, want
  <2>4. want \in Requests /\ Fits(want) /\ Sum(Whole(want)) <= share
    BY <2>1, <2>2, <2>3, WantedByFits
  <2>5. Sum(Whole(want)) \in Nat
    BY <2>4, CostsAre
  <2> QED BY <2>2, <2>4, <2>5
<1>4. want \in Requests /\ (d = Desktop => want = run[d].want)
  BY <1>0, <1>3, SidesAre, DevicesAre
<1> HIDE DEF want
<1>5. [kind |-> "need", body |-> want] \in Messages
  BY <1>4 DEF Messages
<1>6. answer \in Seq(Messages) /\ (d = Desktop => answer = <<>>) /\ (d = Phone => answer = Message("need", want))
  BY <1>5, FirstIs, RangeOfNone, DevicesAre
<1> HIDE DEF answer
<1>7. \A e \in Devices, i \in Docs : part'[e][i] < Sizes[i]
  BY <1>0 DEF StepInv, Shared
<1>8. CASE Ends(d, answer)
  <2>1. CASE d = Desktop
    BY <1>0, <1>6, <1>7, <1>8, <2>1, LeavesQuietly
  <2>2. CASE d = Phone
    <3>1. o = Desktop /\ Phone # Desktop
      BY <2>2, DevicesAre
    <3>2. /\ run'[Phone] = Resting /\ run'[Desktop] = run[Desktop] /\ wire'[Phone] = <<>>
          /\ At(Desktop, "rest") => wire'[Desktop] = wire[Desktop]
          /\ ~At(Desktop, "rest") => wire'[Desktop] = wire[Desktop] \o Message("need", want)
      BY <1>0, <1>6, <1>8, <2>2, <3>1, EndsIs
    <3>3. /\ View(Desktop)' /\ Asked(Desktop)' /\ ~At(Desktop, "have")
          /\ run[Desktop].spent = 0 /\ run[Desktop].asked = NoRequest
          /\ Found(Desktop)' \in {NoRequest, want}
      BY <1>0, <1>1, <1>3, <2>2, <3>2, DesktopIsAsked
    <3>4. DesktopSends' \in Nat /\ DesktopSends' <= Budget
      <4>1. Sum(Whole(Found(Desktop)')) \in Nat /\ Sum(Whole(Found(Desktop)')) <= Budget
        BY <1>3, <2>2, <3>3, CostsOfNone, BoundsAssumption
      <4>2. DesktopSends' = 0 + 0 + Sum(Whole(Found(Desktop)'))
        BY <3>2, <3>3, CostsOfNone DEF DesktopSends
      <4> QED BY <4>1, <4>2
    <3>5. ~At(Desktop, "have")'
      BY <3>2, <3>3 DEF At
    <3> QED BY <1>0, <1>7, <2>2, <3>1, <3>2, <3>3, <3>4, <3>5, LeavesKeepsStep
  <2> QED BY <2>1, <2>2, DevicesAre
<1>9. CASE run' = [run EXCEPT ![d] = noted] /\ Talk(d, TRUE, answer)
  <2>1. /\ noted.at = FirstHalf(d) /\ noted.mine = run[d].mine /\ noted.want = want
        /\ noted.asked = asked /\ noted.spent = run[d].spent /\ noted.taking = run[d].taking
    BY <1>0 DEF Run
  <2> HIDE DEF noted
  <2>2. run'[d] = noted /\ run'[o] = run[o]
    BY <1>0, <1>9, DevicesAre DEF TypeInv
  <2>3. /\ wire'[d] = Tail(wire[d])
        /\ At(o, "rest") => wire'[o] = wire[o]
        /\ ~At(o, "rest") => wire'[o] = wire[o] \o answer
        /\ answer = <<>> => wire'[o] = wire[o]
    BY <1>0, <1>6, <1>9, TalkIs
  <2>4. CASE d = Desktop
    <3>1. o = Phone /\ noted.at = "serve"
      BY <2>1, <2>4, DevicesAre DEF FirstHalf
    <3>2. wire'[Phone] = wire[Phone]
      BY <1>6, <2>3, <2>4, <3>1
    <3> QED BY <1>0, <1>1, <1>4, <2>1, <2>2, <2>3, <2>4, <3>1, <3>2, DesktopServes
  <2>5. CASE d = Phone
    <3>1. o = Desktop /\ noted.at = "fetch" /\ Desktop \in Devices /\ Phone \in Devices /\ Desktop # Phone
          /\ Other(Desktop) = Phone /\ Other(Phone) = Desktop
      BY <2>1, <2>5, DevicesAre DEF FirstHalf
    <3>2. /\ View(Desktop)' /\ Asked(Desktop)' /\ ~At(Desktop, "have")
          /\ run[Desktop].spent = 0 /\ run[Desktop].asked = NoRequest
          /\ Found(Desktop)' \in {NoRequest, want}
          /\ \/ At(Desktop, "rest")
             \/ /\ At(Desktop, "need") /\ Found(Phone) = run[Desktop].want
                /\ wire'[Desktop] # <<>> /\ wire'[Desktop][1].body = want
                /\ Files(Desktop)' = <<>> /\ run[Desktop].taking = NotTaking
      BY <1>0, <1>1, <1>3, <1>6, <2>2, <2>3, <2>5, <3>1, DesktopIsAsked
    <3>3. wire'[Phone] = <<>>
      <4>1. wire[Phone] \in Seq(Messages) /\ Len(wire[Phone]) = 1
        BY <1>0, <1>1, <2>5, <3>1, SidesAre DEF View, Early, Ahead
      <4> QED BY <1>1, <2>3, <2>5, <4>1, LastIs
    <3>4. /\ run'[Phone].at = "fetch" /\ run'[Phone].want = want /\ run'[Phone].asked = Found(Phone)
          /\ run'[Phone].taking = NotTaking /\ run'[Phone].spent = 0 /\ run'[Phone].mine = run[Phone].mine
      BY <1>0, <1>1, <2>1, <2>2, <2>5, <3>1 DEF View, Early, At, Working
    <3>5. View(Phone)' /\ Found(Phone)' = NoRequest
      <4>1. Early(Phone)' /\ Files(Phone)' = <<>>
        BY <3>1, <3>3, <3>4 DEF Early, At, Ahead, Working, Files
      <4> QED BY <3>1, <3>4, <4>1, ComingNone DEF View, Found, Ahead, At
    <3>6. Together'
      <4>1. CASE At(Desktop, "rest")
        BY <2>2, <3>1, <4>1 DEF Together, At
      <4>2. CASE /\ At(Desktop, "need") /\ Found(Phone) = run[Desktop].want
                 /\ wire'[Desktop] # <<>> /\ wire'[Desktop][1].body = want
                 /\ Files(Desktop)' = <<>> /\ run[Desktop].taking = NotTaking
        <5>1. Open(Desktop) = DOMAIN run[Desktop].want
          BY <1>0, <3>1, <4>2, NothingTaken
        <5>2. Owes(<<>>, Open(Desktop), run[Desktop].want, run[Desktop].want)
          BY <5>1, WayOfNone
        <5>3. Owing(Desktop)'
          <6>1. Open(Desktop)' = Open(Desktop) /\ run'[Desktop].want = run[Desktop].want
            BY <2>2, <3>1 DEF Open
          <6> QED BY <3>1, <3>4, <4>2, <5>2, <6>1 DEF Owing
        <5>4. Ahead(Desktop)' /\ run'[Phone].at \in Working
          BY <2>2, <3>1, <3>4, <4>2 DEF Ahead, At, Working
        <5> QED BY <3>3, <3>4, <4>2, <5>3, <5>4 DEF Together
      <4> QED BY <3>2, <4>1, <4>2
    <3>7. Shared'
      <4>1. \A e \in Devices : Asked(e)'
        <5>1. Asked(Phone)'
          BY <3>1, <3>4, <3>5, CostsOfNone DEF Asked, StepInv, Shared
        <5> QED BY <3>2, <5>1, DevicesAre
      <4>2. (Known(run[Phone].mine) /\ Known(DOMAIN run[Phone].asked) /\ Known(DOMAIN Found(Phone)))'
        BY <1>0, <3>4, <3>5, CostsOfNone DEF StepInv, Shared, Known
      <4>3. ~At(Desktop, "have")'
        BY <2>2, <3>1, <3>2 DEF At
      <4>4. (Sum(Whole(Found(Phone))) <= Budget)'
        BY <3>5, CostsOfNone, BoundsAssumption
      <4>5. (DesktopSends + PhoneSends <= Budget)'
        <5>1. PhoneSends' = 0 + Sum(Lively(Found(Phone), Alive))
          BY <1>0, <3>4 DEF PhoneSends, Alive, Live
        <5>2. DesktopSends' = 0 + 0 + Sum(Whole(Found(Desktop)'))
          BY <2>2, <3>1, <3>2, CostsOfNone DEF DesktopSends
        <5>3. /\ Sum(Whole(Found(Desktop)')) \in Nat /\ Sum(Lively(Found(Phone), Alive)) \in Nat
              /\ Sum(Whole(Found(Desktop)')) + Sum(Lively(Found(Phone), Alive)) <= Budget
          <6>1. Sum(Whole(Found(Desktop)')) = 0 \/ Sum(Whole(Found(Desktop)')) = Sum(Whole(want))
            BY <3>2, CostsOfNone
          <6> QED BY <1>3, <2>5, <6>1, BoundsAssumption
        <5> QED BY <5>1, <5>2, <5>3
      <4> QED BY <1>7, <4>1, <4>2, <4>3, <4>4, <4>5 DEF Shared
    <3> QED BY <3>2, <3>5, <3>6, <3>7, DevicesAre DEF StepInv
  <2> QED BY <2>4, <2>5, DevicesAre
<1> QED BY <1>2, <1>8, <1>9

-----------------------------------------------------------------------------
(***************************************************************************)
(* The files.                                                              *)
(***************************************************************************)
LEMMA RepliesWithSkip ==
  ASSUME NEW i \in Docs, NEW from
  PROVE  Replies(Message("skip", [doc |-> i]), i, from)
<1> DEFINE body == [doc |-> i]
           v == Message("skip", body)
<1>1. [kind |-> "skip", body |-> body] \in Messages
  BY DEF Messages
<1>2. body.doc = i
  OBVIOUS
<1> HIDE DEF body
<1>3. v \in Seq(Messages) /\ v # <<>> /\ Len(v) = 1 /\ v[1] = [kind |-> "skip", body |-> body]
  BY <1>1, FirstIs
<1> HIDE DEF v
<1>4. Replies(v, i, from)
  BY <1>2, <1>3 DEF Replies
<1> QED BY <1>4 DEF v, body

LEMMA RepliesWithFile ==
  ASSUME NEW i \in Docs, NEW from \in Nat, from < Sizes[i]
  PROVE  Replies(Message("file", [doc |-> i, from |-> from]) \o Pieces(Sizes[i] - from), i, from)
<1> DEFINE body == [doc |-> i, from |-> from]
           n == Sizes[i] - from
           one == Message("file", body)
           v == one \o Pieces(n)
<1>0. n \in Nat \ {0}
  BY DocsAssumption
<1>1. [kind |-> "file", body |-> body] \in Messages
  BY DEF Messages
<1>2. body.doc = i /\ body.from = from
  OBVIOUS
<1> HIDE DEF body, n
<1>3. one \in Seq(Messages) /\ Len(one) = 1 /\ one[1] = [kind |-> "file", body |-> body]
  BY <1>1, FirstIs
<1>4. Pieces(n) \in Seq(Messages) /\ Len(Pieces(n)) = n /\ DOMAIN Pieces(n) = 1..n
      /\ \A k \in 1..n : Pieces(n)[k] = [kind |-> "piece", body |-> k = n]
  <2>1. Pieces(n) \in Seq(Messages)
    BY <1>0, PiecesAre
  <2>2. DOMAIN Pieces(n) = 1..n /\ \A k \in 1..n : Pieces(n)[k] = [kind |-> "piece", body |-> k = n]
    BY DEF Pieces
  <2>3. Len(Pieces(n)) = n
    BY <1>0, <2>1, <2>2
  <2> QED BY <2>1, <2>2, <2>3
<1> HIDE DEF one
<1>5. /\ v \in Seq(Messages) /\ Len(v) = 1 + n /\ v[1] = one[1]
      /\ \A k \in 1..n : v[1 + k] = Pieces(n)[k]
  <2> DEFINE p == Pieces(n)
  <2>1. one \in Seq(Messages) /\ p \in Seq(Messages) /\ Len(one) = 1 /\ Len(p) = n /\ DOMAIN p = 1..n
    BY <1>3, <1>4
  <2> HIDE DEF p
  <2>2. /\ v \in Seq(Messages) /\ Len(v) = 1 + n /\ DOMAIN one = 1..1
        /\ \A k \in DOMAIN one : v[k] = one[k]
        /\ \A k \in DOMAIN p : v[1 + k] = p[k]
    BY <2>1, JoinIs DEF p
  <2>3. v[1] = one[1]
    BY <2>2
  <2> QED BY <2>1, <2>2, <2>3 DEF p
<1> HIDE DEF v
<1>6. v # <<>>
  BY <1>0, <1>5
<1>7. /\ v[1].kind = "file" /\ v[1].body.doc = i /\ v[1].body.from = from
  BY <1>2, <1>3, <1>5
<1>8. \A k \in 1..n : v[1 + k] = [kind |-> "piece", body |-> k = n]
  BY <1>4, <1>5
<1>9. Replies(v, i, from)
  BY <1>5, <1>6, <1>7, <1>8 DEF Replies, n
<1> QED BY <1>9 DEF v, one, body, n

LEMMA TailOfJoin ==
  ASSUME NEW w \in Seq(Messages), w # <<>>, NEW v \in Seq(Messages)
  PROVE  /\ Tail(w \o v) = Tail(w) \o v /\ Head(w \o v) = Head(w) /\ w \o v # <<>>
         /\ (w \o v)[1] = w[1] /\ w[1] = Head(w)
<1>1. /\ w \o v \in Seq(Messages) /\ Len(w) \in Nat \ {0} /\ Len(v) \in Nat /\ Len(w \o v) = Len(w) + Len(v)
      /\ DOMAIN w = 1..Len(w) /\ DOMAIN v = 1..Len(v) /\ DOMAIN (w \o v) = 1..Len(w) + Len(v)
      /\ \A n \in DOMAIN w : (w \o v)[n] = w[n]
      /\ \A n \in DOMAIN v : (w \o v)[Len(w) + n] = v[n]
  BY JoinIs, TailIs
<1>2. w \o v # <<>> /\ 1 \in DOMAIN w
  BY <1>1
<1>3. (w \o v)[1] = w[1] /\ w[1] = Head(w) /\ (w \o v)[1] = Head(w \o v)
  BY <1>1, <1>2, TailIs
<1>4. /\ Tail(w) \in Seq(Messages) /\ Len(Tail(w)) = Len(w) - 1 /\ \A n \in 1..Len(w) - 1 : Tail(w)[n] = w[n + 1]
      /\ Tail(w \o v) \in Seq(Messages) /\ Len(Tail(w \o v)) = Len(w \o v) - 1
      /\ \A n \in 1..Len(w \o v) - 1 : Tail(w \o v)[n] = (w \o v)[n + 1]
  BY <1>1, <1>2, TailIs
<1> DEFINE t == Tail(w)
           one == Tail(w \o v)
           two == t \o v
<1>5. /\ two \in Seq(Messages) /\ Len(two) = Len(t) + Len(v)
      /\ \A n \in 1..Len(t) : two[n] = t[n]
      /\ \A n \in 1..Len(v) : two[Len(t) + n] = v[n]
  <2>1. t \in Seq(Messages)
    BY <1>4
  <2> HIDE DEF t
  <2> QED BY <2>1, JoinIs
<1>6. Len(one) = Len(two)
  BY <1>1, <1>4, <1>5
<1>7. \A n \in 1..Len(two) : one[n] = two[n]
  <2>1. TAKE n \in 1..Len(two)
  <2>2. n \in Nat \ {0} /\ n <= Len(w) - 1 + Len(v)
    BY <1>1, <1>4, <1>5
  <2>3. one[n] = (w \o v)[n + 1]
    BY <1>1, <1>4, <2>2
  <2>4. CASE n <= Len(w) - 1
    <3>1. n + 1 \in DOMAIN w /\ n \in 1..Len(w) - 1 /\ n \in 1..Len(t)
      BY <1>1, <1>4, <2>2, <2>4
    <3>2. (w \o v)[n + 1] = w[n + 1] /\ t[n] = w[n + 1] /\ two[n] = t[n]
      BY <1>1, <1>4, <1>5, <3>1
    <3> QED BY <2>3, <3>2
  <2>5. CASE ~(n <= Len(w) - 1)
    <3> DEFINE k == n - (Len(w) - 1)
    <3>1. k \in DOMAIN v /\ k \in 1..Len(v) /\ Len(w) + k = n + 1 /\ Len(t) + k = n
      BY <1>1, <1>4, <2>2, <2>5
    <3> HIDE DEF k
    <3>2. (w \o v)[Len(w) + k] = v[k] /\ two[Len(t) + k] = v[k]
      BY <1>1, <1>5, <3>1
    <3> QED BY <2>3, <3>1, <3>2
  <2> QED BY <2>4, <2>5
<1>8. one = two
  <2>1. one \in Seq(Messages) /\ two \in Seq(Messages)
    BY <1>4, <1>5
  <2> HIDE DEF one, two
  <2> QED BY <1>6, <1>7, <2>1
<1> QED BY <1>2, <1>3, <1>8

\* A device receives the answer to the newest document it waits for.
LEMMA RepliesArrive ==
  ASSUME FilesInv, StepInv, NEW d \in Devices, At(d, "serve"), run[d].asked # NoRequest,
         ~At(Other(d), "rest"), NEW v, Replies(v, Newest(run[d].asked), run[d].asked[Newest(run[d].asked)]),
         run'[Other(d)] = run[Other(d)], part'[Other(d)] = part[Other(d)],
         wire'[Other(d)] = wire[Other(d)] \o v,
         run'[d].asked = Without(run[d].asked, Newest(run[d].asked))
  PROVE  /\ View(Other(d))' /\ Found(Other(d))' = Found(Other(d)) /\ Owing(Other(d))'
         /\ Ahead(Other(d)) => Ahead(Other(d))' /\ wire'[Other(d)][1] = wire[Other(d)][1]
<1> DEFINE o == Other(d)
           asked == run[d].asked
<1>0. /\ TypeInv /\ View(o) /\ Early(o) /\ o \in Devices /\ o # d /\ Other(o) = d
      /\ wire[o] \in Seq(Messages) /\ asked \in Requests /\ Open(o) \in SUBSET Docs
      /\ v \in Seq(Messages) /\ v # <<>> /\ v[1].kind # "piece"
  <2>1. o \in Devices /\ o # d /\ Other(o) = d /\ TypeInv
    BY DevicesAre DEF FilesInv
  <2>2. /\ wire[o] \in Seq(Messages) /\ asked \in Requests /\ Open(o) \in SUBSET Docs
    BY <2>1, SidesAre
  <2>3. v \in Seq(Messages) /\ v # <<>> /\ v[1].kind # "piece"
    BY DEF Replies
  <2> QED BY <2>1, <2>2, <2>3 DEF StepInv, View
<1>1. Owing(o) /\ ((o = Desktop /\ Ahead(o)) \/ run[o].at \in Working)
  BY <1>0, DevicesAre DEF StepInv, Together, At, Ahead, Working
<1>2. Begun(o) /\ Coming(o)
  BY <1>0, <1>1 DEF Begun, View
<1>3. Files(o) \in Seq(Messages) /\ Way(Files(o), Open(o), run[o].want) /\ Owes(Files(o), Open(o), run[o].want, asked)
  BY <1>0, <1>1, <1>2, FilesAre DEF Coming, Pending, Owing
<1>4. /\ Way(Files(o) \o v, Open(o), run[o].want)
      /\ Owes(Files(o) \o v, Open(o), run[o].want, Without(asked, Newest(asked)))
  BY <1>0, <1>3, WayReplies
<1>5. At(o, "need") => wire[o] # <<>>
  BY <1>1 DEF Ahead, At, Working
<1>6. Ahead(o) => /\ Tail(wire[o] \o v) = Tail(wire[o]) \o v /\ Head(wire[o] \o v) = Head(wire[o])
                  /\ wire[o] \o v # <<>> /\ (wire[o] \o v)[1] = wire[o][1]
  BY <1>0, TailOfJoin DEF Ahead
<1>7. Files(o)' = Files(o) \o v /\ Open(o)' = Open(o) /\ (Ahead(o) <=> Ahead(o)') /\ Found(o)' = Found(o) /\ Begun(o)'
  BY <1>2, <1>5, <1>6 DEF Files, Open, Ahead, At, Found, Begun
<1>8. Early(o)'
  BY <1>0, <1>1, <1>6, <1>7, DevicesAre DEF Early, At, Ahead, Working
<1>9. Coming(o)'
  <2>1. Way(Files(o), Open(o), run[o].want)'
    BY <1>4, <1>7
  <2>2. PICK c \in Nat :
          /\ Block(Files(o), 0, c)
          /\ c = 0 <=> run[o].taking = NotTaking
          /\ run[o].taking.open => part[o][run[o].taking.doc] + c = Sizes[run[o].taking.doc]
    BY <1>2 DEF Coming, Pending
  <2>3. Block(Files(o) \o v, 0, c)
    BY <1>0, <1>3, <2>2, BlockJoin
  <2>4. /\ Block(Files(o)', 0, c)
        /\ c = 0 <=> run'[o].taking = NotTaking
        /\ run'[o].taking.open => part'[o][run'[o].taking.doc] + c = Sizes[run'[o].taking.doc]
    BY <1>7, <2>2, <2>3
  <2>5. (run[o].taking # NotTaking => run[o].taking.doc = Newest(run[o].want))'
    BY <1>2 DEF Coming, Pending
  <2> QED BY <2>1, <2>4, <2>5 DEF Coming, Pending
<1>10. Owing(o)'
  BY <1>0, <1>4, <1>7 DEF Owing
<1>11. (wire[o] \o v)[1] = wire[o][1] \/ ~Ahead(o)
  BY <1>6
<1> QED BY <1>7, <1>8, <1>9, <1>10, <1>11 DEF View

LEMMA LessIsWithin ==
  ASSUME NEW a \in Nat, NEW b \in Nat, NEW c \in Nat, NEW e \in Nat, NEW most \in Nat,
         a + b <= most, c <= a, e <= b
  PROVE  c + e <= most
OBVIOUS

\* One document less is owed, and what it costs is spent or saved.
LEMMA ServedShares ==
  ASSUME FilesInv, StepInv, UNCHANGED <<rows, part>>, NEW d \in Devices, At(d, "serve"), run[d].asked # NoRequest,
         NEW noted, noted.at = "serve", noted.mine = run[d].mine,
         noted.asked = Without(run[d].asked, Newest(run[d].asked)), noted.spent \in Nat,
         \/ noted.spent = run[d].spent
         \/ /\ noted.spent = run[d].spent + (Sizes[Newest(run[d].asked)] - run[d].asked[Newest(run[d].asked)])
            /\ Live(d, Newest(run[d].asked)),
         run'[d] = noted, run'[Other(d)] = run[Other(d)],
         Found(d)' = NoRequest, Found(Other(d))' = Found(Other(d)), UNCHANGED wire[Desktop] \/ ~At(Desktop, "have")
  PROVE  Shared'
<1> DEFINE asked == run[d].asked
           i == Newest(asked)
           rest == Without(asked, i)
           costs == Sizes[i] - asked[i]
           o == Other(d)
<1>0. /\ TypeInv /\ Early(d) /\ o \in Devices /\ Asked(d) /\ Asked(o) /\ Fits(asked) /\ asked \in Requests
      /\ Found(d) = NoRequest /\ run[d].spent \in Nat
  <2>1. TypeInv /\ Early(d) /\ o \in Devices /\ Asked(d) /\ Asked(o) /\ Fits(asked)
    BY DevicesAre DEF FilesInv, StepInv, View, Shared, Asked
  <2>2. asked \in Requests /\ run[d].spent \in Nat
    BY <2>1, SidesAre
  <2> QED BY <2>1, <2>2 DEF Found, Ahead, At
<1>1. i \in DOMAIN asked /\ i \in Docs /\ asked[i] \in Nat /\ Sizes[i] \in Nat /\ costs \in Nat
      /\ rest \in Requests /\ DOMAIN rest = DOMAIN asked \ {i}
  <2>1. i \in DOMAIN asked /\ i \in Docs /\ asked[i] \in Nat
    BY <1>0, NewestIsAsked
  <2>2. asked[i] < Sizes[i] /\ Sizes[i] \in Nat
    BY <1>0, <2>1, DocsAssumption DEF Fits
  <2>3. rest \in Requests /\ DOMAIN rest = DOMAIN asked \ {i}
    BY <1>0, WithoutIsRequest DEF Without
  <2> QED BY <2>1, <2>2, <2>3
<1>2. /\ Fits(rest) /\ Sum(Whole(asked)) = Sum(Whole(rest)) + costs
      /\ Sum(Lively(asked, Alive)) = Sum(Lively(rest, Alive)) + IF i \in Alive THEN costs ELSE 0
      /\ Sum(Whole(rest)) \in Nat /\ Sum(Lively(rest, Alive)) \in Nat
  <2>1. /\ Fits(rest) /\ Sum(Whole(asked)) = Sum(Whole(rest)) + costs
        /\ Sum(Lively(asked, Alive)) = Sum(Lively(rest, Alive)) + IF i \in Alive THEN costs ELSE 0
    BY <1>0, <1>1, CostsWithout
  <2> HIDE DEF rest, costs, i, asked
  <2> QED BY <1>1, <2>1, CostsAre
<1>3. noted.spent = run[d].spent \/ (noted.spent = run[d].spent + costs /\ (d = Phone => i \in Alive))
  BY <1>1 DEF Alive
<1>4. noted.asked = rest
  OBVIOUS
<1> HIDE DEF rest, costs, i, asked
<1>5. \A e \in Devices : Asked(e)'
  BY <1>0, <1>2, <1>4, CostsOfNone, DevicesAre DEF Asked
<1>6. (Known(run[Phone].mine) /\ Known(DOMAIN run[Phone].asked) /\ Known(DOMAIN Found(Phone)))'
  <2>1. DOMAIN run'[Phone].asked \subseteq DOMAIN run[Phone].asked
    BY <1>1, <1>4, DevicesAre DEF asked
  <2>2. Found(Phone)' = NoRequest \/ Found(Phone)' = Found(Phone)
    BY DevicesAre
  <2>3. run'[Phone].mine = run[Phone].mine
    BY DevicesAre
  <2> QED BY <2>1, <2>2, <2>3, CostsOfNone DEF StepInv, Shared, Known
<1>7. (At(Desktop, "have") /\ wire[Desktop] # <<>> => Known(Head(wire[Desktop]).body))'
  <2>1. At(Desktop, "have")' => At(Desktop, "have")
    BY DevicesAre DEF At
  <2> QED BY <2>1 DEF StepInv, Shared, Known
<1>8. (Sum(Whole(Found(Phone))) <= Budget)'
  BY CostsOfNone, DevicesAre, BoundsAssumption DEF StepInv, Shared
<1>9. (DesktopSends + PhoneSends <= Budget)'
  <2>0. DesktopSends + PhoneSends <= Budget /\ DesktopSends \in Nat /\ PhoneSends \in Nat /\ Budget \in Nat
    BY SendsAre, BoundsAssumption DEF StepInv, View, Shared, FilesInv
  <2>1. CASE d = Desktop
    <3>1. o = Phone
      BY <2>1, DevicesAre
    <3>2. PhoneSends' = PhoneSends
      BY <3>1 DEF PhoneSends, Alive, Live
    <3>3. DesktopSends' = noted.spent + Sum(Whole(rest)) + 0 /\ DesktopSends = run[d].spent + (Sum(Whole(rest)) + costs) + 0
      BY <1>0, <1>2, <1>4, <2>1, CostsOfNone DEF DesktopSends, asked
    <3>4. DesktopSends' <= DesktopSends /\ DesktopSends' \in Nat
      <4>1. Sum(Whole(rest)) \in Nat /\ costs \in Nat /\ run[d].spent \in Nat
        BY <1>0, <1>1, <1>2
      <4> QED BY <1>3, <3>3, <4>1
    <3>5. PhoneSends' \in Nat /\ PhoneSends' <= PhoneSends
      BY <2>0, <3>2
    <3> QED BY <2>0, <3>4, <3>5, LessIsWithin
  <2>2. CASE d = Phone
    <3>1. o = Desktop
      BY <2>2, DevicesAre
    <3>2. DesktopSends' = DesktopSends
      BY <3>1 DEF DesktopSends
    <3>3. /\ PhoneSends' = noted.spent + Sum(Lively(rest, Alive))
          /\ PhoneSends = run[d].spent + (Sum(Lively(rest, Alive)) + IF i \in Alive THEN costs ELSE 0)
      BY <1>2, <1>4, <2>2 DEF PhoneSends, asked, Alive, Live
    <3>4. PhoneSends' <= PhoneSends /\ PhoneSends' \in Nat
      <4>1. Sum(Lively(rest, Alive)) \in Nat /\ costs \in Nat /\ run[d].spent \in Nat
        BY <1>0, <1>1, <1>2
      <4> QED BY <1>3, <2>2, <3>3, <4>1
    <3>5. DesktopSends' \in Nat /\ DesktopSends' <= DesktopSends
      BY <2>0, <3>2
    <3> QED BY <2>0, <3>4, <3>5, LessIsWithin
  <2> QED BY <2>1, <2>2, DevicesAre
<1>10. \A e \in Devices, j \in Docs : part'[e][j] < Sizes[j]
  BY DEF StepInv, Shared
<1> QED BY <1>5, <1>6, <1>7, <1>8, <1>9, <1>10 DEF Shared

LEMMA ServeKeepsStep ==
  ASSUME FilesInv, StepInv, NEW d \in Devices, Serve(d)
  PROVE  StepInv'
<1> DEFINE asked == run[d].asked
           i == Newest(asked)
           from == asked[i]
           answers == from < Sizes[i] /\ Answers(d, i)
           spent == run[d].spent + IF answers THEN Sizes[i] - from ELSE 0
           given == Message("file", [doc |-> i, from |-> from]) \o Pieces(Sizes[i] - from)
           skipped == Message("skip", [doc |-> i])
           sent == IF answers /\ spent <= Budget THEN given ELSE skipped
           noted == [run[d] EXCEPT !.asked = Without(asked, i), !.spent = spent]
           o == Other(d)
<1>0. /\ TypeInv /\ View(d) /\ View(o) /\ At(d, "serve") /\ o \in Devices /\ o # d /\ Other(o) = d /\ run[d] \in Run
      /\ UNCHANGED <<rows, part>> /\ asked # NoRequest
      /\ asked \in Requests /\ run[d].spent \in Nat
  <2>1. TypeInv /\ View(d) /\ View(o) /\ At(d, "serve") /\ o \in Devices /\ o # d /\ Other(o) = d
        /\ UNCHANGED <<rows, part>> /\ asked # NoRequest
    BY DevicesAre DEF FilesInv, StepInv, Serve, ghosts
  <2> QED BY <2>1, SidesAre
<1>1. i \in Docs /\ from \in Nat /\ Sizes[i] \in Nat
  BY <1>0, NewestIsAsked, DocsAssumption
<1>2. Replies(sent, i, from)
  <2> HIDE DEF i, from
  <2>1. Replies(skipped, i, from)
    BY <1>1, RepliesWithSkip
  <2>2. answers => Replies(given, i, from)
    BY <1>1, RepliesWithFile
  <2> QED BY <2>1, <2>2
<1>3. run' = [run EXCEPT ![d] = noted] /\ Talk(d, FALSE, sent)
  BY DEF Serve
<1>4. /\ spent \in Nat
      /\ spent = run[d].spent \/ (spent = run[d].spent + (Sizes[i] - from) /\ Live(d, i))
  <2>1. answers => Live(d, i) /\ Sizes[i] - from \in Nat
    BY <1>1 DEF Answers
  <2> HIDE DEF answers, from, i
  <2> QED BY <1>0, <2>1
<1>5. sent \in Seq(Messages)
  BY <1>2 DEF Replies
<1> HIDE DEF sent, spent
<1>6. /\ noted.at = "serve" /\ noted.mine = run[d].mine /\ noted.want = run[d].want
      /\ noted.asked = Without(asked, i) /\ noted.spent = spent /\ noted.taking = run[d].taking
  BY <1>0 DEF Run, At
<1> HIDE DEF noted
<1>7. run'[d] = noted /\ run'[o] = run[o]
  BY <1>0, <1>3 DEF TypeInv
<1>8. /\ wire'[d] = wire[d]
      /\ At(o, "rest") => wire'[o] = wire[o]
      /\ ~At(o, "rest") => wire'[o] = wire[o] \o sent
  BY <1>0, <1>3, <1>5, TalkIs
<1>9. View(d)' /\ Found(d)' = NoRequest /\ Files(d)' = Files(d) /\ Open(d)' = Open(d)
  <2>1. Found(d)' = NoRequest /\ Files(d)' = Files(d) /\ Open(d)' = Open(d)
    BY <1>0, <1>6, <1>7, <1>8 DEF Found, Ahead, At, Files, Open
  <2>2. Coming(d)'
    <3>1. Coming(d)
      BY <1>0 DEF View, Begun, At, Working
    <3> QED BY <1>0, <1>6, <1>7, <2>1, <3>1, ComingStays
  <2>3. Early(d)'
    BY <1>0, <1>6, <1>7 DEF View, Early, At, Ahead, Working
  <2> QED BY <2>1, <2>2, <2>3 DEF View
<1>10. CASE At(o, "rest")
  <2>1. View(o)' /\ Found(o)' = Found(o)
    BY <1>0, <1>7, <1>8, <1>10, ViewStays
  <2>2. Together'
    <3>1. At(o, "rest")'
      BY <1>7, <1>10 DEF At
    <3> QED BY <3>1, DevicesAre DEF Together
  <2>3. wire'[Desktop] = wire[Desktop]
    BY <1>8, <1>10, DevicesAre
  <2>4. Shared'
    BY <1>0, <1>4, <1>6, <1>7, <1>9, <2>1, <2>3, ServedShares
  <2> QED BY <1>9, <2>1, <2>2, <2>4, DevicesAre DEF StepInv
<1>11. CASE ~At(o, "rest")
  <2>1. /\ View(o)' /\ Found(o)' = Found(o) /\ Owing(o)'
        /\ Ahead(o) => Ahead(o)' /\ wire'[o][1] = wire[o][1]
    BY <1>0, <1>2, <1>6, <1>7, <1>8, <1>11, RepliesArrive
  <2>2. \/ /\ d = Phone /\ Ahead(Desktop) /\ wire[Phone] = <<>> /\ wire[Desktop][1].body = run[Phone].want
        \/ run[o].at \in Working /\ Owing(d)
    BY <1>0, <1>11, DevicesAre DEF StepInv, Together, At, Ahead, Working
  <2>3. Together'
    <3>1. CASE d = Phone /\ Ahead(Desktop) /\ wire[Phone] = <<>> /\ wire[Desktop][1].body = run[Phone].want
      <4>1. o = Desktop
        BY <3>1, DevicesAre
      <4>2. /\ Ahead(Desktop)' /\ run'[Phone].at \in Working /\ wire'[Phone] = <<>>
            /\ wire'[Desktop][1].body = run'[Phone].want
        BY <1>6, <1>7, <1>8, <2>1, <3>1, <4>1 DEF Working
      <4> QED BY <2>1, <4>1, <4>2 DEF Together
    <3>2. CASE run[o].at \in Working /\ Owing(d)
      <4>1. Owing(d)'
        BY <1>0, <1>6, <1>7, <1>9, <3>2 DEF Owing
      <4>2. run'[d].at \in Working /\ run'[o].at \in Working
        BY <1>6, <1>7, <3>2 DEF Working
      <4> QED BY <2>1, <4>1, <4>2, DevicesAre DEF Together
    <3> QED BY <2>2, <3>1, <3>2
  <2>4. ~At(Desktop, "have")
    BY <1>0, <2>2, DevicesAre DEF At, Ahead, Working
  <2>5. Shared'
    BY <1>0, <1>4, <1>6, <1>7, <1>9, <2>1, <2>4, ServedShares
  <2> QED BY <1>9, <2>1, <2>3, <2>5, DevicesAre DEF StepInv
<1> QED BY <1>10, <1>11

\* A device is done with one half.
LEMMA GoOnKeepsStep ==
  ASSUME FilesInv, StepInv, UNCHANGED <<rows, part>>, NEW d \in Devices, run[d].at \in Working,
         NEW next \in Working \cup {"rest"}, GoOn(d, next),
         next = "stored" => run[d].want = NoRequest /\ run[d].asked = NoRequest,
         d = Phone /\ next = "serve" => run[d].want = NoRequest,
         d = Desktop /\ next = "fetch" => run[d].asked = NoRequest
  PROVE  StepInv'
<1>1. CASE next = "rest"
  <2>1. \A e \in Devices, i \in Docs : part'[e][i] < Sizes[i]
    BY DEF StepInv, Shared
  <2> QED BY <1>1, <2>1, LeavesQuietly DEF GoOn
<1>2. CASE next # "rest"
  <2> DEFINE noted == [run[d] EXCEPT !.at = next]
             o == Other(d)
  <2>0. TypeInv /\ View(d) /\ View(o) /\ o \in Devices /\ o # d /\ run[d] \in Run
    BY SidesAre, DevicesAre DEF FilesInv, StepInv
  <2>1. run' = [run EXCEPT ![d] = noted] /\ wire' = wire
    BY <1>2 DEF GoOn
  <2>2. /\ noted.at = next /\ noted.mine = run[d].mine /\ noted.want = run[d].want
        /\ noted.asked = run[d].asked /\ noted.spent = run[d].spent /\ noted.taking = run[d].taking
    BY <2>0 DEF Run
  <2> HIDE DEF noted
  <2>3. run'[d] = noted /\ run'[o] = run[o]
    BY <2>0, <2>1 DEF TypeInv
  <2>4. next \in Working /\ next \notin {"rest", "begin", "have", "need"} /\ run[d].at \notin {"rest", "begin", "have", "need"}
    BY <1>2 DEF Working
  <2>5. Found(d)' = NoRequest /\ Found(d) = NoRequest /\ Files(d)' = Files(d) /\ Open(d)' = Open(d)
        /\ ~Ahead(d) /\ ~Ahead(d)'
    BY <2>1, <2>2, <2>3, <2>4 DEF Found, Ahead, At, Files, Open
  <2>6. View(d)'
    <3>1. Coming(d)
      BY <2>0 DEF View, Begun
    <3>2. Coming(d)'
      BY <2>2, <2>3, <2>5, <3>1, ComingStays
    <3>3. Early(d)'
      BY <2>2, <2>3, <2>4, <2>5 DEF Early, At
    <3> QED BY <3>2, <3>3 DEF View
  <2>7. View(o)' /\ Found(o)' = Found(o) /\ Files(o)' = Files(o)
    BY <2>0, <2>1, <2>3, ViewStays
  <2>8. Together'
    <3>1. \A e \in Devices : Owing(e)' = Owing(e)
      <4>1. \A e \in Devices : Files(e)' = Files(e) /\ Open(e)' = Open(e)
        BY <2>3, <2>5, <2>7, DevicesAre DEF Open
      <4>2. \A e \in Devices : run'[e].want = run[e].want /\ run'[e].asked = run[e].asked
        BY <2>2, <2>3, DevicesAre
      <4> QED BY <4>1, <4>2, DevicesAre DEF Owing
    <3>2. At(o, "rest") => At(o, "rest")'
      BY <2>3 DEF At
    <3>3. \/ At(o, "rest")
          \/ /\ d = Phone /\ Ahead(Desktop) /\ wire[Phone] = <<>>
             /\ wire[Desktop][1].body = run[Phone].want /\ Owing(Desktop)
          \/ run[o].at \in Working /\ Owing(Desktop) /\ Owing(Phone)
      BY <2>0, <2>4, <2>5, DevicesAre DEF StepInv, Together, At
    <3>4. CASE At(o, "rest")
      BY <3>2, <3>4, DevicesAre DEF Together
    <3>5. CASE /\ d = Phone /\ Ahead(Desktop) /\ wire[Phone] = <<>>
               /\ wire[Desktop][1].body = run[Phone].want /\ Owing(Desktop)
      <4>1. o = Desktop
        BY <3>5, DevicesAre
      <4>2. Ahead(Desktop)' /\ wire'[Phone] = <<>> /\ wire'[Desktop][1].body = run'[Phone].want /\ run'[Phone].at \in Working
        BY <2>1, <2>2, <2>3, <2>4, <3>5, <4>1 DEF Ahead, At
      <4> QED BY <3>1, <3>5, <4>2, DevicesAre DEF Together
    <3>6. CASE run[o].at \in Working /\ Owing(Desktop) /\ Owing(Phone)
      <4>1. run'[d].at \in Working /\ run'[o].at \in Working
        BY <2>2, <2>3, <2>4, <3>6
      <4> QED BY <3>1, <3>6, <4>1, DevicesAre DEF Together
    <3> QED BY <3>3, <3>4, <3>5, <3>6
  <2>9. Shared'
    <3>1. \A e \in Devices : /\ run'[e].asked = run[e].asked /\ run'[e].spent = run[e].spent
                             /\ Found(e)' = Found(e) /\ run'[e].mine = run[e].mine
      BY <2>2, <2>3, <2>5, <2>7, DevicesAre
    <3>2. At(Desktop, "have")' => At(Desktop, "have")
      BY <2>2, <2>3, <2>4, DevicesAre DEF At
    <3>3. (At(Desktop, "have") /\ wire[Desktop] # <<>> => Known(Head(wire[Desktop]).body))'
      BY <2>1, <3>2 DEF StepInv, Shared, Known
    <3>4. Known(run'[Phone].mine)
      BY <3>1, DevicesAre DEF StepInv, Shared
    <3> QED BY <3>1, <3>3, <3>4, SharedStays
  <2> QED BY <2>6, <2>7, <2>8, <2>9, DevicesAre DEF StepInv
<1> QED BY <1>1, <1>2

LEMMA ServedKeepsStep ==
  ASSUME FilesInv, StepInv, NEW d \in Devices, Served(d)
  PROVE  StepInv'
<1> DEFINE next == IF d = Desktop THEN "fetch" ELSE AfterFiles(run[d].mode)
<1>1. /\ At(d, "serve") /\ run[d].asked = NoRequest /\ GoOn(d, next) /\ UNCHANGED <<rows, part>>
  BY DEF Served, ghosts
<1>2. d = Phone => run[d].want = NoRequest
  BY <1>1 DEF StepInv, View, Early
<1>3. next \in Working \cup {"rest"} /\ next # "serve" /\ (d = Desktop => next # "stored") /\ run[d].at \in Working
  BY <1>1 DEF AfterFiles, Working, At
<1> HIDE DEF next
<1> QED BY <1>1, <1>2, <1>3, GoOnKeepsStep, DevicesAre

LEMMA FetchedKeepsStep ==
  ASSUME FilesInv, StepInv, NEW d \in Devices, Fetched(d)
  PROVE  StepInv'
<1> DEFINE next == IF d = Phone THEN "serve" ELSE AfterFiles(run[d].mode)
<1>1. /\ At(d, "fetch") /\ run[d].want = NoRequest /\ GoOn(d, next) /\ UNCHANGED <<rows, part>>
  BY DEF Fetched, ghosts
<1>2. d = Desktop => run[d].asked = NoRequest
  BY <1>1 DEF StepInv, View, Early
<1>3. next \in Working \cup {"rest"} /\ next # "fetch" /\ (d = Phone => next = "serve") /\ run[d].at \in Working
  BY <1>1 DEF AfterFiles, Working, At
<1> HIDE DEF next
<1> QED BY <1>1, <1>2, <1>3, GoOnKeepsStep, DevicesAre

\* What is owed is still owed when the first message is taken.
LEMMA OwesTail ==
  ASSUME NEW w \in Seq(Messages), w # <<>>, NEW open \in SUBSET Docs, NEW want, NEW asked \in Requests,
         Owes(w, open, want, asked),
         NEW still \in SUBSET open, NEW now, \A j \in still : now[j] = want[j],
         still = Left(w, open)
  PROVE  Owes(Tail(w), still, now, asked)
<1> USE DEF Left
<1> DEFINE t == Tail(w)
<1>1. /\ DOMAIN w = 1..Len(w) /\ 1 \in DOMAIN w
      /\ \A n \in DOMAIN t : n + 1 \in DOMAIN w /\ t[n] = w[n + 1]
      /\ \A n \in DOMAIN w : n # 1 => n - 1 \in DOMAIN t /\ t[n - 1] = w[n]
  BY TailIs
<1> HIDE DEF t
<1>2. \A n \in Named(t) : n + 1 \in Named(w) /\ t[n] = w[n + 1]
  BY <1>1 DEF Named
<1>3. \A n \in Named(w) : n # 1 => n - 1 \in Named(t) /\ t[n - 1] = w[n]
  BY <1>1 DEF Named
<1>4. \A n \in DOMAIN t : t[n].kind # "stored"
  BY <1>1 DEF Owes
<1>5. ASSUME NEW j \in DOMAIN asked
      PROVE  j \in still /\ asked[j] = now[j] /\ \A n \in Named(t) : j < t[n].body.doc
  <2>1. j \in open /\ j \in Docs /\ asked[j] = want[j] /\ \A n \in Named(w) : j < w[n].body.doc
    BY DEF Owes
  <2>2. ASSUME w[1].kind \in {"file", "skip"}
        PROVE  j # w[1].body.doc
    <3>1. 1 \in Named(w)
      BY <1>1, <2>2 DEF Named
    <3>2. j < w[1].body.doc
      BY <2>1, <3>1
    <3> QED BY <2>1, <3>2, DocsInOrder
  <2>3. j \in still
    BY <2>1, <2>2
  <2> QED BY <1>2, <2>1, <2>3
<1>6. ASSUME NEW j \in still
      PROVE  j \in DOMAIN asked \/ \E n \in Named(t) : t[n].body.doc = j
  <2> SUFFICES ASSUME j \notin DOMAIN asked
               PROVE  \E n \in Named(t) : t[n].body.doc = j
    OBVIOUS
  <2>1. PICK n \in Named(w) : w[n].body.doc = j
    BY DEF Owes
  <2>2. n # 1
    BY <2>1 DEF Named
  <2> QED BY <1>3, <2>1, <2>2
<1> QED BY <1>4, <1>5, <1>6 DEF Owes, t

\* A device takes the first of the files' messages.
LEMMA TakenKeepsStep ==
  ASSUME FilesInv, StepInv, UNCHANGED rows, NEW d \in Devices, At(d, "fetch"), wire[d] # <<>>,
         part'[Other(d)] = part[Other(d)], \A e \in Devices, i \in Docs : part'[e][i] < Sizes[i],
         wire'[d] = Tail(wire[d]), wire'[Other(d)] = wire[Other(d)], run'[Other(d)] = run[Other(d)],
         NEW noted, run'[d] = noted, noted.at = "fetch", noted.mine = run[d].mine,
         noted.asked = run[d].asked, noted.spent = run[d].spent,
         NEW still \in SUBSET Open(d), still = DOMAIN noted.want \ {noted.taking.doc},
         \A j \in still : noted.want[j] = run[d].want[j],
         still = Left(wire[d], Open(d)),
         noted.taking # NotTaking => noted.taking.doc = Newest(noted.want),
         NEW c \in Nat, Pending(Tail(wire[d]), c, noted.taking, part'[d])
  PROVE  StepInv'
<1> DEFINE o == Other(d)
<1>0. /\ TypeInv /\ View(d) /\ View(o) /\ o \in Devices /\ o # d /\ Other(o) = d
      /\ wire[d] \in Seq(Messages) /\ Open(d) \in SUBSET Docs /\ run[o].asked \in Requests
  <2>1. TypeInv /\ View(d) /\ View(o) /\ o \in Devices /\ o # d /\ Other(o) = d
    BY DevicesAre DEF FilesInv, StepInv
  <2> QED BY <2>1, SidesAre
<1>1. ~At(d, "need") /\ ~At(d, "need")' /\ ~Ahead(d) /\ ~Ahead(d)' /\ Begun(d) /\ Coming(d)
  BY <1>0 DEF At, Ahead, Begun, Working, View
<1>2. /\ Files(d) = wire[d] /\ Files(d)' = Tail(wire[d]) /\ Open(d)' = still
      /\ Found(d) = NoRequest /\ Found(d)' = NoRequest
  BY <1>1 DEF Files, Open, Found
<1>3. View(o)' /\ Found(o)' = Found(o) /\ Files(o)' = Files(o) /\ Begun(o)' = Begun(o)
  BY <1>0, ViewStays
<1>4. View(d)'
  <2>1. Early(d)'
    BY <1>0, <1>1 DEF View, Early, At, Working
  <2>2. Way(Files(d), Open(d), run[d].want)'
    <3>1. Way(wire[d], Open(d), run[d].want)
      BY <1>1, <1>2 DEF Coming, Pending
    <3>2. Way(Tail(wire[d]), still, noted.want)
      BY <1>0, <3>1, WayTail, ZenonT(60)
    <3> QED BY <1>2, <3>2
  <2>3. Coming(d)'
    <3>1. Pending(Files(d)', c, run'[d].taking, part'[d])
      BY <1>2
    <3>2. (run[d].taking # NotTaking => run[d].taking.doc = Newest(run[d].want))'
      OBVIOUS
    <3> QED BY <2>2, <3>1, <3>2 DEF Coming, Pending
  <2> QED BY <2>1, <2>3 DEF View
<1>5. Together'
  <2>1. At(o, "rest") \/ (run[o].at \in Working /\ Owing(Desktop) /\ Owing(Phone))
    BY <1>0, <1>1, DevicesAre DEF StepInv, Together, At, Working
  <2>2. CASE At(o, "rest")
    <3>1. At(o, "rest")'
      BY <2>2 DEF At
    <3> QED BY <3>1, DevicesAre DEF Together
  <2>3. CASE run[o].at \in Working /\ Owing(Desktop) /\ Owing(Phone)
    <3>1. Owing(d) /\ Owing(o)
      BY <2>3, DevicesAre
    <3>2. Owing(d)'
      <4>1. Owes(wire[d], Open(d), run[d].want, run[o].asked)
        BY <1>2, <3>1 DEF Owing
      <4>2. Owes(Tail(wire[d]), still, noted.want, run[o].asked)
        BY <1>0, <4>1, OwesTail, ZenonT(60)
      <4> QED BY <1>2, <4>2 DEF Owing
    <3>3. Owing(o)'
      <4>1. Open(o)' = Open(o)
        BY DEF Open
      <4> QED BY <1>0, <1>3, <3>1, <4>1 DEF Owing
    <3>4. run'[d].at \in Working /\ run'[o].at \in Working
      BY <2>3 DEF Working
    <3> QED BY <3>2, <3>3, <3>4, DevicesAre DEF Together
  <2> QED BY <2>1, <2>2, <2>3
<1>6. Shared'
  <2>1. \A e \in Devices : /\ run'[e].asked = run[e].asked /\ run'[e].spent = run[e].spent
                           /\ run'[e].mine = run[e].mine /\ Found(e)' = Found(e)
    BY <1>2, <1>3, DevicesAre
  <2>2. \A e \in Devices : Asked(e)'
    BY <2>1 DEF StepInv, Shared, Asked
  <2>3. (Known(run[Phone].mine) /\ Known(DOMAIN run[Phone].asked) /\ Known(DOMAIN Found(Phone)))'
    BY <2>1, DevicesAre DEF StepInv, Shared, Known
  <2>4. (At(Desktop, "have") /\ wire[Desktop] # <<>> => Known(Head(wire[Desktop]).body))'
    <3>1. CASE d = Desktop
      <4>1. ~At(Desktop, "have")'
        BY <3>1 DEF At
      <4> QED BY <4>1
    <3>2. CASE d = Phone
      <4>1. o = Desktop
        BY <3>2, DevicesAre
      <4> QED BY <4>1 DEF StepInv, Shared, Known, At
    <3> QED BY <3>1, <3>2, DevicesAre
  <2>5. (Sum(Whole(Found(Phone))) <= Budget)'
    BY <2>1, DevicesAre DEF StepInv, Shared
  <2>6. DesktopSends' = DesktopSends /\ PhoneSends' = PhoneSends
    BY <2>1, DevicesAre DEF DesktopSends, PhoneSends, Alive, Live
  <2> QED BY <2>2, <2>3, <2>4, <2>5, <2>6 DEF StepInv, Shared
<1> QED BY <1>3, <1>4, <1>5, <1>6, DevicesAre DEF StepInv

\* The answer a device finds is to the newest document it still waits for.
LEMMA FirstIsNewest ==
  ASSUME FilesInv, StepInv, NEW d \in Devices, At(d, "fetch"), wire[d] # <<>>,
         wire[d][1].kind \in {"file", "skip"}
  PROVE  /\ run[d].taking = NotTaking /\ Open(d) = DOMAIN run[d].want /\ run[d].want # NoRequest
         /\ wire[d][1].body.doc = Newest(run[d].want) /\ Answer(wire[d], 1, run[d].want)
<1> DEFINE want == run[d].want
           i == wire[d][1].body.doc
<1>1. TypeInv /\ wire[d] \in Seq(Messages) /\ want \in Requests /\ Coming(d) /\ Files(d) = wire[d]
  <2>1. TypeInv /\ Begun(d) /\ ~At(d, "need")
    BY DEF FilesInv, Begun, At, Working
  <2>2. wire[d] \in Seq(Messages) /\ want \in Requests
    BY <2>1, SidesAre
  <2> QED BY <2>1, <2>2 DEF StepInv, View, Files
<1>2. run[d].taking = NotTaking
  <2>1. PICK c \in Nat : Block(wire[d], 0, c) /\ (c = 0 <=> run[d].taking = NotTaking)
    BY <1>1 DEF Coming, Pending
  <2>2. ASSUME c # 0
        PROVE  FALSE
    <3>1. c \in Nat \ {0}
      BY <2>2
    <3>2. wire[d][1] = [kind |-> "piece", body |-> 1 = c]
      BY <1>1, <2>1, <3>1, BlockPiece
    <3> QED BY <3>2
  <2> QED BY <2>1, <2>2
<1>3. Open(d) = DOMAIN want
  BY <1>1, <1>2, NothingTaken
<1>4. 1 \in Named(wire[d])
  BY <1>1, TailIs DEF Named
<1>5. /\ i \in DOMAIN want /\ Answer(wire[d], 1, want)
      /\ \A j \in DOMAIN want : i < j => \E m \in Named(wire[d]) : m < 1 /\ wire[d][m].body.doc = j
  <2>1. Way(wire[d], DOMAIN want, want)
    BY <1>1, <1>3 DEF Coming, Pending
  <2> QED BY <1>4, <2>1 DEF Way
<1>6. \A m \in Named(wire[d]) : ~(m < 1)
  <2>1. DOMAIN wire[d] = 1..Len(wire[d])
    BY <1>1
  <2> QED BY <2>1 DEF Named
<1> HIDE DEF i, want
<1>7. want # NoRequest
  BY <1>5, CostsOfNone
<1>8. i = Newest(want)
  <2>1. Newest(want) \in DOMAIN want /\ \A j \in DOMAIN want : j \in Docs /\ j <= Newest(want)
    BY <1>1, <1>7, NewestIsAsked, NewestIsNewest
  <2>2. ~(i < Newest(want))
    BY <1>5, <1>6, <2>1
  <2>3. i \in Nat /\ Newest(want) \in Nat /\ i <= Newest(want)
    BY <1>5, <2>1, DocsInOrder
  <2> QED BY <2>2, <2>3
<1> QED BY <1>2, <1>3, <1>5, <1>7, <1>8 DEF i, want

\* The messages behind the first one.
LEMMA TakenIs ==
  ASSUME FilesInv, NEW d \in Devices, Arrived(d), Talk(d, TRUE, <<>>)
  PROVE  /\ wire[d] # <<>> /\ wire[d] \in Seq(Messages) /\ wire[d][1] = Head(wire[d])
         /\ wire'[d] = Tail(wire[d]) /\ wire'[Other(d)] = wire[Other(d)]
<1> DEFINE none == <<>>
<1>1. none \in Seq(Messages) /\ Talk(d, TRUE, none) /\ none = <<>>
  BY RangeOfNone
<1> HIDE DEF none
<1>2. TypeInv /\ wire[d] # <<>>
  BY DEF FilesInv, Arrived
<1>3. wire'[d] = Tail(wire[d]) /\ wire'[Other(d)] = wire[Other(d)]
  BY <1>1, <1>2, TalkIs
<1>4. wire[d] \in Seq(Messages)
  BY <1>2, SidesAre
<1> QED BY <1>2, <1>3, <1>4, TailIs

LEMMA TakeSkipKeepsStep ==
  ASSUME FilesInv, StepInv, NEW d \in Devices, TakeSkip(d)
  PROVE  StepInv'
<1> DEFINE i == Newest(run[d].want)
           now == Without(run[d].want, i)
           noted == [run[d] EXCEPT !.want = now]
<1>1. At(d, "fetch") /\ Arrived(d) /\ Talk(d, TRUE, <<>>) /\ UNCHANGED <<rows, part>>
      /\ run' = [run EXCEPT ![d] = noted]
  BY DEF TakeSkip, ghosts
<1>2. /\ wire[d] # <<>> /\ wire[d] \in Seq(Messages) /\ wire[d][1] = Head(wire[d])
      /\ wire'[d] = Tail(wire[d]) /\ wire'[Other(d)] = wire[Other(d)]
  BY <1>1, TakenIs
<1>3. wire[d][1].kind = "skip"
  BY <1>2 DEF TakeSkip
<1>4. /\ run[d].taking = NotTaking /\ Open(d) = DOMAIN run[d].want /\ run[d].want # NoRequest
      /\ wire[d][1].body.doc = i /\ Answer(wire[d], 1, run[d].want)
  BY <1>1, <1>2, <1>3, FirstIsNewest
<1>5. Block(Tail(wire[d]), 0, 0)
  <2>1. Block(wire[d], 1, 0)
    BY <1>3, <1>4 DEF Answer
  <2>2. Block(Tail(wire[d]), 1 - 1, 0)
    BY <1>2, <2>1, BlockTail
  <2> QED BY <2>2
<1>6. TypeInv /\ run[d] \in Run /\ run[d].at = "fetch"
  BY <1>1, SidesAre DEF FilesInv, At
<1>7. DOMAIN now = DOMAIN run[d].want \ {i} /\ \A j \in DOMAIN now : now[j] = run[d].want[j]
  BY DEF Without
<1> HIDE DEF now, i
<1>8. /\ noted.at = "fetch" /\ noted.mine = run[d].mine /\ noted.asked = run[d].asked
      /\ noted.spent = run[d].spent /\ noted.want = now /\ noted.taking = NotTaking
  BY <1>4, <1>6 DEF Run
<1> HIDE DEF noted
<1>9. run'[d] = noted /\ run'[Other(d)] = run[Other(d)]
  BY <1>1, <1>6, DevicesAre DEF TypeInv
<1>10. DOMAIN now \in SUBSET Open(d) /\ DOMAIN now = Left(wire[d], Open(d))
  BY <1>3, <1>4, <1>7 DEF Left
<1>11. DOMAIN now = DOMAIN noted.want \ {noted.taking.doc} /\ ~noted.taking.open
  <2>1. DOMAIN now \subseteq Docs
    BY <1>6, <1>10, SidesAre
  <2>2. 0 \notin Docs
    BY DocsBefore DEF Docs
  <2> QED BY <1>8, <2>1, <2>2 DEF NotTaking
<1>12. \A e \in Devices, j \in Docs : part'[e][j] < Sizes[j]
  BY <1>1 DEF StepInv, Shared
<1>13. 0 \in Nat /\ Pending(Tail(wire[d]), 0, noted.taking, part'[d])
  BY <1>5, <1>8, <1>11 DEF Pending
<1> QED BY <1>1, <1>2, <1>7, <1>8, <1>9, <1>10, <1>11, <1>12, <1>13, TakenKeepsStep

LEMMA TakeFileKeepsStep ==
  ASSUME FilesInv, StepInv, NEW d \in Devices, TakeFile(d)
  PROVE  StepInv'
<1> DEFINE want == run[d].want
           i == Newest(want)
<1>1. At(d, "fetch") /\ Arrived(d) /\ UNCHANGED <<rows, part>>
  BY DEF TakeFile
<1>2. \A e \in Devices, j \in Docs : part'[e][j] < Sizes[j]
  BY <1>1 DEF StepInv, Shared
<1>3. CASE ~Live(d, i)
  <2>1. Ends(d, <<>>)
    BY <1>3 DEF TakeFile
  <2> QED BY <1>1, <1>2, <2>1, LeavesQuietly
<1>4. CASE Live(d, i)
  <2>1. PICK works \in BOOLEAN :
          run' = [run EXCEPT ![d].taking = [doc |-> i, open |-> works /\ part[d][i] = Arriving(d).from]]
    BY <1>4 DEF TakeFile
  <2>2. Talk(d, TRUE, <<>>)
    BY <1>4 DEF TakeFile
  <2> DEFINE open == works /\ part[d][i] = Arriving(d).from
             taking == [doc |-> i, open |-> open]
             noted == [run[d] EXCEPT !.taking = taking]
             c == Sizes[i] - want[i]
             still == DOMAIN want \ {i}
  <2>3. run' = [run EXCEPT ![d] = noted]
    BY <2>1
  <2>4. /\ wire[d] # <<>> /\ wire[d] \in Seq(Messages) /\ wire[d][1] = Head(wire[d])
        /\ wire'[d] = Tail(wire[d]) /\ wire'[Other(d)] = wire[Other(d)]
    BY <1>1, <2>2, TakenIs
  <2>5. wire[d][1].kind = "file"
    BY <2>4 DEF TakeFile
  <2>6. /\ Open(d) = DOMAIN want /\ want # NoRequest
        /\ wire[d][1].body.doc = i /\ Answer(wire[d], 1, want)
    BY <1>1, <2>4, <2>5, FirstIsNewest
  <2>7. TypeInv /\ run[d] \in Run /\ run[d].at = "fetch" /\ want \in Requests
    BY <1>1, SidesAre DEF FilesInv, At
  <2>8. i \in Docs /\ want[i] \in Nat /\ Sizes[i] \in Nat /\ part[d][i] \in Nat /\ i # 0
    BY <2>6, <2>7, NewestIsAsked, DocsAssumption, DocsBefore DEF TypeInv
  <2>9. Arriving(d).from = want[i] /\ want[i] < Sizes[i] /\ Block(wire[d], 1, c)
    <3>1. wire[d][1].body.from = want[i] /\ want[i] < Sizes[i] /\ Block(wire[d], 1, c)
      BY <2>5, <2>6 DEF Answer
    <3> QED BY <2>4, <3>1 DEF Arriving
  <2>10. c \in Nat \ {0} /\ (open => part[d][i] + c = Sizes[i])
    <3>1. open => part[d][i] = want[i]
      BY <2>9
    <3> HIDE DEF open
    <3> QED BY <2>8, <2>9, <3>1
  <2>11. Block(Tail(wire[d]), 0, c)
    <3>1. c \in Nat
      BY <2>10
    <3> HIDE DEF c
    <3>2. wire[d] \in Seq(Messages) /\ wire[d] # <<>> /\ 1 \in Nat \ {0} /\ Block(wire[d], 1, c)
      BY <2>4, <2>9
    <3>3. Block(Tail(wire[d]), 1 - 1, c)
      BY <3>1, <3>2, BlockTail
    <3> QED BY <3>3
  <2>12. taking.doc = i /\ taking.open = open /\ taking # NotTaking
    <3>1. taking.doc = i /\ taking.open = open
      OBVIOUS
    <3> HIDE DEF taking
    <3> QED BY <2>8, <3>1 DEF NotTaking
  <2> HIDE DEF taking, open
  <2>13. /\ noted.at = "fetch" /\ noted.mine = run[d].mine /\ noted.asked = run[d].asked
         /\ noted.spent = run[d].spent /\ noted.want = want /\ noted.taking = taking
    BY <2>7 DEF Run
  <2> HIDE DEF noted
  <2>14. run'[d] = noted /\ run'[Other(d)] = run[Other(d)]
    BY <2>3, <2>7, DevicesAre DEF TypeInv
  <2>15. still \in SUBSET Open(d) /\ still = Left(wire[d], Open(d)) /\ still = DOMAIN noted.want \ {noted.taking.doc}
    BY <2>5, <2>6, <2>12, <2>13 DEF Left
  <2>16. /\ c \in Nat /\ (c = 0 <=> noted.taking = NotTaking)
         /\ noted.taking.open => part'[d][noted.taking.doc] + c = Sizes[noted.taking.doc]
    BY <1>1, <2>10, <2>12, <2>13
  <2>17. (\A j \in still : noted.want[j] = run[d].want[j]) /\ noted.taking.doc = Newest(noted.want)
    BY <2>12, <2>13
  <2>18. part'[Other(d)] = part[Other(d)]
    BY <1>1
  <2>19. /\ noted.at = "fetch" /\ noted.mine = run[d].mine /\ noted.asked = run[d].asked
         /\ noted.spent = run[d].spent /\ UNCHANGED rows
         /\ wire[d] # <<>> /\ wire'[d] = Tail(wire[d]) /\ wire'[Other(d)] = wire[Other(d)]
    BY <1>1, <2>4, <2>13
  <2> HIDE DEF c, still, i, want
  <2>20. c \in Nat /\ Pending(Tail(wire[d]), c, noted.taking, part'[d])
    BY <2>11, <2>16 DEF Pending
  <2> QED BY <1>1, <1>2, <2>14, <2>15, <2>17, <2>18, <2>19, <2>20, TakenKeepsStep
<1> QED BY <1>3, <1>4

LEMMA TakePieceKeepsStep ==
  ASSUME FilesInv, StepInv, NEW d \in Devices, TakePiece(d)
  PROVE  StepInv'
<1> DEFINE i == run[d].taking.doc
           last == Arriving(d)
<1>1. At(d, "fetch") /\ Arrived(d) /\ Talk(d, TRUE, <<>>) /\ UNCHANGED rows
  BY DEF TakePiece
<1>2. /\ wire[d] # <<>> /\ wire[d] \in Seq(Messages) /\ wire[d][1] = Head(wire[d])
      /\ wire'[d] = Tail(wire[d]) /\ wire'[Other(d)] = wire[Other(d)]
  BY <1>1, TakenIs
<1>3. wire[d][1].kind = "piece" /\ wire[d][1].body = last
  BY <1>2 DEF TakePiece, Arriving
<1>4. run[d].taking # NotTaking /\ i \in Docs /\ i # 0 /\ Sizes[i] \in Nat \ {0} /\ part[d][i] \in Nat
  <2>1. run[d].taking # NotTaking
    BY <1>1, <1>2, <1>3, ArrivedIs DEF FilesInv
  <2> QED BY <2>1, DocsAssumption, DocsBefore DEF FilesInv, TakesKnown, TypeInv
<1>5. TypeInv /\ run[d] \in Run /\ run[d].at = "fetch" /\ Coming(d) /\ Files(d) = wire[d]
      /\ run[d].taking \in [doc : Docs \cup {0}, open : BOOLEAN]
  <2>1. TypeInv /\ Begun(d) /\ ~At(d, "need") /\ run[d].at = "fetch"
    BY <1>1 DEF FilesInv, Begun, At, Working
  <2>2. run[d] \in Run /\ run[d].taking \in [doc : Docs \cup {0}, open : BOOLEAN]
    BY <2>1, SidesAre
  <2> QED BY <2>1, <2>2 DEF StepInv, View, Files
<1>6. PICK c \in Nat \ {0} :
        /\ Block(wire[d], 0, c)
        /\ run[d].taking.open => part[d][i] + c = Sizes[i]
  BY <1>4, <1>5 DEF Coming, Pending
<1>7. (last <=> c = 1) /\ last \in BOOLEAN /\ Block(Tail(wire[d]), 0, c - 1)
  <2>1. wire[d][1] = [kind |-> "piece", body |-> 1 = c] /\ Block(Tail(wire[d]), 0, c - 1)
    BY <1>2, <1>6, BlockPiece
  <2> HIDE DEF last
  <2>2. last = (1 = c)
    BY <1>3, <2>1
  <2>3. last \in BOOLEAN /\ (last <=> 1 = c)
    BY <2>2, Zenon
  <2> QED BY <2>1, <2>3
<1>8. PICK works \in BOOLEAN :
        LET written == run[d].taking.open /\ works IN
        /\ part' = [part EXCEPT ![d][i] = IF ~written THEN @ ELSE IF last THEN 0 ELSE @ + 1]
        /\ run' = [run EXCEPT
             ![d].taking = IF last THEN NotTaking ELSE [@ EXCEPT !.open = written],
             ![d].want = IF last THEN Without(@, i) ELSE @,
             ![d].arrived = IF written /\ last THEN @ \cup {i} ELSE @]
  BY DEF TakePiece
<1> DEFINE written == run[d].taking.open /\ works
           taking == IF last THEN NotTaking ELSE [run[d].taking EXCEPT !.open = written]
           want == IF last THEN Without(run[d].want, i) ELSE run[d].want
           arrived == IF written /\ last THEN run[d].arrived \cup {i} ELSE run[d].arrived
           noted == [run[d] EXCEPT !.taking = taking, !.want = want, !.arrived = arrived]
           still == DOMAIN want \ {taking.doc}
<1>9. run' = [run EXCEPT ![d] = noted]
  BY <1>8
<1>10. written \in BOOLEAN /\ (written => run[d].taking.open)
  BY <1>5
<1>11. /\ part'[Other(d)] = part[Other(d)]
       /\ \A j \in Docs : j # i => part'[d][j] = part[d][j]
       /\ part'[d][i] = IF ~written THEN part[d][i] ELSE IF last THEN 0 ELSE part[d][i] + 1
  <2> DEFINE now == IF ~written THEN part[d][i] ELSE IF last THEN 0 ELSE part[d][i] + 1
  <2>1. part' = [part EXCEPT ![d][i] = now]
    BY <1>8
  <2> HIDE DEF now, i
  <2>2. /\ part'[Other(d)] = part[Other(d)] /\ part'[d][i] = now
        /\ \A j \in Docs : j # i => part'[d][j] = part[d][j]
    BY <1>4, <1>5, <2>1, DevicesAre DEF TypeInv, i
  <2> QED BY <2>2 DEF now
<1>12. /\ last => taking = NotTaking
       /\ ~last => taking.doc = i /\ taking.open = written /\ taking # NotTaking
  <2>1. ASSUME ~last
        PROVE  taking.doc = i /\ taking.open = written
    BY <1>5, <1>10, <2>1
  <2>2. NotTaking.doc = 0
    BY DEF NotTaking
  <2> HIDE DEF taking
  <2>3. ~last => taking # NotTaking
    BY <1>4, <2>1, <2>2
  <2>4. last => taking = NotTaking
    BY DEF taking
  <2> QED BY <2>1, <2>3, <2>4
<1> HIDE DEF written, taking, arrived
<1>13. /\ noted.at = "fetch" /\ noted.mine = run[d].mine /\ noted.asked = run[d].asked
       /\ noted.spent = run[d].spent /\ noted.want = want /\ noted.taking = taking
  BY <1>5 DEF Run
<1> HIDE DEF noted
<1>14. run'[d] = noted /\ run'[Other(d)] = run[Other(d)]
  BY <1>5, <1>9, DevicesAre DEF TypeInv
<1>15. /\ still = Open(d) /\ \A j \in still : want[j] = run[d].want[j]
       /\ taking # NotTaking => taking.doc = Newest(want)
  <2>1. CASE last
    <3>1. taking.doc = 0 /\ taking = NotTaking
      BY <1>12, <2>1 DEF NotTaking
    <3>2. DOMAIN want = DOMAIN run[d].want \ {i} /\ \A j \in DOMAIN want : want[j] = run[d].want[j]
      BY <2>1 DEF Without
    <3>3. DOMAIN run[d].want \in SUBSET Docs /\ 0 \notin Docs
      BY <1>5, SidesAre, DocsBefore
    <3> HIDE DEF want
    <3>4. still = DOMAIN run[d].want \ {i}
      BY <3>1, <3>2, <3>3
    <3> QED BY <3>1, <3>2, <3>4 DEF Open
  <2>2. CASE ~last
    <3>1. taking.doc = i /\ want = run[d].want
      BY <1>12, <2>2
    <3>2. i = Newest(run[d].want)
      BY <1>4, <1>5 DEF Coming, Pending
    <3> QED BY <3>1, <3>2 DEF Open
  <2> QED BY <1>7, <2>1, <2>2
<1> HIDE DEF want
<1>16. still \in SUBSET Open(d) /\ still = Left(wire[d], Open(d)) /\ still = DOMAIN noted.want \ {noted.taking.doc}
  BY <1>3, <1>13, <1>15 DEF Left
<1>17. (\A j \in still : noted.want[j] = run[d].want[j])
       /\ (noted.taking # NotTaking => noted.taking.doc = Newest(noted.want))
  BY <1>13, <1>15
<1> HIDE DEF still
<1>18. c - 1 \in Nat /\ Pending(Tail(wire[d]), c - 1, noted.taking, part'[d])
  <2>1. c - 1 \in Nat /\ (c - 1 = 0 <=> last)
    BY <1>7
  <2>2. c - 1 = 0 <=> taking = NotTaking
    BY <1>7, <1>12, <2>1
  <2>3. ASSUME taking.open
        PROVE  part'[d][taking.doc] + (c - 1) = Sizes[taking.doc]
    <3>0. NotTaking.open = FALSE
      BY DEF NotTaking
    <3>1. ~last
      BY <1>12, <2>3, <3>0
    <3>2. taking.doc = i /\ taking.open = written
      BY <1>12, <3>1
    <3>3. written
      BY <2>3, <3>2
    <3>4. part'[d][i] = part[d][i] + 1 /\ part[d][i] + c = Sizes[i]
      BY <1>6, <1>10, <1>11, <3>1, <3>3
    <3> HIDE DEF i
    <3>5. part[d][i] \in Nat /\ Sizes[i] \in Nat
      BY <1>4
    <3>6. part'[d][i] + (c - 1) = Sizes[i]
      BY <3>4, <3>5
    <3> QED BY <3>2, <3>6
  <2> QED BY <1>7, <1>13, <2>1, <2>2, <2>3 DEF Pending
<1>19. \A e \in Devices, j \in Docs : part'[e][j] < Sizes[j]
  <2>1. TAKE e \in Devices, j \in Docs
  <2>2. part[e][j] < Sizes[j]
    BY DEF StepInv, Shared
  <2>3. CASE e = d /\ j = i
    <3>1. part'[d][i] = part[d][i] \/ part'[d][i] = 0 \/ (part'[d][i] = part[d][i] + 1 /\ ~last /\ run[d].taking.open)
      BY <1>10, <1>11
    <3>2. ~last /\ run[d].taking.open => c # 1 /\ part[d][i] + c = Sizes[i]
      BY <1>6, <1>7
    <3> HIDE DEF i, last
    <3>3. part'[d][i] < Sizes[i]
      BY <1>4, <1>6, <2>2, <2>3, <3>1, <3>2
    <3> QED BY <2>3, <3>3
  <2>4. CASE ~(e = d /\ j = i)
    <3>1. part'[e][j] = part[e][j]
      BY <1>11, <2>4, DevicesAre
    <3> QED BY <2>2, <3>1
  <2> QED BY <2>3, <2>4
<1>20. part'[Other(d)] = part[Other(d)]
  BY <1>11
<1> HIDE DEF i, last
<1> QED BY <1>1, <1>2, <1>13, <1>14, <1>16, <1>17, <1>18, <1>19, <1>20, TakenKeepsStep

-----------------------------------------------------------------------------
(***************************************************************************)
(* The invariant, and what it says.                                        *)
(***************************************************************************)
\* In every state of a sync each message on its way is the one its receiver waits for, up
\* to the last one, and what has still to come fits in the budget.
THEOREM StepInvariant == Spec => []StepInv
<1>1. Init => StepInv
  <2> SUFFICES ASSUME Init
               PROVE  Fresh
    BY FreshIsInStep
  <2>1. \A d \in Devices : run[d] = Resting /\ wire[d] = <<>>
    BY DEF Init
  <2>2. Resting.at = "rest" /\ Resting.asked = NoRequest /\ Resting.spent = 0 /\ Resting.mine = {}
    BY DEF Resting
  <2>3. \A d \in Devices, i \in Docs : part[d][i] = 0 /\ 0 < Sizes[i]
    BY DocsAssumption DEF Init
  <2> QED BY <2>1, <2>2, <2>3, DevicesAre DEF Fresh, At, Known
<1>2. FilesInv /\ FilesInv' /\ StepInv /\ [Next]_vars => StepInv'
  <2> SUFFICES ASSUME FilesInv, FilesInv', StepInv, [Next]_vars
               PROVE  StepInv'
    OBVIOUS
  <2>1. ASSUME NEW mode \in Modes, Start(mode)
        PROVE  StepInv'
    BY <2>1, StartKeepsStep
  <2>2. ASSUME NEW mode \in Modes, NEW d \in Devices, StartAndBreak(mode, d)
        PROVE  StepInv'
    BY <2>2, StartAndBreakKeepsStep
  <2>3. ASSUME NEW d \in Devices, Step(d)
        PROVE  StepInv'
    BY <2>3, BeginKeepsStep, TakeHaveKeepsStep, TakeNeedKeepsStep, ServeKeepsStep, ServedKeepsStep,
       TakeSkipKeepsStep, TakeFileKeepsStep, TakePieceKeepsStep, FetchedKeepsStep, ConfirmKeepsStep,
       TakeStoredKeepsStep, PeerGoneKeepsStep
       DEF Step
  <2>4. ASSUME NEW d \in Devices, Person(d)
        PROVE  StepInv'
    BY <2>4, AddKeepsStep, AddAgainKeepsStep, UpdateKeepsStep, DeleteKeepsStep DEF Person
  <2>5. ASSUME NEW d \in Devices, Tidy(d)
        PROVE  StepInv'
    BY <2>5, TidyKeepsStep
  <2>6. ASSUME NEW d \in Devices, Break(d)
        PROVE  StepInv'
    BY <2>6, PeerGoneKeepsStep
  <2>7. ASSUME NEW d \in Devices, NEW i \in Docs, Damage(d, i)
        PROVE  StepInv'
    BY <2>7, DamageKeepsStep
  <2>8. CASE UNCHANGED vars
    <3>1. rows' = rows /\ part' = part /\ run' = run /\ wire' = wire
      BY <2>8 DEF vars
    <3>2. \A d \in Devices, i \in Docs : part[d][i] < Sizes[i]
      BY DEF StepInv, Shared
    <3>3. \A i \in Docs : Live(Phone, i)' = Live(Phone, i)
      BY <3>1 DEF Live
    <3> QED BY <3>1, <3>2, <3>3, QuietKeepsStep
  <2> QED BY <2>1, <2>2, <2>3, <2>4, <2>5, <2>6, <2>7, <2>8 DEF Next
<1> QED BY <1>1, <1>2, FilesInvariant, PTL DEF Spec

LEMMA StepIsWithinBudget ==
  ASSUME FilesInv, StepInv
  PROVE  WithinBudget
<1>1. /\ DesktopSends \in Nat /\ PhoneSends \in Nat
      /\ run[Desktop].spent <= DesktopSends /\ run[Phone].spent <= PhoneSends
  BY SendsAre DEF FilesInv, StepInv, View, Shared
<1>2. DesktopSends + PhoneSends <= Budget /\ Budget \in Nat
  BY BoundsAssumption DEF StepInv, Shared
<1>3. run[Desktop].spent \in Nat /\ run[Phone].spent \in Nat
  BY SidesAre, DevicesAre DEF FilesInv
<1> QED BY <1>1, <1>2, <1>3, LessIsWithin DEF WithinBudget

\* The first message of the files is of the kind its receiver waits for.
LEMMA FirstIsExpected ==
  ASSUME FilesInv, StepInv, NEW d \in Devices, run[d].at \in {"fetch", "stored"}, wire[d] # <<>>
  PROVE  /\ run[d].taking # NotTaking => wire[d][1].kind = "piece"
         /\ run[d].taking = NotTaking /\ At(d, "fetch") /\ run[d].want # NoRequest =>
              wire[d][1].kind \in {"file", "skip"}
         /\ At(d, "stored") => wire[d][1].kind = "stored" /\ run[d].taking = NotTaking
<1> DEFINE w == wire[d]
<1>1. TypeInv /\ w \in Seq(Messages) /\ run[d].want \in Requests /\ Coming(d) /\ Files(d) = w
  <2>1. TypeInv /\ Begun(d) /\ ~At(d, "need")
    BY DEF FilesInv, Begun, At, Working
  <2>2. w \in Seq(Messages) /\ run[d].want \in Requests
    BY <2>1, SidesAre
  <2> QED BY <2>1, <2>2 DEF StepInv, View, Files
<1>2. PICK c \in Nat : Block(w, 0, c) /\ (c = 0 <=> run[d].taking = NotTaking)
  BY <1>1 DEF Coming, Pending
<1>3. ASSUME run[d].taking # NotTaking
      PROVE  w[1].kind = "piece"
  <2>1. c \in Nat \ {0}
    BY <1>2, <1>3
  <2>2. w[1] = [kind |-> "piece", body |-> 1 = c]
    BY <1>1, <1>2, <2>1, BlockPiece
  <2> QED BY <2>2
<1>4. ASSUME run[d].taking = NotTaking
      PROVE  /\ w[1].kind \in {"file", "skip", "stored"}
             /\ w[1].kind = "stored" => DOMAIN run[d].want = {}
             /\ DOMAIN run[d].want = {} => w[1].kind = "stored"
  <2>1. Len(w) \in Nat \ {0} /\ DOMAIN w = 1..Len(w)
    BY <1>1, TailIs
  <2>2. w[1].kind # "piece"
    <3>1. Block(w, 0, 0) /\ 0 + 0 + 1 <= Len(w)
      BY <1>2, <1>4, <2>1
    <3>2. w[0 + 0 + 1].kind # "piece"
      BY <3>1 DEF Block
    <3> QED BY <3>2
  <2>3. Way(w, DOMAIN run[d].want, run[d].want)
    BY <1>1, <1>4, NothingTaken DEF Coming, Pending
  <2> DEFINE open == DOMAIN run[d].want
  <2> HIDE DEF open, w
  <2>4. w[1].kind \in {"file", "skip", "stored"}
    BY <2>1, <2>2, <2>3 DEF Way
  <2>5. ASSUME w[1].kind = "stored"
        PROVE  open = {}
    <3>1. 1 = Len(w) /\ \A j \in open : \E m \in Named(w) : w[m].body.doc = j
      BY <2>1, <2>3, <2>5 DEF Way, open
    <3>2. ASSUME NEW n \in Named(w)
          PROVE  FALSE
      <4>1. n \in DOMAIN w /\ w[n].kind \in {"file", "skip"}
        BY DEF Named
      <4>2. DOMAIN w = 1..1
        BY <2>1, <3>1
      <4>3. n \in 1..1
        BY <4>1, <4>2
      <4>4. n = 1
        BY <4>3
      <4> QED BY <2>5, <4>1, <4>4
    <3> QED BY <3>1, <3>2
  <2>6. ASSUME w[1].kind \in {"file", "skip"}
        PROVE  open # {}
    <3>1. 1 \in Named(w)
      BY <2>1, <2>6 DEF Named
    <3>2. w[1].body.doc \in open
      BY <2>3, <3>1 DEF Way, open
    <3> QED BY <3>2
  <2> QED BY <2>4, <2>5, <2>6 DEF open
<1>5. run[d].want # NoRequest => DOMAIN run[d].want # {}
  BY <1>1, NewestIsAsked
<1>6. At(d, "stored") => run[d].taking = NotTaking /\ run[d].want = NoRequest
  <2>1. At(d, "stored") => ~At(d, "fetch")
    BY DEF At
  <2> QED BY <2>1 DEF FilesInv, TakesKnown, StepInv, View, Early
<1> QED BY <1>3, <1>4, <1>5, <1>6, CostsOfNone

LEMMA MessagesAreExpected ==
  ASSUME FilesInv, StepInv, NEW d \in Devices, Waiting(d), wire[d] # <<>>
  PROVE  /\ Arrived(d)
         /\ Head(wire[d]).kind \in {"file", "skip"} => Arriving(d).doc = Newest(run[d].want)
         /\ Head(wire[d]).kind = "file" => Arriving(d).from = run[d].want[Arriving(d).doc]
<1>1. TypeInv /\ wire[d] \in Seq(Messages) /\ wire[d][1] = Head(wire[d]) /\ Early(d)
  <2>1. TypeInv
    BY DEF FilesInv
  <2>2. wire[d] \in Seq(Messages)
    BY <2>1, SidesAre
  <2> QED BY <2>1, <2>2, TailIs DEF StepInv, View
<1> DEFINE kind == Head(wire[d]).kind
<1>2. /\ WaitsFor["have"] = {"have"} /\ WaitsFor["need"] = {"need"}
      /\ WaitsFor["fetch"] = {"file", "skip"} /\ WaitsFor["stored"] = {"stored"}
      /\ DOMAIN WaitsFor = {"have", "need", "fetch", "stored"}
  BY DEF WaitsFor
<1>3. run[d].at \in {"have", "need", "fetch", "stored"}
  BY <1>2 DEF Waiting
<1>4. run[d].at \in {"have", "need"} => run[d].taking = NotTaking
  BY DEF FilesInv, TakesKnown, At
<1>5. CASE run[d].at = "have"
  <2>1. kind = "have"
    BY <1>1, <1>5 DEF Early, One, At
  <2>2. Expected(d) = {"have"}
    BY <1>2, <1>4, <1>5 DEF Expected
  <2> QED BY <2>1, <2>2 DEF Arrived
<1>6. CASE run[d].at = "need"
  <2>1. kind = "need"
    BY <1>1, <1>6 DEF Early, Ahead, At
  <2>2. Expected(d) = {"need"}
    BY <1>2, <1>4, <1>6 DEF Expected
  <2> QED BY <2>1, <2>2 DEF Arrived
<1>7. CASE run[d].at = "stored"
  <2>1. kind = "stored" /\ run[d].taking = NotTaking
    BY <1>1, <1>7, FirstIsExpected DEF At
  <2>2. Expected(d) = {"stored"}
    BY <1>2, <1>7, <2>1 DEF Expected
  <2> QED BY <2>1, <2>2 DEF Arrived
<1>8. CASE run[d].at = "fetch"
  <2>1. At(d, "fetch") /\ run[d].want # NoRequest
    BY <1>8 DEF Waiting, At
  <2>2. kind \in Expected(d)
    <3>1. run[d].taking # NotTaking => kind = "piece"
      BY <1>1, <1>8, FirstIsExpected
    <3>2. run[d].taking = NotTaking => kind \in {"file", "skip"}
      BY <1>1, <1>8, <2>1, FirstIsExpected
    <3> QED BY <1>2, <1>8, <3>1, <3>2 DEF Expected
  <2>3. Arrived(d)
    BY <2>2 DEF Arrived
  <2>4. kind \in {"file", "skip"} => Arriving(d).doc = Newest(run[d].want) /\ Answer(wire[d], 1, run[d].want)
    BY <1>1, <2>1, FirstIsNewest DEF Arriving
  <2>5. kind = "file" => Arriving(d).from = run[d].want[Arriving(d).doc]
    BY <1>1, <2>4 DEF Answer, Arriving
  <2> QED BY <2>3, <2>4, <2>5
<1> QED BY <1>3, <1>5, <1>6, <1>7, <1>8

\* Who waits for a file with nothing on its way has asked the other one for it.
LEMMA WaitsForAsked ==
  ASSUME FilesInv, StepInv, NEW d \in Devices, At(d, "fetch"), run[d].want # NoRequest, wire[d] = <<>>, Owing(d)
  PROVE  run[Other(d)].asked # NoRequest
<1>1. TypeInv /\ Files(d) = <<>> /\ Coming(d) /\ run[d].want \in Requests
  <2>1. TypeInv /\ Begun(d) /\ ~At(d, "need")
    BY DEF FilesInv, Begun, At, Working
  <2>2. run[d].want \in Requests
    BY <2>1, SidesAre
  <2> QED BY <2>1, <2>2 DEF StepInv, View, Files
<1>2. run[d].taking = NotTaking
  <2>1. PICK c \in Nat : Block(<<>>, 0, c) /\ (c = 0 <=> run[d].taking = NotTaking)
    BY <1>1 DEF Coming, Pending
  <2> QED BY <2>1, WayOfNone
<1>3. Open(d) = DOMAIN run[d].want
  BY <1>1, <1>2, NothingTaken
<1>4. Newest(run[d].want) \in DOMAIN run[d].want
  BY <1>1, NewestIsAsked
<1>5. \A j \in Open(d) : j \in DOMAIN run[Other(d)].asked
  BY <1>1, WayOfNone DEF Owing
<1> QED BY <1>3, <1>4, <1>5, CostsOfNone

LEMMA SomebodyGoesOn ==
  ASSUME FilesInv, StepInv
  PROVE  ~\A d \in Devices : Waiting(d) /\ wire[d] = <<>>
<1> SUFFICES ASSUME \A d \in Devices : Waiting(d) /\ wire[d] = <<>>
             PROVE  FALSE
  OBVIOUS
<1>1. DOMAIN WaitsFor = {"have", "need", "fetch", "stored"}
  BY DEF WaitsFor
<1>2. \A d \in Devices : /\ run[d].at \in {"have", "need", "fetch", "stored"} /\ wire[d] = <<>> /\ ~Ahead(d)
                         /\ At(d, "stored") => d = Phone
                         /\ At(d, "fetch") => run[d].want # NoRequest
  BY <1>1 DEF Waiting, Ahead
<1>3. Message("need", run[Desktop].want) # <<>>
  BY DEF Message
<1>4. run[Desktop].at \in Working /\ run[Phone].at \in Working /\ Owing(Desktop) /\ Owing(Phone)
  BY <1>2, <1>3, DevicesAre DEF StepInv, Together, At
<1>5. At(Desktop, "fetch") /\ (At(Phone, "fetch") \/ At(Phone, "stored"))
  BY <1>2, <1>4, DevicesAre DEF Working, At
<1>6. run[Phone].asked # NoRequest
  BY <1>2, <1>4, <1>5, WaitsForAsked, DevicesAre
<1>7. run[Desktop].asked = NoRequest /\ (At(Phone, "stored") => run[Phone].asked = NoRequest)
  BY <1>5, DevicesAre DEF StepInv, View, Early
<1>8. At(Phone, "fetch")
  BY <1>5, <1>6, <1>7
<1> QED BY <1>2, <1>4, <1>7, <1>8, WaitsForAsked, DevicesAre

\* The two devices agree on the budget and on whose turn it is, in every sync
\* (files.rs:43-45): what is sent stays within the budget, though each works out its share
\* on its own; each message finds the other at the step it belongs to, a file is the one
\* the receiver wants next, from the chunk it has it to; and the two never both wait.
THEOREM InStepTheorem == Spec => []InStep
<1>1. FilesInv /\ StepInv => InStep
  BY StepIsWithinBudget, MessagesAreExpected, SomebodyGoesOn DEF InStep
<1> QED BY <1>1, FilesInvariant, StepInvariant, PTL

\* Every value has its type; an unfinished file is shorter than the document's.
THEOREM TypeOKTheorem == Spec => []TypeOK
<1>1. WayInv /\ StepInv => TypeOK
  <2> SUFFICES ASSUME WayInv, StepInv
               PROVE  TypeOK
    OBVIOUS
  <2>1. TypeInv /\ \A d \in Devices : TakesKnown(d)
    BY DEF WayInv, FilesInv
  <2>2. \A d \in Devices, i \in Docs : part[d][i] < Sizes[i]
    BY DEF StepInv, Shared
  <2>3. ASSUME NEW d \in Devices
        PROVE  RunOK(run[d])
    <3>1. run[d] \in Run
      BY <2>1 DEF TypeInv
    <3>2. DOMAIN WaitsFor = {"have", "need", "fetch", "stored"}
      BY DEF WaitsFor
    <3>3. run[d].at \in DOMAIN WaitsFor \cup {"rest", "begin", "serve"}
      BY <3>1, <3>2 DEF Run, Steps
    <3>4. \A q \in Requests : IsRequest(q)
      BY RequestsAre DEF IsRequest
    <3>5. {run[d].mine, run[d].theirs, run[d].arrived} \subseteq SUBSET Docs /\ run[d].mode \in Modes \cup {"both"}
          /\ IsRequest(run[d].want) /\ IsRequest(run[d].asked) /\ run[d].spent \in Nat
          /\ run[d].taking \in [doc : Docs \cup {0}, open : BOOLEAN]
      BY <3>1, <3>4 DEF Run
    <3> QED BY <3>3, <3>5 DEF RunOK
  <2>4. {changes, faults} \subseteq Nat
    BY DEF WayInv, AsksInv
  <2> QED BY <2>1, <2>2, <2>3, <2>4 DEF TypeOK, TypeInv
<1> QED BY <1>1, WayInvariant, StepInvariant, PTL

=============================================================================
