----------------------------- MODULE SyncFiles -----------------------------
(***************************************************************************)
(* The bytes of the documents' files: what follows the rows in a sync, in  *)
(* src-tauri/src/sync/files.rs, with the folder each device keeps them in  *)
(* (documents/store.rs) and what people do to documents meanwhile          *)
(* (documents/library.rs).                                                 *)
(*                                                                         *)
(* Of the rows only what the files depend on is here: whether the document *)
(* exists, whether the phone keeps its file, and whether the row changed   *)
(* since the two devices agreed on it. A row that changed on both sides    *)
(* may end as either (the person chooses, or the newer stamp wins:         *)
(* SyncFlow). A file is as many sealed chunks as Sizes says.               *)
(***************************************************************************)
EXTENDS Naturals, Sequences

CONSTANTS
  LastDoc,     \* the documents are 1..LastDoc, the newest last
  Sizes,       \* Sizes[i]: how many chunks the file of document i has
  Budget,      \* BUDGET, in chunks: what one sync may move, both ways together
  Modes,       \* the ways a sync may go
  MaxChanges,  \* bound: how many things people do to documents
  MaxFaults    \* bound: how many times a connection, a disk or a file fails

Docs == 1..LastDoc

ASSUME DocsAssumption == LastDoc \in Nat /\ Sizes \in [Docs -> Nat \ {0}]
ASSUME ModesAssumption == Modes \subseteq {"both", "to_desktop", "to_phone"}
ASSUME BoundsAssumption == {Budget, MaxChanges, MaxFaults} \subseteq Nat

Desktop == 1
Phone == 2
Devices == {Desktop, Phone}
Other(d) == IF d = Desktop THEN Phone ELSE Desktop

VARIABLES
  rows,     \* rows[d][i]: what d knows of document i
  file,     \* file[d][i]: the finished file (.mnd) in the folder of d
  part,     \* part[d][i]: how many whole chunks of an unfinished one (.part) are there
  run,      \* run[d]: what d knows of the sync it is in
  wire,     \* wire[d]: the messages on their way to d
  changes,  \* how many things people have done
  faults,   \* how many times something failed
  gone,     \* the documents a person deleted
  hurt      \* those whose last good file was damaged, or was while the phone relied on it

vars == <<rows, file, part, run, wire, changes, faults, gone, hurt>>
ghosts == <<changes, faults, gone, hurt>>

(***************************************************************************)
(* The rows and the folder.                                                *)
(***************************************************************************)
Row == [state : {"none", "row", "marker"}, keep : BOOLEAN, changed : BOOLEAN]
NoRow == [state |-> "none", keep |-> FALSE, changed |-> FALSE]

Live(d, i) == rows[d][i].state = "row"

\* `get`: the file opens, and is the one its row describes. `has` only looks at the name.
Opens(d, i) == file[d][i] = "whole"
Has(d, i) == file[d][i] # "none"

\* `have_list`: the documents whose file is there, by its name.
HaveList(d) == {i \in Docs : Live(d, i) /\ Has(d, i)}

(***************************************************************************)
(* A sync.                                                                 *)
(***************************************************************************)
Sends(d, mode) == mode = "both" \/ (mode = "to_desktop" <=> d = Phone)
Receives(d, mode) == Sends(Other(d), mode)

\* A file that is arriving: its document, and whether its pieces are still written.
NotTaking == [doc |-> 0, open |-> FALSE]

\* A request: of each document it names, how many chunks are there already.
IsRequest(q) == DOMAIN q \subseteq Docs /\ q \in [DOMAIN q -> Nat]
NoRequest == [i \in {} |-> 0]

Resting ==
  [at |-> "rest", mode |-> "both", mine |-> {}, theirs |-> {}, want |-> NoRequest, asked |-> NoRequest,
   taking |-> NotTaking, arrived |-> {}, spent |-> 0]

At(d, step) == run[d].at = step

\* The messages each of these steps waits for.
WaitsFor ==
  [have |-> {"have"}, need |-> {"need"}, fetch |-> {"file", "skip"}, stored |-> {"stored"}]

Waiting(d) ==
  /\ run[d].at \in DOMAIN WaitsFor
  /\ At(d, "fetch") => run[d].want # NoRequest
  /\ At(d, "stored") => d = Phone

Expected(d) == IF run[d].taking # NotTaking THEN {"piece"} ELSE WaitsFor[run[d].at]
Arrived(d) == Waiting(d) /\ wire[d] # <<>> /\ Head(wire[d]).kind \in Expected(d)
Arriving(d) == Head(wire[d]).body

Message(kind, body) == <<[kind |-> kind, body |-> body]>>

\* d takes the message it waited for off the wire (or none), and sends messages,
\* which are lost if the other device is no longer there.
Talk(d, took, sent) ==
  wire' = [wire EXCEPT ![d] = IF took THEN Tail(@) ELSE @,
                       ![Other(d)] = IF At(Other(d), "rest") THEN @ ELSE @ \o sent]

\* d ends the sync: what was on its way to d is lost, what it sent is not.
Ends(d, sent) ==
  /\ run' = [run EXCEPT ![d] = Resting]
  /\ wire' = [wire EXCEPT ![d] = <<>>,
                          ![Other(d)] = IF At(Other(d), "rest") THEN @ ELSE @ \o sent]

\* The document both sides deal with next: the newest first.
Newest(request) == CHOOSE i \in DOMAIN request : \A j \in DOMAIN request : j <= i
Without(request, i) == [j \in DOMAIN request \ {i} |-> request[j]]

-----------------------------------------------------------------------------
Init ==
  /\ rows = [d \in Devices |-> [i \in Docs |-> NoRow]]
  /\ file = [d \in Devices |-> [i \in Docs |-> "none"]]
  /\ part = [d \in Devices |-> [i \in Docs |-> 0]]
  /\ run = [d \in Devices |-> Resting]
  /\ wire = [d \in Devices |-> <<>>]
  /\ changes = 0 /\ faults = 0
  /\ gone = {} /\ hurt = {}

(***************************************************************************)
(* What people do to documents, during a sync too.                         *)
(***************************************************************************)
Changes == changes < MaxChanges /\ changes' = changes + 1

\* `add`: the file, and then the row.
Add(d, i) ==
  /\ Changes
  /\ \A e \in Devices : rows[e][i].state = "none"
  /\ \E keep \in BOOLEAN :
       rows' = [rows EXCEPT ![d][i] = [state |-> "row", keep |-> keep, changed |-> TRUE]]
  /\ file' = [file EXCEPT ![d][i] = "whole"]
  /\ UNCHANGED <<part, run, wire, faults, gone, hurt>>

\* `add` of the same bytes again: the file comes back where it is not there.
AddAgain(d, i) ==
  /\ Changes
  /\ Live(d, i) /\ ~Has(d, i)
  /\ file' = [file EXCEPT ![d][i] = "whole"]
  /\ UNCHANGED <<rows, part, run, wire, faults, gone, hurt>>

\* `update`: another name, or another choice of what the phone keeps.
Update(d, i) ==
  /\ Changes
  /\ Live(d, i)
  /\ \E keep \in BOOLEAN :
       rows' = [rows EXCEPT ![d][i] = [state |-> "row", keep |-> keep, changed |-> TRUE]]
  /\ UNCHANGED <<file, part, run, wire, faults, gone, hurt>>

\* The file of document i and its unfinished one are removed; what still arrives of
\* it is written to a file that has no name.
Removed(d, i) ==
  /\ file' = [file EXCEPT ![d][i] = "none"]
  /\ part' = [part EXCEPT ![d][i] = 0]
  /\ run' = [run EXCEPT ![d].taking.open = @ /\ run[d].taking.doc # i]

\* `delete`: the row, and then the file, which a failure may leave behind.
Delete(d, i) ==
  /\ Changes
  /\ Live(d, i)
  /\ rows' = [rows EXCEPT ![d][i] = [state |-> "marker", keep |-> FALSE, changed |-> TRUE]]
  /\ gone' = gone \cup {i}
  /\ \/ Removed(d, i) /\ UNCHANGED faults
     \/ faults < MaxFaults /\ faults' = faults + 1 /\ UNCHANGED <<file, part, run>>
  /\ UNCHANGED <<wire, hurt>>

\* `check` of the folder: what no row names is removed.
Tidy(d) ==
  /\ file' = [file EXCEPT ![d] = [i \in Docs |-> IF Live(d, i) THEN @[i] ELSE "none"]]
  /\ part' = [part EXCEPT ![d] = [i \in Docs |-> IF Live(d, i) THEN @[i] ELSE 0]]
  /\ run' = [run EXCEPT ![d].taking.open =
               @ /\ run[d].taking.doc \in {i \in Docs : Live(d, i)}]
  /\ UNCHANGED <<rows, wire, ghosts>>

(***************************************************************************)
(* Disks fail. What a device relied on since it looked at a file last is   *)
(* the one thing a damage can cost: the desktop does not open a file again *)
(* that it received in this sync, and the phone does not ask again.        *)
(***************************************************************************)
Promised == UNION {wire[Phone][n].body : n \in {m \in DOMAIN wire[Phone] : wire[Phone][m].kind = "stored"}}
ReliedOn(d) == IF d = Desktop THEN run[Desktop].arrived \cup Promised ELSE {}

Fault == faults < MaxFaults /\ faults' = faults + 1

Damage(d, i) ==
  /\ Fault
  /\ Opens(d, i)
  /\ file' = [file EXCEPT ![d][i] = "bad"]
  /\ hurt' = IF Opens(Other(d), i) /\ i \notin ReliedOn(d) THEN hurt ELSE hurt \cup {i}
  /\ UNCHANGED <<rows, part, run, wire, changes, gone>>

-----------------------------------------------------------------------------
(***************************************************************************)
(* The rows of a sync (SyncFlow): newer[i] is the device whose row of      *)
(* document i goes to the other where they differ, if the sync goes that   *)
(* way and gets as far as applied.                                         *)
(***************************************************************************)
Adopts(d, i, newer, mode, applied) ==
  d \in applied /\ Receives(d, mode) /\ newer[i] # d /\ rows[newer[i]][i].changed

Merged(newer, mode, applied) ==
  [d \in Devices |-> [i \in Docs |->
     IF Adopts(d, i, newer, mode, applied)
     THEN [rows[Other(d)][i] EXCEPT !.changed = FALSE]
     ELSE [rows[d][i] EXCEPT !.changed =
             @ /\ newer[i] = d /\ ~Adopts(Other(d), i, newer, mode, applied)]]]

MayBeNewer(newer) ==
  \A i \in Docs : (\E d \in Devices : rows[d][i].changed) => rows[newer[i]][i].changed

Idle == \A d \in Devices : At(d, "rest")

\* A sync whose rows were applied and compared on both sides.
Start(mode) ==
  /\ Idle
  /\ \E newer \in [Docs -> Devices] :
       MayBeNewer(newer) /\ rows' = Merged(newer, mode, Devices)
  /\ run' = [d \in Devices |-> [Resting EXCEPT !.at = "begin", !.mode = mode]]
  /\ UNCHANGED <<file, part, wire, ghosts>>

\* A sync that ended when only one device had applied the other's rows.
StartAndBreak(mode, applied) ==
  /\ Idle
  /\ Fault
  /\ \E newer \in [Docs -> Devices] :
       MayBeNewer(newer) /\ rows' = Merged(newer, mode, {applied})
  /\ UNCHANGED <<file, part, run, wire, changes, gone, hurt>>

-----------------------------------------------------------------------------
(***************************************************************************)
(* 1. and 2.: which files each holds, which files each wants.              *)
(***************************************************************************)
\* Mutant of Lacks: the desktop, too, wants only what the phone keeps.
LacksOfKept(d, theirs) == {i \in theirs : Live(d, i) /\ ~Has(d, i) /\ rows[d][i].keep}

\* The files that are not here and that the other holds, of which the phone wants only
\* those the person keeps on it.
Lacks(d, theirs) == {i \in theirs : Live(d, i) /\ ~Has(d, i) /\ (d = Phone => rows[d][i].keep)}
ToCome(d, i) == Sizes[i] - part[d][i]

\* `wanted`: from the newest on, what fits in what is left of the budget.
Wanted(d, theirs, budget) ==
  LET lacks == Lacks(d, theirs)
      left[i \in 1..LastDoc + 1] ==
        IF i = LastDoc + 1 THEN budget
        ELSE IF i \in lacks /\ ToCome(d, i) <= left[i + 1] THEN left[i + 1] - ToCome(d, i)
        ELSE left[i + 1]
  IN  [i \in {j \in lacks : ToCome(d, j) <= left[j + 1]} |-> part[d][i]]

\* `cost`: what was asked for of the documents known here.
Cost(d, asked) ==
  LET upTo[i \in 0..LastDoc] ==
        IF i = 0 THEN 0
        ELSE upTo[i - 1] + (IF i \in DOMAIN asked /\ Live(d, i) THEN Sizes[i] - asked[i] ELSE 0)
  IN  upTo[LastDoc]

WantedBy(d, theirs, budget) ==
  IF Receives(d, run[d].mode) THEN Wanted(d, theirs, budget) ELSE NoRequest

\* The list of files held is made before the other's is here.
Begin(d) ==
  /\ At(d, "begin")
  /\ run' = [run EXCEPT ![d].at = "have", ![d].mine = HaveList(d)]
  /\ Talk(d, FALSE, IF d = Desktop THEN Message("have", HaveList(d)) ELSE <<>>)
  /\ UNCHANGED <<rows, file, part, ghosts>>

\* The desktop asks first, with the whole budget.
TakeHave(d) ==
  /\ At(d, "have") /\ Arrived(d)
  /\ LET theirs == Arriving(d)
         want == IF d = Desktop THEN WantedBy(d, theirs, Budget) ELSE NoRequest
     IN
     /\ run' = [run EXCEPT ![d].at = "need", ![d].theirs = theirs, ![d].want = want]
     /\ Talk(d, TRUE, IF d = Desktop THEN Message("need", want) ELSE Message("have", run[d].mine))
  /\ UNCHANGED <<rows, file, part, ghosts>>

\* The phone's share of the budget is what the desktop's request leaves.
Share(d, asked) == IF Cost(d, asked) > Budget THEN 0 ELSE Budget - Cost(d, asked)

\* Mutant of FirstHalf: both serve first.
FirstHalfServes(d) == "serve"

\* The desktop serves first, the phone fetches first.
FirstHalf(d) == IF d = Desktop THEN "serve" ELSE "fetch"

\* Files asked for against the direction of the sync end it.
TakeNeed(d) ==
  /\ At(d, "need") /\ Arrived(d)
  /\ LET asked == Arriving(d)
         want == IF d = Phone THEN WantedBy(d, run[d].theirs, Share(d, asked)) ELSE run[d].want
         answer == IF d = Phone THEN Message("need", want) ELSE <<>>
     IN
     IF asked # NoRequest /\ ~Sends(d, run[d].mode)
     THEN Ends(d, answer)
     ELSE /\ run' = [run EXCEPT ![d].at = FirstHalf(d),
                                ![d].asked = asked, ![d].want = want]
          /\ Talk(d, TRUE, answer)
  /\ UNCHANGED <<rows, file, part, ghosts>>

-----------------------------------------------------------------------------
(***************************************************************************)
(* 3. The files themselves: the desktop's first.                           *)
(***************************************************************************)
\* `answer`: a desktop sends only what the phone keeps, and nobody what does not open.
Answers(d, i) == Live(d, i) /\ (d = Desktop => rows[d][i].keep) /\ Opens(d, i)

Pieces(count) == [n \in 1..count |-> [kind |-> "piece", body |-> n = count]]

\* What the other device asked for, in its order: the file with its pieces, or that
\* it is skipped.
Serve(d) ==
  /\ At(d, "serve") /\ run[d].asked # NoRequest
  /\ LET i == Newest(run[d].asked)
         from == run[d].asked[i]
         answers == from < Sizes[i] /\ Answers(d, i)
         spent == run[d].spent + IF answers THEN Sizes[i] - from ELSE 0
         sent == answers /\ spent <= Budget
     IN
     /\ run' = [run EXCEPT ![d].asked = Without(@, i), ![d].spent = spent]
     /\ Talk(d, FALSE,
          IF sent THEN Message("file", [doc |-> i, from |-> from]) \o Pieces(Sizes[i] - from)
          ELSE Message("skip", [doc |-> i]))
  /\ UNCHANGED <<rows, file, part, ghosts>>

\* Mutant of AfterFiles: the phone lets go of files whichever way the sync goes.
AfterFilesAlways(mode) == "stored"

\* A sync that only goes to the desktop leaves the phone as it is.
AfterFiles(mode) == IF mode = "to_desktop" THEN "rest" ELSE "stored"

\* The desktop serves and then fetches, the phone the other way round.
GoOn(d, next) ==
  IF next = "rest" THEN Ends(d, <<>>)
  ELSE run' = [run EXCEPT ![d].at = next] /\ UNCHANGED wire

Served(d) ==
  /\ At(d, "serve") /\ run[d].asked = NoRequest
  /\ GoOn(d, IF d = Desktop THEN "fetch" ELSE AfterFiles(run[d].mode))
  /\ UNCHANGED <<rows, file, part, ghosts>>

Fetched(d) ==
  /\ At(d, "fetch") /\ run[d].want = NoRequest
  /\ GoOn(d, IF d = Phone THEN "serve" ELSE AfterFiles(run[d].mode))
  /\ UNCHANGED <<rows, file, part, ghosts>>

\* A file that cannot be had is counted, and the next one goes on.
TakeSkip(d) ==
  /\ At(d, "fetch") /\ Arrived(d) /\ Head(wire[d]).kind = "skip"
  /\ run' = [run EXCEPT ![d].want = Without(@, Newest(@))]
  /\ Talk(d, TRUE, <<>>)
  /\ UNCHANGED <<rows, file, part, ghosts>>

\* The file of a document that is no longer here ends the sync. A folder that
\* cannot be written to does not: the pieces are read and thrown away.
TakeFile(d) ==
  /\ At(d, "fetch") /\ Arrived(d) /\ Head(wire[d]).kind = "file"
  /\ LET i == Newest(run[d].want) IN
     IF ~Live(d, i)
     THEN Ends(d, <<>>) /\ UNCHANGED faults
     ELSE /\ \E works \in BOOLEAN :
               /\ run' = [run EXCEPT ![d].taking =
                    [doc |-> i, open |-> works /\ part[d][i] = Arriving(d).from]]
               /\ IF works THEN UNCHANGED faults ELSE Fault
          /\ Talk(d, TRUE, <<>>)
  /\ UNCHANGED <<rows, file, part, changes, gone, hurt>>

\* A piece is sealed into the unfinished file; after the last one, and a look at the
\* hash of it all, the file gets its name.
TakePiece(d) ==
  /\ At(d, "fetch") /\ Arrived(d) /\ Head(wire[d]).kind = "piece"
  /\ \E works \in BOOLEAN :
       LET i == run[d].taking.doc
           written == run[d].taking.open /\ works
           last == Arriving(d)
       IN
       /\ IF works THEN UNCHANGED faults ELSE Fault
       /\ part' = [part EXCEPT ![d][i] = IF ~written THEN @ ELSE IF last THEN 0 ELSE @ + 1]
       /\ file' = [file EXCEPT ![d][i] = IF written /\ last THEN "whole" ELSE @]
       /\ run' = [run EXCEPT
            ![d].taking = IF last THEN NotTaking ELSE [@ EXCEPT !.open = written],
            ![d].want = IF last THEN Without(@, i) ELSE @,
            ![d].arrived = IF written /\ last THEN @ \cup {i} ELSE @]
  /\ Talk(d, TRUE, <<>>)
  /\ UNCHANGED <<rows, changes, gone, hurt>>

-----------------------------------------------------------------------------
(***************************************************************************)
(* 4. Which files the phone may let go of.                                 *)
(***************************************************************************)
\* Mutant of HoldsWhole: the desktop looks only at the name of a file.
HoldsByName(i, fresh) == Live(Desktop, i) /\ ~rows[Desktop][i].keep /\ Has(Desktop, i)

\* A file that arrived in this sync was looked at as it arrived, any other is opened.
HoldsWhole(i, fresh) ==
  /\ Live(Desktop, i) /\ ~rows[Desktop][i].keep
  /\ IF i \in fresh THEN Has(Desktop, i) ELSE Opens(Desktop, i)

Confirm ==
  /\ At(Desktop, "stored")
  /\ Ends(Desktop, Message("stored",
       LET fresh == run[Desktop].arrived IN
       {i \in fresh \cup run[Desktop].theirs : HoldsWhole(i, fresh)}))
  /\ UNCHANGED <<rows, file, part, ghosts>>

\* `drop_stored`: unless the person keeps them here by now.
TakeStored ==
  /\ At(Phone, "stored") /\ Arrived(Phone)
  /\ LET dropped == {i \in Arriving(Phone) : Live(Phone, i) /\ ~rows[Phone][i].keep /\ Has(Phone, i)} IN
     /\ file' = [file EXCEPT ![Phone] = [i \in Docs |-> IF i \in dropped THEN "none" ELSE @[i]]]
     /\ part' = [part EXCEPT ![Phone] = [i \in Docs |-> IF i \in dropped THEN 0 ELSE @[i]]]
  /\ Ends(Phone, <<>>)
  /\ UNCHANGED <<rows, ghosts>>

-----------------------------------------------------------------------------
\* The other side has gone: what it sent is read, and then the stream is at its end;
\* or a file cannot be sent to it.
PeerGone(d) ==
  /\ At(Other(d), "rest")
  /\ \/ Waiting(d) /\ wire[d] = <<>>
     \/ At(d, "serve") /\ run[d].asked # NoRequest
  /\ Ends(d, <<>>)
  /\ UNCHANGED <<rows, file, part, ghosts>>

\* The connection breaks, the app is locked or ends, the person cancels.
Break(d) ==
  /\ Fault
  /\ ~At(d, "rest")
  /\ Ends(d, <<>>)
  /\ UNCHANGED <<rows, file, part, changes, gone, hurt>>

Step(d) ==
  \/ Begin(d) \/ TakeHave(d) \/ TakeNeed(d)
  \/ Serve(d) \/ Served(d)
  \/ TakeSkip(d) \/ TakeFile(d) \/ TakePiece(d) \/ Fetched(d)
  \/ d = Desktop /\ Confirm
  \/ d = Phone /\ TakeStored
  \/ PeerGone(d)

Person(d) == \E i \in Docs : Add(d, i) \/ AddAgain(d, i) \/ Update(d, i) \/ Delete(d, i)

Next ==
  \/ \E mode \in Modes :
       \/ Start(mode)
       \/ \E d \in Devices : StartAndBreak(mode, d)
  \/ \E d \in Devices :
       \/ Step(d)
       \/ Person(d)
       \/ Tidy(d)
       \/ Break(d)
       \/ \E i \in Docs : Damage(d, i)

Spec == Init /\ [][Next]_vars

(***************************************************************************)
(* Fairness: a sync goes on as long as it can, and people go on starting   *)
(* syncs that go both ways. The failures and the changes people make are   *)
(* bounded, so both stop at some time.                                     *)
(***************************************************************************)
FairSpec ==
  /\ Spec
  /\ \A d \in Devices : WF_vars(Step(d))
  /\ SF_vars(Start("both"))

-----------------------------------------------------------------------------
(***************************************************************************)
(* Correctness.                                                            *)
(***************************************************************************)
RunOK(r) ==
  /\ r.at \in DOMAIN WaitsFor \cup {"rest", "begin", "serve"}
  /\ r.mode \in Modes \cup {"both"}
  /\ {r.mine, r.theirs, r.arrived} \subseteq SUBSET Docs
  /\ IsRequest(r.want) /\ IsRequest(r.asked)
  /\ r.taking \in [doc : Docs \cup {0}, open : BOOLEAN]
  /\ r.spent \in Nat

TypeOK ==
  /\ rows \in [Devices -> [Docs -> Row]]
  /\ file \in [Devices -> [Docs -> {"none", "whole", "bad"}]]
  /\ part \in [Devices -> [Docs -> Nat]]
  /\ \A d \in Devices, i \in Docs : part[d][i] < Sizes[i]
  /\ \A d \in Devices : RunOK(run[d])
  /\ gone \subseteq Docs /\ hurt \subseteq Docs
  /\ {changes, faults} \subseteq Nat

\* A document that nobody deleted has a good file on one of the devices, whatever
\* breaks between the steps of a sync (files.rs:5-6): the phone lets go of nothing
\* but what the desktop holds. Only a disk can cost it, where the other copy is no
\* better or the desktop had just looked at it.
NoFileLost ==
  \A i \in Docs \ (gone \cup hurt) :
    (\E d \in Devices : rows[d][i].state # "none") => \E d \in Devices : Opens(d, i)

\* What the two devices send in one sync never exceeds the budget, though each works
\* out its share on its own, from rows that may change meanwhile (files.rs:43-45).
WithinBudget == run[Desktop].spent + run[Phone].spent <= Budget

\* The two devices agree without talking about it: on the budget, and on whose turn it
\* is. Each message finds the other at the step it belongs to, a file is the one the
\* receiver wants next, from the chunk it has it to, and the two never both wait:
\* no Protocol error of files.rs but that of a document deleted meanwhile.
InStep ==
  /\ WithinBudget
  /\ \A d \in Devices : Waiting(d) /\ wire[d] # <<>> =>
       /\ Arrived(d)
       /\ Head(wire[d]).kind \in {"file", "skip"} => Arriving(d).doc = Newest(run[d].want)
       /\ Head(wire[d]).kind = "file" => Arriving(d).from = run[d].want[Arriving(d).doc]
  /\ ~\A d \in Devices : Waiting(d) /\ wire[d] = <<>>

\* A sync to the desktop takes no file from the phone and gives it none, one to the
\* phone leaves the desktop's files alone (files.rs:277): who gives files in a sync
\* loses and gets none by it.
FilesOneWay ==
  [][\A d \in Devices :
       /\ ~At(d, "rest") /\ ~Receives(d, run[d].mode)
       /\ changes' = changes /\ faults' = faults
       => \A i \in Docs : file'[d][i] = file[d][i] \/ ~Live(d, i)]_vars

\* Once people leave the documents alone and the connections hold, the files end up
\* where they belong: the desktop has every file there still is, the phone those the
\* person keeps on it and no other (files.rs:5-6), however little fits in one sync.
\* (A damaged file is asked for in every sync and never comes: it is in the way of a
\* good one, and of the others too where the damaged ones alone fill the budget.)
InPlace ==
  \A i \in Docs :
    /\ rows[Desktop][i].state = rows[Phone][i].state
    /\ Live(Desktop, i) =>
         {d \in Devices : Opens(d, i)} \in {{}, IF rows[Phone][i].keep THEN Devices ELSE {Desktop}}

FilesEndInPlace == <>[]((\A d \in Devices, i \in Docs : file[d][i] # "bad") => InPlace)

\* The desktop has the file of every document it has after a sync both ways, where
\* nothing failed and nothing is left to come (documents-design.md:8).
DesktopHoldsEveryFile ==
  At(Desktop, "stored") /\ run[Desktop].mode = "both" /\ faults = 0
    /\ (\A d \in Devices, i \in Docs : ~rows[d][i].changed)
  => \A i \in Docs : Live(Desktop, i) => Opens(Desktop, i)
=============================================================================
