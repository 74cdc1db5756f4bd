------------------------- MODULE SyncFlowInvariants -------------------------
(***************************************************************************)
(* What the proofs about SyncFlow keep true from step to step, in layers   *)
(* that each rest on those before: TypeInv, StepInv (the conversation),    *)
(* MoneyInv (the currency), RowsInv (the two tables and the lists) and     *)
(* LineInv (what people wrote and decided).                                *)
(***************************************************************************)
EXTENDS SyncFlow

-----------------------------------------------------------------------------
(***************************************************************************)
(* Types.                                                                  *)
(***************************************************************************)
Modes == {"both", "to_desktop", "to_phone"}
Steps ==
  {"rest", "hello", "currency", "learn", "compare", "hashes", "lists", "versions",
   "review", "reviewed", "rows", "apply", "done", "touch"}
Hellos == [ms : Nat, changes : Nat, since : SUBSET Nat, mode : Modes]
Entry == [stamp : Stamp, deleted : BOOLEAN]
Lists == UNION {[S -> Entry] : S \in SUBSET Items}
Tables == [Items -> Row]
Runs ==
  [at : Steps, mode : Modes, own : Hellos, theirs : Hellos, list : Lists,
   reviewed : BOOLEAN, asked : SUBSET Items, shown : Tables, seen : Tables,
   out : Tables, got : Tables, differs : BOOLEAN]
Messages ==
  [kind : {"hello"}, body : Hellos] \cup [kind : {"currency"}, body : Seq(Stamp)]
    \cup [kind : {"hashes", "list", "done"}, body : Lists] \cup [kind : {"rows"}, body : Tables]
    \cup [kind : {"reviewed"}, body : {{}}]

TypeInv ==
  /\ habit \subseteq Modes
  /\ now \in 0..MaxNow /\ lead \in [Devices -> Nat]
  /\ clock \in [Devices -> Clock]
  /\ rows \in [Devices -> Tables]
  /\ changes \in [Devices -> Seq(Stamp)]
  /\ last \in [Devices -> SUBSET Nat]
  /\ run \in [Devices -> Runs]
  /\ wire \in [Devices -> Seq(Messages)]
  /\ nextVersion \in Nat \ {0}
  /\ syncs \in Nat

-----------------------------------------------------------------------------
(***************************************************************************)
(* What a step of one device does, as the lemmas about it say.             *)
(***************************************************************************)
One(w, a) == Len(w) = 1 /\ w[1].kind = a
Two(w, a, b) == Len(w) = 2 /\ w[1].kind = a /\ w[2].kind = b
Three(w, a, b, c) == Len(w) = 3 /\ w[1].kind = a /\ w[2].kind = b /\ w[3].kind = c

\* The hello of a device, and what it answers to that of the other.
OwnHello(d) == IF d = Desktop THEN Hello(d, run[d].mode) ELSE run[d].own
Greets(d) == IF d = Desktop THEN Message("hello", OwnHello(d)) ELSE <<>>

\* What a step that goes on in the conversation leaves as it was.
KeepsHello(d) == run'[d].mode = run[d].mode /\ run'[d].own = run[d].own /\ run'[d].theirs = run[d].theirs
KeepsReview(d) == run'[d].asked = run[d].asked /\ run'[d].shown = run[d].shown /\ run'[d].seen = run[d].seen
KeepsRows(d) == run'[d].out = run[d].out /\ run'[d].got = run[d].got
Quiet == UNCHANGED <<world, clock, rows, changes, against>>

\* The changes of currency the phone has not got.
Missing(d) == SubSeq(changes[d], run[d].theirs.changes + 1, Len(changes[d]))

\* What the devices answer when the hashes differ, and when the other list is here.
ListFirst(d) == IF d = Desktop THEN Message("list", run[d].list) ELSE <<>>
ListThen(d) == IF d = Phone THEN Message("list", run[d].list) ELSE <<>>

\* What a device works out of the two lists: the conflicts to ask about, and the rows to send.
Asks(r, theirs) ==
  IF r.reviewed THEN {} ELSE Asked(Conflicts(r.list, theirs, r.own.since \cup r.theirs.since))
ToAsk(d) == Asks(run[d], Arriving(d))
Going(d) == IF Sends(d, run[d].mode) THEN Only(rows[d], ToSend(run[d].list, Arriving(d))) ELSE NoRows

\* The rows the phone sends when it has the desktop's, and the list it answers with.
RowsThen(d) == IF d = Phone THEN Message("rows", run[d].out) ELSE <<>>
DoneThen(d) == IF d = Phone THEN Message("done", run[d].list) ELSE <<>>

\* Times that follow from the first, each by a tick at the wall time t.
Follow(f, n, first, t) == f \in [0..n -> Clock] /\ f[0] = first /\ \A i \in 1..n : f[i] = Tick(f[i - 1], t)

FarAhead(d) == \E n \in DOMAIN Arriving(d) : Arriving(d)[n].ms > Wall(d) + MaxClockLead

\* What a review does to a row: at most its stamp is another one.
Place(i, kept) == Cardinality({j \in kept : j <= i})

Restamps(d, i, kept) == i \in run[d].asked /\ rows[d][i].deleted = run[d].list[i].deleted

Judged(d, kept) ==
  LET given == run[d].asked \ kept
      mine(items) == {run[d].shown[i].version : i \in items}
      theirs(items) == {run[d].seen[i].version : i \in items}
  IN  (against \ (mine(kept) \cup theirs(given))) \cup mine(given) \cup theirs(kept)

\* The desktop sends the hash of what it holds now first.
DoneFirst(d) == IF d = Desktop THEN Message("done", List(Merged(d))) ELSE <<>>

Outside == UNCHANGED <<habit, last, run, wire>>

\* The row an edit leaves: as a new row or as a change of the one here.
Edited(d, i, deleted, new) ==
  LET old == rows[d][i] IN
  /\ new.stamp = StampAt(Tick(clock[d], Wall(d)), d) /\ new.version = nextVersion /\ new.deleted = deleted
  /\ new.unit = IF Holds(rows[d], i) THEN old.unit ELSE Len(changes[d])
  /\ new.over = old.over \cup ({old.version} \ {0})

-----------------------------------------------------------------------------
(***************************************************************************)
(* Where the two sides of a sync can be, and what can lie between them:    *)
(* the desktop's run is x and the phone's y, on their way are v to the     *)
(* desktop and w to the phone.                                             *)
(***************************************************************************)
Of(w, kind, list) == One(w, kind) /\ w[1].body = list
Met(x, y) == x.own = y.theirs /\ x.theirs = y.own /\ x.mode = y.mode
Fresh(x, y) == ~x.reviewed /\ ~y.reviewed

\* Neither has read anything.
Calling(x, y, v, w) ==
  x.at = "hello" /\ y.at = "hello" /\ Of(v, "hello", y.own) /\ w = <<>> /\ Fresh(x, y)

\* The desktop is ahead of the phone, which has not read its hello.
Greeting(x, y, v, w) ==
  /\ y.at = "hello" /\ Fresh(x, y) /\ v = <<>>
  /\ x.theirs = y.own /\ w[1].body = x.own /\ x.mode = x.own.mode
  /\ \/ x.at = "compare" /\ One(w, "hello") /\ x.own.changes = x.theirs.changes
     \/ x.at = "hashes" /\ Two(w, "hello", "hashes") /\ w[2].body = x.list /\ x.own.changes = x.theirs.changes
     \/ x.at = "currency" /\ One(w, "hello") /\ x.own.changes # x.theirs.changes
     \/ /\ x.at = "compare" /\ Two(w, "hello", "currency") /\ w[2].body # <<>>
        /\ x.own.changes # x.theirs.changes
     \/ /\ x.at = "hashes" /\ Three(w, "hello", "currency", "hashes") /\ w[2].body # <<>> /\ w[3].body = x.list
        /\ x.own.changes # x.theirs.changes

\* The phone waits for the changes of currency.
Learning(x, y, v, w) ==
  /\ y.at = "learn" /\ Fresh(x, y) /\ v = <<>> /\ Met(x, y)
  /\ \/ x.at = "currency" /\ w = <<>>
     \/ x.at = "compare" /\ One(w, "currency") /\ w[1].body # <<>>
     \/ x.at = "hashes" /\ Two(w, "currency", "hashes") /\ w[1].body # <<>> /\ w[2].body = x.list

\* One has made its list, and its hash is on the way, or not yet.
Hashed(r, w) == (r.at = "compare" /\ w = <<>>) \/ (r.at = "hashes" /\ Of(w, "hashes", r.list))

Comparing(x, y, v, w) ==
  /\ Met(x, y) /\ (x.reviewed <=> y.reviewed)
  /\ \/ Hashed(x, w) /\ Hashed(y, v)
     \/ x.at = "hashes" /\ y.at = "lists" /\ w = <<>> /\ Of(v, "hashes", y.list) /\ x.list # y.list
     \/ x.at = "hashes" /\ y.at = "touch" /\ w = <<>> /\ Of(v, "hashes", y.list) /\ x.list = y.list
     \/ /\ x.at = "lists" /\ y.at = "hashes" /\ v = <<>> /\ x.list # y.list
        /\ Two(w, "hashes", "list") /\ w[1].body = x.list /\ w[2].body = x.list
     \/ x.at = "touch" /\ y.at = "hashes" /\ v = <<>> /\ Of(w, "hashes", x.list) /\ x.list = y.list

\* The desktop waits for the phone's list, or the phone has not read the desktop's.
Listing(x, y, v, w) ==
  /\ Met(x, y) /\ (x.reviewed <=> y.reviewed) /\ x.at = "lists"
  /\ \/ y.at = "lists" /\ v = <<>> /\ Of(w, "list", x.list)
     \/ /\ y.at = "versions" /\ w = <<>> /\ Of(v, "list", y.list)
        /\ Asks(x, y.list) # {} /\ Reviewer(x.mode) = Phone
     \/ /\ y.at = "reviewed" /\ w = <<>> /\ Two(v, "list", "rows") /\ v[1].body = y.list
        /\ Asks(x, y.list) # {} /\ Reviewer(x.mode) = Desktop
     \/ y.at = "rows" /\ w = <<>> /\ Of(v, "list", y.list) /\ Asks(x, y.list) = {}

\* r reviews the conflicts and s waits, with v on the way to r and w to s.
Reviewing(r, s, v, w) ==
  /\ Met(r, s) /\ s.at = "reviewed" /\ ~s.reviewed
  /\ \/ r.at = "versions" /\ ~r.reviewed /\ One(v, "rows") /\ w = <<>>
     \/ r.at = "review" /\ ~r.reviewed /\ v = <<>> /\ w = <<>>
     \/ r.at = "compare" /\ r.reviewed /\ v = <<>> /\ One(w, "reviewed")
     \/ r.at = "hashes" /\ r.reviewed /\ v = <<>> /\ Two(w, "reviewed", "hashes") /\ w[2].body = r.list

Exchanging(x, y, v, w) ==
  /\ Met(x, y)
  /\ \/ x.at = "rows" /\ y.at = "rows" /\ v = <<>> /\ One(w, "rows")
     \/ x.at = "rows" /\ y.at \in {"apply", "done"} /\ One(v, "rows") /\ w = <<>>
     \/ x.at = "apply" /\ y.at \in {"apply", "done"} /\ v = <<>> /\ w = <<>>
     \/ x.at = "done" /\ y.at \in {"apply", "done"} /\ v = <<>> /\ Of(w, "done", x.list)
     \/ x.at = "done" /\ y.at = "touch" /\ Of(v, "done", y.list) /\ w = <<>>
     \/ x.at = "touch" /\ y.at = "touch" /\ v = <<>> /\ w = <<>>

Together(x, y, v, w) ==
  \/ Calling(x, y, v, w)
  \/ Greeting(x, y, v, w)
  \/ Learning(x, y, v, w)
  \/ Comparing(x, y, v, w)
  \/ Listing(x, y, v, w)
  \/ Reviewing(x, y, v, w)
  \/ Reviewing(y, x, w, v)
  \/ Exchanging(x, y, v, w)

\* What can lie on the way to d, whose run is r, when the other may be gone.
Script(d, r, w) ==
  \/ w = <<>> /\ r.at # "currency" /\ (r.at = "learn" => d = Phone)
  \/ w = <<>> /\ r.at = "currency" /\ d = Desktop
  \/ r.at = "hello" /\ One(w, "hello")
  \/ /\ r.at = "hello" /\ d = Phone /\ w[1].body.changes = r.own.changes /\ Two(w, "hello", "hashes")
  \/ /\ r.at = "hello" /\ d = Phone /\ w[1].body.changes # r.own.changes /\ w[2].body # <<>>
     /\ Two(w, "hello", "currency") \/ Three(w, "hello", "currency", "hashes")
  \/ /\ r.at = "learn" /\ d = Phone /\ w[1].body # <<>>
     /\ One(w, "currency") \/ Two(w, "currency", "hashes")
  \/ r.at \in {"compare", "hashes"} /\ One(w, "hashes")
  \/ r.at = "hashes" /\ d = Phone /\ Two(w, "hashes", "list") /\ w[1].body # r.list
  \/ r.at = "lists" /\ One(w, "list")
  \/ /\ r.at = "lists" /\ d = Desktop /\ Two(w, "list", "rows")
     /\ Asks(r, w[1].body) # {} /\ Reviewer(r.mode) = d
  \/ r.at \in {"versions", "rows"} /\ One(w, "rows")
  \/ r.at = "reviewed" /\ (One(w, "reviewed") \/ Two(w, "reviewed", "hashes"))
  \/ r.at = "apply" /\ d = Phone /\ One(w, "done")
  \/ r.at = "done" /\ One(w, "done")

\* One side goes on from r to s and keeps what was said in the hellos.
Same(r, s) == s.mode = r.mode /\ s.own = r.own /\ s.theirs = r.theirs

\* What a wire is once a message was added.
Sent(w, u, k, b) ==
  /\ w = <<>> => One(u, k) /\ u[1].body = b
  /\ \A a : One(w, a) => Two(u, a, k) /\ u[2].body = b /\ u[1] = w[1]
  /\ \A a, c : Two(w, a, c) => Three(u, a, c, k) /\ u[3].body = b /\ u[1] = w[1] /\ u[2] = w[2]

\* The invariant of the conversation.
StepInv ==
  /\ \A d \in Devices : Script(d, run[d], wire[d])
  /\ ~At(Desktop, "rest") /\ ~At(Phone, "rest") =>
       Together(run[Desktop], run[Phone], wire[Desktop], wire[Phone])
  /\ \A d \in Devices : At(d, "currency") => run[d].theirs.changes < Len(changes[d])

FlowInv == TypeInv /\ StepInv

Msgs(w) == {w[n] : n \in 1..Len(w)}

-----------------------------------------------------------------------------
(***************************************************************************)
(* The currency, where nobody writes during a sync. The phone has seen the *)
(* first of the desktop's changes of currency; whoever is past the hashes  *)
(* of a sync is past the changes as well, so that what is on the way is in *)
(* the currency of both.                                                   *)
(***************************************************************************)
Agreed == changes[Desktop] = changes[Phone]
Unseen == SubSeq(changes[Desktop], Len(changes[Phone]) + 1, Len(changes[Desktop]))
InUnit(d, table) == \A i \in Items : Live(table, i) => table[i].unit = Len(changes[d])

\* The phone has the first of the desktop's changes of currency, perhaps all.
Behindhand ==
  /\ Len(changes[Phone]) <= Len(changes[Desktop])
  /\ \A n \in 1..Len(changes[Phone]) : changes[Desktop][n] = changes[Phone][n]

\* A message to d: what it says of the currency is so, and its amounts are in that of d.
Fits(d, m) ==
  /\ m.kind = "hello" => m.body.changes = Len(changes[Other(d)])
  /\ m.kind = "currency" => d = Phone /\ m.body = Unseen
  /\ m.kind = "rows" => InUnit(d, m.body)
  /\ d = Desktop /\ m.kind # "hello" => Agreed

\* d, whose run is r, knows that both have the same changes of currency.
Past(d, r) ==
  IF d = Phone THEN r.at \notin {"rest", "hello", "learn"}
  ELSE r.at \notin {"rest", "hello", "currency", "compare", "hashes"} \/ (r.at # "rest" /\ r.reviewed)

\* What a run knows of the changes of currency, and the rows it holds.
RunFits(d, r) ==
  /\ d = Phone /\ r.at = "hello" => r.own.changes = Len(changes[Phone])
  /\ d = Desktop /\ r.at = "currency" => r.theirs.changes = Len(changes[Phone])
  /\ Past(d, r) => Agreed
  /\ r.at = "rows" => InUnit(d, r.out)
  /\ r.at = "apply" => InUnit(d, r.got)

\* The invariant of the currency.
MoneyInv ==
  /\ Behindhand
  /\ AmountsInCurrency
  /\ \A d \in Devices : RunFits(d, run[d]) /\ \A m \in Msgs(wire[d]) : Fits(d, m)

-----------------------------------------------------------------------------
(***************************************************************************)
(* The rows, where nobody writes during a sync. First what one row of a    *)
(* device and the same row of the other may be.                            *)
(***************************************************************************)
\* b is to be sent to who holds a.
Outdates(b, a) == b.version # 0 /\ (a.version = 0 \/ Older(a.stamp, b.stamp))

\* The same change of a row, but for an amount that one side has still to convert.
Alike(a, b) ==
  /\ a.version = b.version /\ a.stamp = b.stamp /\ a.deleted = b.deleted /\ a.over = b.over
  /\ a.deleted => a.unit = b.unit

\* Row a of d and the same row b of the other, at clocks c and k: who gave a row up
\* knows the other has it, and equal stamps are of equal changes.
Sound(d, a, b, c, k) ==
  a.version # 0 =>
    /\ AtMost(a.stamp, c)
    /\ a.stamp.device = Other(d) => AtMost(a.stamp, k)
    /\ a.stamp = UNSET_STAMP => b.version # 0 /\ b.stamp # UNSET_STAMP
    /\ b.version # 0 /\ a.stamp = b.stamp => Alike(a, b)

\* What d had changed by the end of its last sync (a set of at most one time), the
\* other has.
Counted(d, a, b, since) ==
  a.version # 0 /\ a.stamp.device = d /\ (\E t \in since : a.stamp.ms <= t) => ~Outdates(a, b)

\* How a step of d may change its row a, where the other has b: not at all but for
\* an amount that is converted, by a fresh stamp, by giving it up for the other's,
\* or by taking the other's.
Restamped(d, n, c, k, since) ==
  /\ n.version # 0 /\ n.stamp.device = d /\ Behind(c, n.stamp) /\ AtMost(n.stamp, k)
  /\ \A t \in since : n.stamp.ms > t
Given(a, b, n, others) ==
  /\ a.version # 0 /\ n.version # 0 /\ n.stamp = UNSET_STAMP
  /\ b.version # 0 /\ b.stamp # UNSET_STAMP /\ \A t \in others : b.stamp.ms > t
Taken(a, b, n, k) == Outdates(b, a) /\ n = b /\ AtMost(b.stamp, k)

RowGoes(d, a, b, n, c, k, since, others) ==
  Alike(n, a) \/ Restamped(d, n, c, k, since) \/ Given(a, b, n, others) \/ Taken(a, b, n, k)

-----------------------------------------------------------------------------
(***************************************************************************)
(* What each side of a sync may take for true of both tables, t, when      *)
(* nobody writes meanwhile: its list is of the rows as they are, what was  *)
(* sent is what the other lacks, and who is done lacks nothing. l holds    *)
(* the times of the last syncs, and h the habit of the pair.               *)
(***************************************************************************)
Ahead(mine, theirs) == {i \in Items : Outdates(mine[i], theirs[i])}
HasAll(d, t) == Ahead(t[Other(d)], t[d]) = {}
Due(d, mode, t) ==
  IF Receives(d, mode) THEN Only(t[Other(d)], Ahead(t[Other(d)], t[d])) ELSE NoRows
Disputed(i, t, l) ==
  \A e \in Devices : /\ Holds(t[e], i) /\ t[e][i].stamp # UNSET_STAMP
                     /\ \A f \in Devices : \A s \in l[f] : t[e][i].stamp.ms > s
Listed == {"hashes", "lists", "versions", "review", "reviewed", "rows", "apply", "done", "touch"}

\* What is so at each step of a run r of d.
RunTrue(d, r, t, l, h) ==
  /\ r.at \in Listed => r.list = List(t[d])
  /\ r.at = "apply" => r.got = Due(d, r.mode, t)
  /\ r.at = "rows" /\ d = Phone => r.out = Due(Desktop, r.mode, t)
  /\ r.at \in {"done", "touch"} /\ Receives(d, r.mode) => HasAll(d, t)
  /\ r.at = "touch" /\ Sends(d, r.mode) => HasAll(Other(d), t)
  /\ r.at \in {"versions", "review"} => \A i \in r.asked : Disputed(i, t, l)
  /\ r.at # "rest" /\ ~(d = Desktop /\ r.at = "hello") => r.own.since = l[d]
  /\ ~r.reviewed /\ r.at \in {"currency", "learn", "compare", "lists"} => r.theirs.since = l[Other(d)]
  /\ ~r.reviewed /\ r.at = "hashes" => r.theirs.since = l[Other(d)] \/ List(t[d]) = List(t[Other(d)])
  /\ ~r.differs
  /\ h = {"both"} => r.mode = "both"

\* What is so of a message to d, whose run is r.
MsgTrue(d, r, m, t, l, h) ==
  /\ m.kind \in {"hashes", "list", "done"} => m.body = List(t[Other(d)])
  /\ m.kind = "hello" => m.body.since = l[Other(d)]
  /\ m.kind = "hello" /\ h = {"both"} => m.body.mode = "both"
  /\ m.kind = "rows" /\ r.at = "rows" => m.body = Due(d, r.mode, t)
  /\ m.kind = "done" /\ Sends(d, r.mode) => HasAll(Other(d), t)

SoundRows ==
  \A d \in Devices : \A i \in Items :
    Sound(d, rows[d][i], rows[Other(d)][i], clock[d], clock[Other(d)])
CountedRows ==
  Plain => \A d \in Devices : \A i \in Items : Counted(d, rows[d][i], rows[Other(d)][i], last[d])
Timely ==
  \A d \in Devices : \A s \in last[d] : s <= Wall(d) /\ (run[d].at # "rest" => s < Wall(d))
RunsTrue == \A d \in Devices : RunTrue(d, run[d], rows, last, habit)
MsgsTrue == \A d \in Devices : \A m \in Msgs(wire[d]) : MsgTrue(d, run[d], m, rows, last, habit)

\* The invariant of the rows.
RowsInv == SoundRows /\ CountedRows /\ Timely /\ RunsTrue /\ MsgsTrue

\* Where the other side is, and what is on the way to it, from where this side is.
Across(d, r, s, w) ==
  /\ r.at \in {"lists", "rows", "apply", "done"} => s.mode = r.mode
  /\ r.at = "reviewed" => s.at # "rows"
  /\ r.at = "learn" => s.at \in {"currency", "compare", "hashes"} /\ w = <<>>
  /\ r.at = "review" => s.at = "reviewed" /\ w = <<>>
  /\ r.at = "apply" => s.at \in {"rows", "apply", "done"} /\ (d = Desktop => s.at # "rows") /\ (w = <<>> \/ One(w, "rows"))
  /\ r.at = "touch" => \/ s.at = "hashes" /\ r.list = s.list /\ One(w, "hashes")
                       \/ s.at \in {"done", "touch"} /\ (w = <<>> \/ One(w, "done"))

-----------------------------------------------------------------------------
(***************************************************************************)
(* What people wrote, and what they decided, where nobody writes during a  *)
(* sync and who decides has a clock past what is decided on. What is       *)
(* decided against gives way; and where besides (late) who writes has one  *)
(* past the last syncs, no content goes unseen.                            *)
(***************************************************************************)
Times(l) == l[Desktop] \cup l[Phone]
Since(late, l) == IF late THEN Times(l) ELSE {}
Newest(a, times) == \A s \in times : a.stamp.ms > s

\* b is the newer change, and its writer had seen a.
Follows(b, a) == a.version \in b.over /\ Outdates(b, a)

\* Two contents of a row of which neither writer had seen the other, and nobody decided.
Open(a, b, g) ==
  /\ a.version # 0 /\ b.version # 0 /\ a.version # b.version /\ ~(a.deleted /\ b.deleted)
  /\ ~Follows(a, b) /\ ~Follows(b, a) /\ a.version \notin g /\ b.version \notin g

\* A copy of a row beside the other device's: one content is one change; a content
\* that was decided against is the older one and gives way; what is newer, and what
\* is open, was written after the last sync.
Descends(a, b, g, times, v) ==
  /\ a.version = b.version /\ a.version # 0 => Alike(a, b)
  /\ a.version < v
  /\ a.version \in g => Outdates(b, a) /\ b.version \notin g
  /\ a.version # b.version /\ a.version # 0 /\ Outdates(b, a) => Newest(b, times)
  /\ Open(a, b, g) => Newest(a, times)

\* Two rows only share a content if they had it from the start.
Strangers(t) ==
  \A d, e \in Devices : \A i, j \in Items :
    i # j /\ t[d][i].version = t[e][j].version /\ t[d][i].version # 0 => t[d][i].stamp.ms = 0

\* What was decided against was written before.
Known(g, v) == \A x \in g : x \in Nat /\ x # 0 /\ x < v

\* The two tables t, what was decided against (g) and the next content (v).
Line(t, g, times, v) ==
  /\ Known(g, v)
  /\ v <= MaxVersion + 1
  /\ \A d \in Devices : \A i \in Items : Descends(t[d][i], t[Other(d)][i], g, times, v)
  /\ Strangers(t)

\* The rows there is always a question about, if they are in conflict.
Early == {i \in Items : Cardinality({j \in Items : j < i}) < MaxConflicts}
Cleared(late, t, g) == late => \A i \in Early : ~Open(t[Desktop][i], t[Phone][i], g)
AskedNow(t, l) == Asked(Conflicts(List(t[Desktop]), List(t[Phone]), Times(l)))

\* What is so at each step of a run r of d: what is shown in a review is what the tables
\* hold, and where rows are exchanged all is decided.
RunLine(late, d, r, t, g, l) ==
  /\ r.at \in {"versions", "review"} =>
       d = Desktop /\ ~r.reviewed /\ r.asked = AskedNow(t, l) /\ Times(l) # {}
  /\ r.at = "review" => r.shown = Only(t[d], r.asked) /\ r.seen = Only(t[Other(d)], r.asked)
  /\ r.at # "rest" /\ r.reviewed => Cleared(late, t, g)
  /\ r.at \in {"rows", "apply"} /\ r.own.since \cup r.theirs.since # {} => Cleared(late, t, g)

\* The answer of a review says that all is decided; the rows sent for one are those asked for.
MsgLine(late, d, r, m, t, g, l) ==
  /\ m.kind = "reviewed" => Cleared(late, t, g)
  /\ m.kind = "rows" /\ r.at \in {"lists", "versions"} => m.body = Only(t[Other(d)], AskedNow(t, l))

Reviewers == \A d \in Devices : run[d].at \in {"versions", "review"} => d = Reviewer(run[d].mode)
RunsLine(late) == \A d \in Devices : RunLine(late, d, run[d], rows, against, last)
MsgsLine(late) == \A d \in Devices : \A m \in Msgs(wire[d]) : MsgLine(late, d, run[d], m, rows, against, last)

\* The invariant of what people wrote.
LineInv(late) ==
  /\ Reviewers
  /\ Plain => /\ \A d \in Devices : changes[d] = <<>>
              /\ Line(rows, against, Since(late, last), nextVersion)
              /\ RunsLine(late)
              /\ MsgsLine(late)

\* What is decided against after a review of the rows t here beside the rows u there.
Verdict(g, t, u, kept, given) ==
  (g \ ({t[i].version : i \in kept} \cup {u[i].version : i \in given}))
    \cup {t[i].version : i \in given} \cup {u[i].version : i \in kept}
=============================================================================
