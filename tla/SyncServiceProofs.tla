-------------------------- MODULE SyncServiceProofs --------------------------
(***************************************************************************)
(* Proofs about pairing and the sync service: its types, that a secret is  *)
(* stored only once the digits were typed right, that both devices keep it *)
(* or the phone alone, and that a phone knows the desktops it took from.   *)
(***************************************************************************)
EXTENDS SyncService, FiniteSetTheorems, TLAPS

Ran(x, kind, code) == [desktop |-> x, kind |-> kind, code |-> code] \in codes
Knows(p, d) == d \in Known(p) \/ <<p, d>> \in removed
Talking == {"hello", "answer", "hello again", "copy", "review", "rows", "rows back", "done"}

\* Each window has a number of its own.
Numbered ==
  /\ IsFiniteSet(codes)
  /\ \A c \in codes : c.code <= Cardinality(codes)
  /\ \A b, c \in codes : b.code = c.code => b = c

\* The run of a desktop is about a code that was shown, and its stages belong to one kind of run.
DesktopRuns(d) ==
  /\ At(d, "starting") => thread[d].kind \in {"pair", "sync"}
  /\ thread[d].at \notin {"rest", "starting"} => Ran(d, thread[d].kind, thread[d].code)
  /\ thread[d].at \in {"answer", "hello again"} => thread[d].kind = "pair"
  /\ thread[d].at \in {"review", "rows"} => thread[d].kind = "sync"

\* An open window belongs to its run and to no channel yet, and opens in a sync for what this desktop paired with.
Opening(d) ==
  /\ At(d, "window") \/ window[d] = NoWindow
  /\ At(d, "window") => window[d].code = thread[d].code /\ window[d].code # link[d].code
  /\ \A i \in DOMAIN window[d].keys : window[d].keys[i] # Key(0, 0)
  /\ thread[d].kind = "sync" =>
       /\ DOMAIN window[d].who = DOMAIN window[d].keys
       /\ \A i \in DOMAIN window[d].keys : window[d].keys[i].number # 0 /\ Ran(d, "pair", window[d].keys[i].secret)

\* A desktop that talks does so with the phone that opened its window.
Linked(d) ==
  /\ link[d].code # 0 => \E kind \in {"pair", "sync"} : Ran(d, kind, link[d].code)
  /\ thread[d].at \in Talking =>
       /\ link[d].code = thread[d].code
       /\ link[d].phone \in Phones \/ (At(d, "hello") /\ link[d].toDesktop = << >>)

\* What the messages on their way say: the digits were right; a second hello, that the phone has stored the secret; rows of the
\* desktop, that the desktop has.
Agreed(d) == \A i \in DOMAIN link[d].toDesktop : link[d].toDesktop[i].m = "accept" => link[d].code \in matched
Greeted(d) ==
  thread[d].at \in Talking /\ thread[d].kind = "pair" =>
    \A i \in DOMAIN link[d].toDesktop :
      link[d].toDesktop[i].m = "hello" => (i = 1 /\ At(d, "hello")) \/ <<link[d].phone, link[d].code>> \in stored
Given(d) ==
  Ran(d, "pair", link[d].code) =>
    \A i \in DOMAIN link[d].toPhone : link[d].toPhone[i].m = "rows" => <<d, link[d].code>> \in stored

\* How far a pairing has come.
DesktopHas(d) ==
  thread[d].kind = "pair" =>
    /\ thread[d].at = "hello again" => thread[d].code \in matched
    /\ thread[d].at \in {"copy", "rows back", "done"} => <<d, thread[d].code>> \in stored
PhoneHas(p) ==
  thread[p].kind = "pair" =>
    /\ thread[p].at \in {"theirs", "add"} => thread[p].code \in matched
    /\ thread[p].at \in {"copy", "waits", "apply", "done"} => <<p, thread[p].code>> \in stored
    /\ thread[p].at \in {"apply", "done"} => <<Other(p), thread[p].code>> \in stored

\* A phone that syncs knows the desktop it opens, from the message it wrote on: the secret in it is of a desktop it knows, and a
\* desktop has no secrets but its own.
Rightful(c) ==
  /\ c.key.number # 0 => \E e \in Desktops : Knows(c.phone, e) /\ Ran(e, "pair", c.key.secret)
  /\ c.phone = "stranger" => c.key = Key(0, 0)
Waiting(d) == \A i \in DOMAIN backlog[d] : Rightful(backlog[d][i])
Met(d) == link[d].phone \in Phones /\ Ran(d, "sync", link[d].code) => Knows(link[d].phone, d)

DesktopInv(d) ==
  DesktopRuns(d) /\ Opening(d) /\ Linked(d) /\ Agreed(d) /\ Greeted(d) /\ Given(d) /\ DesktopHas(d) /\ Waiting(d) /\ Met(d)

\* The run of a phone is about a code it scanned.
PhoneRuns(p) ==
  /\ ~At(p, "rest") => Ran(Other(p), thread[p].kind, thread[p].code)
  /\ thread[p].at \in {"digits", "add"} => thread[p].kind = "pair"
PhoneInv(p) == PhoneRuns(p) /\ PhoneHas(p) /\ (thread[p].at \in {"copy", "waits", "apply", "done"} => Knows(p, Other(p)))

\* Before a phone says hello its desktop has heard nothing.
Greeting(p) ==
  At(p, "reply") /\ OnLine(p) => link[Other(p)].toDesktop = << >> /\ (thread[Other(p)].at \in Talking => At(Other(p), "hello"))

\* Whose secret a device keeps.
Kept ==
  /\ \A x \in Devices : \A i \in DOMAIN peers[x] : peers[x][i].secret \in matched
  /\ \A d \in Desktops : \A i \in DOMAIN peers[d] : Ran(d, "pair", peers[d][i].secret)
  /\ \A p \in Phones : \A i \in DOMAIN peers[p] : peers[p][i].who \in Desktops /\ Ran(peers[p][i].who, "pair", peers[p][i].secret)

ServiceInv ==
  /\ TypeOK /\ Numbered /\ (\A d \in Desktops : DesktopInv(d)) /\ (\A p \in Phones : PhoneInv(p)) /\ (\A p \in Phones : Greeting(p))
  /\ Kept /\ StoredTogether /\ KnowsItsDesktop

-----------------------------------------------------------------------------
(* Sequences.                                                              *)
LEMMA TailIs ==
  ASSUME NEW S, NEW q \in Seq(S), q # << >>
  PROVE  /\ Tail(q) \in Seq(S) /\ 1 \in DOMAIN q /\ Head(q) = q[1] /\ Head(q) \in S
         /\ \A i \in DOMAIN Tail(q) : i \in Nat \ {0} /\ i + 1 \in DOMAIN q /\ Tail(q)[i] = q[i + 1]
OBVIOUS

LEMMA TailLater ==
  ASSUME NEW S, NEW q \in Seq(S), q # << >>
  PROVE  \A i \in DOMAIN Tail(q) : \E j \in DOMAIN q : j # 1 /\ Tail(q)[i] = q[j]
<1>1. \A i \in Nat \ {0} : i + 1 # 1
  OBVIOUS
<1> QED BY <1>1, TailIs

LEMMA AppendIs ==
  ASSUME NEW S, NEW q \in Seq(S), NEW e \in S
  PROVE  /\ Append(q, e) \in Seq(S)
         /\ \A i \in DOMAIN Append(q, e) : (i \in DOMAIN q /\ Append(q, e)[i] = q[i]) \/ (i = Len(q) + 1 /\ Append(q, e)[i] = e)
         /\ \A i \in DOMAIN q : i \in DOMAIN Append(q, e) /\ Append(q, e)[i] = q[i]
OBVIOUS

LEMMA NothingMore ==
  ASSUME NEW S, NEW q \in Seq(S)
  PROVE  q \o << >> = q
OBVIOUS

LEMMA OneMore ==
  ASSUME NEW S, NEW q \in Seq(S), NEW e \in S
  PROVE  q \o <<e>> = Append(q, e)
<1>1. q \o <<e>> \in Seq(S) /\ Append(q, e) \in Seq(S)
  OBVIOUS
<1>2. Len(q \o <<e>>) = Len(q) + 1 /\ Len(Append(q, e)) = Len(q) + 1
  OBVIOUS
<1>3. \A i \in 1..(Len(q) + 1) : (q \o <<e>>)[i] = Append(q, e)[i]
  OBVIOUS
<1> QED BY <1>1, <1>2, <1>3

LEMMA RemoveFrom ==
  ASSUME NEW S, NEW q \in Seq(S), NEW k \in DOMAIN q
  PROVE  /\ RemoveAt(q, k) \in Seq(S) /\ DOMAIN RemoveAt(q, k) = 1..(Len(q) - 1) /\ DOMAIN q = 1..Len(q)
         /\ \A i \in DOMAIN RemoveAt(q, k) : RemoveAt(q, k)[i] = q[IF i < k THEN i ELSE i + 1]
<1> DEFINE r == RemoveAt(q, k)
           before == SubSeq(q, 1, k - 1)
           after == SubSeq(q, k + 1, Len(q))
<1>1. k \in 1..Len(q) /\ Len(q) \in Nat
  OBVIOUS
<1>2. r = before \o after
  BY DEF RemoveAt
<1>3. before \in Seq(S) /\ Len(before) = k - 1 /\ \A i \in 1..(k - 1) : before[i] = q[i]
  BY <1>1
<1>4. after \in Seq(S) /\ Len(after) = Len(q) - k /\ \A i \in 1..(Len(q) - k) : after[i] = q[k + i]
  BY <1>1
<1> HIDE DEF before, after
<1>5. r \in Seq(S) /\ Len(r) = Len(q) - 1
  <2>1. before \in Seq(S) /\ after \in Seq(S)
    BY <1>3, <1>4
  <2>2. before \o after \in Seq(S) /\ Len(before \o after) = Len(before) + Len(after)
    BY <2>1
  <2> QED BY <1>1, <1>2, <1>3, <1>4, <2>2
<1>6. \A i \in 1..(k - 1) : r[i] = q[i]
  BY <1>1, <1>2, <1>3, <1>4
<1>7. \A i \in k..(Len(q) - 1) : r[i] = q[i + 1]
  <2> SUFFICES ASSUME NEW i \in k..(Len(q) - 1) PROVE r[i] = q[i + 1]
    OBVIOUS
  <2> DEFINE n == Len(q)
  <2>3. n \in Int /\ k \in Int /\ i \in Int /\ k <= i /\ i <= n - 1
    BY <1>1
  <2> HIDE DEF n
  <2>4. i - (k - 1) \in 1..(n - k) /\ k + (i - (k - 1)) = i + 1 /\ i > k - 1
    BY <2>3
  <2>1. i - (k - 1) \in 1..(Len(q) - k) /\ k + (i - (k - 1)) = i + 1 /\ i > k - 1
    BY <2>4 DEF n
  <2>2. (before \o after)[i] = after[i - (k - 1)]
    BY <1>1, <1>3, <1>4, <2>1, SMTT(20)
  <2> QED BY <1>2, <1>4, <2>1, <2>2
<1> HIDE DEF r
<1>8. DOMAIN r = 1..(Len(q) - 1) /\ DOMAIN q = 1..Len(q)
  BY <1>5
<1>9. \A i \in DOMAIN r : r[i] = q[IF i < k THEN i ELSE i + 1]
  BY <1>1, <1>6, <1>7, <1>8
<1> QED BY <1>5, <1>8, <1>9 DEF r

LEMMA RemoveIs ==
  ASSUME NEW S, NEW q \in Seq(S), NEW k \in DOMAIN q
  PROVE  /\ RemoveAt(q, k) \in Seq(S)
         /\ \A i \in DOMAIN RemoveAt(q, k) : \E j \in DOMAIN q \ {k} : RemoveAt(q, k)[i] = q[j]
         /\ \A j \in DOMAIN q \ {k} : \E i \in DOMAIN RemoveAt(q, k) : RemoveAt(q, k)[i] = q[j]
<1> DEFINE r == RemoveAt(q, k)
<1>1. /\ k \in 1..Len(q) /\ Len(q) \in Nat /\ r \in Seq(S) /\ DOMAIN r = 1..(Len(q) - 1) /\ DOMAIN q = 1..Len(q)
      /\ \A i \in DOMAIN r : r[i] = q[IF i < k THEN i ELSE i + 1]
  BY RemoveFrom
<1> HIDE DEF r
<1>2. \A i \in DOMAIN r : \E j \in DOMAIN q \ {k} : r[i] = q[j]
  <2> SUFFICES ASSUME NEW i \in DOMAIN r PROVE \E j \in DOMAIN q \ {k} : r[i] = q[j]
    OBVIOUS
  <2>1. (IF i < k THEN i ELSE i + 1) \in DOMAIN q \ {k}
    BY <1>1
  <2> QED BY <1>1, <2>1
<1>3. \A j \in DOMAIN q \ {k} : \E i \in DOMAIN r : r[i] = q[j]
  <2> SUFFICES ASSUME NEW j \in DOMAIN q \ {k} PROVE \E i \in DOMAIN r : r[i] = q[j]
    OBVIOUS
  <2> DEFINE i == IF j < k THEN j ELSE j - 1
  <2>1. i \in DOMAIN r /\ (IF i < k THEN i ELSE i + 1) = j
    BY <1>1
  <2> HIDE DEF i
  <2> QED BY <1>1, <2>1
<1> QED BY <1>1, <1>2, <1>3 DEF r

LEMMA RemoveApart ==
  ASSUME NEW S, NEW q \in Seq(S), NEW k \in DOMAIN q, \A i, j \in DOMAIN q : q[i].who = q[j].who => i = j
  PROVE  \A i, j \in DOMAIN RemoveAt(q, k) : RemoveAt(q, k)[i].who = RemoveAt(q, k)[j].who => i = j
<1> DEFINE from(i) == IF i < k THEN i ELSE i + 1
<1>1. k \in 1..Len(q) /\ Len(q) \in Nat
  OBVIOUS
<1>2. DOMAIN RemoveAt(q, k) = 1..(Len(q) - 1) /\ \A i \in DOMAIN RemoveAt(q, k) : RemoveAt(q, k)[i] = q[from(i)]
  BY <1>1, RemoveFrom
<1>3. \A i \in 1..(Len(q) - 1) : from(i) \in DOMAIN q
  BY <1>1
<1>4. \A i, j \in 1..(Len(q) - 1) : from(i) = from(j) => i = j
  BY <1>1
<1> HIDE DEF from
<1> QED BY <1>2, <1>3, <1>4

-----------------------------------------------------------------------------
(* What a step does: a run that goes on, and what is in its channel. That  *)
(* a channel is up, and what a run keeps beside what it is about, no part  *)
(* of the invariant looks at.                                              *)
Moves(x, stage) ==
  /\ thread' \in [Devices -> Runs] /\ \A y \in Devices \ {x} : thread'[y] = thread[y]
  /\ thread'[x].at = stage /\ thread'[x].kind = thread[x].kind
  /\ thread'[x].code = thread[x].code /\ thread'[x].desktop = thread[x].desktop
Rests(x) ==
  /\ thread' \in [Devices -> Runs] /\ (\A y \in Devices \ {x} : thread'[y] = thread[y]) /\ thread'[x] = Rest

SameChannel(d) ==
  /\ link'[d].phone = link[d].phone /\ link'[d].code = link[d].code
  /\ link'[d].toPhone = link[d].toPhone /\ link'[d].toDesktop = link[d].toDesktop
Channels == link' \in [Desktops -> Links] /\ \A d \in Desktops : SameChannel(d)
Channel(d, toPhone, toDesktop) ==
  /\ link' \in [Desktops -> Links] /\ \A e \in Desktops \ {d} : SameChannel(e)
  /\ link'[d].phone = link[d].phone /\ link'[d].code = link[d].code
  /\ link'[d].toPhone = toPhone /\ link'[d].toDesktop = toDesktop

LEMMA Apart == \A d \in Desktops, p \in Phones : d # p /\ d \notin Phones /\ p \notin Desktops
BY ServiceAssumption

LEMMA RestIs ==
  Rest \in Runs /\ Rest.at = "rest" /\ Rest.kind = "none" /\ Rest.code = 0 /\ Rest.desktop = "none"
BY DEF Rest, Run, Runs, DesktopStages, PhoneStages, Kinds

LEMMA NowIs ==
  ASSUME TypeOK, NEW x \in Devices, NEW stage \in DesktopStages \cup PhoneStages
  PROVE  /\ Now(x, stage) \in Runs /\ Now(x, stage).at = stage /\ Now(x, stage).kind = thread[x].kind
         /\ Now(x, stage).code = thread[x].code /\ Now(x, stage).desktop = thread[x].desktop
<1>1. thread[x] \in Runs
  BY DEF TypeOK
<1>2. /\ thread[x].kind \in Kinds /\ thread[x].code \in Nat /\ thread[x].desktop \in Desktops \cup {"none"}
  BY <1>1 DEF Runs
<1> QED BY <1>2 DEF Now, Run, Runs

LEMMA Puts ==
  ASSUME TypeOK, NEW x \in Devices, NEW run \in Runs, thread' = [thread EXCEPT ![x] = run],
         run.kind = thread[x].kind, run.code = thread[x].code, run.desktop = thread[x].desktop
  PROVE  Moves(x, run.at)
BY DEF TypeOK, Moves

LEMMA GoesIs ==
  ASSUME TypeOK, NEW x \in Devices, NEW stage \in DesktopStages \cup PhoneStages, Goes(x, stage)
  PROVE  Moves(x, stage)
<1> DEFINE run == [thread[x] EXCEPT !.at = stage]
<1>1. thread[x] \in Runs /\ thread' = [thread EXCEPT ![x] = run]
  BY DEF TypeOK, Goes
<1>2. run \in Runs /\ run.at = stage /\ run.kind = thread[x].kind /\ run.code = thread[x].code /\ run.desktop = thread[x].desktop
  BY <1>1 DEF Runs
<1> HIDE DEF run
<1> QED BY <1>1, <1>2, Puts

LEMMA ChannelIs ==
  ASSUME TypeOK, NEW d \in Desktops, NEW new \in Links, link' = [link EXCEPT ![d] = new],
         new.phone = link[d].phone, new.code = link[d].code
  PROVE  Channel(d, new.toPhone, new.toDesktop)
<1>1. link \in [Desktops -> Links]
  BY DEF TypeOK
<1>2. link' \in [Desktops -> Links] /\ link'[d] = new /\ \A e \in Desktops \ {d} : link'[e] = link[e]
  BY <1>1
<1> QED BY <1>2 DEF Channel, SameChannel

Carries(new, l, toPhone, toDesktop) ==
  new \in Links /\ new.phone = l.phone /\ new.code = l.code /\ new.toPhone = toPhone /\ new.toDesktop = toDesktop

LEMMA LinkWith ==
  ASSUME NEW l \in Links, NEW toPhone \in Seq(Messages), NEW toDesktop \in Seq(Messages)
  PROVE  /\ Carries([[l EXCEPT !.toPhone = toPhone] EXCEPT !.toDesktop = toDesktop], l, toPhone, toDesktop)
         /\ Carries([[l EXCEPT !.toDesktop = toDesktop] EXCEPT !.toPhone = toPhone], l, toPhone, toDesktop)
<1> DEFINE phoned == [l EXCEPT !.toPhone = toPhone]
           told == [l EXCEPT !.toDesktop = toDesktop]
<1>1. phoned \in Links /\ phoned.phone = l.phone /\ phoned.code = l.code /\ phoned.toPhone = toPhone
  BY DEF Links
<1>2. told \in Links /\ told.phone = l.phone /\ told.code = l.code /\ told.toDesktop = toDesktop
  BY DEF Links
<1> HIDE DEF phoned, told
<1>3. Carries([phoned EXCEPT !.toDesktop = toDesktop], l, toPhone, toDesktop)
  BY <1>1 DEF Links, Carries
<1>4. Carries([told EXCEPT !.toPhone = toPhone], l, toPhone, toDesktop)
  BY <1>2 DEF Links, Carries
<1> QED BY <1>3, <1>4 DEF phoned, told

LEMMA LinkDown ==
  ASSUME NEW l \in Links, NEW up \in BOOLEAN
  PROVE  Carries([l EXCEPT !.up = up], l, l.toPhone, l.toDesktop)
BY DEF Links, Carries

LEMMA LinkIs ==
  ASSUME TypeOK, NEW d \in Desktops
  PROVE  link[d] \in Links /\ link[d].toPhone \in Seq(Messages) /\ link[d].toDesktop \in Seq(Messages) /\ link[d].up \in BOOLEAN
<1>1. link[d] \in Links
  BY DEF TypeOK
<1> QED BY <1>1 DEF Links

LEMMA ReadIs ==
  ASSUME TypeOK, NEW x \in Devices, NEW m, NEW sent \in Seq(Messages), Reads(x, m), Read(x, sent), ~At(x, "rest")
  PROVE  /\ x \in Desktops =>
              /\ Channel(x, link[x].toPhone \o sent, Tail(link[x].toDesktop))
              /\ link[x].toDesktop # << >> /\ link[x].toDesktop[1].m = m
         /\ x \in Phones =>
              /\ Other(x) \in Desktops /\ OnLine(x)
              /\ Channel(Other(x), Tail(link[Other(x)].toPhone), link[Other(x)].toDesktop \o sent)
              /\ link[Other(x)].toPhone # << >> /\ link[Other(x)].toPhone[1].m = m
<1>1. CASE x \in Desktops
  <2> DEFINE toPhone == link[x].toPhone \o sent
             toDesktop == Tail(link[x].toDesktop)
             new == [[link[x] EXCEPT !.toDesktop = toDesktop] EXCEPT !.toPhone = toPhone]
  <2>1. link[x] \in Links /\ link[x].toPhone \in Seq(Messages) /\ link[x].toDesktop \in Seq(Messages)
    BY <1>1, LinkIs
  <2>2. link[x].toDesktop # << >> /\ Head(link[x].toDesktop).m = m
    BY <1>1 DEF Reads, Inbox
  <2>3. toDesktop \in Seq(Messages) /\ link[x].toDesktop[1].m = m
    BY <2>1, <2>2, TailIs
  <2>4. toPhone \in Seq(Messages)
    BY <2>1
  <2>5. link' = [link EXCEPT ![x] = new]
    BY <1>1 DEF Read
  <2> HIDE DEF toPhone, toDesktop
  <2>6. Carries(new, link[x], toPhone, toDesktop)
    BY <2>1, <2>3, <2>4, LinkWith
  <2> HIDE DEF new
  <2>7. Channel(x, toPhone, toDesktop)
    BY <1>1, <2>5, <2>6, ChannelIs DEF Carries
  <2> QED BY <1>1, <2>2, <2>3, <2>7, Apart DEF toPhone, toDesktop
<1>2. CASE x \in Phones
  <2> DEFINE d == Other(x)
             toPhone == Tail(link[d].toPhone)
             toDesktop == link[d].toDesktop \o sent
             new == [[link[d] EXCEPT !.toPhone = toPhone] EXCEPT !.toDesktop = toDesktop]
  <2>1. d \in Desktops /\ x \notin Desktops
    BY <1>2, Apart DEF TypeOK
  <2>2. OnLine(x) /\ link[d].toPhone # << >> /\ Head(link[d].toPhone).m = m
    BY <2>1 DEF Reads, Inbox
  <2>3. link' = [link EXCEPT ![d] = new]
    BY <2>1 DEF Read
  <2> HIDE DEF d
  <2>4. link[d] \in Links /\ link[d].toPhone \in Seq(Messages) /\ link[d].toDesktop \in Seq(Messages)
    BY <2>1, LinkIs
  <2>5. toPhone \in Seq(Messages) /\ link[d].toPhone[1].m = m
    BY <2>2, <2>4, TailIs
  <2>6. toDesktop \in Seq(Messages)
    BY <2>4
  <2> HIDE DEF toPhone, toDesktop
  <2>7. Carries(new, link[d], toPhone, toDesktop)
    BY <2>4, <2>5, <2>6, LinkWith
  <2> HIDE DEF new
  <2>8. Channel(d, toPhone, toDesktop)
    BY <2>1, <2>3, <2>7, ChannelIs DEF Carries
  <2> QED BY <2>1, <2>2, <2>5, <2>8 DEF toPhone, toDesktop, d
<1> QED BY <1>1, <1>2 DEF Devices

LEMMA TellIs ==
  ASSUME TypeOK, NEW d \in Desktops, NEW e \in Messages, Tell(d, e)
  PROVE  Channel(d, Append(link[d].toPhone, e), link[d].toDesktop)
<1> DEFINE toPhone == Append(link[d].toPhone, e)
           new == [link[d] EXCEPT !.toPhone = toPhone]
<1>1. link[d] \in Links /\ link[d].toPhone \in Seq(Messages) /\ link[d].toDesktop \in Seq(Messages)
  BY LinkIs
<1>2. toPhone \in Seq(Messages) /\ link' = [link EXCEPT ![d] = new]
  BY <1>1 DEF Tell
<1> HIDE DEF toPhone
<1>3. Carries(new, link[d], toPhone, link[d].toDesktop)
  BY <1>1, <1>2 DEF Links, Carries
<1> HIDE DEF new
<1> QED BY <1>2, <1>3, ChannelIs DEF Carries, toPhone

LEMMA WritesIs ==
  ASSUME TypeOK, NEW d \in Desktops, NEW e \in Messages, link' = [link EXCEPT ![d].toDesktop = Append(@, e)]
  PROVE  Channel(d, link[d].toPhone, Append(link[d].toDesktop, e))
<1> DEFINE toDesktop == Append(link[d].toDesktop, e)
           new == [link[d] EXCEPT !.toDesktop = toDesktop]
<1>1. link[d] \in Links /\ link[d].toPhone \in Seq(Messages) /\ link[d].toDesktop \in Seq(Messages)
  BY LinkIs
<1>2. toDesktop \in Seq(Messages) /\ link' = [link EXCEPT ![d] = new]
  BY <1>1
<1> HIDE DEF toDesktop
<1>3. Carries(new, link[d], link[d].toPhone, toDesktop)
  BY <1>1, <1>2 DEF Links, Carries
<1> HIDE DEF new
<1> QED BY <1>2, <1>3, ChannelIs DEF Carries, toDesktop

CallersStay ==
  /\ backlog' \in [Desktops -> Seq(Callers)]
  /\ \A d \in Desktops : \A i \in DOMAIN backlog'[d] :
       \/ \E j \in DOMAIN backlog[d] : backlog'[d][i].phone = backlog[d][j].phone /\ backlog'[d][i].key = backlog[d][j].key
       \/ Rightful(backlog[d][i])'
WindowsStay(x) ==
  /\ window' \in [Desktops -> Windows]
  /\ \A d \in Desktops : IF d = x THEN window'[d] = NoWindow ELSE window'[d] = window[d]

LEMMA EmptyIs ==
  ASSUME NEW S PROVE << >> \in Seq(S) /\ DOMAIN << >> = {}
<1>1. << >> \in Seq(S) /\ Len(<< >>) = 0 /\ DOMAIN << >> = 1..0
  OBVIOUS
<1>2. 1..0 = {}
  OBVIOUS
<1> QED BY <1>1, <1>2

LEMMA DownIs ==
  ASSUME TypeOK, NEW d \in Desktops, link' = [link EXCEPT ![d].up = FALSE]
  PROVE  Channels
<1> DEFINE new == [link[d] EXCEPT !.up = FALSE]
<1>1. link[d] \in Links /\ link' = [link EXCEPT ![d] = new]
  BY LinkIs
<1>2. Carries(new, link[d], link[d].toPhone, link[d].toDesktop)
  BY <1>1, LinkDown
<1> HIDE DEF new
<1>3. Channel(d, new.toPhone, new.toDesktop)
  BY <1>1, <1>2, ChannelIs DEF Carries
<1> QED BY <1>2, <1>3 DEF Channel, Channels, SameChannel, Carries

LEMMA HangUpIs ==
  ASSUME TypeOK, NEW x \in Devices, ~At(x, "rest"), HangUp(x)
  PROVE  Channels /\ WindowsStay(x) /\ CallersStay
<1>1. link \in [Desktops -> Links] /\ window \in [Desktops -> Windows] /\ backlog \in [Desktops -> Seq(Callers)]
  BY DEF TypeOK
<1>2. CASE x \in Desktops
  <2>1. Channels
    BY <1>2, DownIs DEF HangUp
  <2>2. NoWindow \in Windows
    BY DEF NoWindow, Windows
  <2>3. WindowsStay(x)
    <3>1. window' = [window EXCEPT ![x] = NoWindow]
      BY <1>2 DEF HangUp
    <3> QED BY <1>1, <2>2, <3>1 DEF WindowsStay
  <2>4. backlog' = [backlog EXCEPT ![x] = << >>]
    BY <1>2 DEF HangUp
  <2>5. << >> \in Seq(Callers) /\ DOMAIN << >> = {}
    BY EmptyIs
  <2>6. backlog' \in [Desktops -> Seq(Callers)] /\ backlog'[x] = << >> /\ \A d \in Desktops \ {x} : backlog'[d] = backlog[d]
    BY <1>1, <1>2, <2>4, <2>5
  <2>7. CallersStay
    BY <2>5, <2>6 DEF CallersStay
  <2> QED BY <2>1, <2>3, <2>7
<1>3. CASE x \in Phones
  <2>1. x \notin Desktops /\ Other(x) \in Desktops
    BY <1>3, Apart DEF TypeOK
  <2>2. Channels
    <3>1. CASE OnLine(x)
      BY <2>1, <3>1, DownIs DEF HangUp
    <3>2. CASE ~OnLine(x)
      BY <1>1, <2>1, <3>2 DEF HangUp, Channels, SameChannel
    <3> QED BY <3>1, <3>2
  <2>3. WindowsStay(x)
    BY <1>1, <2>1 DEF HangUp, WindowsStay
  <2> DEFINE gone(e) == IF e.phone = x THEN [e EXCEPT !.live = FALSE] ELSE e
  <2>4. \A e \in Callers : gone(e) \in Callers /\ gone(e).phone = e.phone /\ gone(e).key = e.key
    BY DEF Callers
  <2>5. backlog' = [d \in Desktops |-> [i \in DOMAIN backlog[d] |-> gone(backlog[d][i])]]
    BY <2>1 DEF HangUp
  <2> HIDE DEF gone
  <2>6. ASSUME NEW d \in Desktops
        PROVE  /\ backlog'[d] \in Seq(Callers) /\ DOMAIN backlog'[d] = DOMAIN backlog[d]
               /\ \A i \in DOMAIN backlog[d] : backlog'[d][i].phone = backlog[d][i].phone /\ backlog'[d][i].key = backlog[d][i].key
    <3>1. backlog[d] \in Seq(Callers) /\ backlog'[d] = [i \in DOMAIN backlog[d] |-> gone(backlog[d][i])]
      BY <1>1, <2>5
    <3>2. \A i \in DOMAIN backlog[d] : backlog[d][i] \in Callers
      BY <3>1
    <3>3. DOMAIN backlog[d] = 1..Len(backlog[d]) /\ Len(backlog[d]) \in Nat
      BY <3>1
    <3>4. backlog'[d] \in [1..Len(backlog[d]) -> Callers]
      BY <2>4, <3>1, <3>2, <3>3
    <3>5. backlog'[d] \in Seq(Callers)
      BY <3>3, <3>4
    <3> QED BY <2>4, <3>1, <3>2, <3>5
  <2>7. backlog' \in [Desktops -> Seq(Callers)]
    <3> DEFINE S == Seq(Callers)
               new(d) == [i \in DOMAIN backlog[d] |-> gone(backlog[d][i])]
    <3>1. \A d \in Desktops : new(d) \in S
      BY <2>5, <2>6
    <3>2. backlog' = [d \in Desktops |-> new(d)]
      BY <2>5
    <3> HIDE DEF S, new
    <3>3. backlog' \in [Desktops -> S]
      BY <3>1, <3>2
    <3> QED BY <3>3 DEF S
  <2>8. CallersStay
    BY <2>6, <2>7 DEF CallersStay
  <2> QED BY <2>2, <2>3, <2>8
<1> QED BY <1>2, <1>3 DEF Devices

-----------------------------------------------------------------------------
(* What a step that is about one device leaves of the others.              *)
Grows ==
  /\ codes \subseteq codes' /\ Numbered' /\ \A d \in Desktops, c \in codes' \ codes : c.code # link[d].code
  /\ matched \subseteq matched' /\ stored \subseteq stored'
  /\ \A p \in Phones, d \in Desktops : Knows(p, d) => Knows(p, d)'

LEMMA RanStays ==
  ASSUME Grows, NEW d \in Desktops, NEW kind
  PROVE  Ran(d, kind, link[d].code)' /\ link'[d].code = link[d].code => Ran(d, kind, link[d].code)
BY DEF Grows, Ran

LEMMA WaitingStays ==
  ASSUME NEW d \in Desktops, Waiting(d), CallersStay, Grows, backlog \in [Desktops -> Seq(Callers)]
  PROVE  Waiting(d)'
<1> SUFFICES ASSUME NEW i \in DOMAIN backlog'[d]
             PROVE  Rightful(backlog[d][i])'
  BY DEF Waiting
<1>1. CASE \E j \in DOMAIN backlog[d] : backlog'[d][i].phone = backlog[d][j].phone /\ backlog'[d][i].key = backlog[d][j].key
  <2>1. PICK j \in DOMAIN backlog[d] : backlog'[d][i].phone = backlog[d][j].phone /\ backlog'[d][i].key = backlog[d][j].key
    BY <1>1
  <2>2. backlog[d][j].phone \in Phones \/ backlog[d][j].phone = "stranger"
    <3>1. backlog[d][j] \in Callers
      OBVIOUS
    <3> QED BY <3>1 DEF Callers
  <2>3. Rightful(backlog[d][j])
    BY DEF Waiting
  <2>4. Key(0, 0).number = 0
    BY DEF Key
  <2>5. CASE backlog'[d][i].key.number # 0
    <3>1. backlog[d][j].phone \in Phones
      BY <2>1, <2>2, <2>3, <2>4, <2>5 DEF Rightful
    <3>2. PICK e \in Desktops : Knows(backlog[d][j].phone, e) /\ Ran(e, "pair", backlog[d][j].key.secret)
      BY <2>1, <2>3, <2>5 DEF Rightful
    <3>3. \A p \in Phones : Knows(p, e) => Knows(p, e)'
      BY DEF Grows
    <3>4. \A p : p = backlog[d][j].phone => Knows(p, e)'
      BY <3>1, <3>2, <3>3
    <3>5. \A s : s = backlog[d][j].key.secret => Ran(e, "pair", s)'
      BY <3>2 DEF Grows, Ran
    <3>6. Knows(backlog[d][i].phone, e)' /\ Ran(e, "pair", backlog[d][i].key.secret)'
      BY <2>1, <3>4, <3>5 DEF Knows, Known, Ran
    <3>7. backlog'[d][i].phone = "stranger" => backlog'[d][i].key = Key(0, 0)
      BY <2>1, <2>3 DEF Rightful
    <3> QED BY <3>6, <3>7 DEF Rightful, Key
  <2>6. CASE backlog'[d][i].key.number = 0
    BY <2>1, <2>3, <2>6 DEF Rightful, Key
  <2> QED BY <2>5, <2>6
<1> QED BY <1>1 DEF CallersStay

LEMMA DesktopSame ==
  ASSUME NEW d \in Desktops, DesktopInv(d), thread'[d] = thread[d], window'[d] = window[d], SameChannel(d), CallersStay, Grows,
         backlog \in [Desktops -> Seq(Callers)]
  PROVE  DesktopInv(d)'
<1>1. DesktopRuns(d)' /\ Opening(d)' /\ DesktopHas(d)'
  BY DEF DesktopInv, DesktopRuns, Opening, DesktopHas, SameChannel, Grows, Ran, At
<1>2. Linked(d)' /\ Agreed(d)' /\ Greeted(d)'
  BY DEF DesktopInv, Linked, Agreed, Greeted, SameChannel, Grows, Ran, At
<1>3. Given(d)' /\ Met(d)'
  BY RanStays DEF DesktopInv, Given, Met, SameChannel, Grows
<1>4. Waiting(d)'
  BY WaitingStays DEF DesktopInv
<1> QED BY <1>1, <1>2, <1>3, <1>4 DEF DesktopInv

LEMMA PhoneSame ==
  ASSUME NEW p \in Phones, PhoneInv(p), thread'[p] = thread[p], Grows, ~At(p, "rest") => Other(p) \in Desktops
  PROVE  PhoneInv(p)'
BY DEF PhoneInv, PhoneRuns, PhoneHas, At, Other, Grows, Ran, Knows, Known

(* Whom a step of one device disturbs.                                     *)
Alone(x) == \A y \in Devices \ {x} : thread'[y] = thread[y]

LEMMA DesktopSteps ==
  ASSUME ServiceInv, TypeOK', NEW d \in Desktops, Alone(d), \A e \in Desktops \ {d} : window'[e] = window[e] /\ SameChannel(e),
         CallersStay, Grows, DesktopInv(d)', \A p \in Phones : Other(p) = d => Greeting(p)',
         Kept', StoredTogether', KnowsItsDesktop'
  PROVE  ServiceInv'
<1>1. Numbered'
  BY DEF ServiceInv, Numbered, Grows
<1>2. ASSUME NEW e \in Desktops \ {d}
      PROVE  DesktopInv(e)'
  <2>1. thread'[e] = thread[e] /\ DesktopInv(e)
    BY DEF Alone, ServiceInv, Devices
  <2>2. backlog \in [Desktops -> Seq(Callers)]
    BY DEF ServiceInv, TypeOK
  <2> QED BY <2>1, <2>2, DesktopSame
<1>3. ASSUME NEW p \in Phones
      PROVE  PhoneInv(p)' /\ Greeting(p)' /\ thread'[p] = thread[p]
  <2>1. thread'[p] = thread[p] /\ PhoneInv(p) /\ Greeting(p) /\ (~At(p, "rest") => Other(p) \in Desktops)
    BY Apart DEF Alone, ServiceInv, Devices, TypeOK
  <2>2. PhoneInv(p)'
    BY <2>1, PhoneSame
  <2>3. CASE Other(p) = d
    BY <2>1, <2>2, <2>3
  <2>4. CASE Other(p) # d
    <3>1. CASE At(p, "reply")
      <4>1. Other(p) \in Desktops \ {d} /\ thread'[Other(p)] = thread[Other(p)]
        BY <2>1, <2>4, <3>1 DEF At, Alone, Devices
      <4>2. SameChannel(Other(p))
        BY <4>1
      <4> QED BY <2>1, <2>2, <4>1, <4>2 DEF Greeting, At, Other, OnLine, SameChannel
    <3>2. CASE ~At(p, "reply")
      BY <2>1, <2>2, <3>2 DEF Greeting, At
    <3> QED BY <3>1, <3>2
  <2> QED BY <2>1, <2>2, <2>3, <2>4
<1> QED BY <1>1, <1>2, <1>3 DEF ServiceInv

LEMMA PhoneSteps ==
  ASSUME ServiceInv, TypeOK', NEW p \in Phones, Alone(p), window' = window, NEW d \in Desktops,
         \A e \in Desktops \ {d} : SameChannel(e), CallersStay, Grows,
         DesktopInv(d)', PhoneInv(p)', \A q \in Phones : Greeting(q)', Kept', StoredTogether', KnowsItsDesktop'
  PROVE  ServiceInv'
<1>1. Numbered'
  BY DEF ServiceInv, Numbered, Grows
<1>2. ASSUME NEW e \in Desktops \ {d}
      PROVE  DesktopInv(e)'
  <2>1. thread'[e] = thread[e] /\ DesktopInv(e) /\ window'[e] = window[e]
    BY Apart DEF Alone, ServiceInv, Devices
  <2>2. backlog \in [Desktops -> Seq(Callers)]
    BY DEF ServiceInv, TypeOK
  <2> QED BY <2>1, <2>2, DesktopSame
<1>3. ASSUME NEW q \in Phones \ {p}
      PROVE  PhoneInv(q)'
  <2>1. thread'[q] = thread[q] /\ PhoneInv(q) /\ (~At(q, "rest") => Other(q) \in Desktops)
    BY DEF Alone, ServiceInv, Devices, TypeOK
  <2> QED BY <2>1, PhoneSame
<1> QED BY <1>1, <1>2, <1>3 DEF ServiceInv

(* The parts about what is kept.                                           *)
LEMMA KeptSame ==
  ASSUME ServiceInv, peers' = peers, Grows
  PROVE  Kept'
BY DEF ServiceInv, Kept, Grows, Ran

LEMMA StoredSame ==
  ASSUME ServiceInv, stored' = stored, \A x \in Devices : status'[x] = status[x] \/ status'[x].state # "done"
  PROVE  StoredTogether'
BY DEF ServiceInv, StoredTogether

LEMMA KnowsSame ==
  ASSUME ServiceInv, took' = took, Grows, \A p \in Phones : data'[p] \subseteq data[p] \cup {p}
  PROVE  KnowsItsDesktop'
<1> SUFFICES ASSUME NEW p \in Phones
             PROVE  /\ \A d \in Desktops : <<p, d>> \in took => Knows(p, d)'
                    /\ data'[p] \subseteq {p} \/ \E d \in Desktops : <<p, d>> \in took
  BY DEF KnowsItsDesktop, Knows
<1>1. /\ \A d \in Desktops : <<p, d>> \in took => Knows(p, d)
      /\ data[p] \subseteq {p} \/ \E d \in Desktops : <<p, d>> \in took
  BY DEF ServiceInv, KnowsItsDesktop, Knows
<1> QED BY <1>1 DEF Grows

LEMMA GrowsAlone ==
  ASSUME ServiceInv, UNCHANGED <<peers, codes, removed>>, matched \subseteq matched', stored \subseteq stored'
  PROVE  Grows
BY DEF Grows, Knows, Known, ServiceInv, Numbered

LEMMA PhoneGreets ==
  ASSUME ServiceInv, NEW p \in Phones, Alone(p), thread'[p].at # "reply", NEW d \in Desktops,
         \A e \in Desktops \ {d} : SameChannel(e), link'[d].phone = link[d].phone, link'[d].code = link[d].code,
         (OnLine(p) /\ d = Other(p)) \/ SameChannel(d)
  PROVE  \A q \in Phones : Greeting(q)'
<1> SUFFICES ASSUME NEW q \in Phones, At(q, "reply")', OnLine(q)'
             PROVE  (link[Other(q)].toDesktop = << >> /\ (thread[Other(q)].at \in Talking => At(Other(q), "hello")))'
  BY DEF Greeting
<1>1. q # p /\ thread'[q] = thread[q]
  BY DEF Alone, Devices, At
<1>2. Other(q)' = Other(q) /\ Other(q) \in Desktops /\ At(q, "reply")
  BY <1>1 DEF Other, At, ServiceInv, TypeOK
<1>3. thread'[Other(q)] = thread[Other(q)]
  BY <1>2, Apart DEF Alone, Devices
<1>4. OnLine(q)
  BY <1>1, <1>2 DEF OnLine, SameChannel
<1>5. SameChannel(Other(q))
  BY <1>1, <1>2, <1>4 DEF OnLine
<1>6. link[Other(q)].toDesktop = << >> /\ (thread[Other(q)].at \in Talking => At(Other(q), "hello"))
  BY <1>2, <1>4 DEF ServiceInv, Greeting
<1> QED BY <1>2, <1>3, <1>5, <1>6 DEF SameChannel, At

LEMMA DesktopGreets ==
  ASSUME ServiceInv, NEW d \in Desktops, Alone(d), link'[d].phone = link[d].phone, link'[d].code = link[d].code,
         \/ thread[d].at \in Talking /\ (~At(d, "hello") \/ link[d].toDesktop # << >>)
         \/ thread'[d].at \notin Talking /\ link'[d].toDesktop = link[d].toDesktop
  PROVE  \A p \in Phones : Other(p) = d => Greeting(p)'
<1> SUFFICES ASSUME NEW p \in Phones, Other(p) = d, At(p, "reply")', OnLine(p)'
             PROVE  (link[Other(p)].toDesktop = << >> /\ (thread[Other(p)].at \in Talking => At(Other(p), "hello")))'
  BY DEF Greeting
<1>1. thread'[p] = thread[p]
  BY Apart DEF Alone, Devices
<1>2. Other(p)' = d /\ At(p, "reply") /\ OnLine(p)
  BY <1>1 DEF Other, At, OnLine
<1>3. link[d].toDesktop = << >> /\ (thread[d].at \in Talking => At(d, "hello"))
  BY <1>2 DEF ServiceInv, Greeting
<1> QED BY <1>2, <1>3 DEF At

(* Types.                                                                  *)
NetOK == window \in [Desktops -> Windows] /\ link \in [Desktops -> Links] /\ backlog \in [Desktops -> Seq(Callers)]
PeersOK ==
  /\ peers \in [Devices -> Seq([who : Devices, secret : Nat])]
  /\ \A x \in Devices : \A i, j \in DOMAIN peers[x] : peers[x][i].who = peers[x][j].who => i = j
KeepsOK ==
  /\ cancel \in [Devices -> BOOLEAN] /\ answer \in [Devices -> {"none", "right", "wrong", "chosen"}]
  /\ locked \in [Devices -> {"no", "closing", "yes"}] /\ scope \in Scopes
  /\ data \in [Devices -> SUBSET Devices] /\ record \in [Devices -> BOOLEAN]
  /\ codes \subseteq Codes /\ matched \subseteq Nat
  /\ stored \subseteq Devices \X Nat /\ removed \subseteq Devices \X Devices /\ took \subseteq Phones \X Desktops

LEMMA TypesStay ==
  ASSUME TypeOK, UNCHANGED <<cancel, answer, locked, scope, data, record, codes, matched, stored, removed, took>>
  PROVE  KeepsOK'
BY DEF TypeOK, KeepsOK

LEMMA PeersStay ==
  ASSUME TypeOK, peers' = peers
  PROVE  PeersOK'
BY DEF TypeOK, PeersOK

LEMMA TypesKept ==
  ASSUME TypeOK, NEW x \in Devices, Alone(x), thread' \in [Devices -> Runs],
         x \in Desktops => thread'[x].at \in DesktopStages,
         x \in Phones => thread'[x].at \in PhoneStages /\ (thread'[x].at = "rest" \/ thread'[x].desktop \in Desktops),
         NEW shown \in [state : States, kind : Kinds, code : Nat], status' = [status EXCEPT ![x] = shown],
         thread'[x].at = "rest" => shown.state \in {"idle", "done", "failed"},
         NetOK', PeersOK', KeepsOK'
  PROVE  TypeOK'
<1>1. status' \in [Devices -> [state : States, kind : Kinds, code : Nat]] /\ status'[x] = shown
  BY DEF TypeOK
<1>2. \A y \in Devices \ {x} : status'[y] = status[y]
  BY DEF TypeOK
<1>3. \A d \in Desktops : thread'[d].at \in DesktopStages
  BY DEF TypeOK, Alone, Devices
<1>4. (\A p \in Phones : thread[p].at \in PhoneStages /\ (~At(p, "rest") => Other(p) \in Desktops))'
  BY DEF TypeOK, Alone, Devices, At, Other
<1>5. \A y \in Devices : thread'[y].at = "rest" => status'[y].state \in {"idle", "done", "failed"}
  BY <1>1, <1>2 DEF TypeOK, Alone, At
<1> QED BY <1>1, <1>3, <1>4, <1>5 DEF TypeOK, NetOK, PeersOK, KeepsOK, At

LEMMA ShownIs ==
  ASSUME TypeOK, NEW x \in Devices
  PROVE  /\ thread[x] \in Runs /\ thread[x].kind \in Kinds /\ thread[x].code \in Nat /\ thread[x].at \in DesktopStages \cup PhoneStages
         /\ thread[x].desktop \in Desktops \cup {"none"}
         /\ status[x] \in [state : States, kind : Kinds, code : Nat] /\ status \in [Devices -> [state : States, kind : Kinds, code : Nat]]
<1>1. thread[x] \in Runs
  BY DEF TypeOK
<1> QED BY <1>1 DEF TypeOK, Runs

-----------------------------------------------------------------------------
(* What is on its way, when messages are read and others are sent.         *)
Told(d) ==
  \A i \in DOMAIN link'[d].toDesktop : link'[d].toDesktop[i].m = "accept" =>
    (\E j \in DOMAIN link[d].toDesktop : link[d].toDesktop[j].m = "accept") \/ link[d].code \in matched'
Sent(d) ==
  \A i \in DOMAIN link'[d].toPhone : link'[d].toPhone[i].m = "rows" =>
    (\E j \in DOMAIN link[d].toPhone : link[d].toPhone[j].m = "rows") \/ <<d, link[d].code>> \in stored'

LEMMA Carried ==
  ASSUME NEW d \in Desktops, DesktopInv(d), Grows, CallersStay, backlog \in [Desktops -> Seq(Callers)],
         link'[d].phone = link[d].phone, link'[d].code = link[d].code, Told(d), Ran(d, "pair", link[d].code) => Sent(d)
  PROVE  /\ link'[d].code # 0 => \E kind \in {"pair", "sync"} : Ran(d, kind, link[d].code)'
         /\ Agreed(d)' /\ Given(d)' /\ Waiting(d)' /\ Met(d)'
<1>1. link'[d].code # 0 => \E kind \in {"pair", "sync"} : Ran(d, kind, link[d].code)'
  BY DEF DesktopInv, Linked, Grows, Ran
<1>2. Agreed(d)'
  BY DEF DesktopInv, Agreed, Told, Grows
<1>3. Given(d)'
  BY RanStays DEF DesktopInv, Given, Sent, Grows
<1>4. Waiting(d)'
  BY WaitingStays DEF DesktopInv
<1>5. Met(d)'
  BY RanStays DEF DesktopInv, Met, Grows
<1> QED BY <1>1, <1>2, <1>3, <1>4, <1>5

LEMMA FewerAreTold ==
  ASSUME TypeOK, NEW d \in Desktops,
         link'[d].toDesktop = link[d].toDesktop \/ link'[d].toDesktop = << >>
         \/ (link[d].toDesktop # << >> /\ link'[d].toDesktop = Tail(link[d].toDesktop))
  PROVE  Told(d)
<1>1. link[d].toDesktop \in Seq(Messages)
  BY LinkIs
<1>2. CASE link'[d].toDesktop = << >>
  BY <1>2, EmptyIs DEF Told
<1>3. CASE link'[d].toDesktop = link[d].toDesktop
  BY <1>3 DEF Told
<1>4. CASE link[d].toDesktop # << >> /\ link'[d].toDesktop = Tail(link[d].toDesktop)
  BY <1>1, <1>4, TailIs DEF Told
<1> QED BY <1>2, <1>3, <1>4

LEMMA FewerAreSent ==
  ASSUME TypeOK, NEW d \in Desktops,
         link'[d].toPhone = link[d].toPhone \/ link'[d].toPhone = << >>
         \/ (link[d].toPhone # << >> /\ link'[d].toPhone = Tail(link[d].toPhone))
  PROVE  Sent(d)
<1>1. link[d].toPhone \in Seq(Messages)
  BY LinkIs
<1>2. CASE link'[d].toPhone = << >>
  BY <1>2, EmptyIs DEF Sent
<1>3. CASE link'[d].toPhone = link[d].toPhone
  BY <1>3 DEF Sent
<1>4. CASE link[d].toPhone # << >> /\ link'[d].toPhone = Tail(link[d].toPhone)
  BY <1>1, <1>4, TailIs DEF Sent
<1> QED BY <1>2, <1>3, <1>4

LEMMA OneMoreSent ==
  ASSUME TypeOK, NEW d \in Desktops, NEW e \in Messages, link'[d].toPhone = Append(link[d].toPhone, e),
         e.m = "rows" => <<d, link[d].code>> \in stored'
  PROVE  Sent(d)
<1>1. link[d].toPhone \in Seq(Messages)
  BY LinkIs
<1> QED BY <1>1, AppendIs DEF Sent

LEMMA OneMoreTold ==
  ASSUME TypeOK, NEW d \in Desktops, NEW e \in Messages, link'[d].toDesktop = Append(link[d].toDesktop, e),
         e.m = "accept" => link[d].code \in matched'
  PROVE  Told(d)
<1>1. link[d].toDesktop \in Seq(Messages)
  BY LinkIs
<1> QED BY <1>1, AppendIs DEF Told

(* A desktop that talks on, and a run of a desktop that ends.              *)
LEMMA DesktopMoves ==
  ASSUME ServiceInv, TypeOK', NEW d \in Desktops, NEW stage, Moves(d, stage), stage \in Talking \ {"hello"},
         thread[d].at \in Talking, stage \in {"answer", "hello again"} => thread[d].kind = "pair",
         stage \in {"review", "rows"} => thread[d].kind = "sync",
         thread[d].kind = "pair" => /\ stage = "hello again" => thread[d].code \in matched'
                                    /\ stage \in {"copy", "rows back", "done"} => <<d, thread[d].code>> \in stored',
         NEW toPhone, NEW toDesktop, Channel(d, toPhone, toDesktop), Sent(d) \/ thread[d].kind # "pair",
         \/ link[d].toDesktop # << >> /\ toDesktop = Tail(link[d].toDesktop)
         \/ ~At(d, "hello") /\ toDesktop = link[d].toDesktop,
         window' = window, backlog' = backlog, Grows, Kept', StoredTogether', KnowsItsDesktop'
  PROVE  ServiceInv'
<1>1. TypeOK /\ DesktopInv(d) /\ backlog \in [Desktops -> Seq(Callers)] /\ Numbered /\ codes \subseteq Codes
  BY DEF ServiceInv, TypeOK
<1>2. /\ thread'[d].at = stage /\ thread'[d].kind = thread[d].kind /\ thread'[d].code = thread[d].code
      /\ link'[d].phone = link[d].phone /\ link'[d].code = link[d].code
      /\ link'[d].toPhone = toPhone /\ link'[d].toDesktop = toDesktop
  BY DEF Moves, Channel
<1>3. link[d].code = thread[d].code /\ link[d].phone \in Phones /\ Ran(d, thread[d].kind, thread[d].code)
  BY <1>1 DEF DesktopInv, Linked, DesktopRuns, Talking, At
<1>4. CallersStay
  BY <1>1 DEF CallersStay
<1>5. Ran(d, "pair", link[d].code) => thread[d].kind = "pair"
  BY <1>1, <1>3 DEF Ran, Numbered
<1>6. Told(d)
  BY <1>1, <1>2, FewerAreTold
<1>7. /\ link'[d].code # 0 => \E kind \in {"pair", "sync"} : Ran(d, kind, link[d].code)'
      /\ Agreed(d)' /\ Given(d)' /\ Waiting(d)' /\ Met(d)'
  BY <1>1, <1>2, <1>4, <1>5, <1>6, Carried
<1>8. DesktopRuns(d)' /\ Opening(d)' /\ DesktopHas(d)'
  <2>1. DesktopRuns(d)'
    BY <1>2, <1>3 DEF DesktopRuns, Grows, Ran, Talking, At
  <2>2. Opening(d)'
    BY <1>1, <1>2 DEF DesktopInv, Opening, Talking, At, Grows, Ran
  <2>3. DesktopHas(d)'
    BY <1>2 DEF DesktopHas
  <2> QED BY <2>1, <2>2, <2>3
<1>9. Linked(d)'
  BY <1>2, <1>3, <1>7 DEF Linked
<1>10. Greeted(d)'
  <2>1. CASE link[d].toDesktop # << >> /\ toDesktop = Tail(link[d].toDesktop)
    <3>1. link[d].toDesktop \in Seq(Messages)
      BY <1>1, LinkIs
    <3>2. \A i \in DOMAIN toDesktop : \E j \in DOMAIN link[d].toDesktop : j # 1 /\ toDesktop[i] = link[d].toDesktop[j]
      BY <2>1, <3>1, TailLater, ZenonT(40)
    <3>4. Greeted(d)
      BY <1>1 DEF DesktopInv
    <3>3. thread[d].kind = "pair" => \A i \in DOMAIN toDesktop : toDesktop[i].m = "hello" => <<link[d].phone, link[d].code>> \in stored
      BY <1>1, <3>2, <3>4 DEF Greeted
    <3> QED BY <1>2, <3>3 DEF Greeted, Grows
  <2>2. CASE ~At(d, "hello") /\ toDesktop = link[d].toDesktop
    BY <1>1, <1>2, <2>2 DEF DesktopInv, Greeted, Grows
  <2> QED BY <2>1, <2>2
<1>11. DesktopInv(d)'
  BY <1>7, <1>8, <1>9, <1>10 DEF DesktopInv
<1>12. Alone(d)
  BY DEF Moves, Alone
<1>13. \A p \in Phones : Other(p) = d => Greeting(p)'
  BY <1>2, <1>12, DesktopGreets
<1>14. \A e \in Desktops \ {d} : window'[e] = window[e] /\ SameChannel(e)
  BY DEF Channel
<1> QED BY <1>4, <1>11, <1>12, <1>13, <1>14, DesktopSteps

LEMMA DesktopRests ==
  ASSUME ServiceInv, TypeOK', NEW d \in Desktops, Rests(d), \A e \in Desktops \ {d} : window'[e] = window[e] /\ SameChannel(e),
         window'[d] = NoWindow, link'[d].phone = link[d].phone, link'[d].code = link[d].code, link'[d].toPhone = link[d].toPhone,
         \/ link'[d].toDesktop = link[d].toDesktop
         \/ thread[d].at \in Talking /\ link[d].toDesktop # << >> /\ link'[d].toDesktop = Tail(link[d].toDesktop),
         CallersStay, Grows, Kept', StoredTogether', KnowsItsDesktop'
  PROVE  ServiceInv'
<1>1. TypeOK /\ DesktopInv(d) /\ backlog \in [Desktops -> Seq(Callers)]
  BY DEF ServiceInv, TypeOK
<1>2. thread'[d].at = "rest" /\ thread'[d].kind = "none"
  BY RestIs DEF Rests
<1>3. Told(d) /\ Sent(d)
  BY <1>1, FewerAreTold, FewerAreSent
<1>4. /\ link'[d].code # 0 => \E kind \in {"pair", "sync"} : Ran(d, kind, link[d].code)'
      /\ Agreed(d)' /\ Given(d)' /\ Waiting(d)' /\ Met(d)'
  BY <1>1, <1>3, Carried
<1>5. DesktopInv(d)'
  <2>1. NoWindow.keys = << >> /\ DOMAIN << >> = {}
    BY EmptyIs DEF NoWindow
  <2>2. Opening(d)'
    BY <1>2, <2>1 DEF Opening, At
  <2>3. DesktopRuns(d)' /\ Linked(d)' /\ Greeted(d)' /\ DesktopHas(d)'
    BY <1>2, <1>4 DEF DesktopRuns, Linked, Greeted, DesktopHas, Talking, At
  <2> QED BY <1>4, <2>2, <2>3 DEF DesktopInv
<1>6. Alone(d)
  BY DEF Rests, Alone
<1>7. \A p \in Phones : Other(p) = d => Greeting(p)'
  <2>1. CASE link'[d].toDesktop = link[d].toDesktop
    BY <1>2, <1>6, <2>1, DesktopGreets DEF Talking
  <2>2. CASE thread[d].at \in Talking /\ link[d].toDesktop # << >>
    BY <1>6, <2>2, DesktopGreets
  <2> QED BY <2>1, <2>2
<1> QED BY <1>5, <1>6, <1>7, DesktopSteps

(* A phone that goes on, one that writes, and a run of a phone that ends.  *)
LEMMA PhoneWrites ==
  ASSUME ServiceInv, TypeOK', NEW p \in Phones, Alone(p), thread'[p].at # "reply", NEW d \in Desktops, d = Other(p), OnLine(p),
         NEW toPhone, NEW toDesktop, Channel(d, toPhone, toDesktop),
         toPhone = link[d].toPhone \/ (link[d].toPhone # << >> /\ toPhone = Tail(link[d].toPhone)),
         \/ toDesktop = link[d].toDesktop
         \/ \E e \in Messages :
              /\ toDesktop = Append(link[d].toDesktop, e)
              /\ e.m = "accept" => link[d].code \in matched'
              /\ e.m = "hello" => \/ link[d].toDesktop = << >> /\ (thread[d].at \in Talking => At(d, "hello"))
                                  \/ <<p, link[d].code>> \in stored',
         window' = window, CallersStay, Grows, PhoneInv(p)', Kept', StoredTogether', KnowsItsDesktop'
  PROVE  ServiceInv'
<1>1. TypeOK /\ DesktopInv(d) /\ backlog \in [Desktops -> Seq(Callers)]
  BY DEF ServiceInv, TypeOK
<1>2. /\ link'[d].phone = link[d].phone /\ link'[d].code = link[d].code
      /\ link'[d].toPhone = toPhone /\ link'[d].toDesktop = toDesktop /\ thread'[d] = thread[d] /\ link[d].phone = p
  BY Apart DEF Channel, Alone, Devices, OnLine
<1>3. Sent(d)
  BY <1>1, <1>2, FewerAreSent
<1>4. Told(d) /\ Greeted(d)'
  <2>1. CASE toDesktop = link[d].toDesktop
    <3>1. Told(d)
      BY <1>1, <1>2, <2>1, FewerAreTold
    <3>2. Greeted(d)'
      BY <1>1, <1>2, <2>1 DEF DesktopInv, Greeted, Grows, At
    <3> QED BY <3>1, <3>2
  <2>2. CASE toDesktop # link[d].toDesktop
    <3>1. PICK e \in Messages :
              /\ toDesktop = Append(link[d].toDesktop, e)
              /\ e.m = "accept" => link[d].code \in matched'
              /\ e.m = "hello" => \/ link[d].toDesktop = << >> /\ (thread[d].at \in Talking => At(d, "hello"))
                                  \/ <<p, link[d].code>> \in stored'
      BY <2>2
    <3>2. Told(d)
      BY <1>1, <1>2, <3>1, OneMoreTold
    <3>3. link[d].toDesktop \in Seq(Messages)
      BY <1>1, LinkIs
    <3>4. \A i \in DOMAIN toDesktop : \/ i \in DOMAIN link[d].toDesktop /\ toDesktop[i] = link[d].toDesktop[i]
                                      \/ i = Len(link[d].toDesktop) + 1 /\ toDesktop[i] = e
      BY <3>1, <3>3, AppendIs
    <3>5. link[d].toDesktop = << >> => Len(link[d].toDesktop) + 1 = 1
      OBVIOUS
    <3> SUFFICES ASSUME thread[d].at \in Talking, thread[d].kind = "pair", NEW i \in DOMAIN toDesktop, toDesktop[i].m = "hello"
                 PROVE  (i = 1 /\ At(d, "hello")) \/ <<p, link[d].code>> \in stored'
      BY <1>2, <3>2 DEF Greeted, At
    <3>6. CASE i \in DOMAIN link[d].toDesktop /\ toDesktop[i] = link[d].toDesktop[i]
      BY <1>1, <1>2, <3>6 DEF DesktopInv, Greeted, Grows
    <3>7. CASE i = Len(link[d].toDesktop) + 1 /\ toDesktop[i] = e
      BY <3>1, <3>5, <3>7
    <3> QED BY <3>4, <3>6, <3>7
  <2> QED BY <2>1, <2>2
<1>5. /\ link'[d].code # 0 => \E kind \in {"pair", "sync"} : Ran(d, kind, link[d].code)'
      /\ Agreed(d)' /\ Given(d)' /\ Waiting(d)' /\ Met(d)'
  BY <1>1, <1>2, <1>3, <1>4, Carried
<1>6. DesktopRuns(d)' /\ Opening(d)' /\ DesktopHas(d)'
  BY <1>1, <1>2 DEF DesktopInv, DesktopRuns, Opening, DesktopHas, Grows, Ran, At
<1>7. Linked(d)'
  BY <1>1, <1>2, <1>5 DEF DesktopInv, Linked
<1>8. DesktopInv(d)'
  BY <1>4, <1>5, <1>6, <1>7 DEF DesktopInv
<1>9. \A e \in Desktops \ {d} : SameChannel(e)
  BY DEF Channel
<1>10. \A q \in Phones : Greeting(q)'
  BY <1>2, <1>9, PhoneGreets
<1> QED BY <1>8, <1>9, <1>10, PhoneSteps

LEMMA PhoneGoesOn ==
  ASSUME ServiceInv, TypeOK', NEW p \in Phones, Alone(p), thread'[p].at # "reply", NEW d \in Desktops,
         Channels, window' = window, CallersStay, Grows, PhoneInv(p)', Kept', StoredTogether', KnowsItsDesktop'
  PROVE  ServiceInv'
<1>1. backlog \in [Desktops -> Seq(Callers)]
  BY DEF ServiceInv, TypeOK
<1>2. thread'[d] = thread[d] /\ window'[d] = window[d] /\ DesktopInv(d) /\ SameChannel(d)
  BY Apart DEF Alone, Devices, ServiceInv, Channels
<1>3. \A e \in Desktops \ {d} : SameChannel(e)
  BY DEF Channels
<1>4. DesktopInv(d)'
  BY <1>1, <1>2, DesktopSame
<1>5. link'[d].phone = link[d].phone /\ link'[d].code = link[d].code
  BY <1>2 DEF SameChannel
<1>6. \A q \in Phones : Greeting(q)'
  BY <1>2, <1>3, <1>5, PhoneGreets
<1> QED BY <1>3, <1>4, <1>6, PhoneSteps

LEMMA PhoneRests ==
  ASSUME NEW p \in Phones, Rests(p)
  PROVE  Alone(p) /\ thread'[p].at = "rest" /\ PhoneInv(p)'
<1>1. thread'[p].at = "rest" /\ thread'[p].kind = "none"
  BY RestIs DEF Rests
<1> QED BY <1>1 DEF Rests, Alone, PhoneInv, PhoneRuns, PhoneHas, At

-----------------------------------------------------------------------------
(* Whom a device knows, after one is added or removed.                     *)
LEMMA WithoutIs ==
  ASSUME TypeOK, NEW x \in Devices, NEW y
  PROVE  /\ Without(x, y) \in Seq([who : Devices, secret : Nat])
         /\ \A i \in DOMAIN Without(x, y) : Without(x, y)[i].who # y /\ \E j \in DOMAIN peers[x] : Without(x, y)[i] = peers[x][j]
         /\ \A j \in DOMAIN peers[x] : peers[x][j].who # y => \E i \in DOMAIN Without(x, y) : Without(x, y)[i] = peers[x][j]
         /\ \A i, j \in DOMAIN Without(x, y) : Without(x, y)[i].who = Without(x, y)[j].who => i = j
<1> DEFINE S == [who : Devices, secret : Nat]
           q == peers[x]
           k == Place(x, y)
<1>1. q \in Seq(S) /\ \A i, j \in DOMAIN q : q[i].who = q[j].who => i = j
  BY DEF TypeOK
<1>2. CASE y \notin Known(x)
  BY <1>1, <1>2 DEF Without, Known
<1>3. CASE y \in Known(x)
  <2>1. k \in DOMAIN q /\ q[k].who = y
    BY <1>3 DEF Known, Place
  <2>2. Without(x, y) = RemoveAt(q, k)
    BY <1>3 DEF Without
  <2> HIDE DEF S, q, k
  <2>3. /\ RemoveAt(q, k) \in Seq(S)
        /\ \A i \in DOMAIN RemoveAt(q, k) : \E j \in DOMAIN q \ {k} : RemoveAt(q, k)[i] = q[j]
        /\ \A j \in DOMAIN q \ {k} : \E i \in DOMAIN RemoveAt(q, k) : RemoveAt(q, k)[i] = q[j]
    BY <1>1, <2>1, RemoveIs
  <2>4. \A i \in DOMAIN RemoveAt(q, k) : RemoveAt(q, k)[i].who # y
    BY <1>1, <2>1, <2>3
  <2>5. \A i, j \in DOMAIN RemoveAt(q, k) : RemoveAt(q, k)[i].who = RemoveAt(q, k)[j].who => i = j
    BY <1>1, <2>1, RemoveApart
  <2>6. \A j \in DOMAIN q : q[j].who # y => j # k
    BY <2>1
  <2>7. /\ RemoveAt(q, k) \in Seq(S)
        /\ \A i \in DOMAIN RemoveAt(q, k) : RemoveAt(q, k)[i].who # y /\ \E j \in DOMAIN q : RemoveAt(q, k)[i] = q[j]
        /\ \A j \in DOMAIN q : q[j].who # y => \E i \in DOMAIN RemoveAt(q, k) : RemoveAt(q, k)[i] = q[j]
    BY <2>3, <2>4, <2>6
  <2> QED BY <2>2, <2>5, <2>7 DEF S, q
<1> QED BY <1>2, <1>3

LEMMA PeersAre ==
  ASSUME TypeOK, NEW x \in Devices
  PROVE  /\ peers[x] \in Seq([who : Devices, secret : Nat]) /\ DOMAIN peers[x] = 1..Len(peers[x]) /\ Len(peers[x]) \in Nat
         /\ \A i \in DOMAIN peers[x] : peers[x][i].who \in Devices /\ peers[x][i].secret \in Nat
<1> DEFINE S == [who : Devices, secret : Nat]
<1>1. peers[x] \in Seq(S)
  BY DEF TypeOK
<1>2. \A e \in S : e.who \in Devices /\ e.secret \in Nat
  OBVIOUS
<1> HIDE DEF S
<1>3. DOMAIN peers[x] = 1..Len(peers[x]) /\ Len(peers[x]) \in Nat /\ \A i \in DOMAIN peers[x] : peers[x][i] \in S
  BY <1>1
<1> QED BY <1>1, <1>2, <1>3 DEF S

LEMMA AddIs ==
  ASSUME TypeOK, NEW x \in Devices, NEW y \in Devices, NEW secret \in Nat, Add(x, y, secret)
  PROVE  /\ PeersOK' /\ stored' = stored \cup {<<x, secret>>}
         /\ \A z \in Devices \ {x} : peers'[z] = peers[z]
         /\ \A i \in DOMAIN peers'[x] : \/ \E j \in DOMAIN peers[x] : peers'[x][i] = peers[x][j]
                                        \/ peers'[x][i] = [who |-> y, secret |-> secret]
         /\ y \in Known(x)' /\ \A z \in Known(x) : z \in Known(x)'
<1> DEFINE S == [who : Devices, secret : Nat]
           w == Without(x, y)
           e == [who |-> y, secret |-> secret]
           q == Append(w, e)
<1>1. peers \in [Devices -> Seq(S)] /\ stored' = stored \cup {<<x, secret>>} /\ peers' = [peers EXCEPT ![x] = q]
  BY DEF TypeOK, Add
<1>2. /\ w \in Seq(S) /\ \A i \in DOMAIN w : w[i].who # y /\ \E j \in DOMAIN peers[x] : w[i] = peers[x][j]
      /\ \A j \in DOMAIN peers[x] : peers[x][j].who # y => \E i \in DOMAIN w : w[i] = peers[x][j]
      /\ \A i, j \in DOMAIN w : w[i].who = w[j].who => i = j
  BY WithoutIs
<1>3. e \in S /\ e.who = y
  OBVIOUS
<1>4. /\ q \in Seq(S)
      /\ \A i \in DOMAIN q : (i \in DOMAIN w /\ q[i] = w[i]) \/ (i = Len(w) + 1 /\ q[i] = e)
      /\ \A i \in DOMAIN w : i \in DOMAIN q /\ q[i] = w[i]
  <2> HIDE DEF w, e
  <2> QED BY <1>2, <1>3, AppendIs
<1>5. Len(w) + 1 \in DOMAIN q /\ q[Len(w) + 1] = e
  <2> HIDE DEF w, e, S
  <2> QED BY <1>2, <1>3
<1> HIDE DEF w, q
<1>6. peers' \in [Devices -> Seq(S)] /\ peers'[x] = q /\ \A z \in Devices \ {x} : peers'[z] = peers[z]
  <2> HIDE DEF S
  <2> QED BY <1>1, <1>4
<1>7. \A i, j \in DOMAIN q : q[i].who = q[j].who => i = j
  BY <1>2, <1>3, <1>4
<1>8. PeersOK'
  BY <1>6, <1>7 DEF PeersOK, TypeOK
<1>9. y \in Known(x)'
  BY <1>3, <1>5, <1>6 DEF Known
<1>10. \A z \in Known(x) : z \in Known(x)'
  <2> SUFFICES ASSUME NEW z \in Known(x), z # y PROVE z \in Known(x)'
    BY <1>9
  <2>1. PICK j \in DOMAIN peers[x] : peers[x][j].who = z
    BY DEF Known
  <2>2. PICK i \in DOMAIN w : w[i] = peers[x][j]
    BY <1>2, <2>1
  <2>3. i \in DOMAIN q /\ q[i].who = z
    BY <1>4, <2>1, <2>2
  <2> QED BY <1>6, <2>3 DEF Known
<1>11. \A i \in DOMAIN q : (\E j \in DOMAIN peers[x] : q[i] = peers[x][j]) \/ q[i] = e
  BY <1>2, <1>4
<1> QED BY <1>1, <1>6, <1>8, <1>9, <1>10, <1>11

LEMMA AddKept ==
  ASSUME ServiceInv, NEW x \in Devices, NEW y \in Devices, NEW secret \in Nat, Add(x, y, secret), Grows, secret \in matched,
         x \in Desktops => Ran(x, "pair", secret), x \in Phones => y \in Desktops /\ Ran(y, "pair", secret)
  PROVE  Kept'
<1>1. /\ \A z \in Devices \ {x} : peers'[z] = peers[z]
      /\ \A i \in DOMAIN peers'[x] : \/ \E j \in DOMAIN peers[x] : peers'[x][i] = peers[x][j]
                                     \/ peers'[x][i] = [who |-> y, secret |-> secret]
  BY AddIs DEF ServiceInv
<1> DEFINE e == [who |-> y, secret |-> secret]
<1>2. e.who = y /\ e.secret = secret
  OBVIOUS
<1>3. /\ \A z \in Devices : \A i \in DOMAIN peers[z] : peers[z][i].secret \in matched
      /\ \A d \in Desktops : \A i \in DOMAIN peers[d] : Ran(d, "pair", peers[d][i].secret)
      /\ \A p \in Phones : \A i \in DOMAIN peers[p] : peers[p][i].who \in Desktops /\ Ran(peers[p][i].who, "pair", peers[p][i].secret)
  BY DEF ServiceInv, Kept
<1>4. matched \subseteq matched' /\ \A d, s : Ran(d, "pair", s) => Ran(d, "pair", s)'
  BY DEF Grows, Ran
<1>5. Desktops \subseteq Devices /\ Phones \subseteq Devices
  BY DEF Devices
<1> HIDE DEF e
<1>6. \A z \in Devices : \A i \in DOMAIN peers'[z] :
        (\E j \in DOMAIN peers[z] : peers'[z][i] = peers[z][j]) \/ (z = x /\ peers'[z][i] = e)
  BY <1>1 DEF e
<1>7. \A z \in Devices : \A i \in DOMAIN peers'[z] : peers'[z][i].secret \in matched'
  BY <1>2, <1>3, <1>4, <1>6
<1>8. ASSUME NEW d \in Desktops, NEW i \in DOMAIN peers'[d]
      PROVE  Ran(d, "pair", peers'[d][i].secret) /\ Ran(d, "pair", peers[d][i].secret)'
  BY <1>2, <1>3, <1>5, <1>6 DEF Ran, Grows
<1>9. ASSUME NEW p \in Phones, NEW i \in DOMAIN peers'[p]
      PROVE  peers'[p][i].who \in Desktops /\ Ran(peers[p][i].who, "pair", peers[p][i].secret)'
  BY <1>2, <1>3, <1>5, <1>6 DEF Ran, Grows
<1> QED BY <1>7, <1>8, <1>9 DEF Kept

LEMMA AddGrows ==
  ASSUME ServiceInv, NEW x \in Devices, NEW y \in Devices, NEW secret \in Nat, Add(x, y, secret), UNCHANGED <<codes, removed, matched>>
  PROVE  Grows
<1>1. /\ stored' = stored \cup {<<x, secret>>} /\ \A z \in Devices \ {x} : peers'[z] = peers[z]
      /\ \A z \in Known(x) : z \in Known(x)'
  BY AddIs DEF ServiceInv
<1>2. \A p \in Phones, d \in Desktops : Knows(p, d) => Knows(p, d)'
  BY <1>1 DEF Knows, Known, Devices
<1>3. Numbered' /\ codes \subseteq codes' /\ codes' \ codes = {}
  BY DEF ServiceInv, Numbered
<1>4. matched \subseteq matched' /\ stored \subseteq stored'
  BY <1>1
<1> QED BY <1>2, <1>3, <1>4 DEF Grows

LEMMA StoredMore ==
  ASSUME ServiceInv, NEW x \in Devices, NEW secret, stored' = stored \cup {<<x, secret>>},
         x \in Desktops => \E p \in Phones : <<p, secret>> \in stored,
         \A y \in Devices : status'[y] = status[y] \/ status'[y].state # "done"
  PROVE  StoredTogether'
<1>1. (\A e \in stored : e[1] \in Desktops => \E p \in Phones : <<p, e[2]>> \in stored)'
  <2>1. \A e \in stored : e[1] \in Desktops => \E p \in Phones : <<p, e[2]>> \in stored
    BY DEF ServiceInv, StoredTogether
  <2>2. ASSUME NEW e \in stored', e[1] \in Desktops PROVE \E p \in Phones : <<p, e[2]>> \in stored'
    <3>1. CASE e \in stored
      BY <2>1, <2>2, <3>1
    <3>2. CASE e = <<x, secret>>
      BY <2>2, <3>2
    <3> QED BY <2>2, <3>1, <3>2
  <2> QED BY <2>2
<1>2. (\A y \in Devices :
       status[y].state = "done" /\ status[y].kind = "pair" =>
         \A side \in {Desktops, Phones} : \E z \in side : <<z, status[y].code>> \in stored)'
  BY DEF ServiceInv, StoredTogether
<1> QED BY <1>1, <1>2 DEF StoredTogether

-----------------------------------------------------------------------------
(* A run that goes on in a stage, and one that ends.                       *)
LEMMA NetStays ==
  ASSUME TypeOK, window' = window, backlog' = backlog, link' \in [Desktops -> Links]
  PROVE  NetOK' /\ CallersStay
BY DEF TypeOK, NetOK, CallersStay

LEMMA MoveTypes ==
  ASSUME TypeOK, NEW x \in Devices, NEW stage, Moves(x, stage), ~At(x, "rest"), stage # "rest",
         x \in Desktops => stage \in DesktopStages, x \in Phones => stage \in PhoneStages,
         status' = status \/ \E state \in States \ {"done"} : Shows(x, state), NetOK', PeersOK', KeepsOK'
  PROVE  TypeOK' /\ Alone(x) /\ \A y \in Devices : status'[y] = status[y] \/ status'[y].state # "done"
<1>1. /\ Alone(x) /\ thread' \in [Devices -> Runs] /\ thread'[x].at = stage /\ thread'[x].desktop = thread[x].desktop
  BY DEF Moves, Alone
<1>2. /\ thread[x].kind \in Kinds /\ thread[x].code \in Nat
      /\ status[x] \in [state : States, kind : Kinds, code : Nat] /\ status \in [Devices -> [state : States, kind : Kinds, code : Nat]]
  BY ShownIs
<1>3. PICK shown \in [state : States, kind : Kinds, code : Nat] :
        status' = [status EXCEPT ![x] = shown] /\ (shown = status[x] \/ shown.state # "done")
  <2>1. CASE status' = status
    <3>1. status' = [status EXCEPT ![x] = status[x]]
      BY <1>2, <2>1
    <3> QED BY <1>2, <3>1
  <2>2. CASE \E state \in States \ {"done"} : Shows(x, state)
    <3>1. PICK state \in States \ {"done"} : Shows(x, state)
      BY <2>2
    <3> DEFINE shown == [state |-> state, kind |-> thread[x].kind, code |-> thread[x].code]
    <3>2. shown \in [state : States, kind : Kinds, code : Nat] /\ shown.state # "done"
      BY <1>2
    <3>3. status' = [status EXCEPT ![x] = shown]
      BY <3>1 DEF Shows
    <3> HIDE DEF shown
    <3> QED BY <3>2, <3>3
  <2> QED BY <2>1, <2>2
<1>4. x \in Phones => thread'[x].desktop \in Desktops
  BY <1>1 DEF TypeOK, At, Other
<1>5. TypeOK'
  BY <1>1, <1>3, <1>4, TypesKept
<1>6. \A y \in Devices : status'[y] = status[y] \/ status'[y].state # "done"
  BY <1>2, <1>3
<1> QED BY <1>1, <1>5, <1>6

LEMMA FinishIs ==
  ASSUME TypeOK, NEW x \in Devices, ~At(x, "rest"), Finish(x, "failed"), PeersOK', KeepsOK'
  PROVE  /\ Rests(x) /\ Channels /\ WindowsStay(x) /\ CallersStay /\ TypeOK'
         /\ \A y \in Devices : status'[y] = status[y] \/ status'[y].state # "done"
<1>1. Channels /\ WindowsStay(x) /\ CallersStay
  BY HangUpIs DEF Finish
<1>2. Rests(x)
  BY RestIs DEF Finish, Rests, TypeOK
<1>3. /\ thread[x].kind \in Kinds /\ thread[x].code \in Nat
      /\ status[x] \in [state : States, kind : Kinds, code : Nat] /\ status \in [Devices -> [state : States, kind : Kinds, code : Nat]]
  BY ShownIs
<1> DEFINE shown == [state |-> "failed", kind |-> thread[x].kind, code |-> thread[x].code]
<1>4. shown \in [state : States, kind : Kinds, code : Nat] /\ shown.state = "failed" /\ status' = [status EXCEPT ![x] = shown]
  BY <1>3 DEF Finish, States
<1> HIDE DEF shown
<1>5. NetOK'
  BY <1>1 DEF NetOK, Channels, WindowsStay, CallersStay
<1>6. Alone(x) /\ thread' \in [Devices -> Runs] /\ thread'[x].at = "rest"
  BY <1>2, RestIs DEF Rests, Alone
<1>7. TypeOK'
  BY <1>4, <1>5, <1>6, TypesKept DEF DesktopStages, PhoneStages
<1>8. \A y \in Devices : status'[y] = status[y] \/ status'[y].state # "done"
  BY <1>3, <1>4
<1> QED BY <1>1, <1>2, <1>7, <1>8

LEMMA FinishKeeps ==
  ASSUME ServiceInv, NEW x \in Devices, ~At(x, "rest"), Finish(x, "failed"), PeersOK', KeepsOK', Grows,
         Kept', StoredTogether', KnowsItsDesktop'
  PROVE  ServiceInv'
<1>1. TypeOK
  BY DEF ServiceInv
<1>2. Rests(x) /\ Channels /\ WindowsStay(x) /\ CallersStay /\ TypeOK'
  BY <1>1, FinishIs
<1>3. CASE x \in Desktops
  <2>1. window'[x] = NoWindow /\ \A e \in Desktops \ {x} : window'[e] = window[e] /\ SameChannel(e)
    BY <1>2, <1>3 DEF WindowsStay, Channels
  <2>2. SameChannel(x)
    BY <1>2, <1>3 DEF Channels
  <2> QED BY <1>2, <1>3, <2>1, <2>2, DesktopRests DEF SameChannel
<1>4. CASE x \in Phones
  <2>1. window' = window
    BY <1>1, <1>2, <1>4, Apart DEF WindowsStay, TypeOK
  <2>2. Alone(x) /\ thread'[x].at = "rest" /\ PhoneInv(x)'
    BY <1>2, <1>4, PhoneRests
  <2>3. PICK d \in Desktops : d = Other(x)
    BY <1>1, <1>4 DEF TypeOK
  <2> QED BY <1>2, <1>4, <2>1, <2>2, <2>3, PhoneGoesOn
<1> QED BY <1>3, <1>4 DEF Devices

LEMMA FailKeeps ==
  ASSUME ServiceInv, NEW x \in Devices, ~At(x, "rest"), Finish(x, "failed"), KeepsOK',
         UNCHANGED <<peers, data, codes, stored, removed, took>>, matched \subseteq matched'
  PROVE  ServiceInv'
<1>1. TypeOK
  BY DEF ServiceInv
<1>2. PeersOK'
  BY <1>1, PeersStay
<1>3. Grows
  BY GrowsAlone
<1>4. \A y \in Devices : status'[y] = status[y] \/ status'[y].state # "done"
  BY <1>1, <1>2, FinishIs
<1>5. Kept' /\ StoredTogether' /\ KnowsItsDesktop'
  BY <1>3, <1>4, KeptSame, StoredSame, KnowsSame
<1> QED BY <1>2, <1>3, <1>5, FinishKeeps

LEMMA StopsKeeps ==
  ASSUME ServiceInv, NEW x \in Devices, Stops(x) \/ CannotOpen(x) \/ CannotDial(x) \/ TurnedAway(x)
  PROVE  ServiceInv'
<1>1. ~At(x, "rest")
  BY DEF Stops, CannotOpen, CannotDial, TurnedAway, TimesOut, Listening, People, NeedsDb, At
<1>2. Finish(x, "failed") /\ UNCHANGED <<cancel, answer, locked, dbVars, history, scope>>
  BY DEF Stops, CannotOpen, CannotDial, TurnedAway
<1>3. KeepsOK'
  BY <1>2, TypesStay DEF ServiceInv, dbVars, history
<1> QED BY <1>1, <1>2, <1>3, FailKeeps DEF dbVars, history

-----------------------------------------------------------------------------
(* The steps of a desktop that talks.                                      *)
LEMMA NothingKept ==
  ASSUME ServiceInv, UNCHANGED <<peers, data, codes, matched, stored, removed, took>>
  PROVE  /\ Grows /\ PeersOK' /\ Kept' /\ KnowsItsDesktop'
         /\ (\A y \in Devices : status'[y] = status[y] \/ status'[y].state # "done") => StoredTogether'
<1>1. Grows
  BY GrowsAlone
<1> QED BY <1>1, PeersStay, KeptSame, StoredSame, KnowsSame DEF ServiceInv

LEMMA MsgIs == \A m \in {"reply", "hello", "accept", "review", "reviewed", "rows", "done"} : Msg(m) \in Messages /\ Msg(m).m = m
BY DEF Msg, Messages

LEMMA OneIs ==
  ASSUME NEW S, NEW e \in S
  PROVE  <<e>> \in Seq(S) /\ << >> \in Seq(S)
OBVIOUS

LEMMA SentNothing ==
  ASSUME TypeOK, NEW d \in Desktops, NEW toDesktop, Channel(d, link[d].toPhone \o << >>, toDesktop)
  PROVE  Sent(d)
<1>1. link[d].toPhone \in Seq(Messages)
  BY LinkIs
<1>2. link'[d].toPhone = link[d].toPhone
  BY <1>1, NothingMore DEF Channel
<1> QED BY <1>2, FewerAreSent

LEMMA SentOne ==
  ASSUME TypeOK, NEW d \in Desktops, NEW e \in Messages, NEW toDesktop, Channel(d, link[d].toPhone \o <<e>>, toDesktop), e.m # "rows"
  PROVE  Sent(d)
<1>1. link[d].toPhone \in Seq(Messages)
  BY LinkIs
<1>2. link'[d].toPhone = Append(link[d].toPhone, e)
  BY <1>1, OneMore DEF Channel
<1> QED BY <1>2, OneMoreSent

LEMMA HelloKeeps ==
  ASSUME ServiceInv, NEW d \in Desktops, Hello(d)
  PROVE  ServiceInv'
<1>1. TypeOK /\ d \in Devices /\ thread[d].at = "hello" /\ UNCHANGED <<cancel, answer, locked, scope, dbVars, window, backlog, history>>
  BY DEF ServiceInv, Hello, At, Devices
<1>2. /\ Grows /\ PeersOK' /\ Kept' /\ KnowsItsDesktop'
      /\ (\A y \in Devices : status'[y] = status[y] \/ status'[y].state # "done") => StoredTogether'
  BY <1>1, NothingKept DEF dbVars, history
<1>3. KeepsOK'
  BY <1>1, TypesStay DEF dbVars, history
<1>4. << >> \in Seq(Messages) /\ <<Msg("hello")>> \in Seq(Messages) /\ Msg("hello") \in Messages /\ Msg("hello").m = "hello"
  BY MsgIs, OneIs
<1>5. CASE thread[d].kind = "pair"
  <2>1. Reads(d, "hello") /\ Read(d, << >>) /\ Shows(d, "showCode") /\ Goes(d, "answer")
    BY <1>5 DEF Hello
  <2>2. Moves(d, "answer")
    BY <1>1, <2>1, GoesIs DEF DesktopStages
  <2>3. /\ Channel(d, link[d].toPhone \o << >>, Tail(link[d].toDesktop)) /\ link[d].toDesktop # << >>
    BY <1>1, <1>4, <2>1, ReadIs DEF At
  <2>4. Sent(d) /\ NetOK' /\ CallersStay
    BY <1>1, <2>3, SentNothing, NetStays DEF Channel
  <2>5. TypeOK' /\ \A y \in Devices : status'[y] = status[y] \/ status'[y].state # "done"
    BY <1>1, <1>2, <1>3, <2>1, <2>2, <2>4, MoveTypes, Apart DEF At, DesktopStages, States
  <2> QED BY <1>1, <1>2, <1>5, <2>2, <2>3, <2>4, <2>5, DesktopMoves DEF Talking
<1>6. CASE thread[d].kind # "pair"
  <2>1. Reads(d, "hello") /\ Read(d, <<Msg("hello")>>) /\ Goes(d, "copy") /\ status' = status
    BY <1>6 DEF Hello
  <2>2. Moves(d, "copy")
    BY <1>1, <2>1, GoesIs DEF DesktopStages
  <2>3. /\ Channel(d, link[d].toPhone \o <<Msg("hello")>>, Tail(link[d].toDesktop)) /\ link[d].toDesktop # << >>
    BY <1>1, <1>4, <2>1, ReadIs DEF At
  <2>4. NetOK' /\ CallersStay
    BY <1>1, <2>3, NetStays DEF Channel
  <2>5. TypeOK' /\ \A y \in Devices : status'[y] = status[y] \/ status'[y].state # "done"
    BY <1>1, <1>2, <1>3, <2>1, <2>2, <2>4, MoveTypes, Apart DEF At, DesktopStages
  <2> QED BY <1>1, <1>2, <1>6, <2>2, <2>3, <2>4, <2>5, DesktopMoves DEF Talking
<1> QED BY <1>5, <1>6

LEMMA AcceptedKeeps ==
  ASSUME ServiceInv, NEW d \in Desktops, Accepted(d)
  PROVE  ServiceInv'
<1>1. TypeOK /\ d \in Devices /\ thread[d].at = "answer" /\ UNCHANGED <<status, cancel, answer, locked, scope, dbVars, window, backlog, history>>
  BY DEF ServiceInv, Accepted, At, Devices
<1>2. /\ Grows /\ PeersOK' /\ Kept' /\ KnowsItsDesktop' /\ StoredTogether'
  BY <1>1, NothingKept DEF dbVars, history
<1>3. KeepsOK'
  BY <1>1, TypesStay DEF dbVars, history
<1>4. <<Msg("hello")>> \in Seq(Messages) /\ Msg("hello") \in Messages /\ Msg("hello").m = "hello"
  BY MsgIs, OneIs
<1>5. Moves(d, "hello again")
  BY <1>1, GoesIs DEF Accepted, DesktopStages
<1>6. Reads(d, "accept") /\ Read(d, <<Msg("hello")>>)
  BY DEF Accepted
<1>7. /\ Channel(d, link[d].toPhone \o <<Msg("hello")>>, Tail(link[d].toDesktop))
      /\ link[d].toDesktop # << >> /\ link[d].toDesktop[1].m = "accept"
  BY <1>1, <1>4, <1>6, ReadIs DEF At
<1>8. Sent(d) /\ NetOK' /\ CallersStay
  BY <1>1, <1>4, <1>7, SentOne, NetStays DEF Channel
<1>9. thread[d].kind = "pair" /\ thread[d].code \in matched
  <2>1. 1 \in DOMAIN link[d].toDesktop
    BY <1>1, <1>7, LinkIs, TailIs
  <2> QED BY <1>1, <1>7, <2>1 DEF ServiceInv, DesktopInv, DesktopRuns, Agreed, Linked, Talking
<1>10. TypeOK'
  BY <1>1, <1>2, <1>3, <1>5, <1>8, MoveTypes, Apart DEF At, DesktopStages
<1> QED BY <1>1, <1>2, <1>5, <1>7, <1>8, <1>9, <1>10, DesktopMoves DEF Talking, Grows, At

LEMMA StoredTypes ==
  ASSUME TypeOK, UNCHANGED <<cancel, answer, locked, scope, data, record, codes, matched, removed, took>>,
         NEW x \in Devices, NEW secret \in Nat, stored' = stored \cup {<<x, secret>>}
  PROVE  KeepsOK'
<1>1. stored' \subseteq Devices \X Nat
  BY DEF TypeOK
<1> QED BY <1>1 DEF TypeOK, KeepsOK

LEMMA StorePhoneKeeps ==
  ASSUME ServiceInv, NEW d \in Desktops, StorePhone(d)
  PROVE  ServiceInv'
<1>1. /\ TypeOK /\ d \in Devices /\ thread[d].at = "hello again"
      /\ UNCHANGED <<cancel, answer, locked, scope, data, record, window, backlog, codes, matched, removed, took>>
  BY DEF ServiceInv, StorePhone, At, Devices
<1>2. Add(d, link[d].phone, thread[d].code) /\ Reads(d, "hello") /\ Read(d, << >>) /\ Shows(d, "running") /\ Goes(d, "copy")
  BY DEF StorePhone
<1>3. /\ thread[d].kind = "pair" /\ thread[d].code \in matched /\ thread[d].code \in Nat /\ Ran(d, "pair", thread[d].code)
      /\ link[d].code = thread[d].code /\ link[d].phone \in Phones
  BY <1>1, ShownIs DEF ServiceInv, DesktopInv, DesktopRuns, DesktopHas, Linked, Talking, At
<1>4. << >> \in Seq(Messages) /\ Moves(d, "copy")
  BY <1>1, <1>2, GoesIs, EmptyIs DEF DesktopStages
<1>5. /\ Channel(d, link[d].toPhone \o << >>, Tail(link[d].toDesktop))
      /\ link[d].toDesktop # << >> /\ link[d].toDesktop[1].m = "hello"
  BY <1>1, <1>2, <1>4, ReadIs DEF At
<1>6. Sent(d) /\ NetOK' /\ CallersStay
  BY <1>1, <1>5, SentNothing, NetStays DEF Channel
<1>7. <<link[d].phone, thread[d].code>> \in stored
  <2>1. 1 \in DOMAIN link[d].toDesktop
    BY <1>1, <1>5, LinkIs, TailIs
  <2> QED BY <1>1, <1>3, <1>5, <2>1 DEF ServiceInv, DesktopInv, Greeted, Talking, At
<1>8. link[d].phone \in Devices
  BY <1>3 DEF Devices
<1>9. PeersOK' /\ stored' = stored \cup {<<d, thread[d].code>>}
  BY <1>1, <1>2, <1>3, <1>8, AddIs
<1>10. Grows
  BY <1>1, <1>2, <1>3, <1>8, AddGrows
<1>11. Kept'
  BY <1>1, <1>2, <1>3, <1>8, <1>10, Apart, AddKept
<1>12. KeepsOK'
  BY <1>1, <1>3, <1>9, StoredTypes
<1>13. TypeOK' /\ \A y \in Devices : status'[y] = status[y] \/ status'[y].state # "done"
  BY <1>1, <1>2, <1>4, <1>6, <1>9, <1>12, MoveTypes, Apart DEF At, DesktopStages, States
<1>14. StoredTogether'
  BY <1>1, <1>3, <1>7, <1>9, <1>13, StoredMore
<1>15. KnowsItsDesktop'
  BY <1>1, <1>10, KnowsSame
<1>16. <<d, thread[d].code>> \in stored'
  BY <1>9
<1> QED BY <1>1, <1>3, <1>4, <1>5, <1>6, <1>10, <1>11, <1>13, <1>14, <1>15, <1>16, DesktopMoves DEF Talking

LEMMA ReviewKeeps ==
  ASSUME ServiceInv, NEW d \in Desktops, Review(d)
  PROVE  ServiceInv'
<1>1. TypeOK /\ d \in Devices /\ thread[d].at = "copy" /\ UNCHANGED <<cancel, locked, scope, dbVars, window, backlog, history>>
  BY DEF ServiceInv, Review, At, Devices
<1>2. /\ Grows /\ PeersOK' /\ Kept' /\ KnowsItsDesktop'
      /\ (\A y \in Devices : status'[y] = status[y] \/ status'[y].state # "done") => StoredTogether'
  BY <1>1, NothingKept DEF dbVars, history
<1>3. KeepsOK'
  BY <1>1 DEF TypeOK, KeepsOK, Review, dbVars, history
<1>4. Msg("review") \in Messages /\ Msg("review").m = "review"
  BY MsgIs
<1>5. Moves(d, "review") /\ thread[d].kind = "sync" /\ Shows(d, "reviewing")
  BY <1>1, GoesIs DEF Review, DesktopStages
<1>6. Channel(d, Append(link[d].toPhone, Msg("review")), link[d].toDesktop)
  BY <1>1, <1>4, TellIs DEF Review
<1>7. NetOK' /\ CallersStay
  BY <1>1, <1>6, NetStays DEF Channel
<1>8. TypeOK' /\ \A y \in Devices : status'[y] = status[y] \/ status'[y].state # "done"
  BY <1>1, <1>2, <1>3, <1>5, <1>7, MoveTypes, Apart DEF At, DesktopStages, States
<1> QED BY <1>1, <1>2, <1>5, <1>6, <1>7, <1>8, DesktopMoves DEF Talking, At

LEMMA CarryOutKeeps ==
  ASSUME ServiceInv, NEW d \in Desktops, CarryOut(d)
  PROVE  ServiceInv'
<1>1. TypeOK /\ d \in Devices /\ thread[d].at = "review" /\ UNCHANGED <<cancel, locked, scope, dbVars, history>>
  BY DEF ServiceInv, CarryOut, At, Devices
<1>2. KeepsOK'
  BY <1>1 DEF TypeOK, KeepsOK, CarryOut, dbVars, history
<1>3. CASE ~Up(d)
  <2>1. Finish(d, "failed")
    BY <1>3 DEF CarryOut
  <2> QED BY <1>1, <1>2, <2>1, FailKeeps DEF At, dbVars, history
<1>4. CASE Up(d)
  <2>1. Tell(d, Msg("reviewed")) /\ Shows(d, "running") /\ Goes(d, "rows") /\ UNCHANGED <<window, backlog>>
    BY <1>4 DEF CarryOut
  <2>2. /\ Grows /\ PeersOK' /\ Kept' /\ KnowsItsDesktop'
        /\ (\A y \in Devices : status'[y] = status[y] \/ status'[y].state # "done") => StoredTogether'
    BY <1>1, NothingKept DEF dbVars, history
  <2>3. Msg("reviewed") \in Messages /\ Msg("reviewed").m = "reviewed"
    BY MsgIs
  <2>4. Moves(d, "rows") /\ thread[d].kind = "sync"
    BY <1>1, <2>1, GoesIs DEF DesktopStages, ServiceInv, DesktopInv, DesktopRuns
  <2>5. Channel(d, Append(link[d].toPhone, Msg("reviewed")), link[d].toDesktop)
    BY <1>1, <2>1, <2>3, TellIs
  <2>6. NetOK' /\ CallersStay
    BY <1>1, <2>1, <2>5, NetStays DEF Channel
  <2>7. TypeOK' /\ \A y \in Devices : status'[y] = status[y] \/ status'[y].state # "done"
    BY <1>1, <1>2, <2>1, <2>2, <2>4, <2>6, MoveTypes, Apart DEF At, DesktopStages, States
  <2> QED BY <1>1, <2>1, <2>2, <2>4, <2>5, <2>6, <2>7, DesktopMoves DEF Talking, At
<1> QED BY <1>3, <1>4

LEMMA SendRowsKeeps ==
  ASSUME ServiceInv, NEW d \in Desktops, SendRows(d)
  PROVE  ServiceInv'
<1>1. /\ TypeOK /\ d \in Devices /\ thread[d].at \in {"copy", "rows"}
      /\ UNCHANGED <<status, cancel, answer, locked, scope, dbVars, window, backlog, history>>
  BY DEF ServiceInv, SendRows, At, Devices
<1>2. /\ Grows /\ PeersOK' /\ Kept' /\ KnowsItsDesktop' /\ StoredTogether'
  BY <1>1, NothingKept DEF dbVars, history
<1>3. KeepsOK'
  BY <1>1, TypesStay DEF dbVars, history
<1> DEFINE e == [m |-> "rows", rows |-> data[d]]
<1>4. e \in Messages /\ Tell(d, e)
  BY <1>1 DEF Messages, TypeOK, SendRows
<1>5. Moves(d, "rows back")
  BY <1>1, GoesIs DEF SendRows, DesktopStages
<1> HIDE DEF e
<1>6. Channel(d, Append(link[d].toPhone, e), link[d].toDesktop)
  BY <1>1, <1>4, TellIs
<1>7. NetOK' /\ CallersStay
  BY <1>1, <1>6, NetStays DEF Channel
<1>8. thread[d].kind = "pair" => <<d, thread[d].code>> \in stored'
  BY <1>1 DEF ServiceInv, DesktopInv, DesktopRuns, DesktopHas, history
<1>9. Sent(d) \/ thread[d].kind # "pair"
  <2>1. link[d].code = thread[d].code
    BY <1>1 DEF ServiceInv, DesktopInv, Linked, Talking
  <2> QED BY <1>1, <1>4, <1>6, <1>8, <2>1, OneMoreSent DEF Channel
<1>10. TypeOK'
  BY <1>1, <1>2, <1>3, <1>5, <1>7, MoveTypes, Apart DEF At, DesktopStages
<1> QED BY <1>1, <1>2, <1>5, <1>6, <1>7, <1>8, <1>9, <1>10, DesktopMoves DEF Talking, At

LEMMA ApplyBackKeeps ==
  ASSUME ServiceInv, NEW d \in Desktops, ApplyBack(d)
  PROVE  ServiceInv'
<1>1. /\ TypeOK /\ d \in Devices /\ thread[d].at = "rows back"
      /\ UNCHANGED <<status, cancel, answer, locked, scope, peers, record, window, backlog, history>>
  BY DEF ServiceInv, ApplyBack, At, Devices
<1>2. Reads(d, "rows") /\ Read(d, <<Msg("done")>>) /\ data' = [data EXCEPT ![d] = @ \cup Head(Inbox(d)).rows]
  BY DEF ApplyBack
<1>3. data' \in [Devices -> SUBSET Devices] /\ \A p \in Phones : data'[p] = data[p]
  <2>1. link[d].toDesktop \in Seq(Messages) /\ Inbox(d) = link[d].toDesktop /\ Inbox(d) # << >>
    BY <1>1, <1>2, LinkIs DEF Inbox, Reads
  <2>2. Head(Inbox(d)) \in Messages
    BY <2>1, TailIs
  <2>3. Head(Inbox(d)).rows \subseteq Devices
    BY <2>2 DEF Messages
  <2> QED BY <1>1, <1>2, <2>3, Apart DEF TypeOK, Devices
<1>4. Grows
  BY <1>1, GrowsAlone DEF history
<1>5. PeersOK' /\ Kept' /\ KnowsItsDesktop' /\ StoredTogether'
  BY <1>1, <1>3, <1>4, PeersStay, KeptSame, StoredSame, KnowsSame DEF history
<1>6. KeepsOK'
  BY <1>1, <1>3 DEF TypeOK, KeepsOK, history
<1>7. <<Msg("done")>> \in Seq(Messages) /\ Msg("done") \in Messages /\ Msg("done").m = "done"
  BY MsgIs, OneIs
<1>8. Moves(d, "done")
  BY <1>1, GoesIs DEF ApplyBack, DesktopStages
<1>9. /\ Channel(d, link[d].toPhone \o <<Msg("done")>>, Tail(link[d].toDesktop)) /\ link[d].toDesktop # << >>
  BY <1>1, <1>2, <1>7, ReadIs DEF At
<1>10. Sent(d) /\ NetOK' /\ CallersStay
  BY <1>1, <1>7, <1>9, SentOne, NetStays DEF Channel
<1>11. thread[d].kind = "pair" => <<d, thread[d].code>> \in stored'
  BY <1>1 DEF ServiceInv, DesktopInv, DesktopHas, history
<1>12. TypeOK'
  BY <1>1, <1>5, <1>6, <1>8, <1>10, MoveTypes, Apart DEF At, DesktopStages
<1> QED BY <1>1, <1>4, <1>5, <1>8, <1>9, <1>10, <1>11, <1>12, DesktopMoves DEF Talking

-----------------------------------------------------------------------------
(* The steps of a phone.                                                   *)
LEMMA PhoneMoves ==
  ASSUME ServiceInv, NEW p \in Phones, NEW d \in Desktops, d = Other(p), ~At(p, "rest"), NEW stage, Moves(p, stage), Grows,
         stage \in {"digits", "add"} => thread[p].kind = "pair",
         thread[p].kind = "pair" => /\ stage \in {"theirs", "add"} => thread[p].code \in matched'
                                    /\ stage \in {"copy", "waits", "apply", "done"} => <<p, thread[p].code>> \in stored'
                                    /\ stage \in {"apply", "done"} => <<d, thread[p].code>> \in stored',
         stage \in {"copy", "waits", "apply", "done"} => Knows(p, d)'
  PROVE  PhoneInv(p)'
<1>1. thread'[p].at = stage /\ thread'[p].kind = thread[p].kind /\ thread'[p].code = thread[p].code /\ Other(p)' = d
  BY DEF Moves, Other
<1>2. Ran(d, thread[p].kind, thread[p].code)
  BY DEF ServiceInv, PhoneInv, PhoneRuns
<1>3. PhoneRuns(p)'
  BY <1>1, <1>2 DEF PhoneRuns, Ran, Grows
<1>4. PhoneHas(p)'
  BY <1>1 DEF PhoneHas
<1>5. Knows(p, Other(p))' <=> Knows(p, d)'
  BY <1>1 DEF Knows, Known
<1> QED BY <1>1, <1>3, <1>4, <1>5 DEF PhoneInv, At

LEMMA PhoneIs ==
  ASSUME ServiceInv, NEW p \in Phones, ~At(p, "rest")
  PROVE  /\ TypeOK /\ p \in Devices /\ p \notin Desktops /\ Other(p) \in Desktops
         /\ Ran(Other(p), thread[p].kind, thread[p].code)
         /\ thread[p].code \in Nat \ {0} /\ thread[p].kind \in {"pair", "sync"}
<1>1. TypeOK /\ p \in Devices /\ p \notin Desktops /\ Other(p) \in Desktops /\ Ran(Other(p), thread[p].kind, thread[p].code)
  BY Apart DEF ServiceInv, Devices, TypeOK, PhoneInv, PhoneRuns
<1>2. [desktop |-> Other(p), kind |-> thread[p].kind, code |-> thread[p].code] \in Codes
  BY <1>1 DEF Ran, TypeOK
<1> QED BY <1>1, <1>2 DEF Codes

(* A phone that reads what came first.                                     *)
LEMMA PhoneReads ==
  ASSUME ServiceInv, NEW p \in Phones, ~At(p, "rest"), NEW m, Reads(p, m), NEW sent \in Seq(Messages), Read(p, sent),
         NEW d \in Desktops, d = Other(p)
  PROVE  /\ OnLine(p) /\ link[d].phone = p /\ link[d].code = thread[p].code
         /\ link[d].toPhone # << >> /\ 1 \in DOMAIN link[d].toPhone /\ link[d].toPhone[1].m = m
         /\ Channel(d, Tail(link[d].toPhone), link[d].toDesktop \o sent)
<1>1. TypeOK /\ p \in Devices /\ p \notin Desktops
  BY PhoneIs
<1>2. /\ OnLine(p) /\ Channel(d, Tail(link[d].toPhone), link[d].toDesktop \o sent)
      /\ link[d].toPhone # << >> /\ link[d].toPhone[1].m = m
  <2>1. /\ OnLine(p) /\ Channel(Other(p), Tail(link[Other(p)].toPhone), link[Other(p)].toDesktop \o sent)
        /\ link[Other(p)].toPhone # << >> /\ link[Other(p)].toPhone[1].m = m
    BY <1>1, ReadIs
  <2> QED BY <2>1 DEF Channel
<1>3. link[d].toPhone \in Seq(Messages)
  BY <1>1, LinkIs
<1>4. 1 \in DOMAIN link[d].toPhone
  BY <1>2, <1>3, TailIs
<1> QED BY <1>2, <1>4 DEF OnLine

LEMMA WroteNothing ==
  ASSUME TypeOK, NEW d \in Desktops
  PROVE  link[d].toDesktop \o << >> = link[d].toDesktop
<1>1. link[d].toDesktop \in Seq(Messages)
  BY LinkIs
<1> QED BY <1>1, NothingMore

LEMMA WroteOne ==
  ASSUME TypeOK, NEW d \in Desktops, NEW e \in Messages
  PROVE  link[d].toDesktop \o <<e>> = Append(link[d].toDesktop, e)
<1>1. link[d].toDesktop \in Seq(Messages)
  BY LinkIs
<1> QED BY <1>1, OneMore

LEMMA GreetKeeps ==
  ASSUME ServiceInv, NEW p \in Phones, Greet(p)
  PROVE  ServiceInv'
<1>1. /\ thread[p].at = "reply" /\ Reads(p, "reply") /\ Read(p, <<Msg("hello")>>)
      /\ UNCHANGED <<cancel, locked, scope, dbVars, window, backlog, history>>
  BY DEF Greet, At
<1>2. ~At(p, "rest")
  BY <1>1 DEF At
<1>3. TypeOK /\ p \in Devices /\ p \notin Desktops /\ Other(p) \in Desktops
  BY <1>2, PhoneIs
<1> PICK d \in Desktops : d = Other(p)
  BY <1>3
<1>4. /\ Grows /\ PeersOK' /\ Kept' /\ KnowsItsDesktop'
      /\ (\A y \in Devices : status'[y] = status[y] \/ status'[y].state # "done") => StoredTogether'
  BY <1>1, NothingKept DEF dbVars, history
<1>5. KeepsOK'
  BY <1>1, <1>3 DEF TypeOK, KeepsOK, Greet, dbVars, history
<1>6. <<Msg("hello")>> \in Seq(Messages) /\ Msg("hello") \in Messages /\ Msg("hello").m = "hello"
  BY MsgIs, OneIs
<1> DEFINE sent == <<Msg("hello")>>
<1>7. /\ OnLine(p) /\ link[d].phone = p /\ link[d].code = thread[p].code /\ link[d].toPhone # << >>
      /\ Channel(d, Tail(link[d].toPhone), link[d].toDesktop \o <<Msg("hello")>>)
  <2>1. sent \in Seq(Messages) /\ Reads(p, "reply") /\ Read(p, sent)
    BY <1>1, <1>6
  <2> HIDE DEF sent
  <2>2. /\ OnLine(p) /\ link[d].phone = p /\ link[d].code = thread[p].code /\ link[d].toPhone # << >>
        /\ Channel(d, Tail(link[d].toPhone), link[d].toDesktop \o sent)
    BY <1>2, <2>1, PhoneReads
  <2> QED BY <2>2 DEF sent
<1>8. link[d].toDesktop \o <<Msg("hello")>> = Append(link[d].toDesktop, Msg("hello"))
  BY <1>3, <1>6, WroteOne
<1>9. link[d].toDesktop = << >> /\ (thread[d].at \in Talking => At(d, "hello"))
  BY <1>1, <1>7 DEF ServiceInv, Greeting, At
<1>10. NetOK' /\ CallersStay
  BY <1>1, <1>3, <1>7, NetStays DEF Channel
<1>11. PICK stage \in {"digits", "theirs"} :
         /\ Goes(p, stage) /\ (Shows(p, "enterCode") \/ Shows(p, "running"))
         /\ stage = "digits" <=> thread[p].kind = "pair"
  BY DEF Greet
<1>12. Moves(p, stage)
  BY <1>3, <1>11, GoesIs DEF PhoneStages
<1>13. TypeOK' /\ Alone(p) /\ \A y \in Devices : status'[y] = status[y] \/ status'[y].state # "done"
  BY <1>2, <1>3, <1>4, <1>5, <1>10, <1>11, <1>12, MoveTypes DEF PhoneStages, States
<1>14. PhoneInv(p)'
  BY <1>2, <1>4, <1>11, <1>12, PhoneMoves
<1>15. thread'[p].at # "reply" /\ window' = window
  BY <1>1, <1>11, <1>12 DEF Moves
<1> QED BY <1>4, <1>6, <1>7, <1>8, <1>9, <1>10, <1>13, <1>14, <1>15, PhoneWrites

LEMMA RightDigitsKeeps ==
  ASSUME ServiceInv, NEW p \in Phones, RightDigits(p)
  PROVE  ServiceInv'
<1>1. /\ thread[p].at = "digits" /\ matched' = matched \cup {thread[p].code}
      /\ UNCHANGED <<cancel, locked, scope, dbVars, codes, stored, removed, took>>
  BY DEF RightDigits, At
<1>2. ~At(p, "rest")
  BY <1>1 DEF At
<1>3. TypeOK /\ p \in Devices /\ p \notin Desktops /\ Other(p) \in Desktops /\ thread[p].code \in Nat
  BY <1>2, PhoneIs
<1>4. KeepsOK'
  BY <1>1, <1>3 DEF TypeOK, KeepsOK, RightDigits, dbVars
<1>5. CASE ~Up(p)
  <2>1. Finish(p, "failed")
    BY <1>5 DEF RightDigits
  <2> QED BY <1>1, <1>2, <1>3, <1>4, <2>1, FailKeeps DEF dbVars
<1>6. CASE Up(p)
  <2> PICK d \in Desktops : d = Other(p)
    BY <1>3
  <2>1. /\ link' = [link EXCEPT ![d].toDesktop = Append(@, Msg("accept"))]
        /\ Shows(p, "running") /\ Goes(p, "theirs") /\ UNCHANGED <<window, backlog>>
    BY <1>6 DEF RightDigits
  <2>2. OnLine(p) /\ link[d].code = thread[p].code
    BY <1>3, <1>6 DEF Up, OnLine
  <2>3. Grows
    BY <1>1, GrowsAlone DEF dbVars
  <2>4. PeersOK' /\ Kept' /\ KnowsItsDesktop'
    BY <1>1, <1>3, <2>3, PeersStay, KeptSame, KnowsSame DEF dbVars
  <2>5. Msg("accept") \in Messages /\ Msg("accept").m = "accept"
    BY MsgIs
  <2>6. Channel(d, link[d].toPhone, Append(link[d].toDesktop, Msg("accept")))
    BY <1>3, <2>1, <2>5, WritesIs
  <2>7. NetOK' /\ CallersStay
    BY <1>3, <2>1, <2>6, NetStays DEF Channel
  <2>8. Moves(p, "theirs")
    BY <1>3, <2>1, GoesIs DEF PhoneStages
  <2>9. TypeOK' /\ Alone(p) /\ \A y \in Devices : status'[y] = status[y] \/ status'[y].state # "done"
    BY <1>2, <1>3, <1>4, <2>1, <2>4, <2>7, <2>8, MoveTypes DEF PhoneStages, States
  <2>10. StoredTogether'
    BY <1>1, <2>9, StoredSame
  <2>11. PhoneInv(p)'
    BY <1>1, <1>2, <2>3, <2>8, PhoneMoves
  <2>12. thread'[p].at # "reply"
    BY <2>8 DEF Moves
  <2>13. link[d].code \in matched'
    BY <1>1, <2>2
  <2> QED BY <2>1, <2>2, <2>3, <2>4, <2>5, <2>6, <2>7, <2>9, <2>10, <2>11, <2>12, <2>13, PhoneWrites
<1> QED BY <1>5, <1>6

LEMMA WrongDigitsKeeps ==
  ASSUME ServiceInv, NEW p \in Phones, WrongDigits(p)
  PROVE  ServiceInv'
<1>1. thread[p].at = "digits" /\ UNCHANGED <<cancel, locked, scope, dbVars, history>>
  BY DEF WrongDigits, At
<1>2. ~At(p, "rest")
  BY <1>1 DEF At
<1>3. TypeOK /\ p \in Devices /\ p \notin Desktops /\ Other(p) \in Desktops
  BY <1>2, PhoneIs
<1>4. KeepsOK'
  BY <1>1, <1>3 DEF TypeOK, KeepsOK, WrongDigits, dbVars, history
<1>5. CASE thread[p].tries = 1
  <2>1. Finish(p, "failed")
    BY <1>5 DEF WrongDigits
  <2> QED BY <1>1, <1>2, <1>3, <1>4, <2>1, FailKeeps DEF dbVars, history
<1>6. CASE thread[p].tries # 1
  <2> PICK d \in Desktops : d = Other(p)
    BY <1>3
  <2> DEFINE run == [thread[p] EXCEPT !.tries = @ - 1]
  <2>1. thread' = [thread EXCEPT ![p] = run] /\ UNCHANGED <<status, netVars>>
    BY <1>6 DEF WrongDigits
  <2>2. /\ run \in Runs /\ run.at = "digits" /\ run.kind = thread[p].kind /\ run.code = thread[p].code
        /\ run.desktop = thread[p].desktop
    BY <1>1, <1>3, ShownIs DEF Runs
  <2> HIDE DEF run
  <2>3. Moves(p, "digits")
    BY <1>3, <2>1, <2>2, Puts
  <2>4. /\ Grows /\ PeersOK' /\ Kept' /\ KnowsItsDesktop' /\ StoredTogether'
    BY <1>1, <2>1, NothingKept DEF dbVars, history
  <2>5. NetOK' /\ CallersStay /\ Channels /\ window' = window
    BY <1>3, <2>1, NetStays DEF netVars, TypeOK, Channels, SameChannel
  <2>6. TypeOK' /\ Alone(p)
    BY <1>2, <1>3, <1>4, <2>1, <2>3, <2>4, <2>5, MoveTypes DEF PhoneStages
  <2>7. thread[p].kind = "pair"
    BY <1>1 DEF ServiceInv, PhoneInv, PhoneRuns
  <2>8. PhoneInv(p)'
    BY <1>2, <2>3, <2>4, <2>7, PhoneMoves
  <2> QED BY <2>3, <2>4, <2>5, <2>6, <2>8, PhoneGoesOn DEF Moves
<1> QED BY <1>5, <1>6

LEMMA MeetDesktopKeeps ==
  ASSUME ServiceInv, NEW p \in Phones, MeetDesktop(p)
  PROVE  ServiceInv'
<1>1. /\ thread[p].at = "theirs" /\ Reads(p, "hello")
      /\ UNCHANGED <<cancel, answer, locked, scope, peers, data, history>>
  BY DEF MeetDesktop, At
<1>2. ~At(p, "rest")
  BY <1>1 DEF At
<1>3. TypeOK /\ p \in Devices /\ p \notin Desktops /\ Other(p) \in Desktops /\ thread[p].kind \in {"pair", "sync"}
  BY <1>2, PhoneIs
<1> PICK d \in Desktops : d = Other(p)
  BY <1>3
<1>4. record' \in [Devices -> BOOLEAN]
  BY <1>3 DEF TypeOK, MeetDesktop
<1>5. KeepsOK'
  BY <1>1, <1>3, <1>4 DEF TypeOK, KeepsOK, history
<1>6. CASE Finish(p, "failed")
  BY <1>1, <1>2, <1>3, <1>5, <1>6, FailKeeps DEF history
<1>7. CASE ~Finish(p, "failed")
  <2>1. PICK stage \in {"copy", "add"} :
          /\ Read(p, << >>) /\ Goes(p, stage) /\ UNCHANGED <<status, window, backlog>>
          /\ stage = "add" <=> thread[p].kind = "pair"
    BY <1>3, <1>7 DEF MeetDesktop
  <2>2. << >> \in Seq(Messages) /\ link[d].toDesktop \o << >> = link[d].toDesktop
    BY <1>3, EmptyIs, WroteNothing
  <2>3. /\ OnLine(p) /\ link[d].phone = p /\ link[d].code = thread[p].code /\ link[d].toPhone # << >>
        /\ Channel(d, Tail(link[d].toPhone), link[d].toDesktop \o << >>)
    BY <1>1, <1>2, <2>1, <2>2, PhoneReads
  <2>4. /\ Grows /\ PeersOK' /\ Kept' /\ KnowsItsDesktop' /\ StoredTogether'
    BY <1>1, <2>1, NothingKept DEF history
  <2>5. NetOK' /\ CallersStay
    BY <1>3, <2>1, <2>3, NetStays DEF Channel
  <2>6. Moves(p, stage)
    BY <1>3, <2>1, GoesIs DEF PhoneStages
  <2>7. TypeOK' /\ Alone(p)
    BY <1>2, <1>3, <1>5, <2>1, <2>4, <2>5, <2>6, MoveTypes DEF PhoneStages
  <2>8. thread[p].kind = "pair" => thread[p].code \in matched
    BY <1>1 DEF ServiceInv, PhoneInv, PhoneHas
  <2>9. stage = "copy" => Knows(p, d)'
    <3>1. SUFFICES ASSUME stage = "copy" PROVE Knows(p, d)'
      OBVIOUS
    <3>2. Ran(d, "sync", link[d].code)
      BY <1>2, <1>3, <2>1, <2>3, <3>1, PhoneIs
    <3>3. Knows(p, d)
      BY <2>3, <3>2 DEF ServiceInv, DesktopInv, Met
    <3> QED BY <2>4, <3>3 DEF Grows
  <2>10. PhoneInv(p)'
    BY <1>2, <2>1, <2>4, <2>6, <2>8, <2>9, PhoneMoves DEF Grows
  <2>11. thread'[p].at # "reply" /\ window' = window
    BY <2>1, <2>6 DEF Moves
  <2> QED BY <2>2, <2>3, <2>4, <2>5, <2>7, <2>10, <2>11, PhoneWrites
<1> QED BY <1>6, <1>7

LEMMA StoreDesktopKeeps ==
  ASSUME ServiceInv, NEW p \in Phones, StoreDesktop(p)
  PROVE  ServiceInv'
<1>1. /\ thread[p].at = "add" /\ Add(p, Other(p), thread[p].code)
      /\ UNCHANGED <<cancel, answer, locked, scope, data, record, codes, matched, removed, took>>
  BY DEF StoreDesktop, At
<1>2. ~At(p, "rest")
  BY <1>1 DEF At
<1>3. /\ TypeOK /\ p \in Devices /\ p \notin Desktops /\ Other(p) \in Desktops /\ thread[p].code \in Nat
      /\ Ran(Other(p), thread[p].kind, thread[p].code)
  BY <1>2, PhoneIs
<1> PICK d \in Desktops : d = Other(p)
  BY <1>3
<1>4. thread[p].kind = "pair" /\ thread[p].code \in matched
  BY <1>1 DEF ServiceInv, PhoneInv, PhoneRuns, PhoneHas
<1>5. d \in Devices /\ Add(p, d, thread[p].code)
  BY <1>1 DEF Devices
<1>6. PeersOK' /\ stored' = stored \cup {<<p, thread[p].code>>} /\ d \in Known(p)'
  BY <1>3, <1>5, AddIs
<1>7. Grows
  BY <1>1, <1>3, <1>5, AddGrows
<1>8. Kept'
  <2>1. Ran(d, "pair", thread[p].code)
    BY <1>3, <1>4
  <2> QED BY <1>3, <1>4, <1>5, <1>7, <2>1, AddKept
<1>9. KeepsOK'
  BY <1>1, <1>3, <1>6, StoredTypes
<1>10. KnowsItsDesktop'
  BY <1>1, <1>7, KnowsSame
<1>11. (\A y \in Devices : status'[y] = status[y] \/ status'[y].state # "done") => StoredTogether'
  BY <1>3, <1>6, StoredMore
<1>12. CASE ~Up(p)
  <2>1. Finish(p, "failed")
    BY <1>12 DEF StoreDesktop
  <2>2. \A y \in Devices : status'[y] = status[y] \/ status'[y].state # "done"
    BY <1>2, <1>3, <1>6, <1>9, <2>1, FinishIs
  <2> QED BY <1>2, <1>3, <1>6, <1>7, <1>8, <1>9, <1>10, <1>11, <2>1, <2>2, FinishKeeps
<1>13. CASE Up(p)
  <2>1. /\ link' = [link EXCEPT ![d].toDesktop = Append(@, Msg("hello"))]
        /\ Shows(p, "running") /\ Goes(p, "copy") /\ UNCHANGED <<window, backlog>>
    BY <1>13 DEF StoreDesktop
  <2>2. OnLine(p) /\ link[d].code = thread[p].code
    BY <1>3, <1>13 DEF Up, OnLine
  <2>3. Msg("hello") \in Messages /\ Msg("hello").m = "hello"
    BY MsgIs
  <2>4. Channel(d, link[d].toPhone, Append(link[d].toDesktop, Msg("hello")))
    BY <1>3, <2>1, <2>3, WritesIs
  <2>5. NetOK' /\ CallersStay
    BY <1>3, <2>1, <2>4, NetStays DEF Channel
  <2>6. Moves(p, "copy")
    BY <1>3, <2>1, GoesIs DEF PhoneStages
  <2>7. TypeOK' /\ Alone(p) /\ \A y \in Devices : status'[y] = status[y] \/ status'[y].state # "done"
    BY <1>2, <1>3, <1>6, <1>9, <2>1, <2>5, <2>6, MoveTypes DEF PhoneStages, States
  <2>8. Knows(p, d)' /\ <<p, thread[p].code>> \in stored' /\ <<p, link[d].code>> \in stored'
    BY <1>6, <2>2 DEF Knows
  <2>9. PhoneInv(p)'
    BY <1>2, <1>4, <1>7, <2>6, <2>8, PhoneMoves
  <2>10. thread'[p].at # "reply"
    BY <2>6 DEF Moves
  <2> QED BY <1>7, <1>8, <1>10, <1>11, <2>1, <2>2, <2>3, <2>4, <2>5, <2>7, <2>8, <2>9, <2>10, PhoneWrites
<1> QED BY <1>12, <1>13

LEMMA ReviewedKeeps ==
  ASSUME ServiceInv, NEW p \in Phones, WaitForReview(p) \/ Reviewed(p)
  PROVE  ServiceInv'
<1>1. /\ thread[p].at \in {"copy", "waits"} /\ UNCHANGED <<cancel, answer, locked, scope, dbVars, window, backlog, history>>
  BY DEF WaitForReview, Reviewed, At
<1>2. ~At(p, "rest")
  BY <1>1 DEF At
<1>3. TypeOK /\ p \in Devices /\ p \notin Desktops /\ Other(p) \in Desktops
  BY <1>2, PhoneIs
<1> PICK d \in Desktops : d = Other(p)
  BY <1>3
<1>4. PICK m \in {"review", "reviewed"}, stage \in {"copy", "waits"} :
        /\ Reads(p, m) /\ Read(p, << >>) /\ Goes(p, stage) /\ (Shows(p, "waitingReview") \/ Shows(p, "running"))
  BY DEF WaitForReview, Reviewed
<1>5. << >> \in Seq(Messages) /\ link[d].toDesktop \o << >> = link[d].toDesktop
  BY <1>3, EmptyIs, WroteNothing
<1>6. /\ OnLine(p) /\ link[d].toPhone # << >> /\ Channel(d, Tail(link[d].toPhone), link[d].toDesktop \o << >>)
  BY <1>2, <1>4, <1>5, PhoneReads
<1>7. /\ Grows /\ PeersOK' /\ Kept' /\ KnowsItsDesktop'
      /\ (\A y \in Devices : status'[y] = status[y] \/ status'[y].state # "done") => StoredTogether'
  BY <1>1, NothingKept DEF dbVars, history
<1>8. KeepsOK'
  BY <1>1, <1>3, TypesStay DEF dbVars, history
<1>9. NetOK' /\ CallersStay
  BY <1>1, <1>3, <1>6, NetStays DEF Channel
<1>10. Moves(p, stage)
  BY <1>3, <1>4, GoesIs DEF PhoneStages
<1>11. TypeOK' /\ Alone(p) /\ \A y \in Devices : status'[y] = status[y] \/ status'[y].state # "done"
  BY <1>2, <1>3, <1>4, <1>7, <1>8, <1>9, <1>10, MoveTypes DEF PhoneStages, States
<1>12. /\ thread[p].kind = "pair" => <<p, thread[p].code>> \in stored'
       /\ Knows(p, d)
  BY <1>1 DEF ServiceInv, PhoneInv, PhoneHas, history
<1>13. PhoneInv(p)'
  BY <1>2, <1>4, <1>7, <1>10, <1>12, PhoneMoves DEF Grows
<1>14. thread'[p].at # "reply" /\ window' = window
  BY <1>1, <1>4, <1>10 DEF Moves
<1> QED BY <1>5, <1>6, <1>7, <1>9, <1>11, <1>13, <1>14, PhoneWrites

LEMMA TakeRowsKeeps ==
  ASSUME ServiceInv, NEW p \in Phones, TakeRows(p)
  PROVE  ServiceInv'
<1>1. /\ thread[p].at = "copy" /\ Reads(p, "rows")
      /\ UNCHANGED <<status, cancel, answer, locked, scope, dbVars, window, backlog, history>>
  BY DEF TakeRows, At
<1>2. ~At(p, "rest")
  BY <1>1 DEF At
<1>3. /\ TypeOK /\ p \in Devices /\ p \notin Desktops /\ Other(p) \in Desktops
      /\ Ran(Other(p), thread[p].kind, thread[p].code)
  BY <1>2, PhoneIs
<1> PICK d \in Desktops : d = Other(p)
  BY <1>3
<1> DEFINE e == [m |-> "rows", rows |-> data[p]]
           run == [Now(p, "apply") EXCEPT !.rows = Head(Inbox(p)).rows]
<1>4. e \in Messages /\ e.m = "rows" /\ Read(p, <<e>>) /\ thread' = [thread EXCEPT ![p] = run]
  BY <1>1, <1>3 DEF Messages, TypeOK, TakeRows
<1> HIDE DEF e, run
<1>5. <<e>> \in Seq(Messages) /\ link[d].toDesktop \o <<e>> = Append(link[d].toDesktop, e)
  BY <1>3, <1>4, OneIs, WroteOne
<1>6. /\ OnLine(p) /\ link[d].phone = p /\ link[d].code = thread[p].code
      /\ link[d].toPhone # << >> /\ 1 \in DOMAIN link[d].toPhone /\ link[d].toPhone[1].m = "rows"
      /\ Channel(d, Tail(link[d].toPhone), link[d].toDesktop \o <<e>>)
  <2> DEFINE sent == <<e>>
  <2>1. ~At(p, "rest") /\ Reads(p, "rows") /\ sent \in Seq(Messages) /\ Read(p, sent)
    BY <1>1, <1>2, <1>4, <1>5
  <2> HIDE DEF sent
  <2>2. /\ OnLine(p) /\ link[d].phone = p /\ link[d].code = thread[p].code
        /\ link[d].toPhone # << >> /\ 1 \in DOMAIN link[d].toPhone /\ link[d].toPhone[1].m = "rows"
        /\ Channel(d, Tail(link[d].toPhone), link[d].toDesktop \o sent)
    BY <2>1, PhoneReads
  <2> QED BY <2>2 DEF sent
<1>7. Head(Inbox(p)).rows \subseteq Devices
  <2>1. link[d].toPhone \in Seq(Messages) /\ Inbox(p) = link[d].toPhone
    BY <1>3, <1>6, LinkIs DEF Inbox
  <2>2. Head(Inbox(p)) \in Messages
    BY <1>6, <2>1, TailIs
  <2> QED BY <2>2 DEF Messages
<1>8. /\ run \in Runs /\ run.at = "apply" /\ run.kind = thread[p].kind /\ run.code = thread[p].code
      /\ run.desktop = thread[p].desktop
  <2>1. /\ Now(p, "apply") \in Runs /\ Now(p, "apply").at = "apply" /\ Now(p, "apply").kind = thread[p].kind
        /\ Now(p, "apply").code = thread[p].code /\ Now(p, "apply").desktop = thread[p].desktop
    BY <1>3, NowIs DEF PhoneStages
  <2> QED BY <1>7, <2>1 DEF run, Runs
<1>9. Moves(p, "apply")
  BY <1>3, <1>4, <1>8, Puts
<1>10. /\ Grows /\ PeersOK' /\ Kept' /\ KnowsItsDesktop' /\ StoredTogether'
  BY <1>1, NothingKept DEF dbVars, history
<1>11. KeepsOK'
  BY <1>1, <1>3, TypesStay DEF dbVars, history
<1>12. NetOK' /\ CallersStay
  BY <1>1, <1>3, <1>6, NetStays DEF Channel
<1>13. TypeOK' /\ Alone(p)
  BY <1>1, <1>2, <1>3, <1>9, <1>10, <1>11, <1>12, MoveTypes DEF PhoneStages
<1>14. thread[p].kind = "pair" => <<p, thread[p].code>> \in stored' /\ <<d, thread[p].code>> \in stored'
  BY <1>1, <1>3, <1>6 DEF ServiceInv, PhoneInv, PhoneHas, DesktopInv, Given, history
<1>15. Knows(p, d)
  BY <1>1 DEF ServiceInv, PhoneInv
<1>16. PhoneInv(p)'
  BY <1>2, <1>9, <1>10, <1>14, <1>15, PhoneMoves DEF Grows
<1>17. thread'[p].at # "reply" /\ window' = window
  BY <1>1, <1>9 DEF Moves
<1> QED BY <1>4, <1>5, <1>6, <1>10, <1>12, <1>13, <1>16, <1>17, PhoneWrites

LEMMA ApplyKeeps ==
  ASSUME ServiceInv, NEW p \in Phones, Apply(p)
  PROVE  ServiceInv'
<1>1. /\ thread[p].at = "apply" /\ thread' = [thread EXCEPT ![p] = Now(p, "done")]
      /\ UNCHANGED <<status, cancel, answer, locked, scope, peers, record, netVars, codes, matched, stored, removed>>
      /\ data' = [data EXCEPT ![p] = @ \cup thread[p].rows] /\ took' = took \cup {<<p, Other(p)>>}
  BY DEF Apply, At
<1>2. ~At(p, "rest")
  BY <1>1 DEF At
<1>3. TypeOK /\ p \in Devices /\ p \notin Desktops /\ Other(p) \in Desktops
  BY <1>2, PhoneIs
<1> PICK d \in Desktops : d = Other(p)
  BY <1>3
<1>4. data' \in [Devices -> SUBSET Devices] /\ \A q \in Phones \ {p} : data'[q] = data[q]
  <2>1. thread[p].rows \subseteq Devices
    BY <1>3, ShownIs DEF Runs
  <2> QED BY <1>1, <1>3, <2>1 DEF TypeOK, Devices
<1>5. took' \subseteq Phones \X Desktops
  BY <1>1, <1>3 DEF TypeOK
<1>6. KeepsOK'
  BY <1>1, <1>3, <1>4, <1>5 DEF TypeOK, KeepsOK
<1>7. Grows
  BY <1>1, GrowsAlone
<1>8. PeersOK' /\ Kept' /\ StoredTogether'
  BY <1>1, <1>3, <1>7, PeersStay, KeptSame, StoredSame
<1>9. Knows(p, d)
  BY <1>1 DEF ServiceInv, PhoneInv
<1>10. KnowsItsDesktop'
  <2> SUFFICES ASSUME NEW q \in Phones
               PROVE  /\ \A e \in Desktops : <<q, e>> \in took' => Knows(q, e)'
                      /\ data'[q] \subseteq {q} \/ \E e \in Desktops : <<q, e>> \in took'
    BY DEF KnowsItsDesktop, Knows
  <2>1. /\ \A e \in Desktops : <<q, e>> \in took => Knows(q, e)
        /\ data[q] \subseteq {q} \/ \E e \in Desktops : <<q, e>> \in took
    BY DEF ServiceInv, KnowsItsDesktop, Knows
  <2>2. \A e \in Desktops : <<q, e>> \in took' => Knows(q, e)
    BY <1>1, <1>9, <2>1
  <2>3. data'[q] \subseteq {q} \/ \E e \in Desktops : <<q, e>> \in took'
    BY <1>1, <1>3, <1>4, <2>1
  <2> QED BY <1>7, <2>2, <2>3 DEF Grows
<1>11. Moves(p, "done")
  BY <1>1, <1>3, NowIs, Puts DEF PhoneStages
<1>12. NetOK' /\ CallersStay /\ Channels /\ window' = window
  BY <1>1, <1>3, NetStays DEF netVars, TypeOK, Channels, SameChannel
<1>13. TypeOK' /\ Alone(p)
  BY <1>1, <1>2, <1>3, <1>6, <1>8, <1>11, <1>12, MoveTypes DEF PhoneStages
<1>14. thread[p].kind = "pair" => <<p, thread[p].code>> \in stored' /\ <<d, thread[p].code>> \in stored'
  BY <1>1 DEF ServiceInv, PhoneInv, PhoneHas
<1>15. PhoneInv(p)'
  BY <1>2, <1>7, <1>9, <1>11, <1>14, PhoneMoves DEF Grows
<1> QED BY <1>7, <1>8, <1>10, <1>11, <1>12, <1>13, <1>15, PhoneGoesOn DEF Moves

(* The last message is read, and the channel goes down with the run.       *)
LEMMA LastOfDesktop ==
  ASSUME TypeOK, NEW d \in Desktops, link[d].toDesktop # << >>,
         link' = [link EXCEPT ![d].toDesktop = Tail(@), ![d].up = FALSE]
  PROVE  Channel(d, link[d].toPhone, Tail(link[d].toDesktop))
<1> DEFINE toDesktop == Tail(link[d].toDesktop)
           read == [link[d] EXCEPT !.toDesktop = toDesktop]
           new == [read EXCEPT !.up = FALSE]
<1>1. link[d] \in Links /\ link[d].toPhone \in Seq(Messages) /\ link[d].toDesktop \in Seq(Messages)
  BY LinkIs
<1>2. toDesktop \in Seq(Messages)
  BY <1>1, TailIs
<1>6. link' = [link EXCEPT ![d] = new]
  OBVIOUS
<1> HIDE DEF toDesktop
<1>3. Carries(read, link[d], link[d].toPhone, toDesktop)
  BY <1>1, <1>2 DEF Links, Carries
<1> HIDE DEF read
<1>4. Carries(new, read, read.toPhone, read.toDesktop)
  BY <1>3, LinkDown DEF Carries
<1> HIDE DEF new
<1>5. Channel(d, new.toPhone, new.toDesktop)
  BY <1>3, <1>4, <1>6, ChannelIs DEF Carries
<1> QED BY <1>3, <1>4, <1>5 DEF Carries, toDesktop

LEMMA LastOfPhone ==
  ASSUME TypeOK, NEW d \in Desktops, NEW e \in Messages, link[d].toPhone # << >>,
         link' = [link EXCEPT ![d].toPhone = Tail(@), ![d].toDesktop = Append(@, e), ![d].up = FALSE]
  PROVE  Channel(d, Tail(link[d].toPhone), Append(link[d].toDesktop, e))
<1> DEFINE toPhone == Tail(link[d].toPhone)
           toDesktop == Append(link[d].toDesktop, e)
           read == [[link[d] EXCEPT !.toPhone = toPhone] EXCEPT !.toDesktop = toDesktop]
           new == [read EXCEPT !.up = FALSE]
<1>1. link[d] \in Links /\ link[d].toPhone \in Seq(Messages) /\ link[d].toDesktop \in Seq(Messages)
  BY LinkIs
<1>2. toPhone \in Seq(Messages) /\ toDesktop \in Seq(Messages)
  BY <1>1, TailIs, AppendIs
<1>6. link' = [link EXCEPT ![d] = new]
  OBVIOUS
<1> HIDE DEF toPhone, toDesktop
<1>3. Carries(read, link[d], toPhone, toDesktop)
  BY <1>1, <1>2, LinkWith
<1> HIDE DEF read
<1>4. Carries(new, read, read.toPhone, read.toDesktop)
  BY <1>3, LinkDown DEF Carries
<1> HIDE DEF new
<1>5. Channel(d, new.toPhone, new.toDesktop)
  BY <1>3, <1>4, <1>6, ChannelIs DEF Carries
<1> QED BY <1>3, <1>4, <1>5 DEF Carries, toPhone, toDesktop

LEMMA DoneKeeps ==
  ASSUME ServiceInv, NEW x \in Devices, Done(x)
  PROVE  ServiceInv'
<1> DEFINE shown == [state |-> "done", kind |-> thread[x].kind, code |-> thread[x].code]
<1>1. /\ TypeOK /\ thread[x].at = "done" /\ Reads(x, "done") /\ thread' = [thread EXCEPT ![x] = Rest]
      /\ UNCHANGED <<cancel, answer, locked, scope, dbVars, window, backlog, history>>
  BY DEF ServiceInv, Done, At
<1>2. /\ Grows /\ PeersOK' /\ Kept' /\ KnowsItsDesktop'
  BY <1>1, NothingKept DEF dbVars, history
<1>3. KeepsOK'
  BY <1>1, TypesStay DEF dbVars, history
<1>4. Rests(x) /\ Alone(x)
  BY <1>1, RestIs DEF Rests, Alone, TypeOK
<1>5. /\ thread[x].kind \in Kinds /\ thread[x].code \in Nat
      /\ status \in [Devices -> [state : States, kind : Kinds, code : Nat]]
  BY <1>1, ShownIs
<1>6. shown \in [state : States, kind : Kinds, code : Nat] /\ shown.state = "done" /\ status' = [status EXCEPT ![x] = shown]
  BY <1>5 DEF Done, States
<1>7. shown.kind = thread[x].kind /\ shown.code = thread[x].code
  OBVIOUS
<1> HIDE DEF shown
<1>8. ASSUME link' \in [Desktops -> Links]
      PROVE  TypeOK'
  <2>1. NetOK'
    BY <1>1, <1>8, NetStays
  <2>2. thread' \in [Devices -> Runs] /\ thread'[x].at = "rest"
    BY <1>4, RestIs DEF Rests
  <2> QED BY <1>1, <1>2, <1>3, <1>4, <1>6, <2>1, <2>2, TypesKept DEF DesktopStages, PhoneStages
<1>9. \A e \in stored : e[1] \in Desktops => \E p \in Phones : <<p, e[2]>> \in stored
  BY DEF ServiceInv, StoredTogether
<1>10. ASSUME thread[x].kind = "pair" =>
               (\E d \in Desktops : <<d, thread[x].code>> \in stored) /\ (\E p \in Phones : <<p, thread[x].code>> \in stored)
       PROVE  StoredTogether'
  <2>1. stored' = stored
    BY <1>1 DEF history
  <2>2. ASSUME NEW y \in Devices, status'[y].state = "done", status'[y].kind = "pair"
        PROVE  \A side \in {Desktops, Phones} : \E z \in side : <<z, status'[y].code>> \in stored
    <3>1. CASE y = x
      <4>1. status'[x] = shown
        BY <1>5, <1>6
      <4> QED BY <1>7, <1>10, <2>2, <3>1, <4>1
    <3>2. CASE y # x
      <4>1. status'[y] = status[y]
        BY <1>5, <1>6, <3>2
      <4> QED BY <2>2, <4>1 DEF ServiceInv, StoredTogether
    <3> QED BY <3>1, <3>2
  <2> QED BY <1>9, <2>1, <2>2 DEF StoredTogether
<1>11. CASE x \in Desktops
  <2>1. x \notin Phones /\ Inbox(x) = link[x].toDesktop /\ link[x].toDesktop # << >>
    BY <1>1, <1>11, Apart DEF Inbox, Reads
  <2>2. link' = [link EXCEPT ![x].toDesktop = Tail(@), ![x].up = FALSE]
    BY <2>1 DEF Done
  <2>3. Channel(x, link[x].toPhone, Tail(link[x].toDesktop))
    BY <1>1, <1>11, <2>1, <2>2, LastOfDesktop
  <2>4. TypeOK' /\ CallersStay
    BY <1>1, <1>8, <2>3, NetStays DEF Channel
  <2>5. StoredTogether'
    <3>1. thread[x].kind = "pair" => <<x, thread[x].code>> \in stored
      BY <1>1, <1>11 DEF ServiceInv, DesktopInv, DesktopHas
    <3>2. thread[x].kind = "pair" => \E p \in Phones : <<p, thread[x].code>> \in stored
      <4> SUFFICES ASSUME thread[x].kind = "pair" PROVE \E p \in Phones : <<p, thread[x].code>> \in stored
        OBVIOUS
      <4> DEFINE e == <<x, thread[x].code>>
      <4>1. e \in stored /\ e[1] = x /\ e[2] = thread[x].code
        BY <3>1
      <4> HIDE DEF e
      <4> QED BY <1>9, <1>11, <4>1
    <3> QED BY <1>10, <1>11, <3>1, <3>2
  <2>6. window'[x] = NoWindow
    BY <1>1, <1>11 DEF ServiceInv, DesktopInv, Opening, At
  <2>7. \A e \in Desktops \ {x} : window'[e] = window[e] /\ SameChannel(e)
    BY <1>1, <2>3 DEF Channel
  <2>8. /\ link'[x].phone = link[x].phone /\ link'[x].code = link[x].code /\ link'[x].toPhone = link[x].toPhone
        /\ link'[x].toDesktop = Tail(link[x].toDesktop) /\ thread[x].at \in Talking
    BY <1>1, <2>3 DEF Channel, Talking
  <2> QED BY <1>2, <1>4, <1>11, <2>1, <2>4, <2>5, <2>6, <2>7, <2>8, DesktopRests
<1>12. CASE x \in Phones
  <2>1. x \notin Desktops /\ Other(x) \in Desktops /\ ~At(x, "rest")
    BY <1>1, <1>12, Apart DEF TypeOK, At
  <2> PICK d \in Desktops : d = Other(x)
    BY <2>1
  <2>2. OnLine(x) /\ link[d].toPhone # << >>
    BY <1>1, <2>1 DEF Inbox, Reads
  <2>3. Msg("done") \in Messages /\ Msg("done").m = "done"
    BY MsgIs
  <2>4. link' = [link EXCEPT ![d].toPhone = Tail(@), ![d].toDesktop = Append(@, Msg("done")), ![d].up = FALSE]
    BY <1>12 DEF Done
  <2>5. Channel(d, Tail(link[d].toPhone), Append(link[d].toDesktop, Msg("done")))
    BY <1>1, <2>2, <2>3, <2>4, LastOfPhone
  <2>6. TypeOK' /\ CallersStay
    BY <1>1, <1>8, <2>5, NetStays DEF Channel
  <2>7. StoredTogether'
    <3>1. thread[x].kind = "pair" => <<x, thread[x].code>> \in stored /\ <<d, thread[x].code>> \in stored
      BY <1>1, <1>12 DEF ServiceInv, PhoneInv, PhoneHas
    <3> QED BY <1>10, <1>12, <3>1
  <2>8. thread'[x].at = "rest" /\ PhoneInv(x)'
    BY <1>4, <1>12, PhoneRests
  <2> QED BY <1>1, <1>2, <1>4, <1>12, <2>2, <2>3, <2>5, <2>6, <2>7, <2>8, PhoneWrites
<1> QED BY <1>11, <1>12 DEF Devices

-----------------------------------------------------------------------------
(* Steps of people and of the network, which no run takes.                 *)
LEMMA QuietKeeps ==
  ASSUME ServiceInv, TypeOK', thread' = thread, window' = window, Channels, CallersStay, Grows,
         Kept', StoredTogether', KnowsItsDesktop'
  PROVE  ServiceInv'
<1>1. Numbered'
  BY DEF Grows
<1>2. ASSUME NEW d \in Desktops
      PROVE  DesktopInv(d)'
  BY DesktopSame DEF ServiceInv, TypeOK, Channels
<1>3. ASSUME NEW p \in Phones
      PROVE  PhoneInv(p)'
  BY PhoneSame DEF ServiceInv, TypeOK
<1>4. ASSUME NEW p \in Phones
      PROVE  Greeting(p)'
  <2>1. Greeting(p) /\ (At(p, "reply") => Other(p) \in Desktops)
    BY DEF ServiceInv, TypeOK, At
  <2>2. At(p, "reply") => SameChannel(Other(p))
    BY <2>1 DEF Channels
  <2> QED BY <2>1, <2>2 DEF Greeting, At, Other, OnLine, SameChannel
<1> QED BY <1>1, <1>2, <1>3, <1>4 DEF ServiceInv

LEMMA NetSame ==
  ASSUME TypeOK, UNCHANGED netVars
  PROVE  window' = window /\ Channels /\ CallersStay
BY DEF TypeOK, netVars, Channels, SameChannel, CallersStay

LEMMA PeopleKeep ==
  ASSUME ServiceInv, NEW x \in Devices,
         \/ \E digits \in {"right", "wrong"} : Type(x, digits)
         \/ Decide(x) \/ Cancel(x) \/ Lock(x) \/ LockCancels(x) \/ Unlock(x)
  PROVE  ServiceInv'
<1>1. TypeOK
  BY DEF ServiceInv
<1>2. UNCHANGED <<thread, status, dbVars, netVars, history, scope>>
  BY DEF Type, Decide, Cancel, Lock, LockCancels, Unlock, threadVars
<1>3. cancel' \in [Devices -> BOOLEAN]
  BY <1>1 DEF TypeOK, Type, Decide, Cancel, Lock, LockCancels, Unlock
<1>4. answer' \in [Devices -> {"none", "right", "wrong", "chosen"}]
  BY <1>1 DEF TypeOK, Type, Decide, Cancel, Lock, LockCancels, Unlock, threadVars
<1>5. locked' \in [Devices -> {"no", "closing", "yes"}]
  BY <1>1 DEF TypeOK, Type, Decide, Cancel, Lock, LockCancels, Unlock
<1>6. TypeOK'
  BY <1>1, <1>2, <1>3, <1>4, <1>5 DEF TypeOK, dbVars, netVars, history, At, Other
<1>7. /\ Grows /\ Kept' /\ KnowsItsDesktop' /\ StoredTogether'
  BY <1>2, NothingKept DEF dbVars, history
<1>8. window' = window /\ Channels /\ CallersStay
  BY <1>1, <1>2, NetSame
<1> QED BY <1>2, <1>6, <1>7, <1>8, QuietKeeps

LEMMA AcknowledgeKeeps ==
  ASSUME ServiceInv, NEW x \in Devices, Acknowledge(x)
  PROVE  ServiceInv'
<1>1. TypeOK /\ UNCHANGED <<thread, answer, cancel, locked, dbVars, netVars, history, scope>>
  BY DEF ServiceInv, Acknowledge
<1>2. Shown("idle") \in [state : States, kind : Kinds, code : Nat] /\ Shown("idle").state = "idle"
  BY DEF Shown, States, Kinds
<1>3. /\ status' \in [Devices -> [state : States, kind : Kinds, code : Nat]] /\ status'[x].state = "idle"
      /\ \A y \in Devices \ {x} : status'[y] = status[y]
  <2>1. status' = [status EXCEPT ![x] = Shown("idle")] /\ status \in [Devices -> [state : States, kind : Kinds, code : Nat]]
    BY <1>1 DEF Acknowledge, TypeOK
  <2> HIDE DEF Shown
  <2> QED BY <1>2, <2>1
<1>4. TypeOK'
  BY <1>1, <1>3 DEF TypeOK, dbVars, netVars, history, At, Other
<1>5. /\ Grows /\ Kept' /\ KnowsItsDesktop' /\ StoredTogether'
  BY <1>1, <1>3, NothingKept DEF dbVars, history
<1>6. window' = window /\ Channels /\ CallersStay
  BY <1>1, NetSame
<1> QED BY <1>1, <1>4, <1>5, <1>6, QuietKeeps

LEMMA WriteKeeps ==
  ASSUME ServiceInv, NEW x \in Devices, Write(x)
  PROVE  ServiceInv'
<1>1. /\ TypeOK /\ data' = [data EXCEPT ![x] = @ \cup {x}]
      /\ UNCHANGED <<thread, status, answer, cancel, locked, peers, record, netVars, history, scope>>
  BY DEF ServiceInv, Write, threadVars
<1>2. data' \in [Devices -> SUBSET Devices] /\ \A p \in Phones : data'[p] \subseteq data[p] \cup {p}
  BY <1>1 DEF TypeOK, Devices
<1>3. TypeOK'
  BY <1>1, <1>2 DEF TypeOK, netVars, history, At, Other
<1>4. Grows
  BY <1>1, GrowsAlone DEF history
<1>5. Kept' /\ KnowsItsDesktop' /\ StoredTogether'
  BY <1>1, <1>2, <1>4, KeptSame, KnowsSame, StoredSame DEF history
<1>6. window' = window /\ Channels /\ CallersStay
  BY <1>1, NetSame
<1> QED BY <1>1, <1>3, <1>4, <1>5, <1>6, QuietKeeps

LEMMA RemoveDeviceKeeps ==
  ASSUME ServiceInv, NEW x \in Devices, NEW y \in Devices, RemoveDevice(x, y)
  PROVE  ServiceInv'
<1>1. /\ TypeOK /\ peers' = [peers EXCEPT ![x] = Without(x, y)] /\ removed' = removed \cup {<<x, y>>}
      /\ UNCHANGED <<thread, status, answer, cancel, locked, data, record, netVars, codes, matched, stored, took, scope>>
  BY DEF ServiceInv, RemoveDevice, threadVars
<1> DEFINE w == Without(x, y)
           S == [who : Devices, secret : Nat]
<1>2. /\ w \in Seq(S)
      /\ \A i \in DOMAIN w : \E j \in DOMAIN peers[x] : w[i] = peers[x][j]
      /\ \A j \in DOMAIN peers[x] : peers[x][j].who # y => \E i \in DOMAIN w : w[i] = peers[x][j]
      /\ \A i, j \in DOMAIN w : w[i].who = w[j].who => i = j
  <2>1. TypeOK
    BY <1>1
  <2> QED BY <2>1, WithoutIs, ZenonT(40)
<1>3. peers \in [Devices -> Seq(S)] /\ peers' = [peers EXCEPT ![x] = w]
  BY <1>1 DEF TypeOK
<1> HIDE DEF w, S
<1>4. peers' \in [Devices -> Seq(S)] /\ peers'[x] = w /\ \A z \in Devices \ {x} : peers'[z] = peers[z]
  BY <1>2, <1>3
<1>5. PeersOK'
  <2>1. ASSUME NEW z \in Devices, NEW i \in DOMAIN peers'[z], NEW j \in DOMAIN peers'[z], peers'[z][i].who = peers'[z][j].who
        PROVE  i = j
    <3>1. CASE z = x
      BY <1>2, <1>4, <2>1, <3>1
    <3>2. CASE z # x
      BY <1>1, <1>4, <2>1, <3>2 DEF TypeOK
    <3> QED BY <3>1, <3>2
  <2> QED BY <1>4, <2>1 DEF PeersOK, S
<1>6. removed' \subseteq Devices \X Devices
  BY <1>1 DEF TypeOK
<1>7. TypeOK'
  BY <1>1, <1>5, <1>6 DEF TypeOK, PeersOK, netVars, At, Other
<1>8. \A p \in Phones, d \in Desktops : Knows(p, d) => Knows(p, d)'
  <2> SUFFICES ASSUME NEW p \in Phones, NEW d \in Desktops, Knows(p, d)
               PROVE  d \in Known(p)' \/ <<p, d>> \in removed'
    BY DEF Knows
  <2>1. CASE <<p, d>> \in removed \/ (p = x /\ d = y)
    BY <1>1, <2>1
  <2>2. CASE ~(<<p, d>> \in removed \/ (p = x /\ d = y))
    <3>1. PICK j \in DOMAIN peers[p] : peers[p][j].who = d
      BY <2>2 DEF Knows, Known
    <3>2. CASE p = x
      <4>1. PICK i \in DOMAIN w : w[i] = peers[x][j]
        BY <1>2, <2>2, <3>1, <3>2
      <4> QED BY <1>4, <3>1, <3>2, <4>1 DEF Known
    <3>3. CASE p # x
      <4>1. peers'[p] = peers[p]
        BY <1>4, <3>3 DEF Devices
      <4> QED BY <3>1, <4>1 DEF Known
    <3> QED BY <3>2, <3>3
  <2> QED BY <2>1, <2>2
<1>9. Grows
  BY <1>1, <1>8 DEF Grows, ServiceInv, Numbered
<1>10. \A z \in Devices : \A i \in DOMAIN peers'[z] : \E j \in DOMAIN peers[z] : peers'[z][i] = peers[z][j]
  BY <1>2, <1>4
<1>11. Kept'
  <2>1. /\ \A z \in Devices : \A i \in DOMAIN peers[z] : peers[z][i].secret \in matched
        /\ \A d \in Desktops : \A i \in DOMAIN peers[d] : Ran(d, "pair", peers[d][i].secret)
        /\ \A p \in Phones : \A i \in DOMAIN peers[p] : peers[p][i].who \in Desktops /\ Ran(peers[p][i].who, "pair", peers[p][i].secret)
    BY DEF ServiceInv, Kept
  <2>2. matched' = matched /\ codes' = codes /\ Desktops \subseteq Devices /\ Phones \subseteq Devices
    BY <1>1 DEF Devices
  <2>3. \A z \in Devices : \A i \in DOMAIN peers'[z] : peers'[z][i].secret \in matched'
    BY <1>10, <2>1, <2>2
  <2>4. ASSUME NEW d \in Desktops, NEW i \in DOMAIN peers'[d]
        PROVE  Ran(d, "pair", peers[d][i].secret)'
    BY <1>10, <2>1, <2>2 DEF Ran
  <2>5. ASSUME NEW p \in Phones, NEW i \in DOMAIN peers'[p]
        PROVE  peers'[p][i].who \in Desktops /\ Ran(peers[p][i].who, "pair", peers[p][i].secret)'
    BY <1>10, <2>1, <2>2 DEF Ran
  <2> QED BY <2>3, <2>4, <2>5 DEF Kept
<1>12. KnowsItsDesktop' /\ StoredTogether'
  BY <1>1, <1>9, KnowsSame, StoredSame
<1>13. window' = window /\ Channels /\ CallersStay
  BY <1>1, NetSame
<1> QED BY <1>1, <1>7, <1>9, <1>11, <1>12, <1>13, QuietKeeps

LEMMA StrangerKeeps ==
  ASSUME ServiceInv, NEW d \in Desktops, Stranger(d)
  PROVE  ServiceInv'
<1> DEFINE c == [phone |-> "stranger", key |-> Key(0, 0), live |-> TRUE]
           waiting == Append(backlog[d], c)
<1>1. /\ TypeOK /\ backlog' = [backlog EXCEPT ![d] = waiting] /\ backlog \in [Desktops -> Seq(Callers)]
      /\ UNCHANGED <<thread, status, answer, cancel, locked, dbVars, window, link, history, scope>>
  BY DEF ServiceInv, Stranger, threadVars, TypeOK
<1>2. c \in Callers /\ c.phone = "stranger" /\ c.key = Key(0, 0) /\ c.key.number = 0
  BY DEF Callers, Key, Keys
<1> HIDE DEF c
<1>3. /\ waiting \in Seq(Callers)
      /\ \A i \in DOMAIN waiting : (i \in DOMAIN backlog[d] /\ waiting[i] = backlog[d][i]) \/ waiting[i] = c
  BY <1>1, <1>2, AppendIs
<1> HIDE DEF waiting
<1>4. backlog' \in [Desktops -> Seq(Callers)] /\ backlog'[d] = waiting /\ \A e \in Desktops \ {d} : backlog'[e] = backlog[e]
  BY <1>1, <1>3
<1>5. TypeOK'
  BY <1>1, <1>4 DEF TypeOK, dbVars, history, At, Other
<1>6. CallersStay
  <2>1. ASSUME NEW e \in Desktops, NEW i \in DOMAIN backlog'[e]
        PROVE  \/ \E j \in DOMAIN backlog[e] : backlog'[e][i].phone = backlog[e][j].phone /\ backlog'[e][i].key = backlog[e][j].key
               \/ Rightful(backlog[e][i])'
    <3>1. (\E j \in DOMAIN backlog[e] : backlog'[e][i] = backlog[e][j]) \/ backlog'[e][i] = c
      BY <1>3, <1>4
    <3>2. backlog'[e][i] = c => Rightful(backlog[e][i])'
      BY <1>2 DEF Rightful, Key
    <3> QED BY <3>1, <3>2
  <2> QED BY <1>4, <2>1 DEF CallersStay
<1>7. Channels
  BY <1>1 DEF Channels, SameChannel, TypeOK
<1>8. /\ Grows /\ Kept' /\ KnowsItsDesktop' /\ StoredTogether'
  BY <1>1, NothingKept DEF dbVars, history
<1> QED BY <1>1, <1>5, <1>6, <1>7, <1>8, QuietKeeps

LEMMA StutterKeeps ==
  ASSUME ServiceInv, UNCHANGED vars
  PROVE  ServiceInv'
<1>1. TypeOK /\ UNCHANGED <<thread, status, cancel, answer, locked, dbVars, netVars, history, scope>>
  BY DEF ServiceInv, vars
<1>2. TypeOK'
  BY <1>1 DEF TypeOK, dbVars, netVars, history, At, Other
<1>3. /\ Grows /\ Kept' /\ KnowsItsDesktop' /\ StoredTogether'
  BY <1>1, NothingKept DEF dbVars, history
<1>4. window' = window /\ Channels /\ CallersStay
  BY <1>1, NetSame
<1> QED BY <1>1, <1>2, <1>3, <1>4, QuietKeeps

LEMMA BreakKeeps ==
  ASSUME ServiceInv, NEW d \in Desktops, Break(d)
  PROVE  ServiceInv'
<1>1. /\ TypeOK /\ DesktopInv(d) /\ d \in Devices /\ backlog \in [Desktops -> Seq(Callers)]
      /\ UNCHANGED <<thread, status, answer, cancel, locked, dbVars, window, backlog, history, scope>>
  BY DEF ServiceInv, Break, threadVars, TypeOK, Devices
<1> DEFINE down == [link[d] EXCEPT !.up = FALSE]
           cut == [[down EXCEPT !.toPhone = << >>] EXCEPT !.toDesktop = << >>]
<1>2. PICK new \in {down, cut} : link' = [link EXCEPT ![d] = new]
  <2>1. PICK lost \in BOOLEAN :
          link' = [link EXCEPT ![d] = IF lost THEN [@ EXCEPT !.up = FALSE, !.toPhone = << >>, !.toDesktop = << >>]
                                      ELSE [@ EXCEPT !.up = FALSE]]
    BY DEF Break
  <2>2. CASE lost
    <3>1. link' = [link EXCEPT ![d] = cut]
      BY <2>1, <2>2
    <3> HIDE DEF cut
    <3> QED BY <3>1
  <2>3. CASE ~lost
    <3>1. link' = [link EXCEPT ![d] = down]
      BY <2>1, <2>3
    <3> HIDE DEF down
    <3> QED BY <3>1
  <2> QED BY <2>1, <2>2, <2>3
<1>3. link[d] \in Links /\ << >> \in Seq(Messages)
  BY <1>1, LinkIs, EmptyIs
<1>4. Carries(down, link[d], link[d].toPhone, link[d].toDesktop)
  BY <1>3, LinkDown
<1> HIDE DEF down
<1>5. Carries(cut, down, << >>, << >>)
  <2>1. down \in Links
    BY <1>4 DEF Carries
  <2> QED BY <1>3, <2>1, LinkWith
<1> HIDE DEF cut
<1>6. /\ new \in Links /\ new.phone = link[d].phone /\ new.code = link[d].code
      /\ new.toPhone \in {link[d].toPhone, << >>} /\ new.toDesktop \in {link[d].toDesktop, << >>}
  BY <1>2, <1>4, <1>5 DEF Carries
<1>9. Channel(d, new.toPhone, new.toDesktop)
  BY <1>1, <1>2, <1>6, ChannelIs
<1>10. /\ link'[d].phone = link[d].phone /\ link'[d].code = link[d].code
       /\ link'[d].toPhone \in {link[d].toPhone, << >>} /\ link'[d].toDesktop \in {link[d].toDesktop, << >>}
  BY <1>6, <1>9 DEF Channel
<1>11. /\ Grows /\ PeersOK' /\ Kept' /\ KnowsItsDesktop' /\ StoredTogether'
  BY <1>1, NothingKept DEF dbVars, history
<1>12. NetOK' /\ CallersStay
  BY <1>1, <1>9, NetStays DEF Channel
<1>13. TypeOK'
  BY <1>1, <1>12 DEF TypeOK, NetOK, dbVars, history, At, Other
<1>14. Told(d) /\ Sent(d)
  BY <1>1, <1>10, FewerAreTold, FewerAreSent
<1>15. /\ link'[d].code # 0 => \E kind \in {"pair", "sync"} : Ran(d, kind, link[d].code)'
       /\ Agreed(d)' /\ Given(d)' /\ Waiting(d)' /\ Met(d)'
  BY <1>1, <1>10, <1>11, <1>12, <1>14, Carried
<1>16. DesktopRuns(d)' /\ Opening(d)' /\ DesktopHas(d)'
  BY <1>1, <1>10 DEF DesktopInv, DesktopRuns, Opening, DesktopHas, Ran, At, history
<1>17. Linked(d)'
  BY <1>1, <1>10, <1>15 DEF DesktopInv, Linked, At
<1>18. Greeted(d)'
  BY <1>1, <1>10, EmptyIs DEF DesktopInv, Greeted, At, history
<1>19. DesktopInv(d)'
  BY <1>15, <1>16, <1>17, <1>18 DEF DesktopInv
<1>20. \A e \in Desktops \ {d} : window'[e] = window[e] /\ SameChannel(e)
  BY <1>1, <1>9 DEF Channel
<1>21. \A p \in Phones : Other(p) = d => Greeting(p)'
  BY <1>1, <1>10 DEF ServiceInv, Greeting, At, Other, OnLine
<1>22. Alone(d)
  BY <1>1 DEF Alone
<1> QED BY <1>11, <1>12, <1>13, <1>19, <1>20, <1>21, <1>22, DesktopSteps

-----------------------------------------------------------------------------
(* Runs that start.                                                        *)
LEMMA BeginIs ==
  ASSUME TypeOK, NEW x \in Devices, NEW run \in Runs, Begin(x, run)
  PROVE  /\ thread' \in [Devices -> Runs] /\ thread'[x] = run /\ Alone(x) /\ At(x, "rest")
         /\ cancel' \in [Devices -> BOOLEAN] /\ answer' \in [Devices -> {"none", "right", "wrong", "chosen"}]
BY DEF TypeOK, Begin, Alone

LEMMA StartKeeps ==
  ASSUME ServiceInv, NEW d \in Desktops, StartPairing(d) \/ StartSync(d)
  PROVE  ServiceInv'
<1>1. TypeOK /\ DesktopInv(d) /\ d \in Devices /\ UNCHANGED <<locked, dbVars, netVars, history, scope>>
  BY DEF ServiceInv, StartPairing, StartSync, Devices
<1>2. PICK kind \in {"pair", "sync"} : Begin(d, Run("starting", kind, 0, "none"))
  BY DEF StartPairing, StartSync
<1> DEFINE run == Run("starting", kind, 0, "none")
<1>3. run \in Runs /\ run.at = "starting" /\ run.kind = kind
  BY DEF Run, Runs, DesktopStages, PhoneStages, Kinds
<1> HIDE DEF run
<1>4. /\ thread' \in [Devices -> Runs] /\ thread'[d] = run /\ Alone(d) /\ At(d, "rest")
      /\ cancel' \in [Devices -> BOOLEAN] /\ answer' \in [Devices -> {"none", "right", "wrong", "chosen"}]
  BY <1>1, <1>2, <1>3, BeginIs DEF run
<1> DEFINE shown == Shown("idle")
<1>5. shown \in [state : States, kind : Kinds, code : Nat] /\ shown.state = "idle" /\ status' = [status EXCEPT ![d] = shown]
  BY DEF Shown, States, Kinds, StartPairing, StartSync
<1> HIDE DEF shown
<1>6. \A y \in Devices : status'[y] = status[y] \/ status'[y].state # "done"
  BY <1>1, <1>5 DEF TypeOK
<1>7. /\ Grows /\ PeersOK' /\ Kept' /\ KnowsItsDesktop' /\ StoredTogether'
  BY <1>1, <1>6, NothingKept DEF dbVars, history
<1>8. KeepsOK'
  BY <1>1, <1>4 DEF TypeOK, KeepsOK, dbVars, history
<1>9. window' = window /\ Channels /\ CallersStay /\ NetOK'
  BY <1>1, NetSame DEF TypeOK, NetOK, netVars
<1>10. TypeOK'
  BY <1>1, <1>3, <1>4, <1>5, <1>7, <1>8, <1>9, Apart, TypesKept DEF DesktopStages
<1>11. window[d] = NoWindow
  BY <1>1, <1>4 DEF DesktopInv, Opening, At
<1>12. DesktopInv(d)'
  <2>1. SameChannel(d) /\ Told(d) /\ Sent(d)
    BY <1>1, <1>9, FewerAreTold, FewerAreSent DEF Channels, SameChannel
  <2>2. /\ link'[d].code # 0 => \E k \in {"pair", "sync"} : Ran(d, k, link[d].code)'
        /\ Agreed(d)' /\ Given(d)' /\ Waiting(d)' /\ Met(d)'
    BY <1>1, <1>7, <1>9, <2>1, Carried DEF SameChannel, TypeOK
  <2>3. NoWindow.keys = << >> /\ NoWindow.who = << >> /\ DOMAIN << >> = {}
    BY EmptyIs DEF NoWindow
  <2>4. thread'[d].at = "starting" /\ thread'[d].kind \in {"pair", "sync"}
    BY <1>3, <1>4
  <2>5. Opening(d)'
    BY <1>9, <1>11, <2>3, <2>4 DEF Opening, At
  <2>6. DesktopRuns(d)' /\ Linked(d)' /\ Greeted(d)' /\ DesktopHas(d)'
    BY <2>2, <2>4 DEF DesktopRuns, Linked, Greeted, DesktopHas, Talking, At
  <2> QED BY <2>2, <2>5, <2>6 DEF DesktopInv
<1>13. \A p \in Phones : Other(p) = d => Greeting(p)'
  <2>1. thread'[d].at \notin Talking
    BY <1>3, <1>4 DEF Talking
  <2> QED BY <1>4, <1>9, <2>1, DesktopGreets DEF Channels, SameChannel
<1>14. \A e \in Desktops \ {d} : window'[e] = window[e] /\ SameChannel(e)
  BY <1>9 DEF Channels
<1> QED BY <1>4, <1>7, <1>9, <1>10, <1>12, <1>13, <1>14, DesktopSteps

LEMMA ScanKeeps ==
  ASSUME ServiceInv, NEW p \in Phones, NEW c \in codes, Scan(p, c)
  PROVE  ServiceInv'
<1>1. TypeOK /\ p \in Devices /\ p \notin Desktops /\ UNCHANGED <<locked, dbVars, netVars, history, scope>>
  BY Apart DEF ServiceInv, Scan, Devices
<1>2. c \in Codes
  BY <1>1 DEF TypeOK
<1>3. /\ c.desktop \in Desktops /\ c.kind \in {"pair", "sync"} /\ c.code \in Nat \ {0}
      /\ c = [desktop |-> c.desktop, kind |-> c.kind, code |-> c.code]
  BY <1>2 DEF Codes
<1> DEFINE run == Run("starting", c.kind, c.code, c.desktop)
<1>4. run \in Runs /\ run.at = "starting" /\ run.kind = c.kind /\ run.code = c.code /\ run.desktop = c.desktop
  BY <1>3 DEF Run, Runs, DesktopStages, PhoneStages, Kinds
<1> HIDE DEF run
<1>5. /\ thread' \in [Devices -> Runs] /\ thread'[p] = run /\ Alone(p) /\ At(p, "rest")
      /\ cancel' \in [Devices -> BOOLEAN] /\ answer' \in [Devices -> {"none", "right", "wrong", "chosen"}]
  BY <1>1, <1>4, BeginIs DEF run, Scan
<1> DEFINE shown == [state |-> "connecting", kind |-> c.kind, code |-> c.code]
<1>6. shown \in [state : States, kind : Kinds, code : Nat] /\ shown.state = "connecting" /\ status' = [status EXCEPT ![p] = shown]
  BY <1>3 DEF Scan, States, Kinds
<1> HIDE DEF shown
<1>7. \A y \in Devices : status'[y] = status[y] \/ status'[y].state # "done"
  BY <1>1, <1>6 DEF TypeOK
<1>8. /\ Grows /\ PeersOK' /\ Kept' /\ KnowsItsDesktop' /\ StoredTogether'
  BY <1>1, <1>7, NothingKept DEF dbVars, history
<1>9. KeepsOK'
  BY <1>1, <1>5 DEF TypeOK, KeepsOK, dbVars, history
<1>10. window' = window /\ Channels /\ CallersStay /\ NetOK'
  BY <1>1, NetSame DEF TypeOK, NetOK, netVars
<1>11. TypeOK'
  BY <1>1, <1>3, <1>4, <1>5, <1>6, <1>8, <1>9, <1>10, TypesKept DEF PhoneStages
<1>12. PhoneInv(p)'
  <2>1. /\ thread'[p].at = "starting" /\ thread'[p].kind = c.kind /\ thread'[p].code = c.code /\ thread'[p].desktop = c.desktop
    BY <1>4, <1>5
  <2>2. Ran(c.desktop, c.kind, c.code)'
    BY <1>1, <1>3 DEF Ran, history
  <2>3. PhoneRuns(p)'
    BY <2>1, <2>2 DEF PhoneRuns, Ran, Other
  <2>4. PhoneHas(p)'
    BY <2>1 DEF PhoneHas
  <2> QED BY <2>1, <2>3, <2>4 DEF PhoneInv
<1>13. thread'[p].at # "reply"
  BY <1>4, <1>5
<1> QED BY <1>3, <1>5, <1>8, <1>10, <1>11, <1>12, <1>13, PhoneGoesOn

LEMMA OpenWindowKeeps ==
  ASSUME ServiceInv, NEW d \in Desktops, OpenWindow(d)
  PROVE  ServiceInv'
<1> DEFINE n == Cardinality(codes) + 1
           kind == thread[d].kind
           shownCode == [desktop |-> d, kind |-> kind, code |-> n]
           who == [i \in DOMAIN peers[d] |-> peers[d][i].who]
           keys == IF kind = "pair" THEN <<Key(n, 0)>> ELSE [i \in DOMAIN peers[d] |-> Key(peers[d][i].secret, n)]
           w == [code |-> n, bad |-> 0, connections |-> 0, who |-> who, keys |-> keys]
           moved == [thread[d] EXCEPT !.at = "window"]
           run == [moved EXCEPT !.code = n]
           shown == [state |-> "waiting", kind |-> kind, code |-> n]
<1>1. /\ TypeOK /\ DesktopInv(d) /\ d \in Devices /\ thread[d].at = "starting" /\ Numbered /\ kind \in {"pair", "sync"}
      /\ UNCHANGED <<cancel, answer, locked, dbVars, backlog, link, matched, stored, removed, took, scope>>
  BY DEF ServiceInv, OpenWindow, Devices, At, DesktopInv, DesktopRuns
<1>2. /\ window' = [window EXCEPT ![d] = w] /\ codes' = codes \cup {shownCode}
      /\ thread' = [thread EXCEPT ![d] = run] /\ status' = [status EXCEPT ![d] = shown]
  BY DEF OpenWindow
<1>3. IsFiniteSet(codes) /\ n \in Nat \ {0} /\ Cardinality(codes) \in Nat /\ \A c \in codes : c.code <= Cardinality(codes)
  BY <1>1, FS_CardinalityType DEF Numbered
<1> HIDE DEF who, keys
<1>4. shownCode \in Codes /\ shownCode.code = n /\ codes \subseteq Codes
  BY <1>1, <1>3 DEF Codes, TypeOK
<1>5. shown \in [state : States, kind : Kinds, code : Nat] /\ shown.state = "waiting"
  BY <1>1, <1>3 DEF States, Kinds
<1>6. run \in Runs /\ run.at = "window" /\ run.kind = kind /\ run.code = n
  <2>1. moved \in Runs /\ moved.at = "window" /\ moved.kind = kind
    <3>1. thread[d] \in Runs
      BY <1>1, ShownIs
    <3> QED BY <3>1 DEF Runs, DesktopStages
  <2> HIDE DEF moved, n
  <2> QED BY <1>3, <2>1 DEF Runs
<1> HIDE DEF shownCode, shown, moved, run
<1>7. \A c \in codes : c.code < n /\ c.code \in Nat
  BY <1>3, <1>4 DEF Codes
<1>8. Numbered'
  <2>1. shownCode \notin codes
    BY <1>3, <1>4, <1>7
  <2>2. IsFiniteSet(codes') /\ Cardinality(codes') = Cardinality(codes) + 1
    BY <1>2, <1>3, <2>1, FS_AddElement
  <2>3. \A c \in codes' : c.code <= Cardinality(codes')
    BY <1>2, <1>3, <1>4, <1>7, <2>2
  <2>4. \A b, c \in codes' : b.code = c.code => b = c
    BY <1>1, <1>2, <1>3, <1>4, <1>7 DEF Numbered
  <2> QED BY <2>2, <2>3, <2>4 DEF Numbered
<1>9. \A e \in Desktops : link[e].code < n
  <2> SUFFICES ASSUME NEW e \in Desktops PROVE link[e].code < n
    OBVIOUS
  <2>1. link[e].code \in Nat /\ Linked(e)
    BY <1>1, LinkIs DEF Links, ServiceInv, DesktopInv
  <2>2. CASE link[e].code = 0
    BY <1>3, <2>2
  <2>3. CASE link[e].code # 0
    <3>1. PICK k \in {"pair", "sync"} : Ran(e, k, link[e].code)
      BY <2>1, <2>3 DEF Linked
    <3> DEFINE c == [desktop |-> e, kind |-> k, code |-> link[e].code]
    <3>2. c \in codes /\ c.code = link[e].code
      BY <3>1 DEF Ran
    <3> HIDE DEF c
    <3> QED BY <1>7, <3>2
  <2> QED BY <2>2, <2>3
<1> HIDE DEF n
<1>10. \A e \in Desktops : link[e].code # n
  <2>1. \A e \in Desktops : link[e].code \in Nat
    BY <1>1, LinkIs DEF Links
  <2> QED BY <1>3, <1>9, <2>1
<1>11. Grows
  <2>1. \A e \in Desktops, c \in codes' \ codes : c.code # link[e].code
    BY <1>2, <1>4, <1>10
  <2>2. \A p \in Phones, e \in Desktops : Knows(p, e) => Knows(p, e)'
    BY <1>1 DEF Knows, Known, dbVars
  <2> QED BY <1>1, <1>2, <1>8, <2>1, <2>2 DEF Grows
<1>12. \A y \in Devices : status'[y] = status[y] \/ status'[y].state # "done"
  BY <1>1, <1>2, <1>5 DEF TypeOK
<1>13. PeersOK' /\ Kept' /\ KnowsItsDesktop' /\ StoredTogether'
  BY <1>1, <1>11, <1>12, PeersStay, KeptSame, KnowsSame, StoredSame DEF dbVars
<1>14. codes' \subseteq Codes
  BY <1>2, <1>4
<1>15. KeepsOK'
  BY <1>1, <1>14 DEF TypeOK, KeepsOK, dbVars
<1>17. who \in Seq(Devices) /\ DOMAIN who = DOMAIN peers[d]
  <2>1. DOMAIN peers[d] = 1..Len(peers[d]) /\ Len(peers[d]) \in Nat /\ \A i \in DOMAIN peers[d] : peers[d][i].who \in Devices
    BY <1>1, PeersAre
  <2>2. who \in [1..Len(peers[d]) -> Devices]
    BY <2>1 DEF who
  <2> QED BY <2>1, <2>2
<1>18. /\ keys \in Seq(Keys) /\ \A i \in DOMAIN keys : keys[i] # Key(0, 0)
       /\ kind = "sync" => /\ DOMAIN keys = DOMAIN peers[d]
                           /\ \A i \in DOMAIN keys : keys[i].number # 0 /\ keys[i].secret = peers[d][i].secret
  <2>1. CASE kind = "pair"
    <3> DEFINE k == Key(n, 0)
    <3>1. k \in Keys /\ k # Key(0, 0)
      BY <1>3 DEF Key, Keys
    <3>2. keys = <<k>>
      BY <2>1 DEF keys
    <3> HIDE DEF k, kind
    <3> QED BY <2>1, <3>1, <3>2
  <2>2. CASE kind # "pair"
    <3>1. DOMAIN peers[d] = 1..Len(peers[d]) /\ Len(peers[d]) \in Nat /\ \A i \in DOMAIN peers[d] : peers[d][i].secret \in Nat
      BY <1>1, PeersAre
    <3> DEFINE k(i) == Key(peers[d][i].secret, n)
    <3>2. \A i \in DOMAIN peers[d] : k(i) \in Keys /\ k(i) # Key(0, 0) /\ k(i).number # 0 /\ k(i).secret = peers[d][i].secret
      BY <1>3, <3>1 DEF Key, Keys
    <3>3. keys = [i \in DOMAIN peers[d] |-> k(i)]
      BY <2>2 DEF keys
    <3> HIDE DEF k, kind
    <3>4. keys \in [1..Len(peers[d]) -> Keys]
      BY <3>1, <3>2, <3>3
    <3>5. keys \in Seq(Keys)
      BY <3>1, <3>4
    <3> QED BY <3>2, <3>3, <3>5
  <2> QED BY <2>1, <2>2
<1>19. w \in Windows /\ w.code = n /\ w.who = who /\ w.keys = keys
  BY <1>3, <1>17, <1>18 DEF Windows
<1> HIDE DEF w
<1>20. window' \in [Desktops -> Windows] /\ window'[d] = w /\ \A e \in Desktops \ {d} : window'[e] = window[e]
  BY <1>1, <1>2, <1>19 DEF TypeOK
<1>21. Channels /\ CallersStay /\ NetOK'
  BY <1>1, <1>20 DEF TypeOK, Channels, SameChannel, CallersStay, NetOK
<1>22. thread' \in [Devices -> Runs] /\ thread'[d] = run /\ Alone(d)
  BY <1>1, <1>2, <1>6 DEF TypeOK, Alone
<1>23. TypeOK'
  BY <1>1, <1>2, <1>5, <1>6, <1>13, <1>15, <1>21, <1>22, Apart, TypesKept DEF DesktopStages
<1>24. DesktopInv(d)'
  <2>1. SameChannel(d) /\ Told(d) /\ Sent(d)
    BY <1>1, <1>21, FewerAreTold, FewerAreSent DEF Channels, SameChannel
  <2>2. /\ link'[d].code # 0 => \E k \in {"pair", "sync"} : Ran(d, k, link[d].code)'
        /\ Agreed(d)' /\ Given(d)' /\ Waiting(d)' /\ Met(d)'
    BY <1>1, <1>11, <1>21, <2>1, Carried DEF SameChannel, TypeOK
  <2>3. thread'[d].at = "window" /\ thread'[d].kind = kind /\ thread'[d].code = n
    BY <1>6, <1>22
  <2>4. [desktop |-> d, kind |-> kind, code |-> n] \in codes'
    BY <1>2 DEF shownCode
  <2>5. Opening(d)'
    <3>1. window'[d].code = thread'[d].code /\ window'[d].code # link'[d].code
      BY <1>1, <1>10, <1>19, <1>20, <2>3
    <3>2. \A i \in DOMAIN window'[d].keys : window'[d].keys[i] # Key(0, 0)
      BY <1>18, <1>19, <1>20
    <3>3. kind = "sync" => \A i \in DOMAIN keys : [desktop |-> d, kind |-> "pair", code |-> keys[i].secret] \in codes'
      BY <1>2, <1>18 DEF ServiceInv, Kept, Ran
    <3>4. kind = "sync" => /\ DOMAIN window'[d].who = DOMAIN window'[d].keys
                           /\ \A i \in DOMAIN window'[d].keys :
                                window'[d].keys[i].number # 0 /\ Ran(d, "pair", window[d].keys[i].secret)'
      BY <1>17, <1>18, <1>19, <1>20, <3>3 DEF Ran
    <3> QED BY <2>3, <3>1, <3>2, <3>4 DEF Opening, At, Key
  <2>6. DesktopRuns(d)'
    BY <2>3, <2>4 DEF DesktopRuns, Ran, At
  <2>7. Linked(d)' /\ Greeted(d)' /\ DesktopHas(d)'
    BY <2>2, <2>3 DEF Linked, Greeted, DesktopHas, Talking
  <2> QED BY <2>2, <2>5, <2>6, <2>7 DEF DesktopInv
<1>25. \A p \in Phones : Other(p) = d => Greeting(p)'
  <2>1. thread'[d].at \notin Talking
    BY <1>6, <1>22 DEF Talking
  <2> QED BY <1>21, <1>22, <2>1, DesktopGreets DEF Channels, SameChannel
<1> QED BY <1>11, <1>13, <1>20, <1>21, <1>22, <1>23, <1>24, <1>25, DesktopSteps DEF Channels

LEMMA DialKeeps ==
  ASSUME ServiceInv, NEW p \in Phones, Dial(p)
  PROVE  ServiceInv'
<1>1. /\ thread[p].at = "starting" /\ MayDial(p) /\ Answers(p)
      /\ UNCHANGED <<status, cancel, answer, locked, dbVars, window, link, history, scope>>
  BY DEF Dial, At
<1>2. ~At(p, "rest")
  BY <1>1 DEF At
<1>3. /\ TypeOK /\ p \in Devices /\ p \notin Desktops /\ Other(p) \in Desktops /\ thread[p].code \in Nat \ {0}
      /\ backlog \in [Desktops -> Seq(Callers)]
  BY <1>2, PhoneIs DEF TypeOK
<1> PICK d \in Desktops : d = Other(p)
  BY <1>3
<1> DEFINE c == [phone |-> p, key |-> KeyOf(p), live |-> TRUE]
           waiting == Append(backlog[d], c)
           one == [Now(p, "reply") EXCEPT !.empty = Empty(p)]
           two == [one EXCEPT !.known = Known(p)]
           run == [two EXCEPT !.tries = CODE_TRIES]
<1>4. backlog' = [backlog EXCEPT ![d] = waiting] /\ thread' = [thread EXCEPT ![p] = run]
  BY DEF Dial
<1>5. run \in Runs /\ run.at = "reply" /\ run.kind = thread[p].kind /\ run.code = thread[p].code /\ run.desktop = thread[p].desktop
  <2>1. /\ Now(p, "reply") \in Runs /\ Now(p, "reply").at = "reply" /\ Now(p, "reply").kind = thread[p].kind
        /\ Now(p, "reply").code = thread[p].code /\ Now(p, "reply").desktop = thread[p].desktop
    BY <1>3, NowIs DEF PhoneStages
  <2>2. Empty(p) \in BOOLEAN /\ Known(p) \subseteq Devices /\ CODE_TRIES \in Int
    <3>1. \A i \in DOMAIN peers[p] : peers[p][i].who \in Devices
      BY <1>3, PeersAre
    <3> QED BY <3>1, ServiceAssumption DEF Empty, Known
  <2>3. /\ one \in Runs /\ one.at = "reply" /\ one.kind = thread[p].kind
        /\ one.code = thread[p].code /\ one.desktop = thread[p].desktop
    BY <2>1, <2>2 DEF Runs
  <2> HIDE DEF one
  <2>4. /\ two \in Runs /\ two.at = "reply" /\ two.kind = thread[p].kind
        /\ two.code = thread[p].code /\ two.desktop = thread[p].desktop
    BY <2>2, <2>3 DEF Runs
  <2> HIDE DEF two
  <2> QED BY <2>2, <2>4 DEF Runs
<1> HIDE DEF run
<1>6. Moves(p, "reply")
  BY <1>3, <1>4, <1>5, Puts
<1>7. /\ KeyOf(p) \in Keys /\ Rightful(c)
  <2>1. CASE thread[p].kind = "pair"
    <3>1. KeyOf(p) = Key(thread[p].code, 0)
      BY <2>1 DEF KeyOf
    <3> QED BY <1>3, <3>1, ServiceAssumption DEF Rightful, Key, Keys
  <2>2. CASE thread[p].kind # "pair"
    <3>1. KeyOf(p) = Key(peers[p][1].secret, thread[p].code) /\ peers[p] # << >>
      BY <1>1, <2>2 DEF KeyOf, MayDial
    <3>2. peers[p] \in Seq([who : Devices, secret : Nat])
      BY <1>3, PeersAre
    <3>3. 1 \in DOMAIN peers[p] /\ peers[p][1].secret \in Nat
      <4>1. 1 \in DOMAIN peers[p]
        BY <3>1, <3>2, TailIs
      <4> QED BY <1>3, <4>1, PeersAre
    <3>4. peers[p][1].who \in Desktops /\ Ran(peers[p][1].who, "pair", peers[p][1].secret) /\ Knows(p, peers[p][1].who)
      BY <3>3 DEF ServiceInv, Kept, Knows, Known
    <3>5. KeyOf(p) \in Keys /\ KeyOf(p).secret = peers[p][1].secret
      BY <1>3, <3>1, <3>3 DEF Key, Keys
    <3>6. c.phone = p /\ c.key = KeyOf(p) /\ p # "stranger"
      BY <1>3, ServiceAssumption
    <3> HIDE DEF c
    <3> QED BY <3>4, <3>5, <3>6 DEF Rightful
  <2> QED BY <2>1, <2>2
<1>8. c \in Callers
  BY <1>7 DEF Callers
<1> HIDE DEF c
<1>9. /\ waiting \in Seq(Callers)
      /\ \A i \in DOMAIN waiting : (i \in DOMAIN backlog[d] /\ waiting[i] = backlog[d][i]) \/ waiting[i] = c
  BY <1>3, <1>8, AppendIs
<1> HIDE DEF waiting
<1>10. backlog' \in [Desktops -> Seq(Callers)] /\ backlog'[d] = waiting /\ \A e \in Desktops \ {d} : backlog'[e] = backlog[e]
  BY <1>3, <1>4, <1>9
<1>11. CallersStay
  <2>1. ASSUME NEW e \in Desktops, NEW i \in DOMAIN backlog'[e]
        PROVE  \/ \E j \in DOMAIN backlog[e] : backlog'[e][i].phone = backlog[e][j].phone /\ backlog'[e][i].key = backlog[e][j].key
               \/ Rightful(backlog[e][i])'
    <3>1. (\E j \in DOMAIN backlog[e] : backlog'[e][i] = backlog[e][j]) \/ backlog'[e][i] = c
      BY <1>9, <1>10
    <3>2. backlog'[e][i] = c => Rightful(backlog[e][i])'
      BY <1>1, <1>7 DEF Rightful, Key, Knows, Known, Ran, dbVars, history
    <3> QED BY <3>1, <3>2
  <2> QED BY <1>10, <2>1 DEF CallersStay
<1>12. NetOK' /\ Channels /\ window' = window
  BY <1>1, <1>3, <1>10 DEF NetOK, TypeOK, Channels, SameChannel
<1>13. /\ Grows /\ PeersOK' /\ Kept' /\ KnowsItsDesktop' /\ StoredTogether'
  BY <1>1, NothingKept DEF dbVars, history
<1>14. KeepsOK'
  BY <1>1, <1>3, TypesStay DEF dbVars, history
<1>15. TypeOK' /\ Alone(p)
  BY <1>1, <1>2, <1>3, <1>6, <1>12, <1>13, <1>14, MoveTypes DEF PhoneStages
<1>16. PhoneInv(p)'
  BY <1>2, <1>6, <1>13, PhoneMoves
<1>17. DesktopInv(d)'
  <2>1. thread'[d] = thread[d] /\ DesktopInv(d) /\ SameChannel(d) /\ window'[d] = window[d]
    BY <1>3, <1>12, <1>15 DEF Alone, Devices, ServiceInv, Channels
  <2> QED BY <1>3, <1>11, <1>13, <2>1, DesktopSame
<1>18. ASSUME NEW q \in Phones
       PROVE  Greeting(q)'
  <2>1. CASE q = p
    <3>1. window[d].code # 0
      BY <1>1, <1>3 DEF Answers
    <3>2. window[d] # NoWindow
      BY <3>1 DEF NoWindow
    <3>3. window[d].code # link[d].code
      BY <3>2 DEF ServiceInv, DesktopInv, Opening
    <3>4. link[d].code # thread[p].code
      BY <1>1, <3>3 DEF Answers
    <3>5. ~OnLine(p)'
      BY <1>1, <1>6, <3>4 DEF OnLine, Other, Moves
    <3> QED BY <2>1, <3>5 DEF Greeting
  <2>2. CASE q # p
    <3>1. thread'[q] = thread[q] /\ Greeting(q) /\ (At(q, "reply") => Other(q) \in Desktops)
      BY <1>15, <2>2 DEF Alone, Devices, ServiceInv, TypeOK, At
    <3>2. At(q, "reply") => thread'[Other(q)] = thread[Other(q)]
      BY <1>3, <1>15, <3>1 DEF Alone, Devices
    <3> QED BY <1>1, <3>1, <3>2 DEF Greeting, At, Other, OnLine
  <2> QED BY <2>1, <2>2
<1> QED BY <1>11, <1>12, <1>13, <1>15, <1>16, <1>17, <1>18, PhoneSteps DEF Channels

LEMMA OpensKeeps ==
  ASSUME ServiceInv, NEW d \in Desktops, NEW c \in Callers, At(d, "window"), Rightful(c), NEW i \in DOMAIN window[d].keys,
         window[d].keys[i] = c.key, window' = [window EXCEPT ![d] = NoWindow], backlog' = [backlog EXCEPT ![d] = << >>],
         link' = [link EXCEPT ![d] =
           [phone |-> IF c.live THEN c.phone ELSE "none", up |-> c.live, code |-> window[d].code,
            toPhone |-> <<Msg("reply")>>, toDesktop |-> << >>]],
         NEW who \in Devices \cup {"none", "stranger"}, thread' = [thread EXCEPT ![d] = [Now(d, "hello") EXCEPT !.expected = who]],
         Shows(d, "running") \/ status' = status,
         UNCHANGED <<cancel, answer, locked, dbVars, history, scope, faults, acts>>
  PROVE  ServiceInv'
<1> DEFINE phone == IF c.live THEN c.phone ELSE "none"
           new == [phone |-> phone, up |-> c.live, code |-> window[d].code, toPhone |-> <<Msg("reply")>>, toDesktop |-> << >>]
           run == [Now(d, "hello") EXCEPT !.expected = who]
<1>1. /\ TypeOK /\ DesktopInv(d) /\ d \in Devices /\ Numbered /\ codes \subseteq Codes
      /\ link \in [Desktops -> Links] /\ window \in [Desktops -> Windows] /\ backlog \in [Desktops -> Seq(Callers)]
  BY DEF ServiceInv, Devices, TypeOK
<1>2. /\ Grows /\ PeersOK' /\ Kept' /\ KnowsItsDesktop'
      /\ (\A y \in Devices : status'[y] = status[y] \/ status'[y].state # "done") => StoredTogether'
  BY NothingKept DEF dbVars, history
<1>3. KeepsOK'
  BY <1>1, TypesStay DEF dbVars, history
<1>4. Ran(d, thread[d].kind, thread[d].code) /\ window[d].code = thread[d].code /\ thread[d].code \in Nat
  BY <1>1, ShownIs DEF DesktopInv, DesktopRuns, Opening, At
<1>5. c.phone \in Phones /\ c.live \in BOOLEAN
  <2>1. c.key # Key(0, 0)
    BY <1>1 DEF DesktopInv, Opening
  <2> QED BY <2>1 DEF Rightful, Callers
<1>6. phone \in Phones \cup {"none"}
  BY <1>5
<1>7. /\ <<Msg("reply")>> \in Seq(Messages) /\ << >> \in Seq(Messages) /\ DOMAIN << >> = {}
      /\ \A k \in DOMAIN <<Msg("reply")>> : <<Msg("reply")>>[k].m = "reply"
  <2> DEFINE e == Msg("reply")
  <2>1. e \in Messages /\ e.m = "reply"
    BY MsgIs
  <2> HIDE DEF e
  <2>2. <<e>> \in Seq(Messages) /\ \A k \in DOMAIN <<e>> : <<e>>[k].m = "reply"
    BY <2>1
  <2> QED BY <2>2, EmptyIs DEF e
<1> HIDE DEF phone
<1>8. /\ new \in Links /\ new.phone = phone /\ new.code = thread[d].code
      /\ new.toPhone = <<Msg("reply")>> /\ new.toDesktop = << >>
  BY <1>4, <1>5, <1>6, <1>7 DEF Links
<1>9. link' = [link EXCEPT ![d] = new] /\ thread' = [thread EXCEPT ![d] = run]
  BY DEF phone
<1> HIDE DEF new
<1>10. link' \in [Desktops -> Links] /\ link'[d] = new /\ \A e \in Desktops \ {d} : link'[e] = link[e]
  <2>1. link \in [Desktops -> Links] /\ new \in Links /\ link' = [link EXCEPT ![d] = new]
    BY <1>1, <1>8, <1>9
  <2> QED BY <2>1
<1>11. run \in Runs /\ run.at = "hello" /\ run.kind = thread[d].kind /\ run.code = thread[d].code /\ run.desktop = thread[d].desktop
  <2>1. /\ Now(d, "hello") \in Runs /\ Now(d, "hello").at = "hello" /\ Now(d, "hello").kind = thread[d].kind
        /\ Now(d, "hello").code = thread[d].code /\ Now(d, "hello").desktop = thread[d].desktop
    BY <1>1, NowIs DEF DesktopStages
  <2> QED BY <2>1 DEF Runs
<1> HIDE DEF run
<1>12. Moves(d, "hello")
  <2>1. thread' = [thread EXCEPT ![d] = run]
    BY <1>9
  <2> QED BY <1>1, <1>11, <2>1, Puts
<1>13. NoWindow \in Windows /\ NoWindow.keys = << >> /\ NoWindow.who = << >>
  BY EmptyIs DEF NoWindow, Windows
<1>14. window' \in [Desktops -> Windows] /\ window'[d] = NoWindow /\ \A e \in Desktops \ {d} : window'[e] = window[e]
  BY <1>1, <1>13
<1>15. backlog' \in [Desktops -> Seq(Callers)] /\ backlog'[d] = << >> /\ \A e \in Desktops \ {d} : backlog'[e] = backlog[e]
  BY <1>1, EmptyIs
<1>16. CallersStay
  BY <1>7, <1>15 DEF CallersStay
<1>17. NetOK'
  BY <1>10, <1>14, <1>15 DEF NetOK
<1>18. TypeOK' /\ Alone(d) /\ \A y \in Devices : status'[y] = status[y] \/ status'[y].state # "done"
  BY <1>1, <1>2, <1>3, <1>12, <1>17, MoveTypes, Apart DEF At, DesktopStages, States
<1>19. thread'[d].at = "hello" /\ thread'[d].kind = thread[d].kind /\ thread'[d].code = thread[d].code
  BY <1>12 DEF Moves
<1>20. DesktopRuns(d)' /\ Opening(d)' /\ DesktopHas(d)' /\ Waiting(d)'
  <2>1. Opening(d)'
    BY <1>7, <1>13, <1>14, <1>19 DEF Opening, At
  <2>2. DesktopRuns(d)' /\ DesktopHas(d)'
    <3>1. Ran(d, thread[d].kind, thread[d].code)'
      BY <1>4, <1>19 DEF Ran, history
    <3> QED BY <1>19, <3>1 DEF DesktopRuns, DesktopHas, At
  <2>3. Waiting(d)'
    BY <1>7, <1>15 DEF Waiting
  <2> QED BY <2>1, <2>2, <2>3
<1>21. thread[d].kind \in {"pair", "sync"}
  <2>1. [desktop |-> d, kind |-> thread[d].kind, code |-> thread[d].code] \in Codes
    BY <1>1, <1>4 DEF Ran
  <2> QED BY <2>1 DEF Codes
<1>22. Linked(d)'
  BY <1>4, <1>8, <1>10, <1>19, <1>21 DEF Linked, Ran, At, history
<1>23. Agreed(d)' /\ Greeted(d)' /\ Given(d)'
  <2>1. link'[d].toDesktop = << >> /\ link'[d].toPhone = <<Msg("reply")>>
    BY <1>8, <1>10
  <2> QED BY <1>7, <2>1 DEF Agreed, Greeted, Given
<1>24. Met(d)'
  <2> SUFFICES ASSUME link'[d].phone \in Phones, Ran(d, "sync", link[d].code)'
               PROVE  Knows(link[d].phone, d)'
    BY DEF Met
  <2>1. phone = c.phone
    BY <1>8, <1>10, ServiceAssumption DEF phone
  <2>2. thread[d].kind = "sync"
    BY <1>1, <1>4, <1>8, <1>10 DEF Ran, Numbered, history
  <2>3. c.key.number # 0 /\ Ran(d, "pair", c.key.secret)
    BY <1>1, <2>2 DEF DesktopInv, Opening
  <2>4. PICK e \in Desktops : Knows(c.phone, e) /\ Ran(e, "pair", c.key.secret)
    BY <2>3 DEF Rightful
  <2>5. e = d
    BY <1>1, <2>3, <2>4 DEF Ran, Numbered
  <2>6. Knows(c.phone, d)'
    BY <1>2, <1>5, <2>4, <2>5 DEF Grows
  <2>7. link'[d].phone = c.phone
    BY <1>8, <1>10, <2>1
  <2> QED BY <2>6, <2>7 DEF Knows, Known
<1>25. DesktopInv(d)'
  BY <1>20, <1>22, <1>23, <1>24 DEF DesktopInv
<1>26. \A p \in Phones : Other(p) = d => Greeting(p)'
  <2> SUFFICES ASSUME NEW p \in Phones, Other(p) = d PROVE Greeting(p)'
    OBVIOUS
  <2>1. Other(p)' = d
    BY <1>1, <1>18, Apart DEF Alone, Other, Devices
  <2>2. link'[d].toDesktop = << >>
    BY <1>8, <1>10
  <2> QED BY <1>19, <2>1, <2>2 DEF Greeting, At
<1>27. \A e \in Desktops \ {d} : window'[e] = window[e] /\ SameChannel(e)
  BY <1>10, <1>14 DEF SameChannel
<1> QED BY <1>2, <1>16, <1>18, <1>25, <1>26, <1>27, DesktopSteps

LEMMA NextCallerKeeps ==
  ASSUME ServiceInv, NEW d \in Desktops, At(d, "window"), NEW bad \in Nat, NEW connections \in Nat, backlog[d] # << >>,
         window' = [window EXCEPT ![d].bad = bad, ![d].connections = connections],
         backlog' = [backlog EXCEPT ![d] = Tail(@)],
         UNCHANGED <<thread, status, cancel, answer, locked, dbVars, link, history, scope, faults, acts>>
  PROVE  ServiceInv'
<1> DEFINE counted == [window[d] EXCEPT !.bad = bad]
           new == [counted EXCEPT !.connections = connections]
           rest == Tail(backlog[d])
<1>1. /\ TypeOK /\ DesktopInv(d) /\ d \in Devices
      /\ link \in [Desktops -> Links] /\ window \in [Desktops -> Windows] /\ backlog \in [Desktops -> Seq(Callers)]
  BY DEF ServiceInv, Devices, TypeOK
<1>2. new \in Windows /\ new.code = window[d].code /\ new.who = window[d].who /\ new.keys = window[d].keys
  <2>1. counted \in Windows /\ counted.code = window[d].code /\ counted.who = window[d].who /\ counted.keys = window[d].keys
    BY <1>1 DEF Windows
  <2> HIDE DEF counted
  <2> QED BY <2>1 DEF Windows
<1>3. window' = [window EXCEPT ![d] = new] /\ backlog' = [backlog EXCEPT ![d] = rest]
  OBVIOUS
<1> HIDE DEF new
<1>4. window' \in [Desktops -> Windows] /\ window'[d] = new /\ \A e \in Desktops \ {d} : window'[e] = window[e]
  BY <1>1, <1>2, <1>3
<1>5. rest \in Seq(Callers) /\ \A i \in DOMAIN rest : \E j \in DOMAIN backlog[d] : rest[i] = backlog[d][j]
  BY <1>1, TailIs
<1> HIDE DEF rest
<1>6. backlog' \in [Desktops -> Seq(Callers)] /\ backlog'[d] = rest /\ \A e \in Desktops \ {d} : backlog'[e] = backlog[e]
  BY <1>1, <1>3, <1>5
<1>7. CallersStay
  <2>1. ASSUME NEW e \in Desktops, NEW i \in DOMAIN backlog'[e]
        PROVE  \E j \in DOMAIN backlog[e] : backlog'[e][i].phone = backlog[e][j].phone /\ backlog'[e][i].key = backlog[e][j].key
    <3>1. \E j \in DOMAIN backlog[e] : backlog'[e][i] = backlog[e][j]
      BY <1>5, <1>6
    <3> QED BY <3>1
  <2> QED BY <1>6, <2>1 DEF CallersStay
<1>8. /\ Grows /\ Kept' /\ KnowsItsDesktop' /\ StoredTogether'
  BY NothingKept DEF dbVars, history
<1>9. TypeOK'
  <2>1. NetOK'
    BY <1>1, <1>4, <1>6 DEF NetOK
  <2>2. PeersOK' /\ KeepsOK'
    <3>1. UNCHANGED <<cancel, answer, locked, scope, peers, data, record, codes, matched, stored, removed, took>>
      BY DEF dbVars, history
    <3> QED BY <1>1, <3>1, PeersStay, TypesStay
  <2>3. UNCHANGED <<thread, status>>
    OBVIOUS
  <2> QED BY <1>1, <2>1, <2>2, <2>3 DEF TypeOK, NetOK, PeersOK, KeepsOK, At, Other
<1>10. SameChannel(d) /\ Told(d) /\ Sent(d)
  BY <1>1, FewerAreTold, FewerAreSent DEF SameChannel
<1>11. /\ link'[d].code # 0 => \E kind \in {"pair", "sync"} : Ran(d, kind, link[d].code)'
       /\ Agreed(d)' /\ Given(d)' /\ Waiting(d)' /\ Met(d)'
  BY <1>1, <1>7, <1>8, <1>10, Carried DEF SameChannel
<1>12. DesktopRuns(d)' /\ DesktopHas(d)' /\ Linked(d)' /\ Greeted(d)'
  BY <1>1, <1>11 DEF DesktopInv, DesktopRuns, DesktopHas, Linked, Greeted, Ran, At, history
<1>13. Opening(d)'
  <2>1. /\ window'[d].code = window[d].code /\ window'[d].who = window[d].who /\ window'[d].keys = window[d].keys
        /\ thread'[d] = thread[d] /\ link'[d].code = link[d].code /\ thread[d].at = "window" /\ codes' = codes
    BY <1>2, <1>4 DEF At, history
  <2>2. /\ window[d].code = thread[d].code /\ window[d].code # link[d].code
        /\ \A i \in DOMAIN window[d].keys : window[d].keys[i] # Key(0, 0)
    BY <1>1, <2>1 DEF DesktopInv, Opening, At
  <2>3. thread[d].kind = "sync" =>
          /\ DOMAIN window[d].who = DOMAIN window[d].keys
          /\ \A i \in DOMAIN window[d].keys : window[d].keys[i].number # 0 /\ Ran(d, "pair", window[d].keys[i].secret)
    BY <1>1 DEF DesktopInv, Opening
  <2>4. \A i \in DOMAIN window'[d].keys : window'[d].keys[i] # Key(0, 0)
    BY <2>1, <2>2
  <2>5. thread'[d].kind = "sync" =>
          /\ DOMAIN window'[d].who = DOMAIN window'[d].keys
          /\ \A i \in DOMAIN window'[d].keys : window'[d].keys[i].number # 0 /\ Ran(d, "pair", window[d].keys[i].secret)'
    <3> SUFFICES ASSUME thread'[d].kind = "sync"
                 PROVE  /\ DOMAIN window'[d].who = DOMAIN window'[d].keys
                        /\ \A i \in DOMAIN window'[d].keys :
                             window'[d].keys[i].number # 0 /\ Ran(d, "pair", window[d].keys[i].secret)'
      OBVIOUS
    <3>1. DOMAIN window'[d].who = DOMAIN window'[d].keys
      BY <2>1, <2>3
    <3>2. ASSUME NEW i \in DOMAIN window'[d].keys
          PROVE  window'[d].keys[i].number # 0 /\ Ran(d, "pair", window[d].keys[i].secret)'
      <4>1. i \in DOMAIN window[d].keys /\ window'[d].keys[i] = window[d].keys[i]
        BY <2>1
      <4>2. window[d].keys[i].number # 0 /\ Ran(d, "pair", window[d].keys[i].secret)
        BY <2>1, <2>3, <4>1
      <4>3. codes' = codes /\ window'[d].keys[i].number # 0 /\ window'[d].keys[i].secret = window[d].keys[i].secret
        BY <2>1, <4>1, <4>2
      <4>4. [desktop |-> d, kind |-> "pair", code |-> window'[d].keys[i].secret] \in codes'
        BY <4>2, <4>3 DEF Ran
      <4> QED BY <4>3, <4>4 DEF Ran
    <3> QED BY <3>1, <3>2
  <2> QED BY <2>1, <2>2, <2>4, <2>5 DEF Opening, At
<1>14. DesktopInv(d)'
  BY <1>11, <1>12, <1>13 DEF DesktopInv
<1>15. \A e \in Desktops \ {d} : window'[e] = window[e] /\ SameChannel(e)
  BY <1>4 DEF SameChannel
<1>16. Alone(d)
  BY DEF Alone
<1>17. \A p \in Phones : Other(p) = d => Greeting(p)'
  BY DEF ServiceInv, Greeting, At, Other, OnLine
<1> QED BY <1>7, <1>8, <1>9, <1>14, <1>15, <1>16, <1>17, DesktopSteps

LEMMA AcceptKeeps ==
  ASSUME ServiceInv, NEW d \in Desktops, Accept(d)
  PROVE  ServiceInv'
<1>1. /\ TypeOK /\ DesktopInv(d) /\ d \in Devices /\ At(d, "window") /\ ~At(d, "rest") /\ backlog[d] \in Seq(Callers) /\ backlog[d] # << >>
      /\ UNCHANGED <<cancel, answer, locked, dbVars, history, scope, faults, acts>>
  BY DEF ServiceInv, Accept, Devices, At, TypeOK
<1>2. 1 \in DOMAIN backlog[d] /\ Head(backlog[d]) = backlog[d][1] /\ Head(backlog[d]) \in Callers
  BY <1>1, TailIs
<1> PICK c \in Callers : c = Head(backlog[d])
  BY <1>2
<1>3. Rightful(c)
  BY <1>1, <1>2 DEF DesktopInv, Waiting
<1>4. CASE Opens(d, c) # {} /\ Replies(d, c)
  <2> DEFINE k == CHOOSE i \in Opens(d, c) : TRUE
             who == IF thread[d].kind = "pair" THEN c.phone ELSE window[d].who[k]
  <2>1. k \in DOMAIN window[d].keys /\ window[d].keys[k] = c.key
    BY <1>4 DEF Opens
  <2>2. who \in Devices \cup {"none", "stranger"}
    <3>1. CASE thread[d].kind = "pair"
      BY <3>1 DEF Callers, Devices
    <3>2. CASE thread[d].kind # "pair"
      <4>1. thread[d].kind = "sync"
        <5>1. [desktop |-> d, kind |-> thread[d].kind, code |-> thread[d].code] \in Codes
          BY <1>1 DEF DesktopInv, DesktopRuns, Ran, At, TypeOK
        <5> QED BY <3>2, <5>1 DEF Codes
      <4>2. DOMAIN window[d].who = DOMAIN window[d].keys
        BY <1>1, <4>1 DEF DesktopInv, Opening
      <4>3. window[d].who \in Seq(Devices)
        BY <1>1 DEF TypeOK, Windows
      <4> HIDE DEF k
      <4>4. window[d].who[k] \in Devices
        BY <2>1, <4>2, <4>3
      <4> QED BY <3>2, <4>4
    <3> QED BY <3>1, <3>2
  <2>3. /\ window' = [window EXCEPT ![d] = NoWindow] /\ backlog' = [backlog EXCEPT ![d] = << >>]
        /\ link' = [link EXCEPT ![d] =
             [phone |-> IF c.live THEN c.phone ELSE "none", up |-> c.live, code |-> window[d].code,
              toPhone |-> <<Msg("reply")>>, toDesktop |-> << >>]]
        /\ thread' = [thread EXCEPT ![d] = [Now(d, "hello") EXCEPT !.expected = who]]
        /\ Shows(d, "running") \/ status' = status
    BY <1>4 DEF Replies
  <2> HIDE DEF k, who
  <2> QED BY <1>1, <1>3, <2>1, <2>2, <2>3, OpensKeeps
<1>5. CASE Opens(d, c) = {} \/ ~Replies(d, c)
  <2> DEFINE bad == window[d].bad + (IF c.phone # "stranger" /\ Opens(d, c) = {} THEN 1 ELSE 0)
             connections == window[d].connections + 1
  <2>1. Closes(d, bad, connections)
    BY <1>5 DEF Accept
  <2>2. bad \in Nat /\ connections \in Nat
    BY <1>1 DEF TypeOK, Windows
  <2> HIDE DEF bad, connections
  <2>3. CASE bad >= MaxBad \/ connections >= MaxConnections
    <3>1. Finish(d, "failed")
      BY <2>1, <2>3 DEF Closes
    <3>2. KeepsOK'
      BY <1>1, TypesStay DEF dbVars, history
    <3> QED BY <1>1, <3>1, <3>2, FailKeeps DEF dbVars, history
  <2>4. CASE ~(bad >= MaxBad \/ connections >= MaxConnections)
    <3>1. /\ window' = [window EXCEPT ![d].bad = bad, ![d].connections = connections]
          /\ backlog' = [backlog EXCEPT ![d] = Tail(@)]
          /\ UNCHANGED <<link, thread, status>>
      BY <2>1, <2>4 DEF Closes
    <3> QED BY <1>1, <2>2, <3>1, NextCallerKeeps
  <2> QED BY <2>3, <2>4
<1> QED BY <1>4, <1>5

\* Nothing runs, nobody waits, nothing was said: no part of the invariant has anything to say yet.
LEMMA BlankIs ==
  /\ NoWindow \in Windows /\ DOMAIN NoWindow.keys = {} /\ DOMAIN NoWindow.who = {}
  /\ NoLink \in Links /\ NoLink.code = 0 /\ NoLink.phone = "none" /\ DOMAIN NoLink.toDesktop = {} /\ DOMAIN NoLink.toPhone = {}
  /\ Shown("idle") \in [state : States, kind : Kinds, code : Nat] /\ Shown("idle").state = "idle"
<1>1. << >> \in Seq(Devices) /\ << >> \in Seq(Keys) /\ << >> \in Seq(Messages) /\ DOMAIN << >> = {}
  BY EmptyIs
<1>2. NoWindow \in Windows
  BY <1>1 DEF NoWindow, Windows
<1>3. DOMAIN NoWindow.keys = {} /\ DOMAIN NoWindow.who = {}
  BY <1>1 DEF NoWindow
<1>4. NoLink \in Links
  BY <1>1 DEF NoLink, Links
<1>5. NoLink.code = 0 /\ NoLink.phone = "none" /\ DOMAIN NoLink.toDesktop = {} /\ DOMAIN NoLink.toPhone = {}
  BY <1>1 DEF NoLink
<1>6. Shown("idle") \in [state : States, kind : Kinds, code : Nat] /\ Shown("idle").state = "idle"
  BY DEF Shown, States, Kinds
<1> QED BY <1>2, <1>3, <1>4, <1>5, <1>6

LEMMA InitKeeps ==
  ASSUME Init PROVE ServiceInv
<1>1. /\ \A x \in Devices : thread[x] = Rest /\ status[x] = Shown("idle") /\ peers[x] = << >>
      /\ \A d \in Desktops : window[d] = NoWindow /\ backlog[d] = << >> /\ link[d] = NoLink
      /\ codes = {} /\ matched = {} /\ stored = {} /\ removed = {} /\ took = {}
  BY DEF Init, Devices
<1>2. /\ \A x \in Devices : thread[x].at = "rest" /\ thread[x].kind = "none" /\ At(x, "rest")
      /\ \A x \in Devices : status[x].state = "idle"
      /\ \A x \in Devices : DOMAIN peers[x] = {}
  BY <1>1, RestIs, BlankIs, EmptyIs DEF At
<1>3. TypeOK
  <2>1. thread \in [Devices -> Runs] /\ status \in [Devices -> [state : States, kind : Kinds, code : Nat]]
    BY RestIs, BlankIs DEF Init
  <2>2. peers \in [Devices -> Seq([who : Devices, secret : Nat])]
    <3>1. << >> \in Seq([who : Devices, secret : Nat])
      BY EmptyIs
    <3> QED BY <3>1 DEF Init
  <2>3. backlog \in [Desktops -> Seq(Callers)]
    <3>1. << >> \in Seq(Callers)
      BY EmptyIs
    <3> QED BY <3>1 DEF Init
  <2>4. window \in [Desktops -> Windows] /\ link \in [Desktops -> Links]
    BY BlankIs DEF Init
  <2>5. cancel \in [Devices -> BOOLEAN] /\ answer \in [Devices -> {"none", "right", "wrong", "chosen"}]
        /\ locked \in [Devices -> {"no", "closing", "yes"}] /\ scope \in Scopes
    BY DEF Init
  <2>6. data \in [Devices -> SUBSET Devices] /\ record \in [Devices -> BOOLEAN]
    BY DEF Init
  <2>7. \A d \in Desktops : thread[d].at \in DesktopStages
    BY <1>2 DEF DesktopStages, Devices
  <2>8. \A p \in Phones : thread[p].at \in PhoneStages /\ (~At(p, "rest") => Other(p) \in Desktops)
    BY <1>2 DEF PhoneStages, Devices
  <2>9. \A x \in Devices : At(x, "rest") => status[x].state \in {"idle", "done", "failed"}
    BY <1>2
  <2>10. \A x \in Devices : \A i, j \in DOMAIN peers[x] : peers[x][i].who = peers[x][j].who => i = j
    BY <1>2
  <2>11. codes \subseteq Codes /\ matched \subseteq Nat /\ stored \subseteq Devices \X Nat
         /\ removed \subseteq Devices \X Devices /\ took \subseteq Phones \X Desktops
    BY <1>1
  <2> QED BY <2>1, <2>2, <2>3, <2>4, <2>5, <2>6, <2>7, <2>8, <2>9, <2>10, <2>11 DEF TypeOK
<1>4. Numbered
  BY <1>1, FS_EmptySet DEF Numbered
<1>5. ASSUME NEW d \in Desktops PROVE DesktopInv(d)
  <2>1. d \in Devices /\ thread[d].at = "rest" /\ thread[d].kind = "none"
    BY <1>2 DEF Devices
  <2>2. window[d] = NoWindow /\ DOMAIN window[d].keys = {}
    BY <1>1, BlankIs
  <2>3. link[d].code = 0 /\ DOMAIN link[d].toDesktop = {} /\ DOMAIN link[d].toPhone = {} /\ link[d].phone = "none"
    BY <1>1, BlankIs
  <2>4. DesktopRuns(d)
    BY <2>1 DEF DesktopRuns, At
  <2>5. Opening(d)
    BY <2>1, <2>2 DEF Opening, At
  <2>6. Linked(d)
    BY <2>1, <2>3 DEF Linked, Talking
  <2>7. Agreed(d) /\ Greeted(d) /\ Given(d)
    BY <2>1, <2>3 DEF Agreed, Greeted, Given
  <2>8. DesktopHas(d)
    BY <2>1 DEF DesktopHas
  <2>9. Waiting(d)
    BY <1>1, EmptyIs DEF Waiting
  <2>10. Met(d)
    BY <1>1, <2>3 DEF Met, Ran
  <2> QED BY <2>4, <2>5, <2>6, <2>7, <2>8, <2>9, <2>10 DEF DesktopInv
<1>6. ASSUME NEW p \in Phones PROVE PhoneInv(p) /\ Greeting(p)
  BY <1>2 DEF Devices, PhoneInv, PhoneRuns, PhoneHas, Greeting, At
<1>7. Kept
  BY <1>2 DEF Kept, Devices
<1>8. StoredTogether
  BY <1>1, <1>2 DEF StoredTogether
<1>9. KnowsItsDesktop
  BY <1>1 DEF Init, KnowsItsDesktop, Devices
<1> QED BY <1>3, <1>4, <1>5, <1>6, <1>7, <1>8, <1>9 DEF ServiceInv

LEMMA ThreadStepKeeps ==
  ASSUME ServiceInv, NEW x \in Devices, ThreadStep(x)
  PROVE  ServiceInv'
<1>1. CASE Stops(x) \/ CannotOpen(x) \/ CannotDial(x) \/ TurnedAway(x)
  BY <1>1, StopsKeeps
<1>2. CASE Done(x)
  BY <1>2, DoneKeeps
<1>3. CASE OpenWindow(x)
  BY <1>3, OpenWindowKeeps DEF OpenWindow
<1>4. CASE x \in Desktops /\ (Accept(x) \/ Hello(x) \/ Accepted(x) \/ StorePhone(x))
  BY <1>4, AcceptKeeps, HelloKeeps, AcceptedKeeps, StorePhoneKeeps
<1>5. CASE Review(x)
  BY <1>5, ReviewKeeps DEF Review
<1>6. CASE CarryOut(x)
  BY <1>6, CarryOutKeeps DEF CarryOut
<1>7. CASE SendRows(x)
  BY <1>7, SendRowsKeeps DEF SendRows
<1>8. CASE ApplyBack(x)
  BY <1>8, ApplyBackKeeps DEF ApplyBack
<1>9. CASE Dial(x)
  BY <1>9, DialKeeps DEF Dial
<1>10. CASE Greet(x)
  BY <1>10, GreetKeeps DEF Greet
<1>11. CASE RightDigits(x)
  BY <1>11, RightDigitsKeeps DEF RightDigits
<1>12. CASE WrongDigits(x)
  BY <1>12, WrongDigitsKeeps DEF WrongDigits
<1>13. CASE MeetDesktop(x)
  BY <1>13, MeetDesktopKeeps DEF MeetDesktop
<1>14. CASE StoreDesktop(x)
  BY <1>14, StoreDesktopKeeps DEF StoreDesktop
<1>15. CASE WaitForReview(x) \/ Reviewed(x)
  BY <1>15, ReviewedKeeps DEF WaitForReview, Reviewed
<1>16. CASE TakeRows(x)
  BY <1>16, TakeRowsKeeps DEF TakeRows
<1>17. CASE Apply(x)
  BY <1>17, ApplyKeeps DEF Apply
<1> QED BY <1>1, <1>2, <1>3, <1>4, <1>5, <1>6, <1>7, <1>8, <1>9, <1>10, <1>11, <1>12, <1>13, <1>14, <1>15, <1>16, <1>17
        DEF ThreadStep

LEMMA NextKeeps ==
  ASSUME ServiceInv, [Next]_vars
  PROVE  ServiceInv'
<1>1. CASE \E x \in Devices : ThreadStep(x)
  BY <1>1, ThreadStepKeeps
<1>2. CASE \E d \in Desktops : StartPairing(d) \/ StartSync(d) \/ Decide(d) \/ Stranger(d) \/ Break(d)
  BY <1>2, StartKeeps, PeopleKeep, StrangerKeeps, BreakKeeps DEF Devices
<1>3. CASE \E p \in Phones : (\E c \in codes : Scan(p, c)) \/ Type(p, "right") \/ Type(p, "wrong")
  BY <1>3, ScanKeeps, PeopleKeep DEF Devices
<1>4. CASE \E x \in Devices : Cancel(x) \/ Acknowledge(x) \/ Lock(x) \/ LockCancels(x) \/ Unlock(x) \/ Write(x)
  BY <1>4, PeopleKeep, AcknowledgeKeeps, WriteKeeps
<1>5. CASE \E x, y \in Devices : RemoveDevice(x, y)
  BY <1>5, RemoveDeviceKeeps
<1>6. CASE UNCHANGED vars
  BY <1>6, StutterKeeps
<1> QED BY <1>1, <1>2, <1>3, <1>4, <1>5, <1>6 DEF Next

\* Every state of pairing and syncing: at any moment, whatever was cancelled, locked, removed or broken off on either device.
THEOREM ServiceInvariant == Spec => []ServiceInv
<1>1. Init => ServiceInv
  BY InitKeeps
<1>2. ServiceInv /\ [Next]_vars => ServiceInv'
  BY NextKeeps
<1> QED BY <1>1, <1>2, PTL DEF Spec

\* peers::add is called with the secret of a pairing only after the digits of that pairing were typed right on the phone.
THEOREM SecretsAreConfirmedTheorem == Spec => []SecretsAreConfirmed
<1>1. ServiceInv => SecretsAreConfirmed
  BY DEF ServiceInv, Kept, SecretsAreConfirmed
<1> QED BY <1>1, ServiceInvariant, PTL

\* flow.rs stores the phone on the desktop only after the phone stored the desktop, and tells either screen that a pairing
\* ended well only after both did.
THEOREM StoredTogetherTheorem == Spec => []StoredTogether
<1>1. ServiceInv => StoredTogether
  BY DEF ServiceInv
<1> QED BY <1>1, ServiceInvariant, PTL

\* A phone that took rows of a desktop in a copy or a sync knows that desktop until the person removes it.
THEOREM KnowsItsDesktopTheorem == Spec => []KnowsItsDesktop
<1>1. ServiceInv => KnowsItsDesktop
  BY DEF ServiceInv
<1> QED BY <1>1, ServiceInvariant, PTL
===============================================================================
