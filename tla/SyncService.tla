---------------------------- MODULE SyncService ----------------------------
(***************************************************************************)
(* What the screens of a sync talk to, sync/service.rs, with the pairing   *)
(* of flow.rs, the window and the connection of net.rs, and the list of    *)
(* paired devices, peers.rs: one run at a time on each device, a thread    *)
(* that does it, and a person who types, chooses, cancels, locks, removes  *)
(* devices and scans any code there ever was.                              *)
(*                                                                         *)
(* A code is the number of its window; the secret in a pairing code, which *)
(* becomes the pairing secret, is that number too, and what a sync is      *)
(* opened with is the pairing secret and the number together. That a first *)
(* message opens for the same secrets and for no others is what crypto.rs  *)
(* is taken for. How two devices compare and send rows once they have met  *)
(* is module SyncFlow: here it is the rows of each, sent once both ways,   *)
(* after a review or without one.                                          *)
(***************************************************************************)
EXTENDS Integers, Sequences, FiniteSets, SequencesExt

CONSTANTS
  Desktops, Phones,
  CODE_TRIES,        \* tries at the six digits
  MaxBad,            \* max_bad_handshakes
  MaxConnections,    \* max_connections
  MaxBacklog,        \* bound: connections that wait at a listener
  MaxCodes,          \* bound: windows that are ever opened
  MaxFaults,         \* bound: broken connections, strangers that connect, failing starts
  MaxActs,           \* bound: how often a person locks, removes a device or writes something
  Scopes             \* bound: which desktops run something, and what goes on besides

ASSUME ServiceAssumption ==
  /\ Desktops \cap Phones = {} /\ {"none", "stranger"} \cap (Desktops \cup Phones) = {}
  /\ Scopes \subseteq [run : SUBSET Desktops, besides : SUBSET STRING]
  /\ {CODE_TRIES, MaxBad, MaxConnections, MaxBacklog} \subseteq Nat \ {0}
  /\ {MaxCodes, MaxFaults, MaxActs} \subseteq Nat

Devices == Desktops \cup Phones

VARIABLES
  thread,    \* thread[x]: the run of x; Shared::busy is that there is one
  status,    \* status[x]: Shared::status, with the window and the purpose of what ended
  cancel,    \* cancel[x]: the flag of the run
  answer,    \* answer[x]: Shared::typed and Shared::choices
  locked,    \* locked[x]: "no", "yes", or "closing": locked, and the sync not cancelled yet
  peers,     \* peers[x]: sync_peers by id
  data,      \* data[x]: the devices whose rows x holds
  record,    \* record[x]: x has a record of currency changes
  window,    \* window[d]: the listener of desktop d
  backlog,   \* backlog[d]: the connections that wait at it
  link,      \* link[d]: the channel of desktop d, and what is on its way in it
  codes,     \* the codes that were ever shown
  matched,   \* the pairings whose digits were typed right
  stored,    \* <<x, s>>: x stored the secret s at some time
  removed,   \* <<x, y>>: the person had x forget y
  took,      \* <<p, d>>: phone p took the rows of desktop d
  scope,     \* what happens in this run
  faults, acts

threadVars == <<thread, status, answer>>
netVars == <<window, backlog, link>>
dbVars == <<peers, data, record>>
history == <<codes, matched, stored, removed, took>>
vars == <<thread, status, cancel, answer, locked, dbVars, netVars, history, scope, faults, acts>>

Run(stage, kind, code, desktop) ==
  [at |-> stage, kind |-> kind, code |-> code, desktop |-> desktop,
   expected |-> "none", empty |-> FALSE, known |-> {}, tries |-> 0, rows |-> {}]
Rest == Run("rest", "none", 0, "none")
Shown(state) == [state |-> state, kind |-> "none", code |-> 0]
NoWindow == [code |-> 0, bad |-> 0, connections |-> 0, who |-> << >>, keys |-> << >>]
NoLink == [phone |-> "none", up |-> FALSE, code |-> 0, toPhone |-> << >>, toDesktop |-> << >>]

\* What a first message is made with: the secret in a pairing code, or the pairing secret and the number of a sync.
Key(secret, number) == [secret |-> secret, number |-> number]

Init ==
  /\ thread = [x \in Devices |-> Rest]
  /\ status = [x \in Devices |-> Shown("idle")]
  /\ cancel = [x \in Devices |-> FALSE]
  /\ answer = [x \in Devices |-> "none"]
  /\ locked = [x \in Devices |-> "no"]
  /\ peers = [x \in Devices |-> << >>]
  /\ data \in {f \in [Devices -> SUBSET Devices] :
                 \A x \in Devices : f[x] \subseteq {x} /\ (x \in Phones => f[x] = {})}
  /\ record \in {f \in [Devices -> BOOLEAN] : \A x \in Devices : f[x] => data[x] # {}}
  /\ window = [d \in Desktops |-> NoWindow]
  /\ backlog = [d \in Desktops |-> << >>]
  /\ link = [d \in Desktops |-> NoLink]
  /\ codes = {} /\ matched = {} /\ stored = {} /\ removed = {} /\ took = {}
  /\ scope \in Scopes
  /\ faults = 0 /\ acts = 0

Known(x) == {peers[x][i].who : i \in DOMAIN peers[x]}

\* `is_empty`
Empty(x) == data[x] = {} /\ ~record[x]

\* `add` replaces what was known of a device; the newest row is the last.
Place(x, y) == CHOOSE i \in DOMAIN peers[x] : peers[x][i].who = y
Without(x, y) == IF y \in Known(x) THEN RemoveAt(peers[x], Place(x, y)) ELSE peers[x]

Add(x, y, secret) ==
  /\ peers' = [peers EXCEPT ![x] = Append(Without(x, y), [who |-> y, secret |-> secret])]
  /\ stored' = stored \cup {<<x, secret>>}

Fault(kind) == kind \in scope.besides /\ faults < MaxFaults /\ faults' = faults + 1
Act(kind) == kind \in scope.besides /\ acts < MaxActs /\ acts' = acts + 1

-----------------------------------------------------------------------------
(***************************************************************************)
(* The ends of a run. `finish` says how it went and frees the service; the *)
(* listener, the connections that wait and the channel go with the thread. *)
(* What is still on its way may be read, or be lost.                       *)
(***************************************************************************)
At(x, stage) == thread[x].at = stage

\* The desktop a phone's run is about, and its end of the channel.
Other(p) == thread[p].desktop
OnLine(p) == link[Other(p)].phone = p /\ link[Other(p)].code = thread[p].code

HangUp(x) ==
  IF x \in Desktops
  THEN /\ window' = [window EXCEPT ![x] = NoWindow]
       /\ backlog' = [backlog EXCEPT ![x] = << >>]
       /\ link' = [link EXCEPT ![x].up = FALSE]
  ELSE /\ link' = IF OnLine(x) THEN [link EXCEPT ![Other(x)].up = FALSE] ELSE link
       /\ backlog' = [d \in Desktops |->
            [i \in DOMAIN backlog[d] |->
               IF backlog[d][i].phone = x THEN [backlog[d][i] EXCEPT !.live = FALSE] ELSE backlog[d][i]]]
       /\ UNCHANGED window

Finish(x, how) ==
  /\ status' = [status EXCEPT ![x] = [state |-> how, kind |-> thread[x].kind, code |-> thread[x].code]]
  /\ thread' = [thread EXCEPT ![x] = Rest]
  /\ HangUp(x)

\* The run of x at a stage, without what belonged to the stage before.
Now(x, stage) == Run(stage, thread[x].kind, thread[x].code, thread[x].desktop)

\* `begin` claims the service for a new run.
Begin(x, t) ==
  /\ At(x, "rest") /\ x \in Phones \cup scope.run
  /\ thread' = [thread EXCEPT ![x] = t]
  /\ cancel' = [cancel EXCEPT ![x] = FALSE]
  /\ answer' = [answer EXCEPT ![x] = "none"]

\* Reading: the flag is looked at before anything is read.
Inbox(x) ==
  IF x \in Desktops THEN link[x].toDesktop
  ELSE IF OnLine(x) THEN link[Other(x)].toPhone ELSE << >>
Up(x) == IF x \in Desktops THEN link[x].up ELSE OnLine(x) /\ link[Other(x)].up

Reads(x, m) == ~cancel[x] /\ Inbox(x) # << >> /\ Head(Inbox(x)).m = m

Msg(m) == [m |-> m, rows |-> {}]

\* The channel after x read a message and sent others.
Read(x, sent) ==
  IF x \in Desktops
  THEN link' = [link EXCEPT ![x].toDesktop = Tail(@), ![x].toPhone = @ \o sent]
  ELSE link' = [link EXCEPT ![Other(x)].toPhone = Tail(@), ![Other(x)].toDesktop = @ \o sent]

Goes(x, stage) == thread' = [thread EXCEPT ![x].at = stage]
Shows(x, state) == status' = [status EXCEPT ![x] = [state |-> state, kind |-> thread[x].kind, code |-> thread[x].code]]

(***************************************************************************)
(* A run stops where it waits, when it is cancelled, when the other end is *)
(* gone, or when it took too long; and at any step that needs the database *)
(* once the app is locked.                                                 *)
(***************************************************************************)
Listening == {"hello", "answer", "hello again", "rows", "rows back", "done",
              "reply", "theirs", "waits", "copy"}
People == {"digits", "review"}
NeedsDb == {"starting", "hello", "answer", "hello again", "copy", "rows", "rows back", "done", "reply",
            "theirs", "add", "apply", "review"}

\* Mutant of TimesOut: a review waits for the person as long as it takes.
TimesOutButReview(x) == thread[x].at \in (Listening \cup {"window", "digits"})

\* The idle limit of the connection, the window's own time, CONFIRM_WAIT and REVIEW_WAIT.
TimesOut(x) == thread[x].at \in (Listening \cup People \cup {"window"})

Stops(x) ==
  /\ \/ TimesOut(x)
     \/ cancel[x] /\ thread[x].at \in (Listening \cup {"window"})
     \/ cancel[x] /\ thread[x].at \in People /\ answer[x] = "none"
     \/ thread[x].at \in Listening /\ Inbox(x) = << >> /\ ~Up(x)
     \/ locked[x] # "no" /\ thread[x].at \in NeedsDb
  /\ Finish(x, "failed")
  /\ UNCHANGED <<cancel, answer, locked, dbVars, history, scope, faults, acts>>

-----------------------------------------------------------------------------
(***************************************************************************)
(* The desktop.                                                            *)
(***************************************************************************)
StartPairing(d) ==
  /\ Cardinality(codes) < MaxCodes /\ \A e \in Desktops : ~At(e, "starting")
  /\ Begin(d, Run("starting", "pair", 0, "none"))
  /\ status' = [status EXCEPT ![d] = Shown("idle")]
  /\ UNCHANGED <<locked, dbVars, netVars, history, scope, faults, acts>>

StartSync(d) ==
  /\ Cardinality(codes) < MaxCodes /\ \A e \in Desktops : ~At(e, "starting")
  /\ Begin(d, Run("starting", "sync", 0, "none"))
  /\ status' = [status EXCEPT ![d] = Shown("idle")]
  /\ UNCHANGED <<locked, dbVars, netVars, history, scope, faults, acts>>

\* Nobody is paired; or, where the network makes trouble, a pairing or a sync finds no address, no random number or no port.
CannotOpen(d) ==
  /\ d \in Desktops /\ At(d, "starting")
  /\ (thread[d].kind = "sync" /\ peers[d] = << >>) \/ "break" \in scope.besides
  /\ Finish(d, "failed")
  /\ UNCHANGED <<cancel, answer, locked, dbVars, history, scope, faults, acts>>

\* Which secrets a first message may be made with, in the order of the devices they are for.
OpenWindow(d) ==
  /\ d \in Desktops /\ At(d, "starting") /\ locked[d] = "no"
  /\ thread[d].kind = "sync" => peers[d] # << >>
  /\ LET n == Cardinality(codes) + 1
         kind == thread[d].kind IN
     /\ window' = [window EXCEPT ![d] =
          [code |-> n, bad |-> 0, connections |-> 0,
           who |-> [i \in DOMAIN peers[d] |-> peers[d][i].who],
           keys |-> IF kind = "pair" THEN <<Key(n, 0)>>
                    ELSE [i \in DOMAIN peers[d] |-> Key(peers[d][i].secret, n)]]]
     /\ codes' = codes \cup {[desktop |-> d, kind |-> kind, code |-> n]}
     /\ thread' = [thread EXCEPT ![d] = [@ EXCEPT !.at = "window", !.code = n]]
     /\ status' = [status EXCEPT ![d] = [state |-> "waiting", kind |-> kind, code |-> n]]
  /\ UNCHANGED <<cancel, answer, locked, dbVars, backlog, link, matched, stored, removed, took, scope, faults, acts>>

\* `accept`, one connection after the other. A first message that opens closes the window once the reply is
\* written, whether the phone still waits for it or not: then nobody is there. What does not open, and a connection
\* that breaks before the reply is written, is closed without a word; only a whole message that does not open is bad.
Opens(d, c) == {i \in DOMAIN window[d].keys : window[d].keys[i] = c.key}

Replies(d, c) ==
  /\ window' = [window EXCEPT ![d] = NoWindow]
  /\ backlog' = [backlog EXCEPT ![d] = << >>]
  /\ link' = [link EXCEPT ![d] =
       [phone |-> IF c.live THEN c.phone ELSE "none", up |-> c.live, code |-> window[d].code,
        toPhone |-> <<Msg("reply")>>, toDesktop |-> << >>]]
  /\ thread' = [thread EXCEPT ![d] = [Now(d, "hello") EXCEPT
       !.expected = IF thread[d].kind = "pair" THEN c.phone ELSE window[d].who[CHOOSE i \in Opens(d, c) : TRUE]]]
  /\ IF thread[d].kind = "sync" THEN Shows(d, "running") ELSE UNCHANGED status

Closes(d, bad, connections) ==
  IF bad >= MaxBad \/ connections >= MaxConnections
  THEN Finish(d, "failed")
  ELSE /\ window' = [window EXCEPT ![d].bad = bad, ![d].connections = connections]
       /\ backlog' = [backlog EXCEPT ![d] = Tail(@)]
       /\ UNCHANGED <<link, thread, status>>

Accept(d) ==
  /\ At(d, "window") /\ ~cancel[d] /\ backlog[d] # << >>
  /\ LET c == Head(backlog[d])
         unopened == IF c.phone # "stranger" /\ Opens(d, c) = {} THEN 1 ELSE 0 IN
     \/ Opens(d, c) # {} /\ Replies(d, c)
     \/ /\ Opens(d, c) # {} => ~c.live \/ "break" \in scope.besides
        /\ Closes(d, window[d].bad + unopened, window[d].connections + 1)
  /\ UNCHANGED <<cancel, answer, locked, dbVars, history, scope, faults, acts>>

\* Mutant of Hello: the phone is stored before the digits are typed.
HelloStores(d) ==
  /\ At(d, "hello") /\ Reads(d, "hello") /\ locked[d] = "no"
  /\ thread[d].expected = link[d].phone
  /\ IF thread[d].kind = "pair"
     THEN Read(d, << >>) /\ Shows(d, "showCode") /\ Goes(d, "answer") /\ Add(d, link[d].phone, thread[d].code)
     ELSE Read(d, <<Msg("hello")>>) /\ Goes(d, "copy") /\ UNCHANGED <<status, peers, stored>>
  /\ UNCHANGED <<cancel, answer, locked, data, record, window, backlog, codes, matched, removed, took, scope, faults, acts>>

\* The phone says who it is: in a pairing the digits are shown, in a sync it must be the one whose secret opened the window.
Hello(d) ==
  /\ At(d, "hello") /\ Reads(d, "hello") /\ locked[d] = "no"
  /\ thread[d].expected = link[d].phone
  /\ IF thread[d].kind = "pair"
     THEN Read(d, << >>) /\ Shows(d, "showCode") /\ Goes(d, "answer")
     ELSE Read(d, <<Msg("hello")>>) /\ Goes(d, "copy") /\ UNCHANGED status
  /\ UNCHANGED <<cancel, answer, locked, dbVars, window, backlog, history, scope, faults, acts>>

\* Mutant of Accepted: the phone is stored once the digits are right.
AcceptedStores(d) ==
  /\ At(d, "answer") /\ Reads(d, "accept") /\ locked[d] = "no"
  /\ Add(d, link[d].phone, thread[d].code)
  /\ Read(d, <<Msg("hello")>>) /\ Goes(d, "hello again")
  /\ UNCHANGED <<status, cancel, answer, locked, data, record, window, backlog, codes, matched, removed, took, scope, faults, acts>>

\* The phone says the digits were right: it gets this desktop's hello and its record of currency changes.
Accepted(d) ==
  /\ At(d, "answer") /\ Reads(d, "accept") /\ locked[d] = "no"
  /\ Read(d, <<Msg("hello")>>) /\ Goes(d, "hello again")
  /\ UNCHANGED <<status, cancel, answer, locked, dbVars, window, backlog, history, scope, faults, acts>>

\* Its second hello: only now is it stored.
StorePhone(d) ==
  /\ At(d, "hello again") /\ Reads(d, "hello") /\ locked[d] = "no"
  /\ Add(d, link[d].phone, thread[d].code)
  /\ Read(d, << >>) /\ Shows(d, "running") /\ Goes(d, "copy")
  /\ UNCHANGED <<cancel, answer, locked, data, record, window, backlog, codes, matched, removed, took, scope, faults, acts>>

-----------------------------------------------------------------------------
(***************************************************************************)
(* The phone.                                                              *)
(***************************************************************************)
Scan(p, c) ==
  /\ Begin(p, Run("starting", c.kind, c.code, c.desktop))
  /\ status' = [status EXCEPT ![p] = [state |-> "connecting", kind |-> c.kind, code |-> c.code]]
  /\ UNCHANGED <<locked, dbVars, netVars, history, scope, faults, acts>>

\* A phone syncs with the desktop it knows first.
KeyOf(p) == IF thread[p].kind = "pair" THEN Key(thread[p].code, 0) ELSE Key(peers[p][1].secret, thread[p].code)

\* Whether the phone may go on at all is looked at before it connects.
MayDial(p) == IF thread[p].kind = "pair" THEN Empty(p) \/ peers[p] # << >> ELSE peers[p] # << >>

Answers(p) == window[Other(p)].code = thread[p].code /\ Len(backlog[Other(p)]) < MaxBacklog

Dial(p) ==
  /\ p \in Phones /\ At(p, "starting") /\ locked[p] = "no" /\ MayDial(p) /\ Answers(p)
  /\ backlog' = [backlog EXCEPT ![Other(p)] = Append(@, [phone |-> p, key |-> KeyOf(p), live |-> TRUE])]
  /\ thread' = [thread EXCEPT ![p] = [Now(p, "reply") EXCEPT !.empty = Empty(p), !.known = Known(p), !.tries = CODE_TRIES]]
  /\ UNCHANGED <<status, cancel, answer, locked, dbVars, window, link, history, scope, faults, acts>>

CannotDial(p) ==
  /\ p \in Phones /\ At(p, "starting") /\ locked[p] = "no" /\ ~(MayDial(p) /\ Answers(p))
  /\ Finish(p, "failed")
  /\ UNCHANGED <<cancel, answer, locked, dbVars, history, scope, faults, acts>>

\* The connection was closed without a word, or with the window.
TurnedAway(p) ==
  /\ p \in Phones /\ At(p, "reply") /\ ~OnLine(p)
  /\ \A i \in DOMAIN backlog[Other(p)] : backlog[Other(p)][i].phone # p
  /\ Finish(p, "failed")
  /\ UNCHANGED <<cancel, answer, locked, dbVars, history, scope, faults, acts>>

Greet(p) ==
  /\ p \in Phones /\ At(p, "reply") /\ Reads(p, "reply") /\ locked[p] = "no"
  /\ Read(p, <<Msg("hello")>>)
  /\ answer' = [answer EXCEPT ![p] = "none"]
  /\ IF thread[p].kind = "pair"
     THEN Shows(p, "enterCode") /\ Goes(p, "digits")
     ELSE Shows(p, "running") /\ Goes(p, "theirs")
  /\ UNCHANGED <<cancel, locked, dbVars, window, backlog, history, scope, faults, acts>>

\* `enter_code`: what was typed is taken before the flag is looked at.
RightDigits(p) ==
  /\ p \in Phones /\ At(p, "digits") /\ answer[p] = "right"
  /\ matched' = matched \cup {thread[p].code}
  /\ answer' = [answer EXCEPT ![p] = "none"]
  /\ IF Up(p)
     THEN /\ link' = [link EXCEPT ![Other(p)].toDesktop = Append(@, Msg("accept"))]
          /\ Shows(p, "running") /\ Goes(p, "theirs") /\ UNCHANGED <<window, backlog>>
     ELSE Finish(p, "failed")
  /\ UNCHANGED <<cancel, locked, dbVars, codes, stored, removed, took, scope, faults, acts>>

WrongDigits(p) ==
  /\ p \in Phones /\ At(p, "digits") /\ answer[p] = "wrong"
  /\ answer' = [answer EXCEPT ![p] = "none"]
  /\ IF thread[p].tries = 1 THEN Finish(p, "failed")
     ELSE /\ thread' = [thread EXCEPT ![p].tries = @ - 1]
          /\ UNCHANGED <<status, netVars>>
  /\ UNCHANGED <<cancel, locked, dbVars, history, scope, faults, acts>>

\* The desktop's hello. A phone that was empty when it began takes the record as it is, if it is still
\* empty; one that knew this desktop takes what is new, unless its own record is past the desktop's; another phone stops here.
MeetDesktop(p) ==
  /\ p \in Phones /\ At(p, "theirs") /\ Reads(p, "hello") /\ locked[p] = "no"
  /\ LET d == Other(p)
         fits == IF thread[p].empty THEN Empty(p) ELSE d \in thread[p].known /\ (record[p] => record[d]) IN
     IF thread[p].kind = "sync"
     THEN /\ Read(p, << >>) /\ Goes(p, "copy")
          /\ UNCHANGED <<status, window, backlog, record>>
     ELSE IF fits
     THEN /\ record' = [record EXCEPT ![p] = @ \/ record[d]]
          /\ Read(p, << >>) /\ Goes(p, "add") /\ UNCHANGED <<status, window, backlog>>
     ELSE Finish(p, "failed") /\ UNCHANGED record
  /\ UNCHANGED <<cancel, answer, locked, peers, data, history, scope, faults, acts>>

\* Mutant of StoreDesktop: the desktop is not stored before the copy.
StoreDesktopAfter(p) ==
  /\ p \in Phones /\ At(p, "add") /\ locked[p] = "no"
  /\ IF Up(p)
     THEN /\ link' = [link EXCEPT ![Other(p)].toDesktop = Append(@, Msg("hello"))]
          /\ Shows(p, "running") /\ Goes(p, "copy") /\ UNCHANGED <<window, backlog>>
     ELSE Finish(p, "failed")
  /\ UNCHANGED <<peers, stored, cancel, answer, locked, data, record, codes, matched, removed, took, scope, faults, acts>>

\* The desktop is stored, and then told what this phone holds.
StoreDesktop(p) ==
  /\ p \in Phones /\ At(p, "add") /\ locked[p] = "no"
  /\ Add(p, Other(p), thread[p].code)
  /\ IF Up(p)
     THEN /\ link' = [link EXCEPT ![Other(p)].toDesktop = Append(@, Msg("hello"))]
          /\ Shows(p, "running") /\ Goes(p, "copy") /\ UNCHANGED <<window, backlog>>
     ELSE Finish(p, "failed")
  /\ UNCHANGED <<cancel, answer, locked, data, record, codes, matched, removed, took, scope, faults, acts>>

-----------------------------------------------------------------------------
(***************************************************************************)
(* Rows, after a review on the desktop or without one; then the hashes.    *)
(***************************************************************************)
Tell(x, m) == link' = [link EXCEPT ![x].toPhone = Append(@, m)]

Review(d) ==
  /\ d \in Desktops /\ At(d, "copy") /\ ~cancel[d] /\ Up(d) /\ thread[d].kind = "sync" /\ data[d] # {}
  /\ Tell(d, Msg("review"))
  /\ answer' = [answer EXCEPT ![d] = "none"]
  /\ Shows(d, "reviewing") /\ Goes(d, "review")
  /\ UNCHANGED <<cancel, locked, dbVars, window, backlog, history, scope, faults, acts>>

CarryOut(d) ==
  /\ d \in Desktops /\ At(d, "review") /\ answer[d] = "chosen" /\ locked[d] = "no"
  /\ answer' = [answer EXCEPT ![d] = "none"]
  /\ IF Up(d) THEN Tell(d, Msg("reviewed")) /\ Shows(d, "running") /\ Goes(d, "rows") /\ UNCHANGED <<window, backlog>>
     ELSE Finish(d, "failed")
  /\ UNCHANGED <<cancel, locked, dbVars, history, scope, faults, acts>>

WaitForReview(p) ==
  /\ p \in Phones /\ At(p, "copy") /\ Reads(p, "review")
  /\ Read(p, << >>) /\ Shows(p, "waitingReview") /\ Goes(p, "waits")
  /\ UNCHANGED <<cancel, answer, locked, dbVars, window, backlog, history, scope, faults, acts>>

Reviewed(p) ==
  /\ p \in Phones /\ At(p, "waits") /\ Reads(p, "reviewed")
  /\ Read(p, << >>) /\ Shows(p, "running") /\ Goes(p, "copy")
  /\ UNCHANGED <<cancel, answer, locked, dbVars, window, backlog, history, scope, faults, acts>>

SendRows(d) ==
  /\ d \in Desktops /\ thread[d].at \in {"copy", "rows"} /\ ~cancel[d] /\ locked[d] = "no" /\ Up(d)
  /\ Tell(d, [m |-> "rows", rows |-> data[d]])
  /\ Goes(d, "rows back")
  /\ UNCHANGED <<status, cancel, answer, locked, dbVars, window, backlog, history, scope, faults, acts>>

TakeRows(p) ==
  /\ p \in Phones /\ At(p, "copy") /\ Reads(p, "rows") /\ locked[p] = "no"
  /\ thread' = [thread EXCEPT ![p] = [Now(p, "apply") EXCEPT !.rows = Head(Inbox(p)).rows]]
  /\ Read(p, <<[m |-> "rows", rows |-> data[p]]>>)
  /\ UNCHANGED <<status, cancel, answer, locked, dbVars, window, backlog, history, scope, faults, acts>>

Apply(p) ==
  /\ p \in Phones /\ At(p, "apply") /\ locked[p] = "no"
  /\ data' = [data EXCEPT ![p] = @ \cup thread[p].rows]
  /\ took' = took \cup {<<p, Other(p)>>}
  /\ thread' = [thread EXCEPT ![p] = Now(p, "done")]
  /\ UNCHANGED <<status, cancel, answer, locked, peers, record, netVars, codes, matched, stored, removed, scope, faults, acts>>

ApplyBack(d) ==
  /\ d \in Desktops /\ At(d, "rows back") /\ Reads(d, "rows") /\ locked[d] = "no"
  /\ data' = [data EXCEPT ![d] = @ \cup Head(Inbox(d)).rows]
  /\ Read(d, <<Msg("done")>>) /\ Goes(d, "done")
  /\ UNCHANGED <<status, cancel, answer, locked, peers, record, window, backlog, history, scope, faults, acts>>

\* The other end is equal: the time of the sync is noted, and that was all.
Done(x) ==
  /\ At(x, "done") /\ Reads(x, "done") /\ locked[x] = "no"
  /\ status' = [status EXCEPT ![x] = [state |-> "done", kind |-> thread[x].kind, code |-> thread[x].code]]
  /\ thread' = [thread EXCEPT ![x] = Rest]
  /\ IF x \in Phones
     THEN link' = [link EXCEPT ![Other(x)].toPhone = Tail(@), ![Other(x)].toDesktop = Append(@, Msg("done")), ![Other(x)].up = FALSE]
     ELSE link' = [link EXCEPT ![x].toDesktop = Tail(@), ![x].up = FALSE]
  /\ UNCHANGED <<cancel, answer, locked, dbVars, window, backlog, history, scope, faults, acts>>

-----------------------------------------------------------------------------
(***************************************************************************)
(* The people and the network.                                             *)
(***************************************************************************)
Type(p, digits) ==
  /\ p \in Phones /\ status[p].state = "enterCode"
  /\ answer' = [answer EXCEPT ![p] = digits]
  /\ UNCHANGED <<thread, status, cancel, locked, dbVars, netVars, history, scope, faults, acts>>

Decide(d) ==
  /\ status[d].state = "reviewing"
  /\ answer' = [answer EXCEPT ![d] = "chosen"]
  /\ UNCHANGED <<thread, status, cancel, locked, dbVars, netVars, history, scope, faults, acts>>

Cancel(x) ==
  /\ Act("lock")
  /\ cancel' = [cancel EXCEPT ![x] = TRUE]
  /\ UNCHANGED <<threadVars, locked, dbVars, netVars, history, scope, faults>>

Acknowledge(x) ==
  /\ At(x, "rest") /\ status[x].state \in {"done", "failed"} /\ Act("seen")
  /\ status' = [status EXCEPT ![x] = Shown("idle")]
  /\ UNCHANGED <<thread, answer, cancel, locked, dbVars, netVars, history, scope, faults>>

\* The vault is closed first, and what runs is cancelled after.
Lock(x) ==
  /\ locked[x] = "no" /\ x \in Phones \cup scope.run /\ Act("lock")
  /\ locked' = [locked EXCEPT ![x] = "closing"]
  /\ UNCHANGED <<threadVars, cancel, dbVars, netVars, history, scope, faults>>

LockCancels(x) ==
  /\ locked[x] = "closing"
  /\ locked' = [locked EXCEPT ![x] = "yes"]
  /\ cancel' = [cancel EXCEPT ![x] = TRUE]
  /\ UNCHANGED <<threadVars, dbVars, netVars, history, scope, faults, acts>>

Unlock(x) ==
  /\ locked[x] = "yes"
  /\ locked' = [locked EXCEPT ![x] = "no"]
  /\ UNCHANGED <<threadVars, cancel, dbVars, netVars, history, scope, faults, acts>>

RemoveDevice(x, y) ==
  /\ locked[x] = "no" /\ y \in Known(x) /\ Act("remove")
  /\ peers' = [peers EXCEPT ![x] = Without(x, y)]
  /\ removed' = removed \cup {<<x, y>>}
  /\ UNCHANGED <<threadVars, cancel, locked, data, record, netVars, codes, matched, stored, took, scope, faults>>

Write(x) ==
  /\ locked[x] = "no" /\ x \notin data[x] /\ Act("write")
  /\ data' = [data EXCEPT ![x] = @ \cup {x}]
  /\ UNCHANGED <<threadVars, cancel, locked, peers, record, netVars, history, scope, faults>>

\* A connection that sends nothing, until its time is over.
Stranger(d) ==
  /\ window[d] # NoWindow /\ Fault("stranger")
  /\ backlog' = [backlog EXCEPT ![d] = Append(@, [phone |-> "stranger", key |-> Key(0, 0), live |-> TRUE])]
  /\ UNCHANGED <<threadVars, cancel, locked, dbVars, window, link, history, scope, acts>>

Break(d) ==
  /\ link[d].up /\ Fault("break")
  /\ \E lost \in BOOLEAN :
       link' = [link EXCEPT ![d] = IF lost THEN [@ EXCEPT !.up = FALSE, !.toPhone = << >>, !.toDesktop = << >>]
                                   ELSE [@ EXCEPT !.up = FALSE]]
  /\ UNCHANGED <<threadVars, cancel, locked, dbVars, window, backlog, history, scope, acts>>

ThreadStep(x) ==
  \/ Stops(x) \/ Done(x)
  \/ CannotOpen(x) \/ OpenWindow(x)
  \/ x \in Desktops /\ (Accept(x) \/ Hello(x) \/ Accepted(x) \/ StorePhone(x))
  \/ Review(x) \/ CarryOut(x) \/ SendRows(x) \/ ApplyBack(x)
  \/ Dial(x) \/ CannotDial(x) \/ TurnedAway(x) \/ Greet(x) \/ RightDigits(x) \/ WrongDigits(x)
  \/ MeetDesktop(x) \/ StoreDesktop(x) \/ WaitForReview(x) \/ Reviewed(x) \/ TakeRows(x) \/ Apply(x)

Next ==
  \/ \E x \in Devices : ThreadStep(x)
  \/ \E d \in Desktops : StartPairing(d) \/ StartSync(d) \/ Decide(d) \/ Stranger(d) \/ Break(d)
  \/ \E p \in Phones : (\E c \in codes : Scan(p, c)) \/ Type(p, "right") \/ Type(p, "wrong")
  \/ \E x \in Devices : Cancel(x) \/ Acknowledge(x) \/ Lock(x) \/ LockCancels(x) \/ Unlock(x) \/ Write(x)
  \/ \E x, y \in Devices : RemoveDevice(x, y)

Spec == Init /\ [][Next]_vars

(***************************************************************************)
(* Fairness: a thread goes on, or its time is over; nothing is assumed of  *)
(* people or of the network.                                               *)
(***************************************************************************)
FairSpec ==
  Spec /\ \A x \in Devices : WF_vars(ThreadStep(x)) /\ WF_vars(LockCancels(x))

-----------------------------------------------------------------------------
States == {"idle", "waiting", "connecting", "showCode", "enterCode", "running", "reviewing", "waitingReview", "done", "failed"}
DesktopStages == {"rest", "starting", "window", "hello", "answer", "hello again", "copy", "review", "rows", "rows back", "done"}
PhoneStages == {"rest", "starting", "reply", "digits", "theirs", "add", "copy", "waits", "apply", "done"}
Kinds == {"none", "pair", "sync"}
Messages == [m : {"reply", "hello", "accept", "review", "reviewed", "rows", "done"}, rows : SUBSET Devices]
Keys == [secret : Nat, number : Nat]
Runs ==
  [at : DesktopStages \cup PhoneStages, kind : Kinds, code : Nat, desktop : Desktops \cup {"none"},
   expected : Devices \cup {"none", "stranger"}, empty : BOOLEAN, known : SUBSET Devices, tries : Int, rows : SUBSET Devices]
Windows == [code : Nat, bad : Nat, connections : Nat, who : Seq(Devices), keys : Seq(Keys)]
Links == [phone : Phones \cup {"none"}, up : BOOLEAN, code : Nat, toPhone : Seq(Messages), toDesktop : Seq(Messages)]
Callers == [phone : Phones \cup {"stranger"}, key : Keys, live : BOOLEAN]
Codes == [desktop : Desktops, kind : {"pair", "sync"}, code : Nat \ {0}]

TypeOK ==
  /\ thread \in [Devices -> Runs] /\ \A d \in Desktops : thread[d].at \in DesktopStages
  /\ \A p \in Phones : thread[p].at \in PhoneStages /\ (~At(p, "rest") => Other(p) \in Desktops)
  /\ status \in [Devices -> [state : States, kind : Kinds, code : Nat]]
  /\ \A x \in Devices : At(x, "rest") => status[x].state \in {"idle", "done", "failed"}
  /\ cancel \in [Devices -> BOOLEAN] /\ answer \in [Devices -> {"none", "right", "wrong", "chosen"}]
  /\ locked \in [Devices -> {"no", "closing", "yes"}] /\ scope \in Scopes
  /\ peers \in [Devices -> Seq([who : Devices, secret : Nat])]
  /\ \A x \in Devices : \A i, j \in DOMAIN peers[x] : peers[x][i].who = peers[x][j].who => i = j
  /\ data \in [Devices -> SUBSET Devices] /\ record \in [Devices -> BOOLEAN]
  /\ window \in [Desktops -> Windows] /\ link \in [Desktops -> Links]
  /\ backlog \in [Desktops -> Seq(Callers)]
  /\ codes \subseteq Codes /\ matched \subseteq Nat
  /\ stored \subseteq Devices \X Nat /\ removed \subseteq Devices \X Devices /\ took \subseteq Phones \X Desktops

\* Nothing is stored, on either device, before the digits of that pairing were typed right
\* (sync-design.md:74): no secret, however the two threads, locks and breaks are ordered.
SecretsAreConfirmed == \A x \in Devices : \A i \in DOMAIN peers[x] : peers[x][i].secret \in matched

\* A desktop keeps a secret only once the phone has it, and a pairing that ends well on
\* either screen has left its secret on both (flow.rs:548-553).
StoredTogether ==
  /\ \A e \in stored : e[1] \in Desktops => \E p \in Phones : <<p, e[2]>> \in stored
  /\ \A x \in Devices :
       status[x].state = "done" /\ status[x].kind = "pair" =>
         \A side \in {Desktops, Phones} : \E y \in side : <<y, status[x].code>> \in stored

\* A phone knows every desktop it took rows from, unless the person had it forget it, and it holds rows of others only from
\* there: else it could never be paired again without being erased (flow.rs:585-588).
KnowsItsDesktop ==
  \A p \in Phones :
    /\ \A d \in Desktops : <<p, d>> \in took => d \in Known(p) \/ <<p, d>> \in removed
    /\ data[p] \subseteq {p} \/ \E d \in Desktops : <<p, d>> \in took

\* Whatever the person and the other device do or leave undone, a run ends and the service is free again.
RunsEnd == \A x \in Devices : []<>At(x, "rest")

\* Violated: a phone that was empty, and whose pairings all broke off before a row came, can be
\* paired (sync-design.md:76 "Only an empty phone pairs").
NeverTurnedAway == \A p \in Phones : data[p] = {} /\ removed = {} => Empty(p) \/ peers[p] # << >>

\* Violated: a phone that is paired with a desktop can sync with it (flow_tests.rs:389).
PairedCanSync ==
  \A p \in Phones, d \in Desktops :
    (\E i \in DOMAIN peers[p], j \in DOMAIN peers[d] :
       peers[p][i] = [who |-> d, secret |-> peers[d][j].secret] /\ peers[d][j].who = p /\ data[d] # {} /\ d \in data[p])
    => peers[p][1].who = d
=============================================================================
