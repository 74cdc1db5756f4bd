---------------------------- MODULE BackupsProofs ----------------------------
(***************************************************************************)
(* Proofs about the documents and the backups: their types, that rows and  *)
(* files belong together wherever a call stops, that a backup lacks no     *)
(* file that was there for it, and that a restore is whole or nothing.     *)
(***************************************************************************)
EXTENDS Backups, FiniteSetTheorems, WellFoundedInduction, TLAPS

Calls == {Free} \cup AddCalls \cup DeleteCalls \cup RestoreCalls
Restoring == holding.op = "restore"

\* Between the first start and the rows of a first backup there is nothing yet to be kept.
NotYet == ~isSetUp \/ (Restoring /\ holding.first)

-----------------------------------------------------------------------------
(* Uploads. The page that began what is in the slot still sends it: what   *)
(* is there is all its own; or the other page broke in, then only that one *)
(* can go on, and the first has fallen behind.                             *)
Begun(q, p) ==
  /\ q # p /\ sender[q].file = upload.file /\ ~sender[q].checked
  /\ \/ sender[q].sent = Len(upload.data) /\ \A n \in DOMAIN upload.data : upload.data[n] = upload.file
     \/ /\ sender[q].sent < Len(upload.data) /\ sender[p].sent = Len(upload.data) /\ ~sender[p].checked
        /\ \A n \in DOMAIN upload.data : upload.data[n] \in {upload.file, sender[p].file}

UploadInv ==
  /\ upload \in Uploads /\ sender \in [Pages -> Senders] /\ dropped \subseteq Contents
  /\ \A p \in Pages : sender[p].sent <= sender[p].file /\ (sender[p].checked => sender[p].file # 0 /\ sender[p].sent = 0)
  /\ upload # NoUpload => upload.file # 0 /\ \E q, p \in Pages : Begun(q, p)

-----------------------------------------------------------------------------
(* Documents. *)
DocumentTypes ==
  /\ scope \in Scopes /\ isSetUp \in BOOLEAN /\ holding \in Calls
  /\ rows \in Tables /\ DOMAIN rows \subseteq DOMAIN born /\ DOMAIN born \subseteq Docs
  /\ \A d \in DOMAIN born : born[d] \in Contents
  /\ files \in [Docs -> States]
  /\ temp \subseteq Docs /\ part \subseteq Docs /\ copies \subseteq Docs /\ lost \subseteq Docs
  /\ unlocked \in BOOLEAN /\ untidy \in BOOLEAN /\ clearing \in BOOLEAN /\ slips \in BOOLEAN

Blank ==
  /\ NotYet => DOMAIN rows = {} /\ copies = {}
  /\ ~isSetUp => ~unlocked /\ holding = Free /\ temp = {} /\ part = {} /\ \A d \in Docs : files[d] = None

\* What there is of a document is of one that was added or came with a backup.
Of(b) == DOMAIN b.rows \subseteq DOMAIN born /\ b.files \subseteq DOMAIN b.rows
Named ==
  /\ \A d \in Docs : files[d] # None => d \in DOMAIN born
  /\ temp \subseteq DOMAIN born /\ part \subseteq DOMAIN born
  /\ holding.op \in {"add", "delete"} => holding.doc \in DOMAIN born
  /\ Restoring => Of(holding.from) /\ holding.left \subseteq holding.from.files

\* How far a call is: what its last step still has to leave behind is there.
CallOK ==
  /\ holding.op = "add" =>
       /\ holding.new <=> holding.doc \notin DOMAIN rows
       /\ holding.new => holding.doc \notin part /\ (holding.at # "commit" => files[holding.doc] = None)
       /\ holding.at = "commit" => files[holding.doc] = Whole \/ holding.doc \in lost
  /\ holding.op = "delete" => holding.doc \notin DOMAIN rows
  /\ Restoring => \A d \in holding.from.files \ holding.left : files[d] = Whole

\* After the check of the folder only the call that is going on has something there that no row names, and of its own kind.
Clean ==
  unlocked /\ ~untidy /\ ~slips /\ ~Restoring =>
    /\ \A e \in temp : Adding("rename") /\ e = holding.doc
    /\ \A e \in part \ DOMAIN rows : holding.op = "delete" /\ e = holding.doc
    /\ \A e \in Strays : e = holding.doc /\ (holding.op = "delete" \/ (Adding("commit") /\ holding.new))

DocumentsInv ==
  DocumentTypes /\ Blank /\ Named /\ CallOK /\ Clean /\ FileBehindRow /\ PlainGoesWithTheLock /\ OneSender

-----------------------------------------------------------------------------
(* Backups. *)

\* What a backup has read and written so far: no document that was whole for it is left out.
JobHolds(j) ==
  /\ Of(j) /\ j.left \subseteq DOMAIN j.rows
  /\ j.at = "files" => j.steady \ j.left \subseteq j.files /\ \A d \in j.steady \cap j.left : files[d] = Whole

JobsInv ==
  /\ job \in [Writers -> {NoJob} \cup Jobs] /\ schedule \in Schedules /\ now \in 0..MaxNow
  /\ NotYet => \A w \in Writers : job[w] = NoJob
  /\ \A w \in Writers : job[w] # NoJob => JobHolds(job[w])

FolderInv ==
  /\ DOMAIN folder \subseteq Names /\ \A n \in DOMAIN folder : folder[n] \in Copies
  /\ NotYet => DOMAIN folder = {}
  /\ \A n \in DOMAIN folder : Of(folder[n]) /\ folder[n].steady \subseteq folder[n].files

BackupsInv == UploadInv /\ DocumentsInv /\ FolderInv /\ JobsInv

-----------------------------------------------------------------------------
(* Sets, functions and calls. *)
LEMMA MinIsIn ==
  ASSUME NEW S, S \subseteq Nat, S # {}
  PROVE  Min(S) \in S
<1> DEFINE Below == OpToRel(<, Nat)
<1>1. IsWellFoundedOn(Below, Nat)
  BY NatLessThanWellFounded
<1>2. \A m, n \in Nat : m < n => <<m, n>> \in Below
  BY DEF OpToRel
<1> HIDE DEF Below
<1>3. PICK m \in S : \A n \in S : <<n, m>> \notin Below
  BY <1>1, WFMin
<1>4. ASSUME NEW n \in S PROVE m <= n
  <2>1. m \in Nat /\ n \in Nat /\ ~(n < m)
    BY <1>2, <1>3
  <2> QED BY <2>1
<1> QED BY <1>3, <1>4 DEF Min

LEMMA TablesAre ==
  ASSUME NEW r
  PROVE  r \in Tables <=> \E D \in SUBSET Docs : r \in [D -> SUBSET Targets]
BY DEF Tables

LEMMA TableIs ==
  ASSUME NEW r \in Tables
  PROVE  DOMAIN r \subseteq Docs /\ r \in [DOMAIN r -> SUBSET Targets]
BY TablesAre

LEMMA PutRow ==
  ASSUME NEW r \in Tables, NEW d \in Docs, NEW links \in SUBSET Targets
  PROVE  Put(r, d, links) \in Tables /\ DOMAIN Put(r, d, links) = DOMAIN r \cup {d}
<1>1. Put(r, d, links) \in [DOMAIN r \cup {d} -> SUBSET Targets] /\ DOMAIN Put(r, d, links) = DOMAIN r \cup {d}
  BY TableIs DEF Put
<1> QED BY <1>1, TableIs, TablesAre

LEMMA WithoutRow ==
  ASSUME NEW r \in Tables, NEW d
  PROVE  Without(r, {d}) \in Tables /\ DOMAIN Without(r, {d}) = DOMAIN r \ {d}
<1>1. Without(r, {d}) \in [DOMAIN r \ {d} -> SUBSET Targets] /\ DOMAIN Without(r, {d}) = DOMAIN r \ {d}
  BY TableIs DEF Without, Restrict
<1> QED BY <1>1, TableIs, TablesAre

LEMMA ChangedRow ==
  ASSUME NEW r \in Tables, NEW d \in DOMAIN r, NEW links \in SUBSET Targets
  PROVE  [r EXCEPT ![d] = links] \in Tables /\ DOMAIN [r EXCEPT ![d] = links] = DOMAIN r
<1>1. [r EXCEPT ![d] = links] \in [DOMAIN r -> SUBSET Targets]
  BY TableIs
<1> QED BY <1>1, TableIs, TablesAre

LEMMA CallIs ==
  ASSUME holding \in Calls
  PROVE  /\ holding.op \in {"free", "add", "delete", "restore"} /\ (holding.op = "free" <=> holding = Free)
         /\ holding.op = "add" => /\ holding \in AddCalls /\ holding.doc \in Docs /\ holding.links \subseteq Targets
                                  /\ holding.at \in {"write", "rename", "commit"} /\ holding.new \in BOOLEAN
         /\ holding.op = "delete" => holding \in DeleteCalls /\ holding.doc \in Docs
         /\ Restoring => /\ holding \in RestoreCalls /\ holding.from \in Copies /\ holding.left \subseteq Docs
                         /\ holding.from.files \subseteq Docs /\ holding.from.rows \in Tables /\ holding.first \in BOOLEAN
<1>1. Free.op = "free"
  BY DEF Free
<1>2. \A c \in AddCalls : c.op = "add" /\ c.doc \in Docs /\ c.links \subseteq Targets /\ c.at \in {"write", "rename", "commit"} /\ c.new \in BOOLEAN
  BY DEF AddCalls
<1>3. \A c \in DeleteCalls : c.op = "delete" /\ c.doc \in Docs
  BY DEF DeleteCalls
<1>4. \A c \in RestoreCalls : c.op = "restore" /\ c.from \in Copies /\ c.left \subseteq Docs /\ c.first \in BOOLEAN
  BY DEF RestoreCalls
<1>5. \A b \in Copies : b.rows \in Tables /\ b.files \subseteq Docs
  BY DEF Copies
<1> QED BY <1>1, <1>2, <1>3, <1>4, <1>5 DEF Calls, Restoring

LEMMA FreeIs == Free \in Calls /\ Free.op = "free"
BY DEF Free, Calls

LEMMA CallWith ==
  ASSUME NEW c \in AddCalls, NEW stage \in {"write", "rename", "commit"}
  PROVE  /\ [c EXCEPT !.at = stage] \in AddCalls /\ [c EXCEPT !.at = stage].op = "add" /\ [c EXCEPT !.at = stage].at = stage
         /\ [c EXCEPT !.at = stage].doc = c.doc /\ [c EXCEPT !.at = stage].new = c.new /\ [c EXCEPT !.at = stage].page = c.page
BY DEF AddCalls

LEMMA NextStage ==
  ASSUME NEW CONSTANT c \in AddCalls, NEW CONSTANT stage \in {"write", "rename", "commit"},
         holding = c, holding' = [c EXCEPT !.at = stage]
  PROVE  /\ holding' \in Calls /\ holding'.op = "add" /\ holding'.at = stage
         /\ holding'.doc = holding.doc /\ holding'.new = holding.new /\ holding'.page = holding.page
<1> DEFINE n == [c EXCEPT !.at = stage]
<1>1. n \in AddCalls /\ n.op = "add" /\ n.at = stage /\ n.doc = c.doc /\ n.new = c.new /\ n.page = c.page
  BY CallWith
<1>2. holding' = n
  OBVIOUS
<1> HIDE DEF n
<1> QED BY <1>1, <1>2 DEF Calls

(* What a step may leave alone. *)
documents == <<scope, born, rows, files, temp, part, unlocked, holding, untidy, clearing, copies, lost, slips, isSetUp>>

LEMMA DocumentsSame ==
  ASSUME DocumentsInv, UNCHANGED documents
  PROVE  DocumentsInv'
<1>1. UNCHANGED <<scope, born, rows, files, temp, part, unlocked, holding, untidy, clearing, copies, lost, slips, isSetUp>>
  BY DEF documents
<1>2. DocumentTypes'
  BY <1>1 DEF DocumentsInv, DocumentTypes
<1>3. Blank'
  BY <1>1 DEF DocumentsInv, Blank, NotYet, Restoring
<1>4. Named'
  BY <1>1 DEF DocumentsInv, Named, Of, Restoring
<1>5. CallOK'
  BY <1>1 DEF DocumentsInv, CallOK, Restoring
<1>6. Clean'
  BY <1>1 DEF DocumentsInv, Clean, Restoring, Strays, Adding
<1>7. FileBehindRow' /\ PlainGoesWithTheLock' /\ OneSender'
  BY <1>1 DEF DocumentsInv, FileBehindRow, PlainGoesWithTheLock, OneSender
<1> QED BY <1>2, <1>3, <1>4, <1>5, <1>6, <1>7 DEF DocumentsInv

LEMMA FilePut ==
  ASSUME NEW f \in [Docs -> States], NEW d \in Docs, NEW s \in States
  PROVE  /\ [f EXCEPT ![d] = s] \in [Docs -> States] /\ [f EXCEPT ![d] = s][d] = s
         /\ \A e \in Docs \ {d} : [f EXCEPT ![d] = s][e] = f[e]
OBVIOUS

-----------------------------------------------------------------------------
(* The slot for a file on its way in. *)
LEMMA SenderIs ==
  ASSUME NEW s \in Senders
  PROVE  s.file \in Nat /\ s.file \in Contents \cup {0} /\ s.sent \in Nat /\ s.checked \in BOOLEAN
<1>1. s.file \in Contents \cup {0} /\ s.sent \in Nat /\ s.checked \in BOOLEAN
  BY DEF Senders
<1>2. \A c \in Contents \cup {0} : c \in Nat
  BY ContentsAssumption
<1> QED BY <1>1, <1>2

LEMMA SenderGoesOn ==
  ASSUME NEW s \in Senders
  PROVE  /\ [s EXCEPT !.checked = FALSE] \in Senders /\ [s EXCEPT !.checked = FALSE].checked = FALSE
         /\ [s EXCEPT !.checked = FALSE].file = s.file /\ [s EXCEPT !.checked = FALSE].sent = s.sent
         /\ [s EXCEPT !.sent = s.sent + 1] \in Senders /\ [s EXCEPT !.sent = s.sent + 1].sent = s.sent + 1
         /\ [s EXCEPT !.sent = s.sent + 1].file = s.file /\ [s EXCEPT !.sent = s.sent + 1].checked = s.checked
<1>1. s.sent + 1 \in Nat
  BY SenderIs
<1> QED BY <1>1 DEF Senders

LEMMA SenderPut ==
  ASSUME NEW f \in [Pages -> Senders], NEW p \in Pages, NEW s \in Senders
  PROVE  /\ [f EXCEPT ![p] = s] \in [Pages -> Senders] /\ [f EXCEPT ![p] = s][p] = s
         /\ \A q \in Pages \ {p} : [f EXCEPT ![p] = s][q] = f[q]
OBVIOUS

LEMMA UploadIs ==
  ASSUME NEW u \in Uploads
  PROVE  /\ u.file \in Nat /\ u.file \in Contents \cup {0} /\ u.data \in Seq(Contents) /\ Len(u.data) \in Nat
         /\ DOMAIN u.data = 1..Len(u.data)
<1>1. u.file \in Contents \cup {0} /\ u.data \in Seq(Contents)
  BY DEF Uploads
<1>2. \A c \in Contents \cup {0} : c \in Nat
  BY ContentsAssumption
<1>3. Len(u.data) \in Nat /\ DOMAIN u.data = 1..Len(u.data)
  BY <1>1
<1> QED BY <1>1, <1>2, <1>3

LEMMA Nothing ==
  /\ NoUpload \in Uploads /\ NoUpload.file = 0 /\ NoUpload.data = <<>>
  /\ NoSender \in Senders /\ NoSender.file = 0 /\ NoSender.sent = 0 /\ NoSender.checked = FALSE
BY DEF NoUpload, NoSender, Uploads, Senders

LEMMA Pieces ==
  ASSUME NEW s \in Seq(Contents), NEW c \in Contents
  PROVE  /\ Append(s, c) \in Seq(Contents) /\ Len(Append(s, c)) = Len(s) + 1 /\ Append(s, c)[Len(s) + 1] = c
         /\ \A n \in DOMAIN s : Append(s, c)[n] = s[n]
         /\ DOMAIN Append(s, c) = DOMAIN s \cup {Len(s) + 1}
OBVIOUS

LEMMA AskedKeeps ==
  ASSUME UploadInv, NEW CONSTANT p \in Pages, NEW CONSTANT c \in Contents, UploadAsked(p, c)
  PROVE  UploadInv'
<1> DEFINE s == [file |-> c, sent |-> 0, checked |-> TRUE]
<1>1. s \in Senders /\ s.file = c /\ s.sent = 0 /\ s.checked = TRUE /\ c \in Nat /\ c # 0
  BY ContentsAssumption DEF Senders
<1>2. sender \in [Pages -> Senders] /\ sender' = [sender EXCEPT ![p] = s] /\ sender[p] = NoSender /\ UNCHANGED <<upload, dropped>>
  BY DEF UploadAsked, UploadInv
<1> HIDE DEF s
<1>3. sender' \in [Pages -> Senders] /\ sender'[p] = s /\ \A q \in Pages \ {p} : sender'[q] = sender[q]
  BY <1>1, <1>2, SenderPut
<1>4. \A q \in Pages : sender'[q].sent <= sender'[q].file /\ (sender'[q].checked => sender'[q].file # 0 /\ sender'[q].sent = 0)
  BY <1>1, <1>3 DEF UploadInv
<1>5. ASSUME upload # NoUpload PROVE upload.file # 0 /\ \E q, r \in Pages : Begun(q, r)'
  <2>1. PICK q, r \in Pages : Begun(q, r)
    BY <1>5 DEF UploadInv
  <2>2. upload.file # 0
    BY <1>5 DEF UploadInv
  <2>3. q # p
    BY <2>1, <2>2, <1>2, Nothing DEF Begun
  <2>4. ~(sender[q].sent < Len(upload.data) /\ sender[r].sent = Len(upload.data) /\ r = p)
    <3>1. sender[q].sent \in Nat /\ Len(upload.data) \in Nat /\ sender[p].sent = 0
      BY <1>2, Nothing, SenderIs, UploadIs DEF UploadInv
    <3> QED BY <3>1
  <2>5. Begun(q, r)'
    BY <2>1, <2>3, <2>4, <1>2, <1>3 DEF Begun
  <2> QED BY <2>2, <2>5
<1> QED BY <1>2, <1>3, <1>4, <1>5 DEF UploadInv

LEMMA BeginsKeeps ==
  ASSUME UploadInv, NEW CONSTANT p \in Pages, UploadBegins(p)
  PROVE  UploadInv'
<1>1. PICK s \in Senders : s = sender[p] /\ s.checked /\ s.sent = 0 /\ s.file # 0
  BY DEF UploadInv, UploadBegins
<1> DEFINE n == [s EXCEPT !.checked = FALSE]
<1>2. n \in Senders /\ n.file = s.file /\ n.sent = 0 /\ n.checked = FALSE
  BY <1>1, SenderGoesOn
<1>3. sender' = [sender EXCEPT ![p] = n] /\ UNCHANGED dropped /\ sender \in [Pages -> Senders]
  BY <1>1 DEF UploadBegins, UploadInv
<1> HIDE DEF n
<1>4. sender' \in [Pages -> Senders] /\ sender'[p] = n /\ \A q \in Pages \ {p} : sender'[q] = sender[q]
  BY <1>2, <1>3, SenderPut
<1>5. /\ upload' \in Uploads /\ upload'.file = s.file /\ upload'.data = <<>>
  <2>1. upload' = [file |-> s.file, data |-> <<>>]
    BY <1>1 DEF UploadBegins
  <2>2. s.file \in Contents \cup {0}
    BY SenderIs
  <2> QED BY <2>1, <2>2 DEF Uploads
<1>6. \A q \in Pages : sender'[q].sent <= sender'[q].file /\ (sender'[q].checked => sender'[q].file # 0 /\ sender'[q].sent = 0)
  <2>1. n.file \in Nat /\ 0 <= n.file
    BY <1>2, SenderIs
  <2> QED BY <2>1, <1>2, <1>4 DEF UploadInv
<1>7. \E q, r \in Pages : Begun(q, r)'
  <2>1. PICK r \in Pages : r # p
    BY DEF Pages
  <2>2. Begun(p, r)'
    BY <2>1, <1>2, <1>4, <1>5 DEF Begun
  <2> QED BY <2>2
<1> QED BY <1>1, <1>3, <1>4, <1>5, <1>6, <1>7 DEF UploadInv

LEMMA PushKeeps ==
  ASSUME UploadInv, NEW CONSTANT p \in Pages, Push(p)
  PROVE  UploadInv'
<1>1. PICK s \in Senders : s = sender[p] /\ s.file # 0 /\ ~s.checked /\ s.sent < s.file
  BY DEF UploadInv, Push
<1>2. s.file \in Contents /\ s.file \in Nat /\ s.sent \in Nat
  BY <1>1, SenderIs
<1>3. UNCHANGED dropped /\ sender \in [Pages -> Senders]
  BY DEF Push, UploadInv
<1>4. CASE upload' = NoUpload /\ sender' = [sender EXCEPT ![p] = NoSender]
  <2>1. sender' \in [Pages -> Senders] /\ sender'[p] = NoSender /\ \A q \in Pages \ {p} : sender'[q] = sender[q]
    BY <1>3, <1>4, Nothing, SenderPut
  <2>2. \A q \in Pages : sender'[q].sent <= sender'[q].file /\ (sender'[q].checked => sender'[q].file # 0 /\ sender'[q].sent = 0)
    BY <2>1, Nothing DEF UploadInv
  <2> QED BY <1>3, <1>4, <2>1, <2>2, Nothing DEF UploadInv
<1>5. CASE /\ upload # NoUpload /\ Fits(p)
           /\ upload' = [upload EXCEPT !.data = Append(@, sender[p].file)]
           /\ sender' = [sender EXCEPT ![p].sent = @ + 1]
  <2> DEFINE n == [s EXCEPT !.sent = s.sent + 1]
  <2>1. n \in Senders /\ n.file = s.file /\ n.sent = s.sent + 1 /\ ~n.checked
    BY <1>1, SenderGoesOn
  <2>2. sender' = [sender EXCEPT ![p] = n]
    BY <1>1, <1>5
  <2> HIDE DEF n
  <2>3. sender' \in [Pages -> Senders] /\ sender'[p] = n /\ \A q \in Pages \ {p} : sender'[q] = sender[q]
    BY <2>1, <2>2, <1>3, SenderPut
  <2>4. PICK u \in Uploads : u = upload
    BY DEF UploadInv
  <2> DEFINE data == Append(u.data, s.file)
  <2>5. /\ data \in Seq(Contents) /\ Len(data) = Len(u.data) + 1 /\ data[Len(u.data) + 1] = s.file
        /\ \A m \in DOMAIN u.data : data[m] = u.data[m]
        /\ DOMAIN data = DOMAIN u.data \cup {Len(u.data) + 1}
    BY <1>2, UploadIs, Pieces
  <2>6. upload' = [u EXCEPT !.data = data]
    BY <1>1, <1>5, <2>4
  <2> HIDE DEF data
  <2>7. upload' \in Uploads /\ upload'.file = u.file /\ upload'.data = data
    BY <2>5, <2>6 DEF Uploads
  <2>8. PICK q, r \in Pages : Begun(q, r)
    BY <1>5 DEF UploadInv
  <2>9. u.file # 0 /\ s.sent = Len(u.data) /\ Len(u.data) \in Nat
    BY <1>1, <1>5, <2>4, UploadIs DEF UploadInv, Fits
  <2>10. q # r /\ sender[q].file = u.file /\ ~sender[q].checked /\ p \in {q, r} /\ sender[q].sent \in Nat
    <3>1. q # r /\ sender[q].file = u.file /\ ~sender[q].checked
      BY <2>4, <2>8 DEF Begun
    <3>2. sender[q] \in Senders
      BY <1>3
    <3> QED BY <3>1, <3>2, SenderIs DEF Pages
  <2>11. ASSUME p = q PROVE Begun(q, r)'
    <3>1. sender[q].sent = Len(u.data) /\ \A m \in DOMAIN u.data : u.data[m] = u.file
      BY <2>4, <2>8, <2>9, <2>11, <1>1 DEF Begun
    <3>2. \A m \in DOMAIN data : data[m] = u.file
      BY <3>1, <2>5, <2>10, <2>11, <1>1
    <3>3. Begun(q, r)'
      BY <3>2, <2>1, <2>3, <2>5, <2>7, <2>9, <2>10, <2>11, <1>1 DEF Begun
    <3> QED BY <3>3
  <2>12. ASSUME p = r PROVE Begun(q, r)'
    <3>1. sender[q].sent <= Len(u.data) /\ \A m \in DOMAIN u.data : u.data[m] \in {u.file, s.file}
      BY <2>4, <2>8, <2>9, <2>10, <2>12, <1>1 DEF Begun
    <3>2. \A m \in DOMAIN data : data[m] \in {u.file, s.file}
      BY <3>1, <2>5
    <3>3. sender'[q] = sender[q] /\ sender[q].sent < Len(data) /\ sender'[r].sent = Len(data) /\ ~sender'[r].checked
      BY <3>1, <2>1, <2>3, <2>5, <2>9, <2>10, <2>12
    <3>4. Begun(q, r)'
      BY <3>2, <3>3, <2>1, <2>3, <2>5, <2>7, <2>10, <2>12 DEF Begun
    <3> QED BY <3>4
  <2>13. \A t \in Pages : sender'[t].sent <= sender'[t].file /\ (sender'[t].checked => sender'[t].file # 0 /\ sender'[t].sent = 0)
    BY <2>1, <2>3, <1>1, <1>2 DEF UploadInv
  <2>14. \E t, v \in Pages : Begun(t, v)'
    BY <2>10, <2>11, <2>12
  <2> QED BY <2>3, <2>7, <2>9, <2>13, <2>14, <1>3 DEF UploadInv
<1> QED BY <1>4, <1>5 DEF Push

-----------------------------------------------------------------------------
(* Adding. *)
LEMMA PutStartsKeeps ==
  ASSUME DocumentsInv, isSetUp, UNCHANGED isSetUp, PutStarts
  PROVE  DocumentsInv'
<1>1. holding \in Calls /\ holding.op = "add" /\ holding.at = "write"
  BY DEF PutStarts, Adding, DocumentsInv, DocumentTypes
<1>2. holding \in AddCalls /\ holding.doc \in Docs /\ holding.new \in BOOLEAN /\ ~Restoring
  BY <1>1, CallIs DEF Restoring
<1>3. /\ holding' \in Calls /\ holding'.op = "add" /\ holding'.at = "rename"
      /\ holding'.doc = holding.doc /\ holding'.new = holding.new /\ holding'.page = holding.page
  <2>1. PICK c \in AddCalls : holding = c
    BY <1>2
  <2>2. holding' = [c EXCEPT !.at = "rename"]
    BY <2>1 DEF PutStarts
  <2> QED BY <2>1, <2>2, NextStage
<1>4. temp' = temp \cup {holding.doc} /\ UNCHANGED <<scope, born, rows, files, part, unlocked, untidy, clearing, copies, lost, slips>>
  BY DEF PutStarts, lockState, inMemory
<1>5. DocumentTypes'
  BY <1>2, <1>3, <1>4 DEF DocumentsInv, DocumentTypes
<1>6. Blank'
  BY <1>3, <1>4 DEF Blank, NotYet, Restoring
<1>7. Named'
  BY <1>1, <1>3, <1>4 DEF DocumentsInv, Named, Restoring
<1>8. CallOK'
  BY <1>1, <1>3, <1>4 DEF DocumentsInv, CallOK, Restoring
<1>9. Clean'
  BY <1>1, <1>3, <1>4 DEF DocumentsInv, Clean, Restoring, Strays, Adding
<1>10. FileBehindRow' /\ PlainGoesWithTheLock' /\ OneSender'
  BY <1>1, <1>3, <1>4 DEF DocumentsInv, FileBehindRow, PlainGoesWithTheLock, OneSender
<1> QED BY <1>5, <1>6, <1>7, <1>8, <1>9, <1>10 DEF DocumentsInv

LEMMA PutRenamesKeeps ==
  ASSUME DocumentsInv, isSetUp, UNCHANGED isSetUp, PutRenames
  PROVE  DocumentsInv'
<1>1. holding \in Calls /\ holding.op = "add" /\ holding.at = "rename"
  BY DEF PutRenames, Adding, DocumentsInv, DocumentTypes
<1>2. holding \in AddCalls /\ holding.doc \in Docs /\ holding.new \in BOOLEAN /\ ~Restoring
  BY <1>1, CallIs DEF Restoring
<1>3. /\ holding' \in Calls /\ holding'.op = "add" /\ holding'.at = "commit"
      /\ holding'.doc = holding.doc /\ holding'.new = holding.new /\ holding'.page = holding.page
  <2>1. PICK c \in AddCalls : holding = c
    BY <1>2
  <2>2. holding' = [c EXCEPT !.at = "commit"]
    BY <2>1 DEF PutRenames
  <2> QED BY <2>1, <2>2, NextStage
<1>4. /\ temp' = temp \ {holding.doc} /\ lost' = lost \ {holding.doc}
      /\ UNCHANGED <<scope, born, rows, part, unlocked, untidy, clearing, copies, slips>>
  BY DEF PutRenames, lockState, inMemory
<1>5. /\ files \in [Docs -> States] /\ files' \in [Docs -> States] /\ files'[holding.doc] = Whole
      /\ \A e \in Docs \ {holding.doc} : files'[e] = files[e]
  <2>1. files \in [Docs -> States] /\ Whole \in States
    BY DEF DocumentsInv, DocumentTypes, States
  <2>2. files' = [files EXCEPT ![holding.doc] = Whole]
    BY DEF PutRenames
  <2> QED BY <2>1, <2>2, <1>2, FilePut
<1>6. DocumentTypes'
  BY <1>2, <1>3, <1>4, <1>5 DEF DocumentsInv, DocumentTypes
<1>7. Blank'
  BY <1>3, <1>4 DEF Blank, NotYet, Restoring
<1>8. Named'
  BY <1>1, <1>3, <1>4, <1>5 DEF DocumentsInv, Named, Restoring
<1>9. CallOK'
  BY <1>1, <1>3, <1>4, <1>5 DEF DocumentsInv, CallOK, Restoring
<1>10. Clean'
  BY <1>1, <1>2, <1>3, <1>4, <1>5 DEF DocumentsInv, CallOK, Clean, Restoring, Strays, Adding
<1>11. FileBehindRow'
  BY <1>1, <1>3, <1>4, <1>5 DEF DocumentsInv, DocumentTypes, FileBehindRow
<1>12. PlainGoesWithTheLock' /\ OneSender'
  BY <1>1, <1>3, <1>4 DEF DocumentsInv, PlainGoesWithTheLock, OneSender
<1> QED BY <1>6, <1>7, <1>8, <1>9, <1>10, <1>11, <1>12 DEF DocumentsInv

LEMMA PutFailsKeeps ==
  ASSUME DocumentsInv, isSetUp, UNCHANGED isSetUp, PutFails
  PROVE  DocumentsInv'
<1>1. holding \in Calls /\ holding.op = "add" /\ holding.at = "rename"
  BY DEF PutFails, Adding, DocumentsInv, DocumentTypes
<1>2. holding \in AddCalls /\ holding.doc \in Docs /\ holding.new \in BOOLEAN /\ ~Restoring
  BY <1>1, CallIs DEF Restoring
<1>3. holding' = Free /\ holding' \in Calls /\ holding'.op = "free"
  BY FreeIs DEF PutFails, Calls
<1>4. temp' = temp \ {holding.doc} /\ UNCHANGED <<scope, born, rows, files, part, unlocked, untidy, clearing, copies, lost, slips>>
  BY DEF PutFails, lockState, inMemory
<1>5. DocumentTypes'
  BY <1>2, <1>3, <1>4 DEF DocumentsInv, DocumentTypes
<1>6. Blank'
  BY <1>3, <1>4 DEF Blank, NotYet, Restoring
<1>7. Named'
  BY <1>1, <1>3, <1>4 DEF DocumentsInv, Named, Restoring
<1>8. CallOK'
  BY <1>3 DEF CallOK, Restoring
<1>9. Clean'
  BY <1>1, <1>2, <1>3, <1>4 DEF DocumentsInv, CallOK, Clean, Restoring, Strays, Adding
<1>10. FileBehindRow' /\ PlainGoesWithTheLock' /\ OneSender'
  BY <1>1, <1>3, <1>4 DEF DocumentsInv, FileBehindRow, PlainGoesWithTheLock, OneSender
<1> QED BY <1>5, <1>6, <1>7, <1>8, <1>9, <1>10 DEF DocumentsInv

LEMMA AddCommitsKeeps ==
  ASSUME DocumentsInv, isSetUp, UNCHANGED isSetUp, AddCommits
  PROVE  DocumentsInv'
<1>1. holding \in Calls /\ holding.op = "add" /\ holding.at = "commit"
  BY DEF AddCommits, Adding, DocumentsInv, DocumentTypes
<1>2. /\ holding \in AddCalls /\ holding.doc \in Docs /\ holding.links \in SUBSET Targets
      /\ holding.new \in BOOLEAN /\ ~Restoring
  BY <1>1, CallIs DEF Restoring
<1>3. holding' = Free /\ holding' \in Calls /\ holding'.op = "free"
  BY FreeIs DEF AddCommits, Calls
<1>4. UNCHANGED <<scope, born, files, temp, part, unlocked, untidy, clearing, copies, lost, slips>>
  BY DEF AddCommits, lockState, inMemory
<1>5. rows' \in Tables /\ DOMAIN rows' = DOMAIN rows \cup {holding.doc}
  <2>1. rows' = Put(rows, holding.doc, holding.links) /\ rows \in Tables
    BY DEF AddCommits, DocumentsInv, DocumentTypes
  <2> QED BY <2>1, <1>2, PutRow
<1>6. holding.doc \in DOMAIN born
  BY <1>1 DEF DocumentsInv, Named
<1>7. DocumentTypes'
  BY <1>3, <1>4, <1>5, <1>6 DEF DocumentsInv, DocumentTypes
<1>8. Blank'
  BY <1>3, <1>4 DEF Blank, NotYet, Restoring
<1>9. Named'
  BY <1>3, <1>4 DEF DocumentsInv, Named, Restoring
<1>10. CallOK'
  BY <1>3 DEF CallOK, Restoring
<1>11. Clean'
  BY <1>1, <1>2, <1>3, <1>4, <1>5 DEF DocumentsInv, CallOK, Clean, Restoring, Strays, Adding
<1>12. FileBehindRow'
  BY <1>1, <1>4, <1>5 DEF DocumentsInv, CallOK, FileBehindRow
<1>13. PlainGoesWithTheLock' /\ OneSender'
  BY <1>3, <1>4 DEF DocumentsInv, PlainGoesWithTheLock, OneSender
<1> QED BY <1>7, <1>8, <1>9, <1>10, <1>11, <1>12, <1>13 DEF DocumentsInv

LEMMA AddFailsKeeps ==
  ASSUME DocumentsInv, isSetUp, UNCHANGED isSetUp, AddFails
  PROVE  DocumentsInv'
<1>1. holding \in Calls /\ holding.op = "add" /\ holding.at = "commit"
  BY DEF AddFails, Adding, DocumentsInv, DocumentTypes
<1>2. holding \in AddCalls /\ holding.doc \in Docs /\ holding.new \in BOOLEAN /\ ~Restoring
  BY <1>1, CallIs DEF Restoring
<1>3. holding' = Free /\ holding' \in Calls /\ holding'.op = "free"
  BY FreeIs DEF AddFails, Calls
<1>4. UNCHANGED <<scope, born, rows, temp, part, unlocked, untidy, clearing, copies, lost>>
  BY DEF AddFails, lockState, inMemory
<1>5. files \in [Docs -> States] /\ None \in States /\ slips \in BOOLEAN
  BY DEF DocumentsInv, DocumentTypes, States
<1>6. /\ files' \in [Docs -> States] /\ slips' \in BOOLEAN
      /\ \A e \in Docs \ {holding.doc} : files'[e] = files[e]
      /\ files'[holding.doc] \in {None, files[holding.doc]}
      /\ holding.new => files'[holding.doc] = None \/ slips'
      /\ ~holding.new => files' = files /\ slips' = slips
      /\ slips => slips'
  <2>1. CASE ~holding.new
    BY <2>1, <1>5 DEF AddFails
  <2>2. CASE holding.new
    <3>1. PICK stays \in BOOLEAN :
            /\ files' = [files EXCEPT ![holding.doc] = IF stays THEN @ ELSE None]
            /\ slips' = (slips \/ stays)
      BY <2>2 DEF AddFails
    <3>2. CASE stays
      <4>1. files' = files /\ slips' = TRUE
        BY <3>1, <3>2, <1>5
      <4> QED BY <4>1, <2>2, <1>5
    <3>3. CASE ~stays
      <4>1. files' = [files EXCEPT ![holding.doc] = None] /\ slips' = slips
        BY <3>1, <3>3, <1>5
      <4> QED BY <4>1, <2>2, <1>2, <1>5, FilePut
    <3> QED BY <3>2, <3>3
  <2> QED BY <2>1, <2>2
<1>7. DocumentTypes'
  BY <1>3, <1>4, <1>6 DEF DocumentsInv, DocumentTypes
<1>8. Blank'
  BY <1>3, <1>4 DEF Blank, NotYet, Restoring
<1>9. Named'
  BY <1>2, <1>3, <1>4, <1>6 DEF DocumentsInv, Named, Restoring
<1>10. CallOK'
  BY <1>3 DEF CallOK, Restoring
<1>11. Clean'
  BY <1>1, <1>2, <1>3, <1>4, <1>6 DEF DocumentsInv, CallOK, Clean, Restoring, Strays, Adding
<1>12. FileBehindRow'
  BY <1>1, <1>2, <1>4, <1>6 DEF DocumentsInv, DocumentTypes, CallOK, FileBehindRow
<1>13. PlainGoesWithTheLock' /\ OneSender'
  BY <1>3, <1>4 DEF DocumentsInv, PlainGoesWithTheLock, OneSender
<1> QED BY <1>7, <1>8, <1>9, <1>10, <1>11, <1>12, <1>13 DEF DocumentsInv

-----------------------------------------------------------------------------
(* Deleting, attaching, opening. *)
LEMMA DeleteRowKeeps ==
  ASSUME DocumentsInv, isSetUp, UNCHANGED isSetUp, NEW CONSTANT d \in Docs, DeleteRow(d)
  PROVE  DocumentsInv'
<1>1. unlocked /\ holding = Free /\ d \in DOMAIN rows
  BY DEF DeleteRow, CanHold
<1>2. holding.op = "free" /\ ~Restoring
  BY <1>1, FreeIs DEF Restoring
<1>3. holding' \in Calls /\ holding'.op = "delete" /\ holding'.doc = d
  <2>1. holding' = [op |-> "delete", doc |-> d]
    BY DEF DeleteRow
  <2> QED BY <2>1 DEF Calls, DeleteCalls
<1>4. UNCHANGED <<scope, born, files, temp, part, unlocked, untidy, clearing, copies, lost, slips>>
  BY DEF DeleteRow, lockState, inMemory
<1>5. rows' \in Tables /\ DOMAIN rows' = DOMAIN rows \ {d}
  <2>1. rows' = Without(rows, {d}) /\ rows \in Tables
    BY DEF DeleteRow, DocumentsInv, DocumentTypes
  <2> QED BY <2>1, WithoutRow
<1>6. DocumentTypes'
  BY <1>3, <1>4, <1>5 DEF DocumentsInv, DocumentTypes
<1>7. Blank'
  BY <1>3, <1>4 DEF Blank, NotYet, Restoring
<1>8. Named'
  BY <1>1, <1>3, <1>4 DEF DocumentsInv, DocumentTypes, Named, Restoring
<1>9. CallOK'
  BY <1>3, <1>5 DEF CallOK, Restoring
<1>10. Clean'
  BY <1>2, <1>3, <1>4, <1>5 DEF DocumentsInv, Clean, Restoring, Strays, Adding
<1>11. FileBehindRow'
  BY <1>4, <1>5 DEF DocumentsInv, FileBehindRow
<1>12. PlainGoesWithTheLock' /\ OneSender'
  BY <1>3, <1>4 DEF DocumentsInv, PlainGoesWithTheLock, OneSender
<1> QED BY <1>6, <1>7, <1>8, <1>9, <1>10, <1>11, <1>12 DEF DocumentsInv

\* Store::remove takes the file and what is left of it, or leaves the file and says so.
LEMMA RemovedIs ==
  ASSUME files \in [Docs -> States], slips \in BOOLEAN, NEW CONSTANT d \in Docs, Removed(d)
  PROVE  /\ files' \in [Docs -> States] /\ temp' = temp \ {d} /\ part' = part \ {d} /\ slips' \in BOOLEAN
         /\ \A e \in Docs \ {d} : files'[e] = files[e]
         /\ files'[d] = None \/ (files'[d] = files[d] /\ slips')
         /\ slips => slips'
<1>1. CASE files' = [files EXCEPT ![d] = None] /\ temp' = temp \ {d} /\ part' = part \ {d} /\ UNCHANGED slips
  <2>1. None \in States
    BY DEF States
  <2> QED BY <1>1, <2>1, FilePut
<1>2. CASE temp' = temp \ {d} /\ part' = part \ {d} /\ UNCHANGED files /\ slips' = TRUE
  BY <1>2
<1> QED BY <1>1, <1>2 DEF Removed

LEMMA DeleteFileKeeps ==
  ASSUME DocumentsInv, isSetUp, UNCHANGED isSetUp, DeleteFile
  PROVE  DocumentsInv'
<1>1. holding \in Calls /\ holding.op = "delete"
  BY DEF DeleteFile, DocumentsInv, DocumentTypes
<1>2. holding \in DeleteCalls /\ holding.doc \in Docs /\ ~Restoring
  BY <1>1, CallIs DEF Restoring
<1>3. holding' = Free /\ holding' \in Calls /\ holding'.op = "free"
  BY FreeIs DEF DeleteFile, Calls
<1>4. UNCHANGED <<scope, born, rows, unlocked, untidy, clearing, copies, lost>>
  BY DEF DeleteFile, lockState, inMemory
<1>5. /\ files' \in [Docs -> States] /\ temp' = temp \ {holding.doc} /\ part' = part \ {holding.doc} /\ slips' \in BOOLEAN
      /\ \A e \in Docs \ {holding.doc} : files'[e] = files[e]
      /\ files'[holding.doc] = None \/ (files'[holding.doc] = files[holding.doc] /\ slips')
      /\ slips => slips'
  <2>1. PICK d \in Docs : holding.doc = d
    BY <1>2
  <2>2. Removed(d) /\ files \in [Docs -> States] /\ slips \in BOOLEAN
    BY <2>1 DEF DeleteFile, DocumentsInv, DocumentTypes
  <2> QED BY <2>1, <2>2, RemovedIs
<1>6. holding.doc \notin DOMAIN rows
  BY <1>1 DEF DocumentsInv, CallOK
<1>7. DocumentTypes'
  BY <1>3, <1>4, <1>5 DEF DocumentsInv, DocumentTypes
<1>8. Blank'
  BY <1>3, <1>4 DEF Blank, NotYet, Restoring
<1>9. Named'
  BY <1>3, <1>4, <1>5 DEF DocumentsInv, Named, Restoring
<1>10. CallOK'
  BY <1>3 DEF CallOK, Restoring
<1>11. Clean'
  BY <1>1, <1>2, <1>3, <1>4, <1>5 DEF DocumentsInv, Clean, Restoring, Strays, Adding
<1>12. FileBehindRow'
  BY <1>4, <1>5, <1>6 DEF DocumentsInv, DocumentTypes, FileBehindRow
<1>13. PlainGoesWithTheLock' /\ OneSender'
  BY <1>3, <1>4 DEF DocumentsInv, PlainGoesWithTheLock, OneSender
<1> QED BY <1>7, <1>8, <1>9, <1>10, <1>11, <1>12, <1>13 DEF DocumentsInv

\* What a document is attached to does not matter to its file.
LEMMA LinksKeep ==
  ASSUME DocumentsInv, holding = Free, rows' \in Tables, DOMAIN rows' = DOMAIN rows,
         UNCHANGED <<scope, born, files, temp, part, unlocked, holding, untidy, clearing, copies, lost, slips, isSetUp>>
  PROVE  DocumentsInv'
<1>1. holding'.op = "free" /\ ~Restoring'
  BY FreeIs DEF Restoring
<1>2. DocumentTypes'
  BY DEF DocumentsInv, DocumentTypes
<1>3. Blank'
  BY DEF DocumentsInv, Blank, NotYet, Restoring
<1>4. Named'
  BY DEF DocumentsInv, Named, Of, Restoring
<1>5. CallOK'
  BY <1>1 DEF CallOK
<1>6. Clean'
  BY DEF DocumentsInv, Clean, Restoring, Strays, Adding
<1>7. FileBehindRow' /\ PlainGoesWithTheLock' /\ OneSender'
  BY DEF DocumentsInv, FileBehindRow, PlainGoesWithTheLock, OneSender
<1> QED BY <1>2, <1>3, <1>4, <1>5, <1>6, <1>7 DEF DocumentsInv

LEMMA LinkKeeps ==
  ASSUME DocumentsInv, UNCHANGED isSetUp, NEW CONSTANT d \in Docs, NEW CONSTANT t \in Targets, Link(d, t) \/ Unlink(d, t)
  PROVE  DocumentsInv'
<1>1. /\ holding = Free /\ d \in DOMAIN rows /\ rows \in Tables
      /\ UNCHANGED <<scope, born, files, temp, part, unlocked, holding, untidy, clearing, copies, lost, slips>>
  BY DEF Link, Unlink, CanHold, lockState, inMemory, DocumentsInv, DocumentTypes
<1>2. PICK links \in SUBSET Targets : rows' = [rows EXCEPT ![d] = links]
  <2>1. rows[d] \in SUBSET Targets
    BY <1>1, TableIs
  <2>2. rows[d] \cup {t} \in SUBSET Targets /\ rows[d] \ {t} \in SUBSET Targets
    BY <2>1
  <2>3. rows' = [rows EXCEPT ![d] = rows[d] \cup {t}] \/ rows' = [rows EXCEPT ![d] = rows[d] \ {t}]
    BY <1>1 DEF Link, Unlink
  <2> QED BY <2>2, <2>3
<1>3. rows' \in Tables /\ DOMAIN rows' = DOMAIN rows
  BY <1>1, <1>2, ChangedRow
<1> QED BY <1>1, <1>3, LinksKeep

LEMMA OpenCopyKeeps ==
  ASSUME DocumentsInv, isSetUp, UNCHANGED isSetUp, NEW CONSTANT d \in Docs, OpenCopy(d)
  PROVE  DocumentsInv'
<1>1. unlocked /\ holding = Free /\ copies' = copies \cup {d}
  BY DEF OpenCopy, CanHold
<1>2. UNCHANGED <<scope, born, rows, files, temp, part, unlocked, holding, untidy, clearing, lost, slips, isSetUp>>
  BY DEF OpenCopy, onDisk, lockState
<1>3. ~Restoring
  BY <1>1, FreeIs DEF Restoring
<1>4. DocumentTypes'
  BY <1>1, <1>2 DEF DocumentsInv, DocumentTypes
<1>5. Blank'
  BY <1>2, <1>3 DEF Blank, NotYet, Restoring
<1>6. Named'
  BY <1>2 DEF DocumentsInv, Named, Of, Restoring
<1>7. CallOK'
  BY <1>2 DEF DocumentsInv, CallOK, Restoring
<1>8. Clean'
  BY <1>2 DEF DocumentsInv, Clean, Restoring, Strays, Adding
<1>9. FileBehindRow' /\ PlainGoesWithTheLock' /\ OneSender'
  BY <1>1, <1>2 DEF DocumentsInv, FileBehindRow, PlainGoesWithTheLock, OneSender
<1> QED BY <1>4, <1>5, <1>6, <1>7, <1>8, <1>9 DEF DocumentsInv

-----------------------------------------------------------------------------
(* The check of the folder, a file that is lost, locking and ending. *)
LEMMA CheckKeeps ==
  ASSUME DocumentsInv, isSetUp, UNCHANGED isSetUp, Check
  PROVE  DocumentsInv'
<1>1. unlocked /\ holding = Free
  BY DEF Check, CanHold
<1>2. holding.op = "free" /\ ~Restoring
  BY <1>1, FreeIs DEF Restoring
<1>3. /\ temp' = {} /\ part' = part \cap DOMAIN rows /\ untidy' = FALSE
      /\ UNCHANGED <<scope, born, rows, unlocked, clearing, holding, copies, lost, isSetUp>>
  BY DEF Check, inMemory
<1>4. files \in [Docs -> States] /\ None \in States
  BY DEF DocumentsInv, DocumentTypes, States
<1>5. /\ files' \in [Docs -> States] /\ slips' \in BOOLEAN
      /\ \A d \in Docs : files'[d] = files[d] \/ (files'[d] = None /\ d \in Strays)
      /\ ~slips' => \A d \in Strays : files'[d] = None
  <2>1. CASE files' = [d \in Docs |-> IF d \in Strays THEN None ELSE files[d]] /\ slips' = FALSE
    BY <2>1, <1>4 DEF Strays
  <2>2. CASE UNCHANGED files /\ slips' = TRUE
    BY <2>2, <1>4
  <2> QED BY <2>1, <2>2 DEF Check
<1>6. DocumentTypes'
  BY <1>3, <1>5 DEF DocumentsInv, DocumentTypes
<1>7. Blank'
  BY <1>2, <1>3 DEF Blank, NotYet, Restoring
<1>8. Named'
  BY <1>2, <1>3, <1>5 DEF DocumentsInv, Named, Restoring
<1>9. CallOK'
  BY <1>2, <1>3 DEF CallOK, Restoring
<1>10. Clean'
  BY <1>2, <1>3, <1>5 DEF Clean, Restoring, Strays, Adding
<1>11. FileBehindRow'
  BY <1>3, <1>5 DEF DocumentsInv, DocumentTypes, FileBehindRow, Strays
<1>12. PlainGoesWithTheLock' /\ OneSender'
  BY <1>3 DEF DocumentsInv, PlainGoesWithTheLock, OneSender
<1> QED BY <1>6, <1>7, <1>8, <1>9, <1>10, <1>11, <1>12 DEF DocumentsInv

LEMMA FileLostKeeps ==
  ASSUME DocumentsInv, isSetUp, UNCHANGED isSetUp, NEW CONSTANT d \in Docs, FileLost(d)
  PROVE  DocumentsInv'
<1>1. holding = Free /\ d \in DOMAIN rows /\ lost' = lost \cup {d}
  BY DEF FileLost
<1>2. holding.op = "free" /\ ~Restoring
  BY <1>1, FreeIs DEF Restoring
<1>3. UNCHANGED <<scope, born, rows, temp, part, unlocked, untidy, clearing, holding, copies, slips, isSetUp>>
  BY DEF FileLost, lockState, inMemory
<1>4. files \in [Docs -> States]
  BY DEF DocumentsInv, DocumentTypes
<1>5. files' \in [Docs -> States] /\ \A e \in Docs \ {d} : files'[e] = files[e]
  <2>1. PICK f \in {None, Damaged} : files' = [files EXCEPT ![d] = f]
    BY DEF FileLost
  <2>2. f \in States
    BY DEF States
  <2> QED BY <2>1, <2>2, <1>4, FilePut
<1>6. DocumentTypes'
  BY <1>1, <1>3, <1>5 DEF DocumentsInv, DocumentTypes
<1>7. Blank'
  BY <1>2, <1>3 DEF Blank, NotYet, Restoring
<1>8. Named'
  BY <1>1, <1>2, <1>3, <1>5 DEF DocumentsInv, DocumentTypes, Named, Restoring
<1>9. CallOK'
  BY <1>2, <1>3 DEF CallOK, Restoring
<1>10. Clean'
  BY <1>1, <1>2, <1>3, <1>5 DEF DocumentsInv, Clean, Restoring, Strays, Adding
<1>11. FileBehindRow'
  BY <1>1, <1>3, <1>5 DEF DocumentsInv, DocumentTypes, FileBehindRow
<1>12. PlainGoesWithTheLock' /\ OneSender'
  BY <1>3 DEF DocumentsInv, PlainGoesWithTheLock, OneSender
<1> QED BY <1>6, <1>7, <1>8, <1>9, <1>10, <1>11, <1>12 DEF DocumentsInv

LEMMA LockingKeeps ==
  ASSUME DocumentsInv, isSetUp, UNCHANGED isSetUp, Lock \/ AfterLock \/ Unlock
  PROVE  DocumentsInv'
<1>1. UNCHANGED <<scope, born, rows, files, temp, part, holding, lost, slips, isSetUp>>
  BY DEF Lock, AfterLock, Unlock, onDisk
<1>2. /\ unlocked' \in BOOLEAN /\ untidy' \in BOOLEAN /\ clearing' \in BOOLEAN
      /\ (copies' = copies \/ copies' = {}) /\ (copies' # {} => unlocked' \/ clearing')
      /\ unlocked' /\ ~untidy' => unlocked /\ ~untidy
  <2>1. CASE Lock
    BY <2>1 DEF Lock, inMemory, DocumentsInv, DocumentTypes
  <2>2. CASE AfterLock
    BY <2>2 DEF AfterLock, DocumentsInv, DocumentTypes
  <2>3. CASE Unlock
    BY <2>3 DEF Unlock, inMemory, DocumentsInv, DocumentTypes
  <2> QED BY <2>1, <2>2, <2>3
<1>3. DocumentTypes'
  BY <1>1, <1>2 DEF DocumentsInv, DocumentTypes
<1>4. Blank'
  BY <1>1, <1>2 DEF DocumentsInv, Blank, NotYet, Restoring
<1>5. Named'
  BY <1>1 DEF DocumentsInv, Named, Of, Restoring
<1>6. CallOK'
  BY <1>1 DEF DocumentsInv, CallOK, Restoring
<1>7. Clean'
  BY <1>1, <1>2 DEF DocumentsInv, Clean, Restoring, Strays, Adding
<1>8. FileBehindRow' /\ PlainGoesWithTheLock' /\ OneSender'
  BY <1>1, <1>2 DEF DocumentsInv, FileBehindRow, PlainGoesWithTheLock, OneSender
<1> QED BY <1>3, <1>4, <1>5, <1>6, <1>7, <1>8 DEF DocumentsInv

LEMMA AppEndsKeeps ==
  ASSUME DocumentsInv, isSetUp, UNCHANGED isSetUp, AppEnds
  PROVE  DocumentsInv'
<1>1. /\ ~unlocked' /\ unlocked' \in BOOLEAN /\ untidy' = FALSE /\ clearing' = FALSE /\ copies' = {}
      /\ UNCHANGED <<scope, born, rows, files, temp, part, lost, slips>>
  BY DEF AppEnds
<1>2. holding' = Free /\ holding' \in Calls /\ holding'.op = "free"
  BY FreeIs DEF AppEnds, Calls
<1>3. DocumentTypes'
  BY <1>1, <1>2 DEF DocumentsInv, DocumentTypes
<1>4. Blank'
  BY <1>2 DEF Blank, NotYet, Restoring
<1>5. Named'
  BY <1>1, <1>2 DEF DocumentsInv, Named, Restoring
<1>6. CallOK'
  BY <1>2 DEF CallOK, Restoring
<1>7. Clean'
  BY <1>1 DEF Clean
<1>8. FileBehindRow' /\ PlainGoesWithTheLock' /\ OneSender'
  BY <1>1, <1>2 DEF DocumentsInv, FileBehindRow, PlainGoesWithTheLock, OneSender
<1> QED BY <1>3, <1>4, <1>5, <1>6, <1>7, <1>8 DEF DocumentsInv

-----------------------------------------------------------------------------
(* A file is handed over to be added. *)
LEMMA SameAdded ==
  ASSUME DocumentsInv, isSetUp, NEW CONSTANT c \in Contents, NEW CONSTANT links \in SUBSET Targets,
         NEW CONSTANT who \in Seq(Contents), \A n \in DOMAIN who : who[n] = c, NEW CONSTANT d \in Same(c), holding = Free,
         holding' = [op |-> "add", doc |-> d, links |-> rows[d] \cup links, new |-> FALSE, page |-> who,
                     at |-> IF files[d] = None THEN "write" ELSE "commit"],
         UNCHANGED <<scope, born, rows, files, temp, part, unlocked, untidy, clearing, copies, lost, slips, isSetUp>>
  PROVE  DocumentsInv'
<1>1. holding.op = "free" /\ ~Restoring
  BY FreeIs DEF Restoring
<1>2. d \in DOMAIN rows /\ d \in DOMAIN born /\ d \in Docs /\ born[d] = c
  BY DEF Same, DocumentsInv, DocumentTypes
<1>3. /\ holding' \in AddCalls /\ holding'.op = "add" /\ holding'.doc = d /\ holding'.new = FALSE /\ holding'.page = who
      /\ holding'.at \in {"write", "commit"} /\ (holding'.at = "commit" => files[d] # None)
  <2>1. rows[d] \cup links \in SUBSET Targets
    <3>1. rows \in Tables
      BY DEF DocumentsInv, DocumentTypes
    <3>2. rows[d] \in SUBSET Targets
      BY <3>1, <1>2, TableIs
    <3> QED BY <3>2
  <2> QED BY <2>1, <1>2 DEF AddCalls
<1>4. DocumentTypes'
  BY <1>3 DEF DocumentsInv, DocumentTypes, Calls
<1>5. Blank'
  BY <1>3 DEF Blank, NotYet, Restoring
<1>6. Named'
  BY <1>2, <1>3 DEF DocumentsInv, Named, Restoring
<1>7. CallOK'
  BY <1>2, <1>3 DEF DocumentsInv, FileBehindRow, CallOK, Restoring
<1>8. Clean'
  BY <1>1, <1>3 DEF DocumentsInv, Clean, Restoring, Strays, Adding
<1>9. FileBehindRow' /\ PlainGoesWithTheLock'
  BY DEF DocumentsInv, FileBehindRow, PlainGoesWithTheLock
<1>10. OneSender'
  BY <1>2, <1>3 DEF OneSender
<1> QED BY <1>4, <1>5, <1>6, <1>7, <1>8, <1>9, <1>10 DEF DocumentsInv

LEMMA NewAdded ==
  ASSUME DocumentsInv, isSetUp, NEW CONSTANT c \in Contents, NEW CONSTANT links \in SUBSET Targets,
         NEW CONSTANT who \in Seq(Contents), \A n \in DOMAIN who : who[n] = c, NEW CONSTANT d \in Fresh, holding = Free,
         holding' = [op |-> "add", doc |-> d, links |-> links, new |-> TRUE, page |-> who, at |-> "write"],
         born' = Put(born, d, c),
         UNCHANGED <<scope, rows, files, temp, part, unlocked, untidy, clearing, copies, lost, slips, isSetUp>>
  PROVE  DocumentsInv'
<1>1. holding.op = "free" /\ ~Restoring
  BY FreeIs DEF Restoring
<1>2. d \in Docs /\ d \notin DOMAIN born
  BY DEF Fresh
<1>3. DOMAIN born' = DOMAIN born \cup {d} /\ born'[d] = c /\ \A e \in DOMAIN born : born'[e] = born[e]
  BY <1>2 DEF Put
<1>4. /\ holding' \in AddCalls /\ holding'.op = "add" /\ holding'.doc = d /\ holding'.new = TRUE /\ holding'.page = who
      /\ holding'.at = "write"
  BY <1>2 DEF AddCalls
<1>5. d \notin DOMAIN rows /\ files[d] = None /\ d \notin part
  BY <1>2 DEF DocumentsInv, DocumentTypes, Named
<1>6. DocumentTypes'
  BY <1>2, <1>3, <1>4 DEF DocumentsInv, DocumentTypes, Calls
<1>7. Blank'
  BY <1>4 DEF Blank, NotYet, Restoring
<1>8. Named'
  BY <1>3, <1>4 DEF DocumentsInv, Named, Restoring
<1>9. CallOK'
  BY <1>4, <1>5 DEF CallOK, Restoring
<1>10. Clean'
  BY <1>1, <1>4 DEF DocumentsInv, Clean, Restoring, Strays, Adding
<1>11. FileBehindRow' /\ PlainGoesWithTheLock'
  BY DEF DocumentsInv, FileBehindRow, PlainGoesWithTheLock
<1>12. OneSender'
  BY <1>3, <1>4 DEF OneSender
<1> QED BY <1>6, <1>7, <1>8, <1>9, <1>10, <1>11, <1>12 DEF DocumentsInv

LEMMA AddsKeeps ==
  ASSUME DocumentsInv, isSetUp, NEW CONSTANT c \in Contents, NEW CONSTANT links \in SUBSET Targets,
         NEW CONSTANT who \in Seq(Contents), \A n \in DOMAIN who : who[n] = c, Adds(c, links, who),
         UNCHANGED <<scope, rows, files, temp, part, lockState, copies, lost, slips, isSetUp>>
  PROVE  DocumentsInv'
<1>1. holding = Free /\ UNCHANGED <<scope, rows, files, temp, part, unlocked, untidy, clearing, copies, lost, slips, isSetUp>>
  BY DEF Adds, CanHold, lockState
<1>2. CASE Same(c) # {}
  <2>1. Same(c) \subseteq Nat
    BY DEF Same, DocumentsInv, DocumentTypes, Docs
  <2>2. PICK d \in Same(c) : d = Min(Same(c))
    BY <1>2, <2>1, MinIsIn
  <2>3. /\ holding' = [op |-> "add", doc |-> d, links |-> rows[d] \cup links, new |-> FALSE, page |-> who,
                       at |-> IF files[d] = None THEN "write" ELSE "commit"]
        /\ UNCHANGED born
    BY <1>2, <2>2 DEF Adds
  <2> QED BY <1>1, <2>3, SameAdded
<1>3. CASE Same(c) = {}
  <2>1. Fresh \subseteq Nat /\ Fresh # {}
    BY <1>3 DEF Fresh, Docs, Adds
  <2>2. PICK d \in Fresh : d = Min(Fresh)
    BY <2>1, MinIsIn
  <2>3. /\ holding' = [op |-> "add", doc |-> d, links |-> links, new |-> TRUE, page |-> who, at |-> "write"]
        /\ born' = Put(born, d, c)
    BY <1>3, <2>2 DEF Adds
  <2> QED BY <1>1, <2>3, NewAdded
<1> QED BY <1>2, <1>3

-----------------------------------------------------------------------------
(* What the two ways in leave of the slot, and hand over. *)
LEMMA SlotEmptied ==
  ASSUME UploadInv, sender' \in [Pages -> Senders], dropped' \subseteq Contents, upload' = NoUpload,
         \A q \in Pages : sender'[q] = sender[q] \/ sender'[q] = NoSender
  PROVE  UploadInv'
<1>1. \A q \in Pages : sender'[q].sent <= sender'[q].file /\ (sender'[q].checked => sender'[q].file # 0 /\ sender'[q].sent = 0)
  BY Nothing DEF UploadInv
<1> QED BY <1>1, Nothing DEF UploadInv

LEMMA SlotSame ==
  ASSUME UploadInv, UNCHANGED <<upload, sender>>, dropped' \subseteq Contents
  PROVE  UploadInv'
<1>1. ASSUME NEW q \in Pages, NEW p \in Pages, Begun(q, p) PROVE Begun(q, p)'
  BY <1>1 DEF Begun
<1> QED BY <1>1 DEF UploadInv

LEMMA AddsLeaves ==
  ASSUME NEW c, NEW links, NEW who, Adds(c, links, who)
  PROVE  holding = Free /\ unlocked
BY DEF Adds, CanHold

LEMMA AddDroppedKeeps ==
  ASSUME UploadInv, DocumentsInv, isSetUp, UNCHANGED isSetUp, AddDropped
  PROVE  UploadInv' /\ DocumentsInv'
<1>1. dropped \subseteq Contents /\ dropped \subseteq Nat /\ dropped # {}
  BY ContentsAssumption DEF UploadInv, AddDropped
<1>2. PICK c \in Contents : c = Min(dropped)
  BY <1>1, MinIsIn
<1>3. Adds(c, {}, <<>>) /\ dropped' = dropped \ {c}
      /\ UNCHANGED <<scope, rows, files, temp, part, lockState, upload, sender, copies, lost, slips>>
  BY <1>2 DEF AddDropped
<1>4. UploadInv'
  BY <1>1, <1>3, SlotSame
<1>5. {} \in SUBSET Targets /\ <<>> \in Seq(Contents) /\ DOMAIN <<>> = {}
  OBVIOUS
<1>6. \E links \in SUBSET Targets, who \in Seq(Contents) : Adds(c, links, who) /\ \A n \in DOMAIN who : who[n] = c
  BY <1>3, <1>5
<1>7. DocumentsInv'
  BY <1>3, <1>6, AddsKeeps
<1> QED BY <1>4, <1>7

\* What a page that has sent everything finds in the slot is all its own.
LEMMA FinishedIsOwn ==
  ASSUME UploadInv, NEW CONSTANT p \in Pages, sender[p].file # 0, sender[p].sent = sender[p].file,
         upload # NoUpload, Len(upload.data) = upload.file
  PROVE  /\ upload.file \in Contents /\ upload.data \in Seq(Contents)
         /\ \A n \in DOMAIN upload.data : upload.data[n] = upload.file
<1>1. PICK u \in Uploads : u = upload
  BY DEF UploadInv
<1>2. u.file \in Contents /\ u.data \in Seq(Contents) /\ Len(u.data) = u.file /\ u.file \in Nat
  BY <1>1, UploadIs DEF UploadInv
<1>3. PICK q, r \in Pages : Begun(q, r)
  BY DEF UploadInv
<1>4. q # r /\ sender[q].file = u.file /\ sender[q].sent \in Nat /\ p \in {q, r}
  <2>1. q # r /\ sender[q].file = u.file
    BY <1>1, <1>3 DEF Begun
  <2>2. sender[q] \in Senders
    BY DEF UploadInv
  <2> QED BY <2>1, <2>2, SenderIs DEF Pages
<1>5. CASE sender[q].sent = Len(u.data) /\ \A n \in DOMAIN u.data : u.data[n] = u.file
  BY <1>1, <1>2, <1>5
<1>6. CASE /\ sender[q].sent < Len(u.data) /\ sender[r].sent = Len(u.data)
           /\ \A n \in DOMAIN u.data : u.data[n] \in {u.file, sender[r].file}
  <2>1. p = r
    BY <1>2, <1>4, <1>6
  <2>2. sender[r].file = u.file
    BY <2>1, <1>2, <1>6
  <2> QED BY <2>2, <1>1, <1>2, <1>6
<1> QED BY <1>1, <1>3, <1>5, <1>6 DEF Begun

LEMMA FinishesKeeps ==
  ASSUME UploadInv, DocumentsInv, isSetUp, UNCHANGED isSetUp, NEW CONSTANT p \in Pages, UploadFinishes(p)
  PROVE  UploadInv' /\ DocumentsInv'
<1>1. /\ sender[p].file # 0 /\ sender[p].sent = sender[p].file
      /\ upload' = NoUpload /\ sender' = [sender EXCEPT ![p] = NoSender]
      /\ UNCHANGED <<scope, rows, files, temp, part, lockState, dropped, copies, lost, slips, isSetUp>>
  BY DEF UploadFinishes
<1>2. UploadInv'
  <2>1. sender \in [Pages -> Senders] /\ dropped \subseteq Contents
    BY DEF UploadInv
  <2>2. sender' \in [Pages -> Senders] /\ \A q \in Pages : sender'[q] = sender[q] \/ sender'[q] = NoSender
    BY <2>1, <1>1, Nothing, SenderPut
  <2> QED BY <2>1, <2>2, <1>1, SlotEmptied
<1>3. CASE UNCHANGED <<born, holding>>
  <2>1. UNCHANGED documents
    BY <1>1, <1>3 DEF documents, lockState
  <2> QED BY <2>1, <1>2, DocumentsSame
<1>4. CASE /\ upload # NoUpload /\ Len(upload.data) = upload.file
           /\ \E links \in SUBSET Targets : Adds(upload.file, links, upload.data)
  <2>1. PICK links \in SUBSET Targets : Adds(upload.file, links, upload.data)
    BY <1>4
  <2>2. PICK c \in Contents, who \in Seq(Contents) : c = upload.file /\ who = upload.data /\ \A n \in DOMAIN who : who[n] = c
    BY <1>1, <1>4, FinishedIsOwn
  <2>3. Adds(c, links, who)
    BY <2>1, <2>2
  <2>4. DocumentsInv'
    BY <2>2, <2>3, <1>1, AddsKeeps
  <2> QED BY <2>4, <1>2
<1> QED BY <1>3, <1>4 DEF UploadFinishes

-----------------------------------------------------------------------------
(* Everything the library does. *)
LEMMA LibraryKeeps ==
  ASSUME UploadInv, DocumentsInv, isSetUp, UNCHANGED isSetUp, LibraryNext
  PROVE  UploadInv' /\ DocumentsInv'
<1>1. ASSUME UNCHANGED <<upload, sender, dropped>> PROVE UploadInv'
  BY <1>1, SlotSame DEF UploadInv
<1>2. ASSUME UNCHANGED <<scope, onDisk, lockState, holding, copies>> PROVE DocumentsInv'
  <2>1. UNCHANGED documents
    BY <1>2 DEF documents, onDisk, lockState
  <2> QED BY <2>1, DocumentsSame
<1>3. CASE PutStarts
  <2>1. UNCHANGED <<upload, sender, dropped>>
    BY <1>3 DEF PutStarts, inMemory
  <2> QED BY <2>1, <1>1, <1>3, PutStartsKeeps
<1>4. CASE PutRenames
  <2>1. UNCHANGED <<upload, sender, dropped>>
    BY <1>4 DEF PutRenames, inMemory
  <2> QED BY <2>1, <1>1, <1>4, PutRenamesKeeps
<1>5. CASE PutFails
  <2>1. UNCHANGED <<upload, sender, dropped>>
    BY <1>5 DEF PutFails, inMemory
  <2> QED BY <2>1, <1>1, <1>5, PutFailsKeeps
<1>6. CASE AddCommits
  <2>1. UNCHANGED <<upload, sender, dropped>>
    BY <1>6 DEF AddCommits, inMemory
  <2> QED BY <2>1, <1>1, <1>6, AddCommitsKeeps
<1>7. CASE AddFails
  <2>1. UNCHANGED <<upload, sender, dropped>>
    BY <1>7 DEF AddFails, inMemory
  <2> QED BY <2>1, <1>1, <1>7, AddFailsKeeps
<1>8. CASE DeleteFile
  <2>1. UNCHANGED <<upload, sender, dropped>>
    BY <1>8 DEF DeleteFile, inMemory
  <2> QED BY <2>1, <1>1, <1>8, DeleteFileKeeps
<1>9. CASE Check
  <2>1. UNCHANGED <<upload, sender, dropped>>
    BY <1>9 DEF Check, inMemory
  <2> QED BY <2>1, <1>1, <1>9, CheckKeeps
<1>10. CASE Lock \/ AfterLock \/ Unlock
  <2>1. UploadInv'
    <3>1. CASE Lock \/ Unlock
      <4>1. UNCHANGED <<upload, sender, dropped>>
        BY <3>1 DEF Lock, Unlock, inMemory
      <4> QED BY <4>1, <1>1
    <3>2. CASE AfterLock
      <4>1. sender' = sender /\ sender' \in [Pages -> Senders] /\ dropped' \subseteq Contents /\ upload' = NoUpload
        BY <3>2 DEF AfterLock, UploadInv
      <4> QED BY <4>1, SlotEmptied
    <3> QED BY <3>1, <3>2, <1>10
  <2> QED BY <2>1, <1>10, LockingKeeps
<1>11. ASSUME NEW CONSTANT d \in Docs, DeleteRow(d) \/ OpenCopy(d) \/ FileLost(d) PROVE UploadInv' /\ DocumentsInv'
  <2>1. UNCHANGED <<upload, sender, dropped>>
    BY <1>11 DEF DeleteRow, OpenCopy, FileLost, inMemory
  <2> QED BY <2>1, <1>1, <1>11, DeleteRowKeeps, OpenCopyKeeps, FileLostKeeps
<1>12. ASSUME NEW CONSTANT d \in Docs, NEW CONSTANT t \in Targets, Link(d, t) \/ Unlink(d, t)
       PROVE  UploadInv' /\ DocumentsInv'
  <2>1. UNCHANGED <<upload, sender, dropped>>
    BY <1>12 DEF Link, Unlink, inMemory
  <2> QED BY <2>1, <1>1, <1>12, LinkKeeps
<1>13. ASSUME NEW CONSTANT p \in Pages, UploadBegins(p) \/ Push(p) PROVE UploadInv' /\ DocumentsInv'
  <2>1. UNCHANGED <<scope, onDisk, lockState, holding, copies>>
    BY <1>13 DEF UploadBegins, Push
  <2> QED BY <2>1, <1>2, <1>13, BeginsKeeps, PushKeeps
<1>14. ASSUME NEW CONSTANT p \in Pages, NEW CONSTANT c \in Contents, UploadAsked(p, c) PROVE UploadInv' /\ DocumentsInv'
  <2>1. UNCHANGED <<scope, onDisk, lockState, holding, copies>>
    BY <1>14 DEF UploadAsked
  <2> QED BY <2>1, <1>2, <1>14, AskedKeeps
<1>15. ASSUME NEW CONSTANT C \in SUBSET Contents, Drop(C) PROVE UploadInv' /\ DocumentsInv'
  <2>1. UNCHANGED <<upload, sender>> /\ dropped' \subseteq Contents /\ UNCHANGED <<scope, onDisk, lockState, holding, copies>>
    BY <1>15 DEF Drop
  <2> QED BY <2>1, <1>2, SlotSame
<1> QED BY <1>3, <1>4, <1>5, <1>6, <1>7, <1>8, <1>9, <1>10, <1>11, <1>12, <1>13, <1>14, <1>15, AddDroppedKeeps, FinishesKeeps
        DEF LibraryNext

-----------------------------------------------------------------------------
(* Restoring. *)
LEMMA RestoreKeeps ==
  ASSUME DocumentsInv, FolderInv, NEW CONSTANT n \in Names, Restore(n)
  PROVE  DocumentsInv'
<1>1. unlocked /\ holding = Free /\ n \in DOMAIN folder
  BY DEF Restore, CanHold
<1>2. folder[n] \in Copies /\ Of(folder[n]) /\ ~NotYet
  BY <1>1 DEF FolderInv
<1>3. UNCHANGED <<scope, born, rows, files, temp, part, unlocked, untidy, clearing, copies, lost, slips, isSetUp>>
  BY DEF Restore, onDisk, lockState, inMemory
<1>4. PICK b \in Copies : b = folder[n]
  BY <1>2
<1>5. /\ holding' \in RestoreCalls /\ holding'.op = "restore" /\ holding'.from = b /\ holding'.left = b.files
      /\ holding'.first = FALSE
  <2>1. holding' = [op |-> "restore", from |-> b, left |-> b.files, first |-> FALSE]
    BY <1>4 DEF Restore
  <2>2. b.files \in SUBSET Docs
    BY DEF Copies
  <2> QED BY <2>1, <2>2 DEF RestoreCalls
<1>6. DocumentTypes'
  BY <1>3, <1>5 DEF DocumentsInv, DocumentTypes, Calls
<1>7. Blank'
  BY <1>2, <1>3, <1>5 DEF Blank, NotYet, Restoring
<1>8. Named'
  BY <1>2, <1>3, <1>4, <1>5 DEF DocumentsInv, Named, Of, Restoring
<1>9. CallOK'
  BY <1>5 DEF CallOK, Restoring
<1>10. Clean'
  BY <1>5 DEF Clean, Restoring
<1>11. FileBehindRow' /\ PlainGoesWithTheLock' /\ OneSender'
  BY <1>3, <1>5 DEF DocumentsInv, FileBehindRow, PlainGoesWithTheLock, OneSender
<1> QED BY <1>6, <1>7, <1>8, <1>9, <1>10, <1>11 DEF DocumentsInv

LEMMA ForeignIs ==
  ASSUME NEW b \in Foreign
  PROVE  b \in Copies /\ DOMAIN b.rows \subseteq Docs /\ b.files \subseteq DOMAIN b.rows
<1>1. 1 \in Docs /\ {1} \in SUBSET Docs /\ {} \in SUBSET Docs /\ Fine \in Spots
  BY LastDocAssumption DEF Docs, Fine, Spots, AtStart
<1>2. << >> \in [{} -> SUBSET Targets] /\ DOMAIN << >> = {}
  OBVIOUS
<1>3. [d \in {1} |-> {}] \in [{1} -> SUBSET Targets] /\ DOMAIN [d \in {1} |-> {}] = {1}
  OBVIOUS
<1>4. << >> \in Tables /\ [d \in {1} |-> {}] \in Tables
  BY <1>1, <1>2, <1>3, TablesAre
<1> DEFINE one == [d \in {1} |-> {}]
<1> HIDE DEF one
<1>5. one \in Tables /\ DOMAIN one = {1}
  BY <1>3, <1>4 DEF one
<1>6. \/ b = [rows |-> << >>, files |-> {}, steady |-> {}, bad |-> Fine]
      \/ b = [rows |-> one, files |-> {1}, steady |-> {1}, bad |-> Fine]
      \/ b = [rows |-> one, files |-> {}, steady |-> {}, bad |-> Fine]
  BY DEF Foreign, one
<1> QED BY <1>1, <1>2, <1>4, <1>5, <1>6 DEF Copies

LEMMA CreateKeeps ==
  ASSUME DocumentsInv, NEW CONSTANT b \in Foreign, CreateFromBackup(b)
  PROVE  DocumentsInv'
<1>1. b \in Copies /\ DOMAIN b.rows \subseteq Docs /\ b.files \subseteq DOMAIN b.rows
  BY ForeignIs
<1>2. /\ DOMAIN rows = {} /\ copies = {} /\ temp = {} /\ part = {} /\ \A d \in Docs : files[d] = None
  BY DEF CreateFromBackup, DocumentsInv, Blank, NotYet
<1>3. /\ isSetUp' = TRUE /\ unlocked' = TRUE
      /\ UNCHANGED <<scope, rows, files, temp, part, lost, slips, untidy, clearing, copies>>
  BY DEF CreateFromBackup, inMemory
<1>4. DOMAIN born' = DOMAIN b.rows /\ \A d \in DOMAIN born' : born'[d] \in Contents
  <2>1. Min(Contents) \in Contents
    BY ContentsAssumption, MinIsIn
  <2>2. born' = [d \in DOMAIN b.rows |-> Min(Contents)]
    BY DEF CreateFromBackup
  <2> QED BY <2>1, <2>2
<1>5. /\ holding' \in RestoreCalls /\ holding'.op = "restore" /\ holding'.from = b /\ holding'.left = b.files
      /\ holding'.first = TRUE
  <2>1. holding' = [op |-> "restore", from |-> b, left |-> b.files, first |-> TRUE]
    BY DEF CreateFromBackup
  <2>2. b.files \in SUBSET Docs
    BY <1>1
  <2> QED BY <1>1, <2>1, <2>2 DEF RestoreCalls
<1>6. DocumentTypes'
  BY <1>1, <1>2, <1>3, <1>4, <1>5 DEF DocumentsInv, DocumentTypes, Calls
<1>7. Blank'
  BY <1>2, <1>3 DEF Blank
<1>8. Named'
  BY <1>1, <1>2, <1>3, <1>4, <1>5 DEF Named, Of, Restoring
<1>9. CallOK'
  BY <1>5 DEF CallOK, Restoring
<1>10. Clean'
  BY <1>5 DEF Clean, Restoring
<1>11. FileBehindRow' /\ PlainGoesWithTheLock' /\ OneSender'
  BY <1>2, <1>3, <1>5 DEF FileBehindRow, PlainGoesWithTheLock, OneSender
<1> QED BY <1>6, <1>7, <1>8, <1>9, <1>10, <1>11 DEF DocumentsInv

LEMMA RestoreIs ==
  ASSUME DocumentsInv, Restoring
  PROVE  /\ isSetUp /\ holding \in RestoreCalls /\ holding.from \in Copies /\ holding.first \in BOOLEAN /\ Of(holding.from)
         /\ holding.left \subseteq holding.from.files /\ holding.left \subseteq Docs /\ holding.left \subseteq DOMAIN born
         /\ holding.from.files \subseteq Docs /\ holding.from.rows \in Tables
<1>1. holding \in Calls
  BY DEF DocumentsInv, DocumentTypes
<1>2. holding.op # "free"
  BY DEF Restoring
<1>3. isSetUp
  BY <1>2, FreeIs DEF DocumentsInv, Blank
<1>4. Of(holding.from) /\ holding.left \subseteq holding.from.files
  BY DEF DocumentsInv, Named
<1> QED BY <1>1, <1>3, <1>4, CallIs DEF Of

LEMMA FileNext ==
  ASSUME DocumentsInv, Restoring, holding.left # {}
  PROVE  \E d \in holding.left : d = Min(holding.left) /\ d \in Docs
<1>1. holding.left \subseteq Docs
  BY RestoreIs
<1>2. holding.left \subseteq Nat
  BY <1>1 DEF Docs
<1> QED BY <1>1, <1>2, MinIsIn

LEMMA FileArrivesKeeps ==
  ASSUME DocumentsInv, FileArrives
  PROVE  DocumentsInv'
<1>1. Restoring /\ holding.left # {}
  BY DEF FileArrives, Restoring
<1>2. PICK d \in holding.left : d = Min(holding.left) /\ d \in Docs
  BY <1>1, FileNext
<1>3. /\ part' = part \cup {d}
      /\ UNCHANGED <<scope, born, rows, files, temp, unlocked, untidy, clearing, holding, copies, lost, slips, isSetUp>>
  BY <1>2 DEF FileArrives, lockState, inMemory, backupVars
<1>4. isSetUp /\ d \in DOMAIN born
  BY <1>1, <1>2, RestoreIs
<1>5. DocumentTypes'
  BY <1>2, <1>3 DEF DocumentsInv, DocumentTypes
<1>6. Blank'
  BY <1>3, <1>4 DEF DocumentsInv, Blank, NotYet, Restoring
<1>7. Named'
  BY <1>3, <1>4 DEF DocumentsInv, Named, Of, Restoring
<1>8. CallOK'
  BY <1>1, <1>3 DEF DocumentsInv, CallOK, Restoring
<1>9. Clean'
  BY <1>1, <1>3 DEF Clean, Restoring
<1>10. FileBehindRow' /\ PlainGoesWithTheLock' /\ OneSender'
  BY <1>3 DEF DocumentsInv, FileBehindRow, PlainGoesWithTheLock, OneSender
<1> QED BY <1>5, <1>6, <1>7, <1>8, <1>9, <1>10 DEF DocumentsInv

LEMMA FileFinishesMoves ==
  ASSUME DocumentsInv, FileFinishes
  PROVE  \E d \in holding.left \cap Docs :
           /\ part' = part \ {d} /\ lost' = lost \ {d}
           /\ files' \in [Docs -> States] /\ files'[d] = Whole /\ \A e \in Docs \ {d} : files'[e] = files[e]
           /\ holding' \in RestoreCalls /\ holding'.op = "restore" /\ holding'.from = holding.from
           /\ holding'.left = holding.left \ {d} /\ holding'.first = holding.first
           /\ UNCHANGED <<scope, born, rows, temp, unlocked, untidy, clearing, copies, slips, backupVars>>
<1>1. Restoring /\ holding.left # {}
  BY DEF FileFinishes, Restoring
<1>2. PICK d \in holding.left : d = Min(holding.left) /\ d \in Docs
  BY <1>1, FileNext
<1>3. /\ part' = part \ {d} /\ lost' = lost \ {d} /\ files' = [files EXCEPT ![d] = Whole]
      /\ holding' = [holding EXCEPT !.left = holding.left \ {d}]
      /\ UNCHANGED <<scope, born, rows, temp, unlocked, untidy, clearing, copies, slips, backupVars>>
  BY <1>2 DEF FileFinishes, lockState, inMemory
<1>4. files' \in [Docs -> States] /\ files'[d] = Whole /\ \A e \in Docs \ {d} : files'[e] = files[e]
  <2>1. files \in [Docs -> States] /\ Whole \in States
    BY DEF DocumentsInv, DocumentTypes, States
  <2> QED BY <2>1, <1>2, <1>3, FilePut
<1>5. PICK c \in RestoreCalls : c = holding
  BY <1>1, RestoreIs
<1> DEFINE n == [c EXCEPT !.left = c.left \ {d}]
<1>6. n \in RestoreCalls /\ n.op = "restore" /\ n.from = c.from /\ n.left = c.left \ {d} /\ n.first = c.first
  BY DEF RestoreCalls
<1>7. holding' = n
  BY <1>3, <1>5
<1> HIDE DEF n
<1> QED BY <1>2, <1>3, <1>4, <1>5, <1>6, <1>7

LEMMA FileFinishesKeeps ==
  ASSUME DocumentsInv, FileFinishes
  PROVE  DocumentsInv'
<1>1. Restoring
  BY DEF FileFinishes, Restoring
<1>2. PICK d \in holding.left \cap Docs :
           /\ part' = part \ {d} /\ lost' = lost \ {d}
           /\ files' \in [Docs -> States] /\ files'[d] = Whole /\ \A e \in Docs \ {d} : files'[e] = files[e]
           /\ holding' \in RestoreCalls /\ holding'.op = "restore" /\ holding'.from = holding.from
           /\ holding'.left = holding.left \ {d} /\ holding'.first = holding.first
           /\ UNCHANGED <<scope, born, rows, temp, unlocked, untidy, clearing, copies, slips, backupVars>>
  BY FileFinishesMoves
<1>3. isSetUp /\ isSetUp' = isSetUp /\ Of(holding.from) /\ holding.left \subseteq holding.from.files
      /\ holding.left \subseteq DOMAIN born /\ holding.from.files \subseteq Docs
  BY <1>1, <1>2, RestoreIs DEF backupVars
<1>4. DocumentTypes'
  BY <1>2, <1>3 DEF DocumentsInv, DocumentTypes, Calls
<1>5. Blank'
  BY <1>1, <1>2, <1>3 DEF DocumentsInv, Blank, NotYet, Restoring
<1>6. Named'
  BY <1>1, <1>2, <1>3 DEF DocumentsInv, Named, Of, Restoring
<1>7. CallOK'
  BY <1>1, <1>2, <1>3 DEF DocumentsInv, CallOK, Restoring
<1>8. Clean'
  BY <1>2 DEF Clean, Restoring
<1>9. FileBehindRow'
  BY <1>2 DEF DocumentsInv, DocumentTypes, FileBehindRow
<1>10. PlainGoesWithTheLock' /\ OneSender'
  BY <1>2 DEF DocumentsInv, PlainGoesWithTheLock, OneSender
<1> QED BY <1>4, <1>5, <1>6, <1>7, <1>8, <1>9, <1>10 DEF DocumentsInv

LEMMA RowsGoKeeps ==
  ASSUME DocumentsInv, RowsGo
  PROVE  DocumentsInv'
<1>1. Restoring
  BY DEF RowsGo, Restoring
<1>2. isSetUp /\ Of(holding.from) /\ holding.from.rows \in Tables
  BY <1>1, RestoreIs
<1>3. /\ rows' = holding.from.rows /\ lost' = {d \in DOMAIN rows' : files[d] # Whole} /\ untidy' = TRUE
      /\ UNCHANGED <<scope, born, files, temp, part, unlocked, clearing, copies, slips, isSetUp>>
  BY DEF RowsGo, RowsReplaced, inMemory, backupVars
<1>4. holding' = Free /\ holding' \in Calls /\ holding'.op = "free"
  BY FreeIs DEF RowsGo, RowsReplaced, Calls
<1>5. DOMAIN rows' \subseteq DOMAIN born
  BY <1>2, <1>3 DEF Of
<1>6. DocumentTypes'
  BY <1>2, <1>3, <1>4, <1>5 DEF DocumentsInv, DocumentTypes
<1>7. Blank'
  BY <1>2, <1>3, <1>4 DEF Blank, NotYet, Restoring
<1>8. Named'
  BY <1>3, <1>4 DEF DocumentsInv, Named, Restoring
<1>9. CallOK'
  BY <1>4 DEF CallOK, Restoring
<1>10. Clean'
  BY <1>3 DEF Clean
<1>11. FileBehindRow' /\ PlainGoesWithTheLock' /\ OneSender'
  BY <1>3, <1>4 DEF DocumentsInv, FileBehindRow, PlainGoesWithTheLock, OneSender
<1> QED BY <1>6, <1>7, <1>8, <1>9, <1>10, <1>11 DEF DocumentsInv

LEMMA RefusesKeeps ==
  ASSUME DocumentsInv, Restoring, Refuses
  PROVE  DocumentsInv'
<1>1. isSetUp /\ holding.first \in BOOLEAN
  BY RestoreIs
<1>2. holding' = Free /\ holding' \in Calls /\ holding'.op = "free"
  BY FreeIs DEF Refuses, Calls
<1>3. UNCHANGED <<scope, rows, clearing, copies, lost, slips>>
  BY DEF Refuses, inMemory
<1>4. CASE holding.first
  <2>1. /\ isSetUp' = FALSE /\ unlocked' = FALSE /\ DOMAIN born' = {} /\ part' = {} /\ temp' = {}
        /\ files' \in [Docs -> States] /\ (\A d \in Docs : files'[d] = None) /\ UNCHANGED untidy
    BY <1>4 DEF Refuses, States
  <2>2. DOMAIN rows = {} /\ copies = {}
    BY <1>4 DEF DocumentsInv, Blank, NotYet
  <2>3. DocumentTypes'
    BY <1>2, <1>3, <2>1, <2>2 DEF DocumentsInv, DocumentTypes
  <2>4. Blank'
    BY <1>2, <1>3, <2>1, <2>2 DEF Blank
  <2>5. Named' /\ CallOK' /\ Clean'
    BY <1>2, <2>1 DEF Named, CallOK, Clean, Restoring
  <2>6. FileBehindRow' /\ PlainGoesWithTheLock' /\ OneSender'
    BY <1>2, <1>3, <2>2 DEF FileBehindRow, PlainGoesWithTheLock, OneSender
  <2> QED BY <2>3, <2>4, <2>5, <2>6 DEF DocumentsInv
<1>5. CASE ~holding.first
  <2>1. untidy' = TRUE /\ part' = part \ holding.left /\ UNCHANGED <<isSetUp, unlocked, born, files, temp>>
    BY <1>5 DEF Refuses
  <2>2. DocumentTypes'
    BY <1>2, <1>3, <2>1 DEF DocumentsInv, DocumentTypes
  <2>3. Blank'
    BY <1>1, <1>2, <1>3, <2>1 DEF Blank, NotYet, Restoring
  <2>4. Named'
    BY <1>2, <2>1 DEF DocumentsInv, Named, Restoring
  <2>5. CallOK' /\ Clean'
    BY <1>2, <2>1 DEF CallOK, Clean, Restoring
  <2>6. FileBehindRow' /\ PlainGoesWithTheLock' /\ OneSender'
    BY <1>2, <1>3, <2>1 DEF DocumentsInv, FileBehindRow, PlainGoesWithTheLock, OneSender
  <2> QED BY <2>2, <2>3, <2>4, <2>5, <2>6 DEF DocumentsInv
<1> QED BY <1>1, <1>4, <1>5

-----------------------------------------------------------------------------
(* What the library does to the backups that are being written. *)
LEMMA BornGrows ==
  ASSUME DocumentsInv, LibraryNext
  PROVE  DOMAIN born \subseteq DOMAIN born' /\ (Restoring' => holding' = holding)
<1>1. holding \in Calls
  BY DEF DocumentsInv, DocumentTypes
<1>2. ASSUME UNCHANGED <<born, holding>> PROVE DOMAIN born \subseteq DOMAIN born' /\ (Restoring' => holding' = holding)
  BY <1>2
<1>3. ASSUME UNCHANGED born, holding'.op # "restore" PROVE DOMAIN born \subseteq DOMAIN born' /\ (Restoring' => holding' = holding)
  BY <1>3 DEF Restoring
<1>4. ASSUME NEW CONSTANT stage \in {"rename", "commit"}, holding.op = "add", holding' = [holding EXCEPT !.at = stage]
      PROVE  holding'.op # "restore"
  <2>1. PICK c \in AddCalls : holding = c
    BY <1>1, <1>4, CallIs
  <2>2. holding' = [c EXCEPT !.at = stage]
    BY <2>1, <1>4
  <2> QED BY <2>1, <2>2, NextStage
<1>5. ASSUME NEW c, NEW links, NEW who, Adds(c, links, who)
      PROVE  DOMAIN born \subseteq DOMAIN born' /\ (Restoring' => holding' = holding)
  <2>1. holding'.op = "add"
    BY <1>5 DEF Adds
  <2>2. CASE UNCHANGED born
    BY <2>1, <2>2 DEF Restoring
  <2>3. CASE born' = Put(born, Min(Fresh), c)
    BY <2>1, <2>3 DEF Put, Restoring
  <2> QED BY <2>2, <2>3, <1>5 DEF Adds
<1>6. CASE PutStarts \/ PutRenames
  <2>1. UNCHANGED born /\ holding.op = "add"
    BY <1>6 DEF PutStarts, PutRenames, Adding
  <2>2. holding' = [holding EXCEPT !.at = "rename"] \/ holding' = [holding EXCEPT !.at = "commit"]
    BY <1>6 DEF PutStarts, PutRenames
  <2> QED BY <2>1, <2>2, <1>3, <1>4
<1>7. CASE PutFails \/ AddCommits \/ AddFails \/ DeleteFile
  <2>1. UNCHANGED born /\ holding' = Free
    BY <1>7 DEF PutFails, AddCommits, AddFails, DeleteFile
  <2> QED BY <2>1, <1>3, FreeIs
<1>8. CASE Check \/ Lock \/ AfterLock \/ Unlock
  BY <1>2, <1>8 DEF Check, Lock, AfterLock, Unlock, onDisk
<1>9. CASE AddDropped
  BY <1>5, <1>9 DEF AddDropped
<1>10. ASSUME NEW d \in Docs, DeleteRow(d) \/ OpenCopy(d) \/ FileLost(d)
       PROVE  DOMAIN born \subseteq DOMAIN born' /\ (Restoring' => holding' = holding)
  <2>1. UNCHANGED born /\ (holding' = [op |-> "delete", doc |-> d] \/ UNCHANGED holding)
    BY <1>10 DEF DeleteRow, OpenCopy, FileLost, onDisk
  <2> QED BY <2>1, <1>2, <1>3
<1>11. ASSUME NEW d \in Docs, NEW t \in Targets, Link(d, t) \/ Unlink(d, t)
       PROVE  DOMAIN born \subseteq DOMAIN born' /\ (Restoring' => holding' = holding)
  BY <1>2, <1>11 DEF Link, Unlink
<1>12. ASSUME NEW p \in Pages, UploadBegins(p) \/ Push(p) \/ UploadFinishes(p)
       PROVE  DOMAIN born \subseteq DOMAIN born' /\ (Restoring' => holding' = holding)
  <2>1. CASE UploadBegins(p) \/ Push(p)
    BY <1>2, <2>1 DEF UploadBegins, Push, onDisk
  <2>2. CASE UploadFinishes(p)
    BY <1>2, <1>5, <2>2 DEF UploadFinishes
  <2> QED BY <1>12, <2>1, <2>2
<1>13. ASSUME NEW p \in Pages, NEW c \in Contents, UploadAsked(p, c)
       PROVE  DOMAIN born \subseteq DOMAIN born' /\ (Restoring' => holding' = holding)
  BY <1>2, <1>13 DEF UploadAsked, onDisk
<1>14. ASSUME NEW C, Drop(C) PROVE DOMAIN born \subseteq DOMAIN born' /\ (Restoring' => holding' = holding)
  BY <1>2, <1>14 DEF Drop, onDisk
<1> QED BY <1>6, <1>7, <1>8, <1>9, <1>10, <1>11, <1>12, <1>13, <1>14 DEF LibraryNext

LEMMA NoJobIs == NoJob.at = "rest" /\ \A j \in Jobs : j # NoJob
BY DEF NoJob, Jobs

LEMMA JobIs ==
  ASSUME NEW j \in Jobs
  PROVE  /\ j.at \in {"files", "prune", "noted", "failed"} /\ j.why \in {"hand", "start", "due"} /\ j.name \in Names
         /\ j.rows \in Tables /\ j.documents \in BOOLEAN /\ j.left \subseteq Docs /\ j.files \subseteq Docs
         /\ j.steady \subseteq Docs /\ j.began \in 0..MaxNow
BY DEF Jobs

LEMMA JobWithSteady ==
  ASSUME NEW j \in Jobs, NEW S \in SUBSET Docs
  PROVE  /\ [j EXCEPT !.steady = S] \in Jobs /\ [j EXCEPT !.steady = S].steady = S
         /\ [j EXCEPT !.steady = S].at = j.at /\ [j EXCEPT !.steady = S].left = j.left
         /\ [j EXCEPT !.steady = S].rows = j.rows /\ [j EXCEPT !.steady = S].files = j.files
BY DEF Jobs

\* The library moves: what stops being whole before its turn is not held against a backup.
LEMMA SteadyKeeps ==
  ASSUME JobsInv, DocumentsInv, LibraryMoves
  PROVE  JobsInv'
<1>1. /\ isSetUp /\ isSetUp' = isSetUp /\ LibraryNext /\ job' = Steady(rows', files')
      /\ UNCHANGED <<schedule, now>> /\ DOMAIN born \subseteq DOMAIN born'
  BY BornGrows DEF LibraryMoves
<1>2. NotYet' => NotYet
  BY <1>1, BornGrows DEF NotYet, Restoring
<1>3. ASSUME NEW CONSTANT w \in Writers
      PROVE  /\ job'[w] \in {NoJob} \cup Jobs /\ (job[w] = NoJob => job'[w] = NoJob)
             /\ (job[w] # NoJob => JobHolds(job[w]))'
  <2>1. CASE job[w] = NoJob
    <3>1. job'[w] = NoJob
      BY <1>1, <2>1 DEF Steady
    <3> QED BY <3>1
  <2>2. CASE job[w] # NoJob
    <3>1. PICK j \in Jobs : j = job[w]
      BY <2>2 DEF JobsInv
    <3>2. JobHolds(j) /\ j.steady \subseteq Docs
      BY <2>2, <3>1, JobIs DEF JobsInv
    <3>3. PICK S \in SUBSET Docs : S = {d \in j.steady : d \notin j.left \/ (d \in DOMAIN rows' /\ files'[d] = Whole)}
      BY <3>2
    <3> DEFINE n == [j EXCEPT !.steady = S]
    <3>4. n \in Jobs /\ n.steady = S /\ n.at = j.at /\ n.left = j.left /\ n.rows = j.rows /\ n.files = j.files
      BY JobWithSteady
    <3>5. job'[w] = n
      BY <1>1, <2>2, <3>1, <3>3 DEF Steady
    <3> HIDE DEF n
    <3>6. Of(n)' /\ n.left \subseteq DOMAIN n.rows
      BY <1>1, <3>2, <3>4 DEF JobHolds, Of
    <3>7. n.at = "files" => n.steady \ n.left \subseteq n.files /\ \A d \in n.steady \cap n.left : files'[d] = Whole
      BY <3>2, <3>3, <3>4 DEF JobHolds
    <3>8. JobHolds(n)'
      BY <3>6, <3>7 DEF JobHolds
    <3>9. (job[w] # NoJob => JobHolds(job[w]))'
      BY <3>5, <3>8
    <3> QED BY <2>2, <3>4, <3>5, <3>9
  <2> QED BY <2>1, <2>2
<1>4. job' \in [Writers -> {NoJob} \cup Jobs]
  <2>1. DOMAIN job' = Writers
    BY <1>1 DEF Steady
  <2>2. job' = [w \in Writers |-> job'[w]]
    BY <1>1 DEF Steady
  <2> QED BY <2>2, <1>3
<1>5. (NotYet => \A w \in Writers : job[w] = NoJob)'
  BY <1>2, <1>3 DEF JobsInv
<1>6. (\A w \in Writers : job[w] # NoJob => JobHolds(job[w]))'
  BY <1>3
<1>7. schedule' \in Schedules /\ now' \in 0..MaxNow
  BY <1>1 DEF JobsInv
<1> QED BY <1>4, <1>5, <1>6, <1>7 DEF JobsInv

\* What is known of a backup that is being written holds while nothing it was made of goes away.
LEMMA JobStays ==
  ASSUME NEW CONSTANT j \in Jobs, JobHolds(j), DOMAIN born \subseteq DOMAIN born',
         \A d \in Docs : files[d] = Whole => files'[d] = Whole
  PROVE  JobHolds(j)'
<1>1. Of(j)' /\ j.left \subseteq DOMAIN j.rows
  BY DEF JobHolds, Of
<1>2. j.at = "files" => j.steady \ j.left \subseteq j.files /\ \A d \in j.steady \cap j.left : files'[d] = Whole
  BY JobIs DEF JobHolds
<1> QED BY <1>1, <1>2 DEF JobHolds

LEMMA JobsStay ==
  ASSUME JobsInv, UNCHANGED job, schedule' \in Schedules, now' \in 0..MaxNow, NotYet' => NotYet,
         DOMAIN born \subseteq DOMAIN born', \A d \in Docs : files[d] = Whole => files'[d] = Whole
  PROVE  JobsInv'
<1>1. ASSUME NEW CONSTANT w \in Writers, job[w] # NoJob PROVE JobHolds(job[w])'
  <2>1. PICK j \in Jobs : j = job[w]
    BY <1>1 DEF JobsInv
  <2>2. JobHolds(j)
    BY <2>1, <1>1 DEF JobsInv
  <2>3. JobHolds(j)'
    BY <2>2, JobStays
  <2> QED BY <2>1, <2>3
<1>2. (\A w \in Writers : job[w] # NoJob => JobHolds(job[w]))'
  BY <1>1
<1>3. (NotYet => \A w \in Writers : job[w] = NoJob)'
  BY DEF JobsInv
<1> QED BY <1>2, <1>3 DEF JobsInv

LEMMA JobsNone ==
  ASSUME \A w \in Writers : job'[w] = NoJob, job' \in [Writers -> {NoJob} \cup Jobs], schedule' \in Schedules, now' \in 0..MaxNow
  PROVE  JobsInv'
BY DEF JobsInv

LEMMA JobPut ==
  ASSUME NEW f \in [Writers -> {NoJob} \cup Jobs], NEW w \in Writers, NEW j \in {NoJob} \cup Jobs
  PROVE  /\ [f EXCEPT ![w] = j] \in [Writers -> {NoJob} \cup Jobs] /\ [f EXCEPT ![w] = j][w] = j
         /\ \A v \in Writers \ {w} : [f EXCEPT ![w] = j][v] = f[v]
<1> DEFINE S == {NoJob} \cup Jobs
<1>1. f \in [Writers -> S] /\ j \in S
  OBVIOUS
<1> HIDE DEF S
<1>2. /\ [f EXCEPT ![w] = j] \in [Writers -> S] /\ [f EXCEPT ![w] = j][w] = j
      /\ \A v \in Writers \ {w} : [f EXCEPT ![w] = j][v] = f[v]
  BY <1>1
<1> QED BY <1>2 DEF S

LEMMA JobChanged ==
  ASSUME JobsInv, NEW CONSTANT w \in Writers, NEW CONSTANT n \in {NoJob} \cup Jobs, job' = [job EXCEPT ![w] = n],
         UNCHANGED <<born, files, holding, isSetUp>>, n # NoJob => ~NotYet /\ JobHolds(n),
         schedule' \in Schedules, now' \in 0..MaxNow
  PROVE  JobsInv'
<1>1. job \in [Writers -> {NoJob} \cup Jobs]
  BY DEF JobsInv
<1>2. /\ job' \in [Writers -> {NoJob} \cup Jobs] /\ job'[w] = n
      /\ \A v \in Writers \ {w} : job'[v] = job[v]
  BY <1>1, JobPut
<1>3. ASSUME NEW CONSTANT v \in Writers, job'[v] # NoJob PROVE (JobHolds(job[v]))'
  <2>1. PICK j \in Jobs : j = job'[v]
    BY <1>2, <1>3
  <2>2. JobHolds(j)
    BY <2>1, <1>2, <1>3 DEF JobsInv
  <2>3. JobHolds(j)'
    BY <2>2, JobStays
  <2> QED BY <2>1, <2>3
<1>4. (\A v \in Writers : job[v] # NoJob => JobHolds(job[v]))'
  BY <1>3
<1>5. NotYet' = NotYet
  BY DEF NotYet, Restoring
<1>6. (NotYet => \A v \in Writers : job[v] = NoJob)'
  BY <1>2, <1>5 DEF JobsInv
<1> QED BY <1>2, <1>4, <1>6 DEF JobsInv

-----------------------------------------------------------------------------
(* Writing a backup. *)
LEMMA StartsKeeps ==
  ASSUME JobsInv, DocumentsInv, NEW CONSTANT w \in Writers, NEW CONSTANT why \in {"hand", "start", "due"}, NEW CONSTANT name \in Names,
         NEW CONSTANT withDocuments \in BOOLEAN, Starts(w, why, name, withDocuments),
         UNCHANGED <<born, files, holding, isSetUp, schedule, now>>
  PROVE  JobsInv'
<1>1. /\ unlocked /\ holding = Free /\ rows \in Tables /\ DOMAIN rows \subseteq DOMAIN born /\ DOMAIN rows \subseteq Docs
      /\ schedule \in Schedules /\ now \in 0..MaxNow
  BY DEF Starts, CanHold, DocumentsInv, DocumentTypes, JobsInv
<1>2. ~NotYet
  BY <1>1, FreeIs DEF DocumentsInv, Blank, NotYet, Restoring
<1>3. PICK r \in Tables, W \in SUBSET Docs, t \in 0..MaxNow : r = rows /\ W = WholeDocs /\ t = now
  BY <1>1 DEF WholeDocs
<1> DEFINE n == [at |-> "files", why |-> why, name |-> name, rows |-> r, documents |-> withDocuments,
                 left |-> IF withDocuments THEN DOMAIN r ELSE {}, files |-> {},
                 steady |-> IF withDocuments THEN W ELSE {}, began |-> t]
<1>4. job' = [job EXCEPT ![w] = n]
  BY <1>3 DEF Starts
<1>5. n \in Jobs /\ n.rows = r /\ n.files = {} /\ n.left \subseteq DOMAIN r /\ n.steady \subseteq W
      /\ (n.left = DOMAIN r \/ n.steady = {})
  <2>1. (IF withDocuments THEN DOMAIN r ELSE {}) \in SUBSET Docs /\ (IF withDocuments THEN W ELSE {}) \in SUBSET Docs
    BY <1>1, <1>3
  <2> QED BY <2>1 DEF Jobs
<1> HIDE DEF n
<1>6. W \subseteq DOMAIN r /\ \A d \in W : files[d] = Whole
  BY <1>3 DEF WholeDocs
<1>7. JobHolds(n)
  BY <1>1, <1>3, <1>5, <1>6 DEF JobHolds, Of
<1> QED BY <1>1, <1>2, <1>4, <1>5, <1>7, JobChanged

LEMMA JobWithLeft ==
  ASSUME NEW j \in Jobs, NEW L \in SUBSET Docs
  PROVE  /\ [j EXCEPT !.left = L] \in Jobs /\ [j EXCEPT !.left = L].left = L
         /\ [j EXCEPT !.left = L].at = j.at /\ [j EXCEPT !.left = L].rows = j.rows /\ [j EXCEPT !.left = L].steady = j.steady
BY DEF Jobs

LEMMA JobWithFiles ==
  ASSUME NEW j \in Jobs, NEW F \in SUBSET Docs
  PROVE  /\ [j EXCEPT !.files = F] \in Jobs /\ [j EXCEPT !.files = F].files = F /\ [j EXCEPT !.files = F].left = j.left
         /\ [j EXCEPT !.files = F].at = j.at /\ [j EXCEPT !.files = F].rows = j.rows /\ [j EXCEPT !.files = F].steady = j.steady
BY DEF Jobs

LEMMA JobAt ==
  ASSUME NEW j \in Jobs, NEW step \in {"prune", "noted", "failed"}
  PROVE  \E n \in Jobs : n = [j EXCEPT !.at = step] /\ n.at = step /\ n.left = j.left /\ n.files = j.files /\ n.rows = j.rows
<1> DEFINE n == [j EXCEPT !.at = step]
<1>1. n \in Jobs /\ n.at = step /\ n.left = j.left /\ n.files = j.files /\ n.rows = j.rows
  BY DEF Jobs
<1> HIDE DEF n
<1>2. n \in Jobs /\ n = [j EXCEPT !.at = step]
  BY <1>1 DEF n
<1> QED BY <1>1, <1>2

\* Once its files are written, what it is of is all that matters.
LEMMA JobMovesOn ==
  ASSUME NEW CONSTANT j \in Jobs, NEW CONSTANT n \in Jobs, JobHolds(j), n.at # "files", n.left = j.left, n.files = j.files, n.rows = j.rows
  PROVE  JobHolds(n)
BY DEF JobHolds, Of

LEMMA WriteFileKeeps ==
  ASSUME JobsInv, NEW CONSTANT w \in Writers, WriteFile(w)
  PROVE  JobsInv'
<1>1. PICK j \in Jobs : j = job[w] /\ j.at = "files" /\ j.left # {}
  BY NoJobIs DEF WriteFile, JobsInv
<1>2. JobHolds(j) /\ ~NotYet /\ j.left \subseteq Docs /\ j.files \subseteq Docs
  BY <1>1, NoJobIs, JobIs DEF JobsInv
<1>3. PICK d \in j.left : d = Min(j.left)
  <2>1. j.left \subseteq Nat
    BY <1>2 DEF Docs
  <2> QED BY <2>1, <1>1, MinIsIn
<1>4. PICK L \in SUBSET Docs, F \in SUBSET Docs : L = j.left \ {d} /\ F = IF files[d] = Whole THEN j.files \cup {d} ELSE j.files
  BY <1>2
<1> DEFINE m == [j EXCEPT !.left = L]
<1> DEFINE n == [m EXCEPT !.files = F]
<1>5. job' = [job EXCEPT ![w] = n]
  <2>1. job' = [job EXCEPT ![w].left = @ \ {d}, ![w].files = IF files[d] = Whole THEN @ \cup {d} ELSE @]
    BY <1>1, <1>3 DEF WriteFile
  <2> QED BY <2>1, <1>1, <1>4 DEF JobsInv
<1>6. n \in Jobs /\ n.left = L /\ n.files = F /\ n.at = j.at /\ n.rows = j.rows /\ n.steady = j.steady
  <2>1. m \in Jobs /\ m.left = L /\ m.at = j.at /\ m.rows = j.rows /\ m.steady = j.steady
    BY JobWithLeft
  <2> HIDE DEF m
  <2> QED BY <2>1, JobWithFiles
<1> HIDE DEF m, n
<1>7. JobHolds(n)
  <2>1. d \in DOMAIN j.rows
    BY <1>2, <1>3 DEF JobHolds
  <2>2. Of(n) /\ n.left \subseteq DOMAIN n.rows
    BY <1>2, <1>4, <1>6, <2>1 DEF JobHolds, Of
  <2>3. n.steady \ n.left \subseteq n.files /\ \A e \in n.steady \cap n.left : files[e] = Whole
    BY <1>1, <1>2, <1>3, <1>4, <1>6 DEF JobHolds
  <2> QED BY <2>2, <2>3 DEF JobHolds
<1>8. UNCHANGED <<born, files, holding, isSetUp>> /\ schedule' \in Schedules /\ now' \in 0..MaxNow
  BY DEF WriteFile, documentVars, JobsInv
<1> QED BY <1>2, <1>5, <1>6, <1>7, <1>8, JobChanged

LEMMA GoneKeeps ==
  ASSUME JobsInv, NEW CONSTANT w \in Writers, Gone(w), UNCHANGED <<born, files, holding, isSetUp>>,
         schedule' \in Schedules, now' \in 0..MaxNow
  PROVE  JobsInv'
<1>1. PICK n \in {NoJob} \cup Jobs : n = NoJob
  OBVIOUS
<1>2. job' = [job EXCEPT ![w] = n]
  BY <1>1 DEF Gone
<1> QED BY <1>1, <1>2, JobChanged

LEMMA WriteFailsKeeps ==
  ASSUME JobsInv, NEW CONSTANT w \in Writers, WriteFails(w)
  PROVE  JobsInv'
<1>1. PICK j \in Jobs : j = job[w] /\ j.at = "files"
  BY NoJobIs DEF WriteFails, JobsInv
<1>2. JobHolds(j) /\ ~NotYet
  BY <1>1, NoJobIs DEF JobsInv
<1>3. UNCHANGED <<born, files, holding, isSetUp>> /\ schedule' \in Schedules /\ now' \in 0..MaxNow
  BY DEF WriteFails, onDisk, JobsInv
<1>4. CASE j.why = "due"
  <2>1. PICK n \in Jobs : n = [j EXCEPT !.at = "failed"] /\ n.at = "failed" /\ n.left = j.left /\ n.files = j.files /\ n.rows = j.rows
    BY JobAt
  <2>2. job' = [job EXCEPT ![w] = n]
    BY <1>1, <1>4, <2>1 DEF WriteFails, JobsInv
  <2>3. JobHolds(n)
    BY <1>2, <2>1, JobMovesOn
  <2> QED BY <1>2, <1>3, <2>2, <2>3, JobChanged
<1>5. CASE j.why # "due"
  <2>1. Gone(w)
    BY <1>1, <1>5 DEF WriteFails, Gone, JobsInv
  <2> QED BY <1>3, <2>1, GoneKeeps
<1> QED BY <1>4, <1>5

LEMMA RenameKeeps ==
  ASSUME JobsInv, FolderInv, NEW CONSTANT w \in Writers, Rename(w)
  PROVE  JobsInv' /\ FolderInv'
<1>1. PICK j \in Jobs : j = job[w] /\ j.at = "files" /\ j.left = {}
  BY NoJobIs DEF Rename, JobsInv
<1>2. JobHolds(j) /\ ~NotYet /\ j.steady \subseteq j.files /\ j.files \subseteq Docs
  BY <1>1, NoJobIs, JobIs DEF JobsInv, JobHolds
<1>3. UNCHANGED <<born, files, holding, isSetUp>> /\ schedule' \in Schedules /\ now' \in 0..MaxNow
  BY DEF Rename, documentVars, JobsInv
<1>4. JobsInv'
  <2>1. CASE j.why = "hand"
    <3>1. Gone(w)
      BY <1>1, <2>1 DEF Rename, Gone, JobsInv
    <3> QED BY <1>3, <3>1, GoneKeeps
  <2>2. CASE j.why # "hand"
    <3>1. PICK n \in Jobs : n = [j EXCEPT !.at = "prune"] /\ n.at = "prune" /\ n.left = j.left /\ n.files = j.files /\ n.rows = j.rows
      BY JobAt
    <3>2. job' = [job EXCEPT ![w] = n]
      BY <1>1, <2>2, <3>1 DEF Rename, JobsInv
    <3>3. JobHolds(n)
      BY <1>2, <3>1, JobMovesOn
    <3> QED BY <1>2, <1>3, <3>2, <3>3, JobChanged
  <2> QED BY <2>1, <2>2
<1> DEFINE b == [rows |-> j.rows, files |-> j.files, steady |-> j.steady, bad |-> Fine]
<1>5. b \in Copies /\ b.rows = j.rows /\ b.files = j.files /\ b.steady = j.steady
  <2>1. Fine \in Spots
    BY LastDocAssumption DEF Fine, Spots, AtStart
  <2>2. j.rows \in Tables /\ j.files \in SUBSET Docs /\ j.steady \in SUBSET Docs
    BY JobIs
  <2> QED BY <2>1, <2>2 DEF Copies
<1>6. DOMAIN folder' = DOMAIN folder \cup {j.name} /\ folder'[j.name] = b /\ \A n \in DOMAIN folder \ {j.name} : folder'[n] = folder[n]
  <2>1. folder' = Put(folder, j.name, b)
    BY <1>1 DEF Rename
  <2> QED BY <2>1 DEF Put
<1> HIDE DEF b
<1>7. j.name \in Names /\ Of(b) /\ b.steady \subseteq b.files
  BY <1>2, <1>5, JobIs DEF JobHolds, Of
<1>8. ~NotYet'
  BY <1>2, <1>3 DEF NotYet, Restoring
<1>9. FolderInv'
  <2>1. DOMAIN folder' \subseteq Names /\ \A n \in DOMAIN folder' : folder'[n] = b \/ (n \in DOMAIN folder /\ folder'[n] = folder[n])
    BY <1>6, <1>7 DEF FolderInv
  <2>2. \A n \in DOMAIN folder' : folder'[n] \in Copies /\ folder'[n].steady \subseteq folder'[n].files
    BY <2>1, <1>5, <1>7 DEF FolderInv
  <2>3. ASSUME NEW CONSTANT n \in Names, n \in DOMAIN folder' PROVE Of(folder[n])'
    <3>1. CASE folder'[n] = b
      BY <3>1, <1>3, <1>7 DEF Of
    <3>2. CASE n \in DOMAIN folder /\ folder'[n] = folder[n]
      BY <3>2, <1>3 DEF FolderInv, Of
    <3> QED BY <3>1, <3>2, <2>1, <2>3
  <2>4. (\A n \in DOMAIN folder : Of(folder[n]) /\ folder[n].steady \subseteq folder[n].files)'
    BY <2>1, <2>2, <2>3
  <2> QED BY <2>1, <2>2, <2>4, <1>8 DEF FolderInv
<1> QED BY <1>4, <1>9

LEMMA PruneKeeps ==
  ASSUME JobsInv, FolderInv, NEW CONSTANT w \in Writers, Prune(w)
  PROVE  JobsInv' /\ FolderInv'
<1>1. PICK j \in Jobs : j = job[w] /\ j.at = "prune"
  BY NoJobIs DEF Prune, JobsInv
<1>2. JobHolds(j) /\ ~NotYet
  BY <1>1, NoJobIs DEF JobsInv
<1>3. UNCHANGED <<born, files, holding, isSetUp>> /\ schedule' \in Schedules /\ now' \in 0..MaxNow
  BY DEF Prune, documentVars, JobsInv
<1>4. JobsInv'
  <2>1. PICK n \in Jobs : n = [j EXCEPT !.at = "noted"] /\ n.at = "noted" /\ n.left = j.left /\ n.files = j.files /\ n.rows = j.rows
    BY JobAt
  <2>2. job' = [job EXCEPT ![w] = n]
    BY <1>1, <2>1 DEF Prune, JobsInv
  <2>3. JobHolds(n)
    BY <1>2, <2>1, JobMovesOn
  <2> QED BY <1>2, <1>3, <2>2, <2>3, JobChanged
<1>5. DOMAIN folder' \subseteq DOMAIN folder /\ \A n \in DOMAIN folder' : folder'[n] = folder[n]
  <2>1. folder' = Restrict(folder, Newest \cup (DOMAIN folder \cap {ByHand}))
    BY DEF Prune
  <2>2. Newest \cup (DOMAIN folder \cap {ByHand}) \subseteq DOMAIN folder
    BY DEF Newest, Scheduled
  <2> QED BY <2>1, <2>2 DEF Restrict
<1>6. FolderInv'
  BY <1>2, <1>3, <1>5 DEF FolderInv, Of, NotYet, Restoring
<1> QED BY <1>4, <1>6

LEMMA NoteKeeps ==
  ASSUME JobsInv, NEW CONSTANT w \in Writers, Note(w)
  PROVE  JobsInv'
<1>1. PICK j \in Jobs : j = job[w] /\ j.at \in {"noted", "failed"}
  BY NoJobIs DEF Note, JobsInv
<1>2. UNCHANGED <<born, files, holding, isSetUp>> /\ now' \in 0..MaxNow /\ Gone(w)
  BY DEF Note, documentVars, JobsInv
<1>3. schedule' \in Schedules
  <2>1. schedule \in Schedules /\ schedule.documents \in BOOLEAN /\ j.began \in 0..MaxNow /\ j.documents \in BOOLEAN
    BY JobIs DEF JobsInv, Schedules
  <2>2. PICK t \in 0..MaxNow, u \in BOOLEAN, v \in BOOLEAN : t = j.began /\ u = j.documents /\ v = schedule.documents
    BY <2>1
  <2>3. \/ schedule' = [there |-> TRUE, last |-> t, ok |-> TRUE, documents |-> u]
        \/ \E ok \in BOOLEAN : schedule' = [there |-> TRUE, last |-> t, ok |-> ok, documents |-> v]
        \/ schedule' = schedule
    BY <1>1, <2>2 DEF Note
  <2>4. \A ok \in BOOLEAN, p \in BOOLEAN : [there |-> TRUE, last |-> t, ok |-> ok, documents |-> p] \in Schedules
    BY DEF Schedules
  <2> QED BY <2>1, <2>3, <2>4
<1> QED BY <1>2, <1>3, GoneKeeps

-----------------------------------------------------------------------------
(* The folder of backups. *)
LEMMA FolderStays ==
  ASSUME FolderInv, UNCHANGED folder, DOMAIN born \subseteq DOMAIN born', NotYet' => NotYet
  PROVE  FolderInv'
<1>1. ASSUME NEW CONSTANT n \in Names, n \in DOMAIN folder PROVE Of(folder[n])'
  BY <1>1 DEF FolderInv, Of
<1>2. (\A n \in DOMAIN folder : Of(folder[n]) /\ folder[n].steady \subseteq folder[n].files)'
  BY <1>1 DEF FolderInv
<1> QED BY <1>2 DEF FolderInv

LEMMA FolderNone ==
  ASSUME FolderInv, UNCHANGED folder, DOMAIN folder = {}
  PROVE  FolderInv'
BY DEF FolderInv

LEMMA DamagedKeeps ==
  ASSUME FolderInv, NEW CONSTANT n \in Names, BackupDamaged(n)
  PROVE  FolderInv'
<1>1. n \in DOMAIN folder /\ UNCHANGED <<born, holding, isSetUp>>
  BY DEF BackupDamaged, onDisk
<1>2. PICK b \in Copies : b = folder[n]
  BY <1>1 DEF FolderInv
<1>3. ~NotYet' /\ Of(b)' /\ b.steady \subseteq b.files /\ b.files \subseteq Docs
  BY <1>1, <1>2 DEF FolderInv, NotYet, Restoring, Of, Copies
<1>4. PICK spot \in Spots : folder' = [folder EXCEPT ![n].bad = spot]
  <2>1. PICK spot \in folder[n].files \cup {0, AtStart} : folder' = [folder EXCEPT ![n].bad = spot]
    BY DEF BackupDamaged
  <2>2. spot \in Docs \cup {0, AtStart}
    BY <2>1, <1>2, <1>3
  <2>3. spot \in Spots
    BY <2>2, LastDocAssumption DEF Docs, Spots, AtStart
  <2> QED BY <2>1, <2>3
<1> DEFINE c == [b EXCEPT !.bad = spot]
<1>5. c \in Copies /\ c.rows = b.rows /\ c.files = b.files /\ c.steady = b.steady
  BY DEF Copies
<1>6. folder' = [folder EXCEPT ![n] = c]
  BY <1>2, <1>4
<1> HIDE DEF c
<1>7. DOMAIN folder' = DOMAIN folder /\ folder'[n] = c /\ \A m \in DOMAIN folder \ {n} : folder'[m] = folder[m]
  BY <1>1, <1>6
<1>8. \A m \in DOMAIN folder' : folder'[m] \in Copies /\ folder'[m].steady \subseteq folder'[m].files
  BY <1>3, <1>5, <1>7 DEF FolderInv
<1>9. ASSUME NEW CONSTANT m \in Names, m \in DOMAIN folder' PROVE Of(folder[m])'
  <2>1. CASE m = n
    BY <2>1, <1>3, <1>5, <1>7 DEF Of
  <2>2. CASE m # n
    BY <2>2, <1>1, <1>7, <1>9 DEF FolderInv, Of
  <2> QED BY <2>1, <2>2
<1>10. (\A m \in DOMAIN folder : Of(folder[m]) /\ folder[m].steady \subseteq folder[m].files)'
  BY <1>7, <1>8, <1>9 DEF FolderInv
<1> QED BY <1>3, <1>7, <1>8, <1>10 DEF FolderInv

-----------------------------------------------------------------------------
(* All together. *)
LEMMA SlotSameDropped ==
  ASSUME UploadInv, UNCHANGED <<upload, sender, dropped>>
  PROVE  UploadInv'
BY SlotSame DEF UploadInv

LEMMA DocumentsUnchanged ==
  ASSUME UploadInv, DocumentsInv, UNCHANGED <<documentVars, isSetUp>>
  PROVE  UploadInv' /\ DocumentsInv'
<1>1. UNCHANGED documents /\ UNCHANGED <<upload, sender, dropped>>
  BY DEF documents, documentVars
<1> QED BY <1>1, DocumentsSame, SlotSameDropped

LEMMA EmptyFunction == DOMAIN << >> = {} /\ << >> \in [{} -> SUBSET Targets]
OBVIOUS

LEMMA InitKeeps ==
  ASSUME Init
  PROVE  BackupsInv
<1>1. /\ scope \in Scopes /\ born = << >> /\ rows = << >> /\ files = [d \in Docs |-> None] /\ temp = {} /\ part = {}
      /\ unlocked \in BOOLEAN /\ untidy = FALSE /\ clearing = FALSE /\ holding = Free
      /\ upload = NoUpload /\ sender = [p \in Pages |-> NoSender]
      /\ dropped = {} /\ copies = {} /\ lost = {} /\ slips = FALSE
  BY DEF Init, InitLibrary
<1>2. /\ isSetUp \in BOOLEAN /\ isSetUp = unlocked /\ folder = << >> /\ job = [w \in Writers |-> NoJob]
      /\ schedule = NoSchedule /\ now = 0
  BY DEF Init
<1>3. UploadInv
  BY <1>1, Nothing DEF UploadInv
<1>4. rows \in Tables /\ DOMAIN rows = {} /\ DOMAIN born = {} /\ DOMAIN folder = {}
  <2>1. {} \in SUBSET Docs
    OBVIOUS
  <2> QED BY <2>1, <1>1, <1>2, EmptyFunction, TablesAre
<1>5. DocumentTypes
  BY <1>1, <1>2, <1>4, FreeIs DEF DocumentTypes, States
<1>6. holding.op = "free" /\ ~Restoring
  BY <1>1, FreeIs DEF Restoring
<1>7. Blank /\ Named /\ CallOK
  BY <1>1, <1>2, <1>4, <1>6 DEF Blank, Named, CallOK
<1>8. Clean /\ FileBehindRow /\ PlainGoesWithTheLock /\ OneSender
  BY <1>1, <1>4, <1>6 DEF Clean, Strays, FileBehindRow, PlainGoesWithTheLock, OneSender
<1>9. FolderInv
  BY <1>4 DEF FolderInv
<1>10. JobsInv
  <2>1. schedule \in Schedules /\ now \in 0..MaxNow
    BY <1>2, MaxNowAssumption DEF NoSchedule, Schedules
  <2> QED BY <2>1, <1>2 DEF JobsInv
<1> QED BY <1>3, <1>5, <1>7, <1>8, <1>9, <1>10 DEF BackupsInv, DocumentsInv

LEMMA RestoringKeeps ==
  ASSUME BackupsInv, FileArrives \/ FileFinishes \/ RowsGo \/ RestoreRefuses \/ RestoreFails
  PROVE  BackupsInv'
<1>1. UploadInv /\ DocumentsInv /\ FolderInv /\ JobsInv /\ schedule \in Schedules /\ now \in 0..MaxNow
  BY DEF BackupsInv, JobsInv
<1>2. Restoring
  BY DEF FileArrives, FileFinishes, RowsGo, RestoreRefuses, RestoreFails, Restoring
<1>3. isSetUp
  BY <1>1, <1>2, RestoreIs
<1>4. UNCHANGED <<upload, sender, dropped, folder, job, schedule, now>>
  BY DEF FileArrives, FileFinishes, RowsGo, RowsReplaced, RestoreRefuses, RestoreFails, Refuses, inMemory, backupVars
<1>5. UploadInv'
  BY <1>1, <1>4, SlotSameDropped
<1>6. CASE FileArrives
  <2>1. UNCHANGED <<born, files, holding, isSetUp>>
    BY <1>6 DEF FileArrives, backupVars
  <2>2. NotYet' => NotYet
    BY <2>1 DEF NotYet, Restoring
  <2> QED BY <1>1, <1>4, <1>5, <1>6, <2>1, <2>2, FileArrivesKeeps, FolderStays, JobsStay DEF BackupsInv
<1>7. CASE FileFinishes
  <2>1. PICK d \in holding.left \cap Docs :
          /\ files'[d] = Whole /\ \A e \in Docs \ {d} : files'[e] = files[e]
          /\ holding'.op = "restore" /\ holding'.first = holding.first /\ UNCHANGED <<born, backupVars>>
    BY <1>1, <1>7, FileFinishesMoves
  <2>2. \A e \in Docs : files[e] = Whole => files'[e] = Whole
    BY <2>1
  <2>3. NotYet' => NotYet
    BY <1>2, <2>1 DEF NotYet, Restoring, backupVars
  <2> QED BY <1>1, <1>4, <1>5, <1>7, <2>1, <2>2, <2>3, FileFinishesKeeps, FolderStays, JobsStay DEF BackupsInv
<1>8. CASE RowsGo
  <2>1. UNCHANGED <<born, files, isSetUp>> /\ holding' = Free
    BY <1>8 DEF RowsGo, RowsReplaced, backupVars
  <2>2. NotYet' => NotYet
    BY <2>1, FreeIs DEF NotYet, Restoring
  <2> QED BY <1>1, <1>4, <1>5, <1>8, <2>1, <2>2, RowsGoKeeps, FolderStays, JobsStay DEF BackupsInv
<1>9. CASE Refuses
  <2>1. DocumentsInv'
    BY <1>1, <1>2, <1>9, RefusesKeeps
  <2>2. CASE holding.first
    <3>1. DOMAIN folder = {} /\ job \in [Writers -> {NoJob} \cup Jobs] /\ \A w \in Writers : job[w] = NoJob
      BY <1>1, <1>2, <2>2 DEF FolderInv, JobsInv, NotYet
    <3>2. FolderInv'
      BY <1>1, <1>4, <3>1, FolderNone
    <3>3. JobsInv'
      BY <1>1, <1>4, <3>1, JobsNone
    <3> QED BY <1>5, <2>1, <3>2, <3>3 DEF BackupsInv
  <2>3. CASE ~holding.first
    <3>1. UNCHANGED <<born, files, isSetUp>> /\ holding' = Free
      BY <1>9, <2>3 DEF Refuses
    <3>2. NotYet' => NotYet
      BY <1>3, <3>1, FreeIs DEF NotYet, Restoring
    <3> QED BY <1>1, <1>4, <1>5, <2>1, <3>1, <3>2, FolderStays, JobsStay DEF BackupsInv
  <2> QED BY <2>2, <2>3
<1> QED BY <1>6, <1>7, <1>8, <1>9 DEF RestoreRefuses, RestoreFails

LEMMA WritingKeeps ==
  ASSUME BackupsInv, NEW CONSTANT w \in Writers,
         WriteFile(w) \/ StoppedByLock(w) \/ WriteFails(w) \/ Rename(w) \/ Prune(w) \/ Note(w)
  PROVE  BackupsInv'
<1>1. UploadInv /\ DocumentsInv /\ FolderInv /\ JobsInv /\ schedule \in Schedules /\ now \in 0..MaxNow
  BY DEF BackupsInv, JobsInv
<1>2. UNCHANGED <<scope, onDisk, lockState, inMemory, holding, isSetUp>>
  BY DEF WriteFile, StoppedByLock, WriteFails, Rename, Prune, Note, documentVars, onDisk, lockState, inMemory
<1>3. UNCHANGED documents /\ UNCHANGED <<upload, sender, dropped>>
  BY <1>2 DEF documents, onDisk, lockState, inMemory
<1>4. UploadInv' /\ DocumentsInv'
  BY <1>1, <1>3, DocumentsSame, SlotSameDropped
<1>5. JobsInv'
  <2>1. CASE StoppedByLock(w)
    <3>1. Gone(w) /\ UNCHANGED <<born, files, holding, isSetUp, schedule, now>>
      BY <2>1 DEF StoppedByLock, documentVars
    <3> QED BY <1>1, <3>1, GoneKeeps
  <2> QED BY <2>1, <1>1, WriteFileKeeps, WriteFailsKeeps, RenameKeeps, PruneKeeps, NoteKeeps
<1>6. FolderInv'
  <2>1. CASE UNCHANGED folder
    <3>1. UNCHANGED <<born, holding, isSetUp>>
      BY <1>2 DEF onDisk
    <3>2. NotYet' => NotYet
      BY <3>1 DEF NotYet, Restoring
    <3> QED BY <1>1, <2>1, <3>1, <3>2, FolderStays
  <2>2. CASE Rename(w) \/ Prune(w)
    BY <1>1, <2>2, RenameKeeps, PruneKeeps
  <2> QED BY <2>1, <2>2 DEF WriteFile, StoppedByLock, WriteFails, Note
<1> QED BY <1>4, <1>5, <1>6 DEF BackupsInv

LEMMA BeginningKeeps ==
  ASSUME BackupsInv, NEW CONSTANT withDocuments \in BOOLEAN, CreateBackup(withDocuments) \/ StartSchedule(withDocuments) \/ RunIfDue
  PROVE  BackupsInv'
<1>1. UploadInv /\ DocumentsInv /\ FolderInv /\ JobsInv
  BY DEF BackupsInv
<1>2. UNCHANGED <<documentVars, isSetUp, folder, schedule, now>>
  BY DEF CreateBackup, StartSchedule, RunIfDue
<1>3. UNCHANGED <<born, files, holding, isSetUp, schedule, now>>
  BY <1>2 DEF documentVars
<1>4. FolderInv'
  <2>1. NotYet' => NotYet
    BY <1>3 DEF NotYet, Restoring
  <2> QED BY <1>1, <1>2, <1>3, <2>1, FolderStays
<1>5. PICK t \in Names : t = now
  BY <1>1, MaxNowAssumption DEF JobsInv, Names, ByHand
<1>6. ByHand \in Names /\ "person" \in Writers /\ "timer" \in Writers
  BY MaxNowAssumption DEF Names, ByHand, Writers
<1>7. JobsInv'
  <2>1. CASE CreateBackup(withDocuments)
    <3>1. Starts("person", "hand", ByHand, withDocuments)
      BY <2>1 DEF CreateBackup
    <3> QED BY <1>1, <1>3, <1>6, <3>1, StartsKeeps
  <2>2. CASE StartSchedule(withDocuments)
    <3>1. Starts("person", "start", t, withDocuments)
      BY <1>5, <2>2 DEF StartSchedule
    <3> QED BY <1>1, <1>3, <1>6, <3>1, StartsKeeps
  <2>3. CASE RunIfDue
    <3>1. PICK u \in BOOLEAN : u = schedule.documents
      BY <1>1 DEF JobsInv, Schedules
    <3>2. Starts("timer", "due", t, u)
      BY <1>5, <2>3, <3>1 DEF RunIfDue
    <3> QED BY <1>1, <1>3, <1>6, <3>2, StartsKeeps
  <2> QED BY <2>1, <2>2, <2>3
<1> QED BY <1>1, <1>2, <1>4, <1>7, DocumentsUnchanged DEF BackupsInv

\* A call that is going on was made by an app that has a database.
LEMMA LibraryMovesKeeps ==
  ASSUME BackupsInv, LibraryMoves
  PROVE  BackupsInv'
<1>1. UploadInv /\ DocumentsInv /\ FolderInv /\ JobsInv
  BY DEF BackupsInv
<1>2. isSetUp /\ LibraryNext /\ UNCHANGED <<isSetUp, folder>>
  BY DEF LibraryMoves
<1>3. UploadInv' /\ DocumentsInv'
  BY <1>1, <1>2, LibraryKeeps
<1>4. DOMAIN born \subseteq DOMAIN born' /\ (NotYet' => NotYet)
  BY <1>1, <1>2, BornGrows DEF NotYet, Restoring
<1>5. FolderInv'
  BY <1>1, <1>2, <1>4, FolderStays
<1>6. JobsInv'
  BY <1>1, SteadyKeeps
<1> QED BY <1>3, <1>5, <1>6 DEF BackupsInv

LEMMA AppGoesKeeps ==
  ASSUME BackupsInv, AppGoes
  PROVE  BackupsInv'
<1>1. UploadInv /\ DocumentsInv /\ FolderInv /\ schedule \in Schedules /\ now \in 0..MaxNow
  BY DEF BackupsInv, JobsInv
<1>2. isSetUp /\ AppEnds /\ UNCHANGED <<isSetUp, folder, schedule, now>> /\ job' = [w \in Writers |-> NoJob]
  BY DEF AppGoes
<1>3. UNCHANGED born /\ upload' = NoUpload /\ sender' = [p \in Pages |-> NoSender] /\ dropped' = {} /\ holding' = Free
  BY <1>2 DEF AppEnds
<1>4. UploadInv'
  <2>1. sender' \in [Pages -> Senders] /\ \A q \in Pages : sender'[q] = NoSender
    BY <1>3, Nothing
  <2> QED BY <1>1, <1>3, <2>1, SlotEmptied
<1>5. DocumentsInv'
  BY <1>1, <1>2, AppEndsKeeps
<1>6. NotYet' => NotYet
  BY <1>2, <1>3, FreeIs DEF NotYet, Restoring
<1>7. FolderInv'
  BY <1>1, <1>2, <1>3, <1>6, FolderStays
<1>8. JobsInv'
  <2>1. job' \in [Writers -> {NoJob} \cup Jobs] /\ \A w \in Writers : job'[w] = NoJob
    BY <1>2
  <2> QED BY <1>1, <1>2, <2>1, JobsNone
<1> QED BY <1>4, <1>5, <1>7, <1>8 DEF BackupsInv

\* A step that leaves documents and backups as they are.
LEMMA RestKeeps ==
  ASSUME BackupsInv, UNCHANGED <<documentVars, isSetUp, folder, job>>, schedule' \in Schedules, now' \in 0..MaxNow
  PROVE  BackupsInv'
<1>1. UploadInv /\ DocumentsInv /\ FolderInv /\ JobsInv
  BY DEF BackupsInv
<1>2. UNCHANGED <<born, files, holding, isSetUp>>
  BY DEF documentVars
<1>3. NotYet' => NotYet
  BY <1>2 DEF NotYet, Restoring
<1>4. UploadInv' /\ DocumentsInv'
  BY <1>1, DocumentsUnchanged
<1> QED BY <1>1, <1>2, <1>3, <1>4, FolderStays, JobsStay DEF BackupsInv

LEMMA AskingKeeps ==
  ASSUME BackupsInv, NEW CONSTANT n \in Names, Restore(n) \/ BackupDamaged(n)
  PROVE  BackupsInv'
<1>1. UploadInv /\ DocumentsInv /\ FolderInv /\ JobsInv /\ schedule \in Schedules /\ now \in 0..MaxNow
  BY DEF BackupsInv, JobsInv
<1>2. UNCHANGED <<scope, onDisk, lockState, inMemory, isSetUp, job, schedule, now>>
  BY DEF Restore, BackupDamaged
<1>3. UNCHANGED <<born, files, isSetUp>> /\ UNCHANGED <<upload, sender, dropped>>
  BY <1>2 DEF onDisk, inMemory
<1>4. UploadInv'
  BY <1>1, <1>3, SlotSameDropped
<1>5. CASE Restore(n)
  <2>1. UNCHANGED folder /\ ~NotYet /\ holding'.first = FALSE
    BY <1>1, <1>5 DEF Restore, FolderInv
  <2>2. NotYet' => NotYet
    BY <1>3, <2>1 DEF NotYet
  <2> QED BY <1>1, <1>2, <1>3, <1>4, <1>5, <2>1, <2>2, RestoreKeeps, FolderStays, JobsStay DEF BackupsInv
<1>6. CASE BackupDamaged(n)
  <2>1. UNCHANGED holding
    BY <1>6 DEF BackupDamaged
  <2>2. UNCHANGED documents /\ (NotYet' => NotYet)
    BY <1>2, <2>1 DEF documents, onDisk, lockState, inMemory, NotYet, Restoring
  <2> QED BY <1>1, <1>2, <1>3, <1>4, <1>6, <2>2, DocumentsSame, DamagedKeeps, JobsStay DEF BackupsInv
<1> QED BY <1>5, <1>6

LEMMA FirstRunKeeps ==
  ASSUME BackupsInv, NEW CONSTANT b \in Foreign, CreateFromBackup(b)
  PROVE  BackupsInv'
<1>1. UploadInv /\ DocumentsInv /\ FolderInv /\ JobsInv
  BY DEF BackupsInv
<1>2. UNCHANGED <<upload, sender, dropped, folder, job, schedule, now>> /\ NotYet
  BY DEF CreateFromBackup, inMemory, NotYet
<1>3. DOMAIN folder = {} /\ \A w \in Writers : job[w] = NoJob
  BY <1>1, <1>2 DEF FolderInv, JobsInv
<1>4. FolderInv'
  BY <1>1, <1>2, <1>3, FolderNone
<1>5. JobsInv'
  BY <1>1, <1>2, <1>3, JobsNone DEF JobsInv
<1> QED BY <1>1, <1>2, <1>4, <1>5, CreateKeeps, SlotSameDropped DEF BackupsInv

LEMMA NextKeeps ==
  ASSUME BackupsInv, [Next]_vars
  PROVE  BackupsInv'
<1>1. schedule \in Schedules /\ now \in 0..MaxNow
  BY DEF BackupsInv, JobsInv
<1>2. CASE Tick
  <2>1. now' \in 0..MaxNow
    BY <1>1, <1>2, MaxNowAssumption DEF Tick
  <2> QED BY <1>1, <1>2, <2>1, RestKeeps DEF Tick
<1>3. CASE StopSchedule
  <2>1. schedule' \in Schedules
    BY <1>3, MaxNowAssumption DEF StopSchedule, NoSchedule, Schedules
  <2> QED BY <1>1, <1>3, <2>1, RestKeeps DEF StopSchedule
<1>4. CASE UNCHANGED vars
  BY <1>1, <1>4, RestKeeps DEF vars
<1>5. CASE RunIfDue
  <2>1. TRUE \in BOOLEAN
    OBVIOUS
  <2> QED BY <1>5, <2>1, BeginningKeeps
<1> QED BY <1>2, <1>3, <1>4, <1>5, LibraryMovesKeeps, AppGoesKeeps, BeginningKeeps, WritingKeeps, AskingKeeps, FirstRunKeeps,
           RestoringKeeps DEF Next

-----------------------------------------------------------------------------
(* What the invariant says. *)
LEMMA TypesHold ==
  ASSUME BackupsInv
  PROVE  TypeOK
<1>1. LibraryTypeOK
  BY DEF BackupsInv, UploadInv, DocumentsInv, DocumentTypes, LibraryTypeOK
<1> QED BY <1>1 DEF BackupsInv, DocumentsInv, DocumentTypes, FolderInv, JobsInv, Calls, TypeOK

LEMMA FolderHolds ==
  ASSUME BackupsInv
  PROVE  FolderMatchesRows
<1>1. DocumentsInv /\ holding \in Calls
  BY DEF BackupsInv, DocumentsInv, DocumentTypes
<1>2. holding.op \in {"free", "add", "delete", "restore"} /\ (holding.op = "free" <=> holding = Free)
  BY <1>1, CallIs
<1>3. OnlyRowsHaveFiles
  <2>1. SUFFICES ASSUME unlocked, ~untidy, ~slips, ~Restoring PROVE (Strays \cup temp \cup (part \ DOMAIN rows)) \ Attended = {}
    BY DEF OnlyRowsHaveFiles, Restoring
  <2>2. \A e \in Strays \cup temp \cup (part \ DOMAIN rows) : holding.op # "free" /\ e = holding.doc
    BY <1>1, <2>1 DEF DocumentsInv, Clean, Adding
  <2> QED BY <1>2, <2>1, <2>2 DEF Attended, Restoring
<1> QED BY <1>1, <1>3 DEF DocumentsInv, FolderMatchesRows

LEMMA BackupHolds ==
  ASSUME BackupsInv
  PROVE  BackupIsTrue
BY DEF BackupsInv, FolderInv, BackupIsTrue

\* While a restore holds the state nothing else changes a row.
LEMMA OnlyRestoreMovesRows ==
  ASSUME BackupsInv, Next, Restoring, rows' # rows
  PROVE  RowsGo
<1>1. holding # Free /\ holding.op # "add"
  BY FreeIs DEF Restoring
<1>2. ASSUME UNCHANGED documentVars PROVE FALSE
  BY <1>2 DEF documentVars
<1>3. ASSUME UNCHANGED onDisk PROVE FALSE
  BY <1>3 DEF onDisk
<1>4. ~LibraryNext
  BY <1>1, <1>3
    DEF LibraryNext, PutStarts, PutRenames, PutFails, AddCommits, AddFails, DeleteFile, Check, AddDropped, Lock, AfterLock,
        Unlock, DeleteRow, OpenCopy, FileLost, Link, Unlink, UploadBegins, Push, UploadFinishes, UploadAsked, Drop, CanHold, Adding
<1>5. ~AppEnds
  BY DEF AppEnds
<1>6. ~Tick /\ ~StopSchedule /\ ~RunIfDue /\ \A u \in BOOLEAN : ~CreateBackup(u) /\ ~StartSchedule(u)
  BY <1>2 DEF Tick, StopSchedule, RunIfDue, CreateBackup, StartSchedule
<1>7. \A w \in Writers : ~WriteFile(w) /\ ~StoppedByLock(w) /\ ~WriteFails(w) /\ ~Rename(w) /\ ~Prune(w) /\ ~Note(w)
  BY <1>2, <1>3 DEF WriteFile, StoppedByLock, WriteFails, Rename, Prune, Note
<1>8. \A n \in Names : ~Restore(n) /\ ~BackupDamaged(n)
  BY <1>3 DEF Restore, BackupDamaged
<1>9. ~(\E b \in Foreign : CreateFromBackup(b)) /\ ~FileArrives /\ ~FileFinishes /\ ~RestoreRefuses /\ ~RestoreFails
  BY DEF CreateFromBackup, FileArrives, FileFinishes, RestoreRefuses, RestoreFails, Refuses
<1> QED BY <1>4, <1>5, <1>6, <1>7, <1>8, <1>9 DEF Next, LibraryMoves, AppGoes

LEMMA RestoreStep ==
  ASSUME BackupsInv, [Next]_vars, holding.op = "restore", rows' # rows
  PROVE  rows' = holding.from.rows /\ holding.from.bad = Fine /\ \A d \in holding.from.files : files'[d] = Whole
<1>1. Next
  BY DEF vars, documentVars
<1>2. RowsGo
  BY <1>1, OnlyRestoreMovesRows DEF Restoring
<1>3. /\ rows' = holding.from.rows /\ holding.from.bad = Fine /\ holding.left = {} /\ files' = files
  BY <1>2 DEF RowsGo, RowsReplaced
<1>4. \A d \in holding.from.files \ holding.left : files[d] = Whole
  BY DEF BackupsInv, DocumentsInv, CallOK, Restoring
<1> QED BY <1>3, <1>4

\* Whatever is added, deleted, locked, backed up or restored, wherever it stops: the types of
\* everything documents and backups keep, and the invariant the results below follow from.
THEOREM BackupsInvariant == Spec => [](TypeOK /\ BackupsInv)
<1>1. Init => BackupsInv
  BY InitKeeps
<1>2. BackupsInv /\ [Next]_vars => BackupsInv'
  BY NextKeeps
<1>3. BackupsInv => TypeOK /\ BackupsInv
  BY TypesHold
<1> QED BY <1>1, <1>2, <1>3, PTL DEF Spec

\* A document has its file wherever a call stopped or the app ended, nothing else stays in the
\* folder after its check, no copy in the clear outlives the lock, and what is stored is what
\* one page sent (library.rs: add, delete; store.rs: check; upload.rs).
THEOREM FolderMatchesRowsTheorem == Spec => []FolderMatchesRows
<1>1. BackupsInv => FolderMatchesRows
  BY FolderHolds
<1> QED BY <1>1, BackupsInvariant, PTL

\* A backup that got its name has the file of every document that was whole from the moment its
\* rows were read to its turn, whatever is deleted, lost or locked meanwhile (backup.rs: dump).
THEOREM BackupIsTrueTheorem == Spec => []BackupIsTrue
<1>1. BackupsInv => BackupIsTrue
  BY BackupHolds
<1> QED BY <1>1, BackupsInvariant, PTL

\* A restore changes the rows once, to those of a backup that was read to its end, with every
\* file of it in its place (vault.rs: replace_with).
THEOREM RestoreIsWholeTheorem == Spec => RestoreIsWhole
<1>1. BackupsInv /\ [Next]_vars =>
        [holding.op = "restore" /\ rows' # rows =>
           rows' = holding.from.rows /\ holding.from.bad = Fine /\ \A d \in holding.from.files : files'[d] = Whole]_vars
  BY RestoreStep
<1> QED BY <1>1, BackupsInvariant, PTL DEF Spec, RestoreIsWhole
===============================================================================
