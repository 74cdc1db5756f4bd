------------------------------ MODULE Library ------------------------------
(***************************************************************************)
(* The documents of one device: their rows in the database, the folder of  *)
(* sealed files (documents/store.rs), and the three ways a file is in the  *)
(* clear for a while: an upload that is gathered in memory (upload.rs),    *)
(* files dropped on the window (dropped.rs) and copies for the system's    *)
(* viewer (opened.rs).                                                     *)
(*                                                                         *)
(* The state of the vault is held by one thread for the whole of a call    *)
(* (vault.rs: with_files), so only the end of the app comes between two    *)
(* steps of one call; between two calls anything may. A document is a      *)
(* number that is used once, and its contents never change.                *)
(***************************************************************************)
EXTENDS Naturals, Sequences, FiniteSets, FiniteSetsExt, Functions

CONSTANTS
  LastDoc,    \* bound: documents are 1..LastDoc
  Contents,   \* the files there are; a file of n pieces is the number n
  Targets,    \* transactions, recurring items and entries of friends that a document is attached to
  Scopes,     \* bound: which parts move together
  MaxFaults   \* bound: how often a step fails, a file is lost, or the app ends

ASSUME LastDocAssumption == LastDoc \in Nat \ {0}
ASSUME ContentsAssumption == Contents \subseteq Nat \ {0} /\ Contents # {}
ASSUME MaxFaultsAssumption == MaxFaults \in Nat

VARIABLES
  scope,     \* which parts move in this behaviour
  born,      \* born[d]: what the file of document d holds, for every d there ever was
  rows,      \* rows[d]: what document d is attached to, for every d with a row
  files,     \* files[d]: the .mnd file of d
  temp,      \* documents with a .tmp file
  part,      \* documents with a .part file
  unlocked,  \* State::conn and State::docs are there
  holding,   \* the call that holds the state
  untidy,    \* the check of the folder that follows an unlock or a restore is still to come
  clearing,  \* `after_lock` is still to come
  upload,    \* the one slot for a file on its way in
  sender,    \* sender[p]: how far page p is with the file it sends
  dropped,   \* what was dropped on the window and not added yet
  copies,    \* documents with a plain copy in open/
  lost,      \* documents whose file the disk lost, or that came without one
  slips,     \* a file that should have gone could not be removed since the last check
  faults

documentVars ==
  <<scope, born, rows, files, temp, part, unlocked, holding, untidy, clearing, upload, sender, dropped, copies, lost, slips, faults>>
onDisk == <<born, rows, files, temp, part, lost, slips>>
inMemory == <<upload, sender, dropped, copies>>
lockState == <<unlocked, untidy, clearing>>

Docs == 1..LastDoc
Pages == {1, 2}
None == "none"
Whole == "whole"
Damaged == "damaged"

NoUpload == [file |-> 0, data |-> <<>>]
NoSender == [file |-> 0, sent |-> 0, checked |-> FALSE]
Free == [op |-> "free"]
Put(f, d, x) == [e \in DOMAIN f \cup {d} |-> IF e = d THEN x ELSE f[e]]
Without(f, D) == Restrict(f, DOMAIN f \ D)

InitLibrary ==
  /\ scope \in Scopes
  /\ born = << >> /\ rows = << >>
  /\ files = [d \in Docs |-> None] /\ temp = {} /\ part = {}
  /\ unlocked \in BOOLEAN /\ untidy = FALSE /\ clearing = FALSE
  /\ holding = Free
  /\ upload = NoUpload /\ sender = [p \in Pages |-> NoSender]
  /\ dropped = {} /\ copies = {} /\ lost = {} /\ slips = FALSE /\ faults = 0

\* A step fails: of the disk, mostly.
Fault == "break" \in scope /\ faults < MaxFaults /\ faults' = faults + 1
NoFault == UNCHANGED faults

\* `with_files` and `with_conn` get the state.
CanHold == unlocked /\ holding = Free

-----------------------------------------------------------------------------
(***************************************************************************)
(* Adding (library.rs: add). The file is there before the row is.          *)
(***************************************************************************)
Same(c) == {d \in DOMAIN rows : born[d] = c}
Fresh == Docs \ DOMAIN born

\* The same bytes are in the library already, and only the links are added (and the
\* file put back if this device has none), or a row is prepared in a transaction.
Adds(c, links, who) ==
  /\ CanHold
  /\ IF Same(c) # {}
     THEN LET d == Min(Same(c)) IN
          /\ holding' = [op |-> "add", doc |-> d, links |-> rows[d] \cup links, new |-> FALSE, page |-> who,
                         at |-> IF files[d] = None THEN "write" ELSE "commit"]
          /\ UNCHANGED born
     ELSE /\ Fresh # {}
          /\ born' = Put(born, Min(Fresh), c)
          /\ holding' = [op |-> "add", doc |-> Min(Fresh), links |-> links, new |-> TRUE, page |-> who, at |-> "write"]

Adding(at) == holding.op = "add" /\ holding.at = at

\* Store::put: sealed into a temporary file, flushed, and given its name.
PutStarts ==
  /\ Adding("write")
  /\ temp' = temp \cup {holding.doc}
  /\ holding' = [holding EXCEPT !.at = "rename"]
  /\ UNCHANGED <<scope, born, rows, files, part, lockState, inMemory, lost, slips, faults>>

PutRenames ==
  /\ Adding("rename")
  /\ temp' = temp \ {holding.doc}
  /\ files' = [files EXCEPT ![holding.doc] = Whole]
  /\ lost' = lost \ {holding.doc}
  /\ holding' = [holding EXCEPT !.at = "commit"]
  /\ UNCHANGED <<scope, born, rows, part, lockState, inMemory, slips, faults>>

PutFails ==
  /\ Adding("rename") /\ Fault
  /\ temp' = temp \ {holding.doc}
  /\ holding' = Free
  /\ UNCHANGED <<scope, born, rows, files, part, lockState, inMemory, lost, slips>>

AddCommits ==
  /\ Adding("commit")
  /\ rows' = Put(rows, holding.doc, holding.links)
  /\ holding' = Free
  /\ UNCHANGED <<scope, born, files, temp, part, lockState, inMemory, lost, slips, faults>>

\* Store::remove: the file, a half-written one and an unfinished one.
Removed(d) ==
  \/ /\ files' = [files EXCEPT ![d] = None] /\ temp' = temp \ {d} /\ part' = part \ {d}
     /\ NoFault /\ UNCHANGED slips
  \/ /\ files[d] # None /\ Fault
     /\ temp' = temp \ {d} /\ part' = part \ {d} /\ UNCHANGED files
     /\ slips' = TRUE

AddFails ==
  /\ Adding("commit")
  /\ "break" \in scope /\ faults < MaxFaults
  /\ IF holding.new
     THEN \E stays \in BOOLEAN :
            /\ files' = [files EXCEPT ![holding.doc] = IF stays THEN @ ELSE None]
            /\ slips' = (slips \/ stays)
     ELSE UNCHANGED <<files, slips>>
  /\ faults' = faults + 1
  /\ holding' = Free
  /\ UNCHANGED <<scope, born, rows, temp, part, lockState, inMemory, lost>>

-----------------------------------------------------------------------------
(***************************************************************************)
(* Deleting, attaching, reading.                                           *)
(***************************************************************************)

\* Mutant of DeleteRow: the file goes first.
DeleteFileFirst(d) ==
  /\ "delete" \in scope /\ CanHold /\ d \in DOMAIN rows
  /\ files' = [files EXCEPT ![d] = None]
  /\ holding' = [op |-> "delete", doc |-> d]
  /\ UNCHANGED <<scope, born, rows, temp, part, lockState, inMemory, lost, slips, faults>>

\* The row goes first, with the links; then the file.
DeleteRow(d) ==
  /\ "delete" \in scope /\ CanHold /\ d \in DOMAIN rows
  /\ rows' = Without(rows, {d})
  /\ holding' = [op |-> "delete", doc |-> d]
  /\ UNCHANGED <<scope, born, files, temp, part, lockState, inMemory, lost, slips, faults>>

DeleteFile ==
  /\ holding.op = "delete"
  /\ Removed(holding.doc)
  /\ holding' = Free
  /\ UNCHANGED <<scope, born, rows, lockState, inMemory, lost>>

\* Attaching what is attached changes nothing; detaching what is not is refused.
Link(d, t) ==
  /\ "link" \in scope /\ CanHold /\ d \in DOMAIN rows
  /\ rows' = [rows EXCEPT ![d] = @ \cup {t}]
  /\ UNCHANGED <<scope, born, files, temp, part, lockState, holding, inMemory, lost, slips, faults>>

Unlink(d, t) ==
  /\ "link" \in scope /\ CanHold /\ d \in DOMAIN rows /\ t \in rows[d]
  /\ rows' = [rows EXCEPT ![d] = @ \ {t}]
  /\ UNCHANGED <<scope, born, files, temp, part, lockState, holding, inMemory, lost, slips, faults>>

\* Store::get hands over bytes only of a file that is what its row says.
Readable(d) == d \in DOMAIN rows /\ files[d] = Whole

\* A copy for the system's viewer, made while the state is held.
OpenCopy(d) ==
  /\ "open" \in scope /\ CanHold /\ Readable(d)
  /\ copies' = copies \cup {d}
  /\ UNCHANGED <<scope, onDisk, lockState, holding, upload, sender, dropped, faults>>

-----------------------------------------------------------------------------
(***************************************************************************)
(* The check of the folder (Store::check): what no row names goes, and     *)
(* every temporary file. The remains of a transfer stay for a row.         *)
(***************************************************************************)
Strays == {d \in Docs : files[d] # None} \ DOMAIN rows

\* Mutant of Check: a file without a row that is not finished is left alone.
CheckFinished ==
  /\ CanHold
  /\ files' = [d \in Docs |-> IF d \in Strays THEN None ELSE files[d]] /\ slips' = FALSE /\ NoFault
  /\ untidy' = FALSE
  /\ UNCHANGED <<scope, born, rows, unlocked, clearing, temp, part, holding, inMemory, lost>>

Check ==
  /\ CanHold /\ (untidy \/ Strays \cup temp \cup (part \ DOMAIN rows) # {})
  /\ \/ files' = [d \in Docs |-> IF d \in Strays THEN None ELSE files[d]] /\ slips' = FALSE /\ NoFault
     \/ Strays # {} /\ Fault /\ UNCHANGED files /\ slips' = TRUE
  /\ temp' = {}
  /\ part' = part \cap DOMAIN rows
  /\ untidy' = FALSE
  /\ UNCHANGED <<scope, born, rows, unlocked, clearing, holding, inMemory, lost>>

\* The disk loses a file, or damages it.
FileLost(d) ==
  /\ "loss" \in scope /\ d \in DOMAIN rows /\ files[d] = Whole /\ holding = Free /\ Fault
  /\ \E f \in {None, Damaged} : files' = [files EXCEPT ![d] = f]
  /\ lost' = lost \cup {d}
  /\ UNCHANGED <<scope, born, rows, temp, part, lockState, holding, inMemory, slips>>

-----------------------------------------------------------------------------
(***************************************************************************)
(* An upload: the page reads a file and sends it in pieces; there is one   *)
(* slot. Two pages stand for two uploads that overlap: a person who leaves *)
(* the screen while a file is being sent, and adds another.                *)
(***************************************************************************)

\* `document_upload_begin` looks whether the app is unlocked, and then takes the slot.
UploadAsked(p, c) ==
  /\ "upload" \in scope /\ unlocked /\ sender[p] = NoSender
  /\ sender' = [sender EXCEPT ![p] = [file |-> c, sent |-> 0, checked |-> TRUE]]
  /\ UNCHANGED <<scope, onDisk, lockState, holding, upload, dropped, copies, faults>>

UploadBegins(p) ==
  /\ sender[p].checked
  /\ upload' = [file |-> sender[p].file, data |-> <<>>]
  /\ sender' = [sender EXCEPT ![p].checked = FALSE]
  /\ UNCHANGED <<scope, onDisk, lockState, holding, dropped, copies, faults>>

\* A piece that does not start where the last one ended, or goes past the end, ends the
\* upload; the page that is told so cancels, which clears the slot again.
Fits(p) == sender[p].sent = Len(upload.data) /\ sender[p].sent < upload.file

Push(p) ==
  /\ sender[p].file # 0 /\ ~sender[p].checked /\ sender[p].sent < sender[p].file
  /\ IF upload # NoUpload /\ Fits(p)
     THEN /\ upload' = [upload EXCEPT !.data = Append(@, sender[p].file)]
          /\ sender' = [sender EXCEPT ![p].sent = @ + 1]
     ELSE upload' = NoUpload /\ sender' = [sender EXCEPT ![p] = NoSender]
  /\ UNCHANGED <<scope, onDisk, lockState, holding, dropped, copies, faults>>

\* `finish` takes the upload out of the slot, whole or not; a whole one is added.
UploadFinishes(p) ==
  /\ sender[p].file # 0 /\ sender[p].sent = sender[p].file
  /\ upload' = NoUpload
  /\ sender' = [sender EXCEPT ![p] = NoSender]
  /\ IF upload # NoUpload /\ Len(upload.data) = upload.file /\ unlocked
     THEN \E links \in SUBSET Targets : Adds(upload.file, links, upload.data)
     ELSE UNCHANGED <<born, holding>>
  /\ UNCHANGED <<scope, rows, files, temp, part, lockState, dropped, copies, lost, slips, faults>>

-----------------------------------------------------------------------------
(***************************************************************************)
(* Files dropped on the window. What was dropped replaces what was dropped *)
(* before, is handed over once, and one that cannot be added does not stop *)
(* the others.                                                             *)
(***************************************************************************)
Drop(C) ==
  /\ "drop" \in scope /\ unlocked
  /\ dropped' = C
  /\ UNCHANGED <<scope, onDisk, lockState, holding, upload, sender, copies, faults>>

AddDropped ==
  /\ dropped # {}
  /\ dropped' = dropped \ {Min(dropped)}
  /\ Adds(Min(dropped), {}, <<>>)
  /\ UNCHANGED <<scope, rows, files, temp, part, lockState, upload, sender, copies, lost, slips, faults>>

-----------------------------------------------------------------------------
(***************************************************************************)
(* Locking and ending.                                                     *)
(***************************************************************************)
Lock ==
  /\ "lock" \in scope /\ CanHold
  /\ unlocked' = FALSE /\ clearing' = TRUE
  /\ UNCHANGED <<scope, onDisk, untidy, holding, inMemory, faults>>

AfterLock ==
  /\ clearing
  /\ clearing' = FALSE
  /\ upload' = NoUpload /\ dropped' = {} /\ copies' = {}
  /\ UNCHANGED <<scope, onDisk, unlocked, untidy, holding, sender, faults>>

Unlock ==
  /\ ~unlocked
  /\ unlocked' = TRUE /\ untidy' = TRUE
  /\ UNCHANGED <<scope, onDisk, clearing, holding, inMemory, faults>>

\* The app ends, with whatever it was doing; when it starts again it is locked, and
\* the copies are cleared at the start.
AppEnds ==
  /\ Fault
  /\ unlocked' = FALSE /\ untidy' = FALSE /\ clearing' = FALSE
  /\ holding' = Free
  /\ upload' = NoUpload /\ sender' = [p \in Pages |-> NoSender] /\ dropped' = {} /\ copies' = {}
  /\ UNCHANGED <<scope, born, rows, files, temp, part, lost, slips>>

LibraryNext ==
  \/ PutStarts \/ PutRenames \/ PutFails \/ AddCommits \/ AddFails
  \/ DeleteFile \/ Check \/ AddDropped \/ Lock \/ AfterLock \/ Unlock
  \/ \E d \in Docs : DeleteRow(d) \/ OpenCopy(d) \/ FileLost(d)
  \/ \E d \in Docs, t \in Targets : Link(d, t) \/ Unlink(d, t)
  \/ \E p \in Pages : UploadBegins(p) \/ Push(p) \/ UploadFinishes(p)
  \/ \E p \in Pages, c \in Contents : UploadAsked(p, c)
  \/ \E C \in SUBSET Contents : C # {} /\ Drop(C)

-----------------------------------------------------------------------------
States == {None, Whole, Damaged}
Tables == UNION {[D -> SUBSET Targets] : D \in SUBSET Docs}
AddCalls ==
  [op : {"add"}, doc : Docs, links : SUBSET Targets, new : BOOLEAN, page : Seq(Contents), at : {"write", "rename", "commit"}]
DeleteCalls == [op : {"delete"}, doc : Docs]
Uploads == [file : Contents \cup {0}, data : Seq(Contents)]
Senders == [file : Contents \cup {0}, sent : Nat, checked : BOOLEAN]

LibraryTypeOK ==
  /\ scope \in Scopes
  /\ rows \in Tables /\ DOMAIN rows \subseteq DOMAIN born /\ DOMAIN born \subseteq Docs
  /\ \A d \in DOMAIN born : born[d] \in Contents
  /\ files \in [Docs -> States]
  /\ temp \subseteq Docs /\ part \subseteq Docs /\ copies \subseteq Docs /\ lost \subseteq Docs
  /\ dropped \subseteq Contents
  /\ unlocked \in BOOLEAN /\ untidy \in BOOLEAN /\ clearing \in BOOLEAN /\ slips \in BOOLEAN
  /\ upload \in Uploads /\ sender \in [Pages -> Senders]

\* A document has its file wherever a call stopped or the app ended: the file is
\* there before the row and goes after it (library.rs:335, :371). Only the disk, or a
\* backup that has none, makes a row without one.
FileBehindRow == \A d \in DOMAIN rows \ lost : files[d] = Whole

\* After the check that follows an unlock or a restore nothing is in the folder that
\* no row names and no call is at, but for what could not be removed.
Attended == IF holding = Free \/ holding.op = "restore" THEN {} ELSE {holding.doc}
OnlyRowsHaveFiles ==
  unlocked /\ ~untidy /\ ~slips /\ holding.op # "restore" =>
    (Strays \cup temp \cup (part \ DOMAIN rows)) \ Attended = {}

\* A locked app has no copy of a document in the clear once the lock is through
\* (vault.rs:579: the copy is made while the state is held).
PlainGoesWithTheLock == ~unlocked /\ ~clearing => copies = {}

\* What is stored is what one page sent, however the pieces of two uploads of
\* different lengths fall (upload.rs:52).
OneSender ==
  holding.op = "add" => \A n \in DOMAIN holding.page : holding.page[n] = born[holding.doc]

\* The folder and the rows belong together, both ways, and nothing else is on the disk:
\* no copy in the clear of a locked app, no file of two pages mixed.
FolderMatchesRows == FileBehindRow /\ OnlyRowsHaveFiles /\ PlainGoesWithTheLock /\ OneSender
=============================================================================
