------------------------------ MODULE TaskFiles ------------------------------
(***************************************************************************)
(* What is attached to one task (backend/src/routes/tasks.ts): attachments *)
(* that are links, attachments that are uploaded files, artifacts and      *)
(* comments, and the deletion of the task.                                 *)
(*                                                                         *)
(* Rows are in the database and files on the disk of the server.  No       *)
(* transaction covers the two, nor a check of a cap and the row it admits: *)
(* other requests run, and the process may die, between any two steps.     *)
(* Every operation on the disk and in the database may fail, and the       *)
(* answer of the database to a write may be lost.                          *)
(***************************************************************************)
EXTENDS Naturals, FiniteSets

CONSTANTS
    Items,     \* ids of rows; an upload has a file of the same name
    Requests,  \* slots for requests that run at the same time
    None,      \* no row
    MaxSize,   \* the largest upload or artifact, in bytes
    CountCap,  \* rows a task may have, of attachments and of artifacts each
    BytesCap   \* bytes a task may have, likewise

VARIABLES
    task,      \* "there", "reserved" (a merge is under way) or "deleted"
    rows,      \* per id: the row, or None
    files,     \* the files on disk
    req,       \* the running requests
    disturbed  \* history: "file" when one may have been left behind (a process
               \* died, the disk failed, the answer to a delete was lost, the
               \* task was deleted while a file was being recorded), "row" when
               \* the answer to the write of an upload's row was lost

vars == <<task, rows, files, req, disturbed>>

Kinds == {"link", "upload", "artifact", "comment"}
Sizes == 1 .. MaxSize
Row == [kind : Kinds, size : Sizes \cup {0}]
Idle == [pc |-> "idle", row |-> None, ids |-> {}]

\* What an instance has to satisfy.
DefinitionsAssumption ==
    /\ None \notin Row /\ CountCap \in Nat /\ BytesCap \in Nat /\ MaxSize \in Nat
    /\ IsFiniteSet(Items) /\ IsFiniteSet(Requests) /\ Requests # {}

TypeOK ==
    /\ task \in {"there", "reserved", "deleted"}
    /\ rows \in [Items -> Row \cup {None}]
    /\ files \subseteq Items
    /\ req \in [Requests -> [pc : {"idle", "count", "sum", "store", "create",
                                   "deleteRow", "deleteTask", "unlink"},
                             row : Row \cup {None}, ids : SUBSET Items]]
    /\ disturbed \subseteq {"file", "row"}

Init ==
    /\ task = "there" /\ files = {} /\ disturbed = {}
    /\ rows = [i \in Items |-> None]
    /\ req = [r \in Requests |-> Idle]

Rows(kinds) == {i \in Items : rows[i] # None /\ rows[i].kind \in kinds}
Attachments == {"link", "upload"}
Family(kind) == IF kind \in Attachments THEN Attachments ELSE {kind}

\* The sum of the sizes: each byte of each row counts.
Bytes(kinds) == Cardinality({b \in Rows(kinds) \X Sizes : b[2] <= rows[b[1]].size})

\* An id nobody has yet.
Fresh(i) == rows[i] = None /\ i \notin files /\ \A r \in Requests : i \notin req[r].ids

Go(r, pc) == req' = [req EXCEPT ![r].pc = pc]
Reply(r) == req' = [req EXCEPT ![r] = Idle]

-----------------------------------------------------------------------------
(* POST .../attachments, .../attachments/upload, .../artifacts,            *)
(* .../comments                                                            *)

\* A link and a comment have no size, an artifact may have none; a comment has
\* no cap.
Post(r, kind, size) ==
    /\ req[r] = Idle /\ task # "deleted"
    /\ kind \in {"link", "comment"} => size = 0
    /\ kind = "upload" => size # 0
    /\ req' = [req EXCEPT ![r] =
                 [Idle EXCEPT !.pc = IF kind = "comment" THEN "create" ELSE "count",
                              !.row = [kind |-> kind, size |-> size]]]
    /\ UNCHANGED <<task, rows, files, disturbed>>

\* Mutant of HasRoom: the cap itself is taken for room.
HasRoomAtCap(kind) == Cardinality(Rows(Family(kind))) <= CountCap

HasRoom(kind) == Cardinality(Rows(Family(kind))) < CountCap

Count(r) ==
    /\ req[r].pc = "count"
    /\ IF ~HasRoom(req[r].row.kind) THEN Reply(r)              \* 429
       ELSE Go(r, IF req[r].row.kind = "link" THEN "create" ELSE "sum")
    /\ UNCHANGED <<task, rows, files, disturbed>>

Fits(row) == Bytes(Family(row.kind)) + row.size <= BytesCap

Sum(r) ==
    /\ req[r].pc = "sum"
    /\ IF ~Fits(req[r].row) THEN Reply(r)                      \* 413
       ELSE Go(r, IF req[r].row.kind = "upload" THEN "store" ELSE "create")
    /\ UNCHANGED <<task, rows, files, disturbed>>

\* The file is written before the row that names it.  A write that fails, perhaps
\* halfway, ends the request: nobody takes back what it has left.
Store(r) ==
    /\ req[r].pc = "store"
    /\ \E i \in Items :
          /\ Fresh(i)
          /\ \/ /\ files' = files \cup {i} /\ UNCHANGED disturbed
                /\ req' = [req EXCEPT ![r].pc = "create", ![r].ids = {i}]
             \/ UNCHANGED <<files, disturbed>> /\ Reply(r)
             \/ files' = files \cup {i} /\ Reply(r) /\ disturbed' = disturbed \cup {"file"}
    /\ UNCHANGED <<task, rows>>

\* The row was not written, or so it looks: an upload takes its file back.
Abandon(r) == IF req[r].ids = {} THEN Reply(r) ELSE Go(r, "unlink")

\* A file whose row comes after somebody has listed the files of the task.
Unlisted(r) == IF req[r].ids # {} /\ \E q \in Requests : req[q].pc = "deleteTask"
               THEN {"file"} ELSE {}

\* The database may refuse the row - it does when the task has gone, by the
\* foreign key - or write it and lose its answer on the way.
Create(r) ==
    /\ req[r].pc = "create"
    /\ \/ Abandon(r) /\ UNCHANGED <<rows, disturbed>>
       \/ /\ task # "deleted"
          /\ \E i \in Items : /\ IF req[r].ids = {} THEN Fresh(i) ELSE i \in req[r].ids
                              /\ rows' = [rows EXCEPT ![i] = req[r].row]
          /\ \/ Reply(r) /\ disturbed' = disturbed \cup Unlisted(r)
             \/ /\ req[r].ids # {} /\ Abandon(r)
                /\ disturbed' = disturbed \cup Unlisted(r) \cup {"row"}
    /\ UNCHANGED <<task, files>>

-----------------------------------------------------------------------------
(* DELETE of an attachment, an artifact, a comment, the task               *)

\* The row is read before it is deleted: somebody else may have deleted it.
Delete(r, i) ==
    /\ req[r] = Idle /\ rows[i] # None
    /\ req' = [req EXCEPT ![r] = [Idle EXCEPT !.pc = "deleteRow", !.ids = {i}]]
    /\ UNCHANGED <<task, rows, files, disturbed>>

\* Mutant of DeleteRow: the file goes before the row.
DeleteRowFileFirst(r) ==
    \E i \in req[r].ids :
       /\ req[r].pc = "deleteRow"
       /\ IF i \in files THEN files' = files \ {i} /\ UNCHANGED <<rows, req>>
          ELSE rows' = [rows EXCEPT ![i] = None] /\ Reply(r) /\ UNCHANGED files
       /\ UNCHANGED <<task, disturbed>>

\* The rows have gone and `some` of them named files: the request goes on to the
\* files, unless the answer of the database is lost.
RowsGone(r, some) ==
    \/ (IF some THEN Go(r, "unlink") ELSE Reply(r)) /\ UNCHANGED disturbed
    \/ some /\ Reply(r) /\ disturbed' = disturbed \cup {"file"}

\* Refused when the row has gone, or by the database.
DeleteRow(r) ==
    \E i \in req[r].ids :
       /\ req[r].pc = "deleteRow"
       /\ \/ Reply(r) /\ UNCHANGED <<rows, disturbed>>
          \/ /\ rows[i] # None /\ rows' = [rows EXCEPT ![i] = None]
             /\ RowsGone(r, rows[i].kind = "upload")
       /\ UNCHANGED <<task, files>>

\* The files of the task are listed first: its rows go with it.
DeleteTaskRead(r) ==
    /\ req[r] = Idle /\ task # "deleted"
    /\ req' = [req EXCEPT ![r] = [Idle EXCEPT !.pc = "deleteTask",
                                              !.ids = Rows({"upload"})]]
    /\ UNCHANGED <<task, rows, files, disturbed>>

\* Refused while a merge holds the task, when it has gone, or by the database.
DeleteTask(r) ==
    /\ req[r].pc = "deleteTask"
    /\ \/ Reply(r) /\ UNCHANGED <<task, rows, disturbed>>
       \/ /\ task = "there" /\ task' = "deleted"
          /\ rows' = [i \in Items |-> None]
          /\ RowsGone(r, req[r].ids # {})
    /\ UNCHANGED files

\* One file after the other.  A file that has gone is no error, nor is one that
\* cannot be removed: it stays.
Unlink(r) ==
    /\ req[r].pc = "unlink"
    /\ \E i \in req[r].ids :
          /\ \/ files' = files \ {i} /\ UNCHANGED disturbed
             \/ i \in files /\ UNCHANGED files /\ disturbed' = disturbed \cup {"file"}
          /\ IF req[r].ids = {i} THEN Reply(r)
             ELSE req' = [req EXCEPT ![r].ids = @ \ {i}]
    /\ UNCHANGED <<task, rows>>

\* A merge takes its reservation and gives it back.
Merge ==
    /\ task' \in {"there", "reserved"} /\ task \in {"there", "reserved"} \ {task'}
    /\ UNCHANGED <<rows, files, req, disturbed>>

\* The process dies with everything it was doing.
Crash ==
    /\ \E r \in Requests : req[r] # Idle
    /\ req' = [r \in Requests |-> Idle]
    /\ disturbed' = disturbed \cup {"file"}
    /\ UNCHANGED <<task, rows, files>>

Next ==
    \/ \E r \in Requests :
          \/ \E kind \in Kinds, size \in Sizes \cup {0} : Post(r, kind, size)
          \/ Count(r) \/ Sum(r) \/ Store(r) \/ Create(r)
          \/ \E i \in Items : Delete(r, i)
          \/ DeleteRow(r) \/ DeleteTaskRead(r) \/ DeleteTask(r) \/ Unlink(r)
    \/ Merge \/ Crash

Spec == Init /\ [][Next]_vars

-----------------------------------------------------------------------------
(* Properties                                                              *)

\* The caps are checked before the row is written and by no lock, so they are
\* passed, but never by more than the requests that run at once: one row, and
\* one row's bytes, for each of them but the first.
CountHolds(family) ==
    Cardinality(Rows(family)) <= CountCap + Cardinality(Requests) - 1
BytesHold(family) ==
    Bytes(family) <= BytesCap + (Cardinality(Requests) - 1) * MaxSize
CapsHold ==
    \A family \in {Attachments, {"artifact"}} : CountHolds(family) /\ BytesHold(family)

\* A row of an uploaded file names a file that is there, whoever deletes what at
\* the same time, whatever fails and wherever the process dies - only the loss of
\* the answer to the write of that row, which takes the file back, breaks it.  And
\* as long as no process died, the disk did not fail, no answer to a delete was
\* lost and no task was deleted over an upload, no file stays on disk that neither
\* a row names nor a running request will remove.
FilesMatchRows ==
    /\ "row" \notin disturbed => Rows({"upload"}) \subseteq files
    /\ "file" \notin disturbed =>
          files \subseteq Rows({"upload"}) \cup UNION {req[r].ids : r \in Requests}
=============================================================================
