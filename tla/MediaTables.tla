---------------------------- MODULE MediaTables ----------------------------
(***************************************************************************)
(* The two PostgreSQL tables of the service, and the statements that       *)
(* postgres.MediaRepository and postgres.BlobDeletionRepository run on     *)
(* them.  Each statement is atomic.  Time is left out here: a pending task *)
(* may be due, and a lease may have expired, at any moment                 *)
(* (BlobDeletionQueue.tla has the clock).  A statement that fails          *)
(* may have committed before the error, as for the object store.           *)
(***************************************************************************)
EXTENDS MediaTypes

VARIABLES
    media,     \* media[id]: the row of id, or None
    tasks,     \* tasks[id]: status of id's deletion task, "none" without one
    unsure     \* history: ids with an INSERT that committed but was reported failed

tableVars == <<media, tasks, unsure>>

Statuses == {"none", "pending", "processing", "completed"}

TablesTypeOK ==
    /\ media \in [MediaID -> Row \cup {None}]
    /\ tasks \in [MediaID -> Statuses]
    /\ unsure \subseteq MediaID

TablesInit ==
    /\ media = [id \in MediaID |-> None]
    /\ tasks = [id \in MediaID |-> "none"]
    /\ unsure = {}

-----------------------------------------------------------------------------
(* The media table. *)

\* INSERT INTO media: the primary key refuses a second row for an id.
Insert(id, u, c, out) ==
    LET inserted == [media EXCEPT ![id] = [user |-> u, content |-> c]]
    IN  \/ /\ out = "ok"
           /\ media[id] = None
           /\ media' = inserted
           /\ UNCHANGED <<tasks, unsure>>
        \/ /\ out = "conflict"
           /\ media[id] # None
           /\ UNCHANGED tableVars
        \/ /\ out = "failed"
           /\ UNCHANGED tableVars
        \/ /\ out = "failed"
           /\ media[id] = None
           /\ media' = inserted
           /\ unsure' = unsure \cup {id}
           /\ UNCHANGED tasks

\* SELECT ... WHERE id = $1 AND user_id = $2 (deleted_at is never set).
OwnedBy(u) == {id \in MediaID : media[id] # None /\ media[id].user = u}

GetByID(u, id) == IF id \in OwnedBy(u) THEN media[id] ELSE None

\* Slip: the row goes without a deletion task.
DeleteRowsUntracked(ids) ==
    /\ media' = [id \in MediaID |-> IF id \in ids THEN None ELSE media[id]]
    /\ UNCHANGED <<tasks, unsure>>

\* DELETE ... RETURNING id, and in the same statement INSERT INTO
\* media_blob_deletion_tasks ... ON CONFLICT DO UPDATE SET status='pending'.
DeleteRows(ids) ==
    /\ media' = [id \in MediaID |-> IF id \in ids THEN None ELSE media[id]]
    /\ tasks' = [id \in MediaID |-> IF id \in ids THEN "pending" ELSE tasks[id]]
    /\ UNCHANGED unsure

\* Slip: the statement has no user_id condition.
MatchingAnyOwner(u, ids) == {id \in ids : media[id] # None}

\* The rows a delete statement matches: those of ids that belong to u.
Matching(u, ids) == ids \cap OwnedBy(u)

DeleteStatement(u, ids, out) ==
    \/ /\ out \in {"ok", "failed"}
       /\ DeleteRows(Matching(u, ids))
    \/ /\ out = "failed"
       /\ UNCHANGED tableVars

-----------------------------------------------------------------------------
(* The media_blob_deletion_tasks table. *)

\* Slip: expired leases are not claimed again.
ClaimableOnce(id) == tasks[id] = "pending"

Claimable(id) == tasks[id] \in {"pending", "processing"}

\* A statement that sets the status of one task, by media_id alone; without
\* such a row it changes nothing, and succeeds.
SetStatus(id, status, out) ==
    /\ \/ /\ out \in {"ok", "failed"}
          /\ tasks' = [tasks EXCEPT ![id] = IF @ = "none" THEN @ ELSE status]
       \/ /\ out = "failed"
          /\ UNCHANGED tasks
    /\ UNCHANGED <<media, unsure>>

Claim(id, out) == Claimable(id) /\ SetStatus(id, "processing", out)

Complete(id, out) == SetStatus(id, "completed", out)

\* Slip: a task whose delete failed is given up.
RetryGivesUp(id, out) == SetStatus(id, "failed", out)

Retry(id, out) == SetStatus(id, "pending", out)

=============================================================================
