---------------------------- MODULE MediaService ----------------------------
(***************************************************************************)
(* The running service: concurrent requests of several users, and the blob *)
(* deletion workers of several processes, over one PostgreSQL database and *)
(* one S3 bucket, neither of which knows of the other.                     *)
(***************************************************************************)
EXTENDS MediaRepository, BlobDeletionWorker

vars == <<blobs, tableVars, req, reborn, worker>>

Init ==
    /\ BlobsInit
    /\ TablesInit
    /\ RequestsInit
    /\ WorkersInit

Next ==
    \/ \E r \in Request : RequestStep(r) /\ UNCHANGED worker
    \/ \E w \in Worker : WorkerStep(w) /\ UNCHANGED <<req, reborn>>

Spec == Init /\ [][Next]_vars

(***************************************************************************)
(* Run polls for as long as the process lives, a process that dies is      *)
(* started again, and Claim takes the task that has waited longest: a      *)
(* claimable task is claimed.  Outages of S3 and PostgreSQL end: a call    *)
(* that is made again and again succeeds in the end, and every call        *)
(* returns.  Nothing is assumed of requests.                               *)
(***************************************************************************)
WorkerFairness ==
    \A w \in Worker :
        /\ \A id \in MediaID :
               SF_vars(ClaimTask(w, id, "ok") /\ UNCHANGED <<req, reborn>>)
        /\ SF_vars(DeleteBlob(w, "ok") /\ UNCHANGED <<req, reborn>>)
        /\ SF_vars(CompleteTask(w, "ok") /\ UNCHANGED <<req, reborn>>)
        /\ WF_vars((\E out \in {"ok", "failed"} : RetryTask(w, out))
                       /\ UNCHANGED <<req, reborn>>)

LiveSpec == Spec /\ WorkerFairness

-----------------------------------------------------------------------------
(* What always holds. *)

TypeOK == BlobsTypeOK /\ TablesTypeOK /\ RequestsTypeOK /\ WorkersTypeOK

\* An id that was never deleted, and has no INSERT that failed after it
\* committed: what Create promises holds of these without exception.
Clean(id) == tasks[id] = "none" /\ id \notin unsure

\* A row of a clean id always has its object, and the object is the one the
\* row describes: Create stores the object first, and no concurrent upload,
\* cleanup, delete or worker takes it away.
RowHasContent ==
    \A id \in MediaID :
        media[id] # None /\ Clean(id) => blobs[id] = media[id].content

\* A completed deletion task means the object is gone, whatever failed, crashed
\* or ran twice on the way, unless an upload created it again since.
CompletedMeansGone ==
    \A id \in MediaID \ reborn : tasks[id] = "completed" => blobs[id] = None

\* A download that read its row and then its object returned the bytes that the
\* row describes, whatever came between the reads.  Two kinds of ids are excepted,
\* since the code does pair a row with another upload's bytes there: one whose
\* object was created again after a delete, and one with an INSERT that committed
\* and was reported as failed (Create removes that row's object, and the next
\* upload of the id stores its own under the row).
DownloadMatchesRow ==
    \A r \in Request :
        req[r].answer = "content" /\ req[r].id \notin reborn \cup unsure
            => req[r].body = req[r].content

\* A download never finds a row without an object (a 500) on a clean id: the id
\* has had a deletion task, or an INSERT that committed and was reported as failed,
\* by then.  If the id was clean when the row was read, one of the two came
\* between the reads.
MissingNeverOnClean ==
    \A r \in Request :
        req[r].answer = "missing" => ~ Clean(req[r].id)

-----------------------------------------------------------------------------
(* What the service implements. *)

Open(id) == tasks[id] \in {"pending", "processing"}

\* The catalogue is the media table, a task is open until it is completed, and
\* a worker that reached Complete removed the object.
Catalog == INSTANCE MediaCatalog WITH
    Task    <- MediaID,
    catalog <- media,
    open    <- {id \in MediaID : Open(id)},
    held    <- [w \in Worker |-> worker[w].id],
    removed <- {w \in Worker : worker[w].pc = "complete"}

\* Whatever fails, crashes, overlaps or runs twice: rows never change in place
\* and go only in deletes of one owner with an open task for each, and a task is
\* closed only by a worker that claimed it open and whose own delete succeeded.
ImplementsCatalog == Catalog!CatalogSpec

-----------------------------------------------------------------------------
(* What eventually happens. *)

\* Deleted content goes away in the end even if the request's own delete of the
\* object failed or never ran, unless the id is uploaded again.
DeletedContentGoes ==
    \A id \in MediaID : Open(id) ~> (blobs[id] = None \/ id \in reborn)

\* Every deletion task is completed in the end.
TasksComplete == \A id \in MediaID : Open(id) ~> tasks[id] = "completed"

=============================================================================
