------------------------- MODULE BlobDeletionWorker -------------------------
(***************************************************************************)
(* application/media.BlobDeletionWorker: claim a deletion task, remove the *)
(* object, then complete or retry the task.  There is one worker per       *)
(* running process; several processes share the queue.                     *)
(***************************************************************************)
EXTENDS BlobStore, MediaTables

CONSTANT Worker

VARIABLE worker \* worker[w]: where RunOnce is, and the task it claimed

WorkerState ==
    [pc : {"idle", "delete", "retry", "complete"}, id : MediaID \cup {None}]

Idle == [pc |-> "idle", id |-> None]

WorkersTypeOK == worker \in [Worker -> WorkerState]

WorkersInit == worker = [w \in Worker |-> Idle]

\* queue.Claim.  A claim that fails leaves the worker idle.
ClaimTask(w, id, out) ==
    /\ worker[w].pc = "idle"
    /\ Claim(id, out)
    /\ worker' = IF out = "ok"
                 THEN [worker EXCEPT ![w] = [pc |-> "delete", id |-> id]]
                 ELSE worker
    /\ UNCHANGED blobs

\* Slip: the error of blobs.Delete is ignored.
DeleteBlobUnchecked(w, out) ==
    /\ worker[w].pc = "delete"
    /\ DeleteObject(worker[w].id, out)
    /\ worker' = [worker EXCEPT ![w].pc = "complete"]
    /\ UNCHANGED tableVars

\* blobs.Delete of the claimed id: its outcome picks Complete or Retry.
DeleteBlob(w, out) ==
    /\ worker[w].pc = "delete"
    /\ DeleteObject(worker[w].id, out)
    /\ worker' = [worker EXCEPT ![w].pc = IF out = "ok" THEN "complete" ELSE "retry"]
    /\ UNCHANGED tableVars

\* queue.Complete; if it fails the task stays "processing" until its lease ends.
CompleteTask(w, out) ==
    /\ worker[w].pc = "complete"
    /\ Complete(worker[w].id, out)
    /\ worker' = [worker EXCEPT ![w] = Idle]
    /\ UNCHANGED blobs

\* queue.Retry after a failed delete.
RetryTask(w, out) ==
    /\ worker[w].pc = "retry"
    /\ Retry(worker[w].id, out)
    /\ worker' = [worker EXCEPT ![w] = Idle]
    /\ UNCHANGED blobs

\* The process dies while it holds a task; its successor starts idle.
CrashWorker(w) ==
    /\ worker[w].pc # "idle"
    /\ worker' = [worker EXCEPT ![w] = Idle]
    /\ UNCHANGED <<tableVars, blobs>>

WorkerStep(w) ==
    \/ \E out \in {"ok", "failed"} :
           \/ \E id \in MediaID : ClaimTask(w, id, out)
           \/ DeleteBlob(w, out)
           \/ CompleteTask(w, out)
           \/ RetryTask(w, out)
    \/ CrashWorker(w)

=============================================================================
