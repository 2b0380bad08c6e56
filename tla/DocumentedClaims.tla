-------------------------- MODULE DocumentedClaims --------------------------
(***************************************************************************)
(* What comments and tests of the repository say of the service and the    *)
(* code does not keep: each is violated by a run of its own.               *)
(***************************************************************************)
EXTENDS MediaService

\* "a media row must never exist without its content actually being in the blob
\* store", of ids nobody ever deleted.  An INSERT that commits and reports a
\* failure (reply lost, request timed out) makes Create remove the object.
RowNeverWithoutContent ==
    \A id \in MediaID :
        media[id] # None /\ tasks[id] = "none" => blobs[id] # None

\* "The id is fully free again: a new upload can reuse it."  The deletion task
\* outlives the delete that has already removed the object, and the worker
\* takes the object of the new upload away.
ReusedIdKeepsContent ==
    \A id \in MediaID :
        media[id] # None /\ id \notin unsure => blobs[id] # None

\* "GetByID can't otherwise tell "doesn't exist" from "someone else's", so a miss
\* here means the latter": the lookup after a conflict also misses when the object
\* has no row at all, because the caller's first attempt is between Put and INSERT,
\* because it left an orphan, or because the S3 client met its own first attempt.
MissMeansSomeoneElses ==
    [][\A r \in Request :
           LET s == req[r]
           IN  s.pc = "lookup" /\ GetByID(s.user, s.id) = None
                   /\ req'[r].answer = "conflict"
               => media[s.id] # None]_vars

\* "Delete hard-deletes the media row and its stored content."  A worker that
\* claimed before the id was uploaded and deleted again completes the newer
\* task, and with it the last attempt to remove the newer object.
PendingTaskNotLost ==
    [][\A id \in MediaID :
           /\ tasks[id] = "pending" /\ tasks'[id] = "completed"
           /\ \A r \in Request : id \notin req[r].todo
           => blobs[id] = None]_vars

=============================================================================
