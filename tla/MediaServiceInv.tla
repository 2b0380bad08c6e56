-------------------------- MODULE MediaServiceInv ---------------------------
(***************************************************************************)
(* The inductive invariant behind the safety properties of MediaService:   *)
(* what each actor may rely on between two of its calls.                   *)
(***************************************************************************)
EXTENDS MediaService

\* Request r stored the object of id and has still to insert its row, or to
\* remove the object again.
Holds(r, id) == req[r].pc \in {"insert", "cleanup"} /\ req[r].id = id

Reads(r, id) == req[r].pc = "read" /\ req[r].id = id

Tainted(id) == id \in reborn \cup unsure

\* A request between two calls knows its user, its id and its content, has not
\* been answered, and has objects to remove only in a delete.
Informed(s) ==
    /\ s.pc # "sweep" => s.todo = {}
    /\ s.pc # "free" => s.answer = "none"
    /\ s.pc \in {"insert", "cleanup", "lookup", "read"}
           => s.id \in MediaID /\ s.user \in User /\ s.content \in Content
    /\ s.answer \in {"content", "missing"} => s.id \in MediaID

\* So does every request, and a worker has an id exactly while it has a task.
WellFormed ==
    /\ \A r \in Request : Informed(req[r])
    /\ \A w \in Worker : IF worker[w].pc = "idle" THEN worker[w].id = None
                          ELSE worker[w].id \in MediaID

\* On a clean id the request that stored the object is alone, and its object
\* is in place with no row yet.
HoldersAlone ==
    \A r \in Request, id \in MediaID :
        Holds(r, id) /\ Clean(id) =>
            /\ blobs[id] = req[r].content
            /\ media[id] = None
            /\ \A q \in Request : Holds(q, id) => q = r

\* Whoever is about to insert a row, and every row, of an id with a deletion
\* task came after the task, or after an INSERT reported as failed.
TaskedAreTainted ==
    \A id \in MediaID :
        tasks[id] # "none" /\ ~ Tainted(id) =>
            /\ media[id] = None
            /\ \A r \in Request : ~ Holds(r, id)

\* Objects are only swept, claimed or created again under a deletion task.
SweptAreTasked ==
    /\ \A r \in Request : \A id \in req[r].todo : tasks[id] # "none"
    /\ \A w \in Worker : worker[w].pc # "idle" => tasks[worker[w].id] # "none"
    /\ \A id \in reborn : tasks[id] # "none"

\* A worker about to complete its task has removed the object.
RemovedBeforeComplete ==
    \A w \in Worker :
        worker[w].pc = "complete" /\ worker[w].id \notin reborn
            => blobs[worker[w].id] = None

\* A download between its two reads: the row it read is still there, or the
\* id was deleted since and no other object has taken the place of the first.
ReadersKeepContent ==
    \A r \in Request, id \in MediaID :
        Reads(r, id) =>
            /\ Clean(id) => media[id] # None /\ media[id].content = req[r].content
            /\ tasks[id] # "none" /\ ~ Tainted(id)
                   => blobs[id] \in {req[r].content, None}

Safety ==
    /\ RowHasContent
    /\ CompletedMeansGone
    /\ DownloadMatchesRow
    /\ MissingNeverOnClean
    /\ HoldersAlone
    /\ TaskedAreTainted
    /\ SweptAreTasked
    /\ RemovedBeforeComplete
    /\ ReadersKeepContent

\* The inductive invariant: no part of it is preserved without the others.
IInv == TypeOK /\ WellFormed /\ Safety

=============================================================================
