---------------------------- MODULE DataClearing ----------------------------
(***************************************************************************)
(* cmd/dbclear beside a running service: it empties both tables in one     *)
(* TRUNCATE, and neither the objects nor what requests and workers have in *)
(* hand.  Nothing makes it wait for the service to stop.                   *)
(***************************************************************************)
EXTENDS MediaServiceInv

VARIABLE caught \* history: ids InHand at the last clear

clearVars == <<vars, caught>>

ClearInit == Init /\ caught = {}

\* Ids whose object someone may still remove, or has removed under an upload
\* that has yet to insert its row.
InHand ==
    {id \in MediaID :
        \/ \E r \in Request : id \in req[r].todo
        \/ \E w \in Worker : worker[w].id = id
        \/ /\ id \in caught \/ ~ Clean(id)
           /\ \E r \in Request : Holds(r, id)}

\* Slip: the objects are removed as well.
TruncateAllAndObjects ==
    /\ media' = [id \in MediaID |-> None]
    /\ tasks' = [id \in MediaID |-> "none"]
    /\ blobs' = [id \in MediaID |-> None]

\* TRUNCATE of every table but schema_migrations, in one statement.
TruncateAll ==
    /\ media' = [id \in MediaID |-> None]
    /\ tasks' = [id \in MediaID |-> "none"]
    /\ UNCHANGED blobs

\* run, once DATABASE_URL is set, the user has confirmed and the database has
\* answered; otherwise, and when the tables cannot be listed, nothing happens.  A
\* TRUNCATE that fails may have committed.  Histories start again with it.
ClearAllData ==
    /\ TruncateAll
    /\ unsure' = {}
    /\ reborn' = {}
    /\ caught' = InHand
    /\ UNCHANGED <<req, worker>>

ClearNext ==
    \/ Next /\ UNCHANGED caught
    \/ ClearAllData

ClearSpec == ClearInit /\ [][ClearNext]_clearVars

-----------------------------------------------------------------------------
\* What the service guarantees of the rows of clean ids, and of the completed
\* tasks of ids not created again, also holds after its tables were emptied under
\* it, except for ids whose object a request or a worker was about to remove: an
\* object that the clear left behind never becomes the content of a later row, and
\* an upload between Put and INSERT is unharmed.
ClearSparesTheRest ==
    \A id \in MediaID \ caught :
        /\ media[id] # None /\ Clean(id) => blobs[id] = media[id].content
        /\ tasks[id] = "completed" /\ id \notin reborn => blobs[id] = None

-----------------------------------------------------------------------------
(* The inductive invariant behind it: what MediaServiceInv says of the ids   *)
(* that the last clear did not catch, apart from downloads.                  *)

\* The request that stored the object of a clean id is alone with it.
HolderKept(id) ==
    \A r \in Request :
        Holds(r, id) /\ Clean(id) =>
            /\ blobs[id] = req[r].content
            /\ media[id] = None
            /\ \A q \in Request : Holds(q, id) => q = r

\* A row, and an upload under way, of an id with a task came after the task.
TaskKept(id) ==
    tasks[id] # "none" /\ ~ Tainted(id) =>
        media[id] = None /\ \A r \in Request : ~ Holds(r, id)

\* Whoever may remove the object of id acts under a task, and a worker about to
\* complete it has removed the object.
RemoverKept(id) ==
    /\ tasks[id] = "none" =>
           /\ id \notin reborn
           /\ \A r \in Request : id \notin req[r].todo
           /\ \A w \in Worker : worker[w].id # id
    /\ \A w \in Worker :
           worker[w].pc = "complete" /\ worker[w].id = id /\ id \notin reborn
               => blobs[id] = None

ClearInv ==
    /\ TypeOK /\ WellFormed /\ caught \subseteq MediaID
    /\ ClearSparesTheRest
    /\ \A id \in MediaID \ caught : HolderKept(id) /\ TaskKept(id) /\ RemoverKept(id)

=============================================================================
