------------------------- MODULE BlobDeletionQueue --------------------------
(***************************************************************************)
(* The deletion task queue with its clock: leases, due times and backoff   *)
(* of postgres.BlobDeletionRepository, under BlobDeletionWorker's loop.    *)
(* Time passes in minutes, and every time is kept relative to NOW(): a     *)
(* task is due when due[id] <= 0, and its lease has ended when it is       *)
(* negative.  The poll interval is far below a minute, so every idle       *)
(* worker polls between two ticks.                                         *)
(***************************************************************************)
EXTENDS Integers, FiniteSets

CONSTANTS
    Task,        \* media ids as numbers, in the order of media_id
    Worker,
    Lease,       \* BlobDeletionLease, in minutes
    MaxExponent, \* the backoff doubles up to this attempt
    MaxBackoff,  \* the longest backoff, in minutes
    MaxAge,      \* bound: a task overdue for longer is not told apart
    MaxHold      \* bound: the longest RunOnce takes with a task, in minutes

ASSUME QueueConstants ==
    /\ Task \subseteq Nat \ {0}
    /\ Lease \in Nat /\ MaxExponent \in Nat \ {0} /\ MaxBackoff \in Nat \ {0}
    /\ MaxAge \in Nat /\ MaxHold \in Nat \ {0}

\* Arithmetic, stated for the provers, which do not know about exponents.
ASSUME PowersOfTwo == 2 ^ 1 = 2 /\ \A n \in 1 .. MaxExponent : 2 ^ n \in Nat /\ 2 ^ n >= 2

VARIABLES
    status,      \* "none" without a row
    due,         \* next_attempt_at
    lease,       \* lease_until, of a task being processed
    attempts,    \* attempt_count, which stops mattering at MaxExponent
    worker,      \* the task of RunOnce, where it is, and for how long
    polled,      \* workers that polled in this minute
    since,       \* history: minutes since the last claim, Lease if none counts
    again        \* history: tasks that a delete, or a worker that gave its own
                 \* claim back, changed while another worker held them

qvars == <<status, due, lease, attempts, worker, polled, since, again>>

Busy == {w \in Worker : worker[w].pc # "idle"}

Holders(id) == {w \in Busy : worker[w].id = id}

Idle == [pc |-> "idle", id |-> 0, held |-> 0]

Max2(a, b) == IF a < b THEN b ELSE a

Min2(a, b) == IF a < b THEN a ELSE b

\* Slip: one doubling too many.
BackoffLate(n) == 2 ^ (Min2(n, MaxExponent) + 1)

\* LEAST(1 minute * POWER(2, LEAST(attempt_count, 8)), 256 minutes)
Backoff(n) == Min2(2 ^ Min2(n, MaxExponent), MaxBackoff)

QueueTypeOK ==
    /\ status \in [Task -> {"none", "pending", "processing", "completed"}]
    /\ due \in [Task -> (-MaxAge) .. MaxBackoff]
    /\ lease \in [Task -> -1 .. Lease]
    /\ attempts \in [Task -> 0 .. MaxExponent]
    /\ worker \in [Worker -> [pc   : {"idle", "delete", "complete", "retry"},
                              id   : Task \cup {0},
                              held : 0 .. MaxHold]]
    /\ polled \subseteq Worker
    /\ since \in [Task -> 0 .. Lease]
    /\ again \subseteq Task

QueueInit ==
    /\ status = [id \in Task |-> "none"]
    /\ due = [id \in Task |-> 0]
    /\ lease = [id \in Task |-> 0]
    /\ attempts = [id \in Task |-> 0]
    /\ worker = [w \in Worker |-> Idle]
    /\ polled = {}
    /\ since = [id \in Task |-> Lease]
    /\ again = {}

-----------------------------------------------------------------------------
(* The statements on the table. *)

\* A delete statement inserts the task, or sets it to pending and due again;
\* attempt_count and lease_until keep their values.
Enqueue(id) ==
    /\ status' = [status EXCEPT ![id] = "pending"]
    /\ due' = [due EXCEPT ![id] = 0]
    /\ since' = [since EXCEPT ![id] = Lease]
    /\ again' = IF Holders(id) # {} THEN again \cup {id} ELSE again
    /\ UNCHANGED <<lease, attempts, worker, polled>>

\* Slip: everything due that nobody works on, completed tasks included.
CandidatesAnyDue ==
    {id \in Task : \/ status[id] \in {"pending", "completed"} /\ due[id] <= 0
                   \/ status[id] = "processing" /\ lease[id] < 0}

Candidates ==
    {id \in Task : \/ status[id] = "pending" /\ due[id] <= 0
                   \/ status[id] = "processing" /\ lease[id] < 0}

\* ORDER BY next_attempt_at, media_id LIMIT 1 FOR UPDATE SKIP LOCKED, where locked
\* are the rows that a delete or another worker's statement has under way.
ClaimedFirst(id, locked) ==
    /\ id \in Candidates \ locked
    /\ \A j \in Candidates \ locked :
           due[id] < due[j] \/ (due[id] = due[j] /\ id <= j)

\* Slip: the claim does not extend the lease.
ClaimUnleased(id) ==
    /\ status' = [status EXCEPT ![id] = "processing"]
    /\ lease' = [lease EXCEPT ![id] = -1]
    /\ attempts' = [attempts EXCEPT ![id] = Min2(@ + 1, MaxExponent)]
    /\ UNCHANGED due

ClaimRow(id) ==
    /\ status' = [status EXCEPT ![id] = "processing"]
    /\ lease' = [lease EXCEPT ![id] = Lease]
    /\ attempts' = [attempts EXCEPT ![id] = Min2(@ + 1, MaxExponent)]
    /\ UNCHANGED due

CompleteRow(id) ==
    /\ status' = [status EXCEPT ![id] = "completed"]
    /\ lease' = [lease EXCEPT ![id] = 0]
    /\ UNCHANGED <<due, attempts>>

\* Slip: next_attempt_at is left alone.
RetryRowAtOnce(id) ==
    /\ status' = [status EXCEPT ![id] = "pending"]
    /\ lease' = [lease EXCEPT ![id] = 0]
    /\ UNCHANGED <<due, attempts>>

RetryRow(id) ==
    /\ status' = [status EXCEPT ![id] = "pending"]
    /\ due' = [due EXCEPT ![id] = Backoff(attempts[id])]
    /\ lease' = [lease EXCEPT ![id] = 0]
    /\ UNCHANGED attempts

NoStatement == UNCHANGED <<status, due, lease, attempts>>

-----------------------------------------------------------------------------
(* RunOnce.  A statement that is reported as failed may have committed. *)

Claim(w, id, locked) ==
    /\ w \notin Busy
    /\ ClaimedFirst(id, locked)
    /\ ClaimRow(id)
    /\ worker' = [worker EXCEPT ![w] = [pc |-> "delete", id |-> id, held |-> 0]]
    /\ polled' = polled \cup {w}
    /\ since' = [since EXCEPT ![id] = 0]
    /\ UNCHANGED again

ClaimFails(w) ==
    /\ w \notin Busy
    /\ \/ /\ NoStatement
          /\ UNCHANGED since
       \/ \E id \in Task, locked \in SUBSET Task :
              /\ ClaimedFirst(id, locked)
              /\ ClaimRow(id)
              /\ since' = [since EXCEPT ![id] = 0]
    /\ polled' = polled \cup {w}
    /\ UNCHANGED <<worker, again>>

\* pgx.ErrNoRows
NothingToClaim(w, locked) ==
    /\ w \notin Busy
    /\ Candidates \subseteq locked
    /\ polled' = polled \cup {w}
    /\ NoStatement
    /\ UNCHANGED <<worker, since, again>>

DeleteBlob(w, out) ==
    /\ worker[w].pc = "delete"
    /\ worker' = [worker EXCEPT ![w].pc = IF out = "ok" THEN "complete" ELSE "retry"]
    /\ NoStatement
    /\ UNCHANGED <<polled, since, again>>

\* The worker lets go of its task.
LetGo(w) ==
    LET id == worker[w].id
    IN  /\ worker' = [worker EXCEPT ![w] = Idle]
        /\ again' = CASE Holders(id) = {w}   -> again \ {id}
                      [] status' # status     -> again \cup {id}
                      [] OTHER                -> again
        /\ polled' = polled \ {w}
        /\ UNCHANGED since

Complete(w) ==
    /\ worker[w].pc = "complete"
    /\ CompleteRow(worker[w].id) \/ NoStatement
    /\ LetGo(w)

Retry(w) ==
    /\ worker[w].pc = "retry"
    /\ RetryRow(worker[w].id) \/ NoStatement
    /\ LetGo(w)

\* The process dies with a task in its hands, and is started again.
CrashWorker(w) ==
    /\ w \in Busy
    /\ NoStatement
    /\ LetGo(w)

RunOnce(w) ==
    \/ \E id \in Task, locked \in SUBSET Task : Claim(w, id, locked)
    \/ ClaimFails(w)
    \/ \E locked \in SUBSET Task : NothingToClaim(w, locked)
    \/ \E out \in {"ok", "failed"} : DeleteBlob(w, out)
    \/ Complete(w)
    \/ Retry(w)
    \/ CrashWorker(w)

\* A minute passes.
Tick ==
    /\ \A w \in Worker \ Busy : w \in polled
    /\ \A w \in Busy : worker[w].held < MaxHold
    /\ due' = [id \in Task |-> Max2(due[id] - 1, -MaxAge)]
    /\ lease' = [id \in Task |-> IF status[id] = "processing"
                                 THEN Max2(lease[id] - 1, -1) ELSE lease[id]]
    /\ since' = [id \in Task |-> Min2(since[id] + 1, Lease)]
    /\ worker' = [w \in Worker |-> IF w \in Busy
                                   THEN [worker[w] EXCEPT !.held = @ + 1] ELSE worker[w]]
    /\ polled' = {}
    /\ UNCHANGED <<status, attempts, again>>

QueueNext ==
    \/ \E id \in Task : Enqueue(id)
    \/ \E w \in Worker : RunOnce(w)
    \/ Tick

QueueSpec == QueueInit /\ [][QueueNext]_qvars

\* Each worker polls and finishes what it does, time passes, and a claim or a
\* retry of a task that is tried again and again, by whichever worker, succeeds:
\* it meets no locked row and no error every time.
\* Nothing is assumed of S3: it may refuse some objects for ever.
Progress(w) ==
    \/ NothingToClaim(w, {})
    \/ \E out \in {"ok", "failed"} : DeleteBlob(w, out)
    \/ Complete(w)
    \/ Retry(w)

QueueFairness ==
    /\ WF_qvars(Tick)
    /\ \A w \in Worker : WF_qvars(Progress(w))
    /\ \A id \in Task :
           /\ SF_qvars(\E w \in Worker : Claim(w, id, {}))
           /\ SF_qvars(\E w \in Worker :
                           worker[w].id = id /\ Retry(w) /\ RetryRow(id))

QueueLiveSpec == QueueSpec /\ QueueFairness

-----------------------------------------------------------------------------
(* The queue without its clock. *)

OpenTasks == {id \in Task : status[id] \in {"pending", "processing"}}

HeldTask == [w \in Worker |-> worker[w].id]

Removed == {w \in Worker : worker[w].pc = "complete"}

Tasks == INSTANCE DeletionTasks WITH
    None <- 0, open <- OpenTasks, held <- HeldTask, removed <- Removed

\* With leases that end under slow workers, claims that commit and are reported
\* as failed, and late reports, a task is still closed only by a worker that
\* claimed it open and whose own delete succeeded.
ImplementsTasks == Tasks!TasksSpec

\* No two workers hold one task within their leases, unless a delete enqueued it
\* again, or a worker that had outlived its lease changed it, while it was held.
LeaseExclusive ==
    \A id \in Task \ again :
        Cardinality({w \in Holders(id) : worker[w].held <= Lease}) <= 1

\* However slow workers are, and whatever they report late, two claims of a task
\* are a lease or a backoff apart, unless it was enqueued again between them.
ClaimsSpaced ==
    [][\A id \in Task :
           /\ status'[id] = "processing" /\ lease'[id] = Lease
           /\ status[id] # "processing" \/ lease[id] # Lease
           => since[id] >= Min2(Lease, Backoff(1))]_qvars

\* A due task is claimed in the end, however often the others fail, unless
\* deletes go on for ever: each moves its task to the end of the queue again.
NoStarvation ==
    <>[][\A id \in Task : ~ Enqueue(id)]_qvars =>
        \A id \in Task : status[id] = "pending" ~> status[id] # "pending"

-----------------------------------------------------------------------------
(* The inductive invariant behind LeaseExclusive and ClaimsSpaced. *)

\* A worker has an id exactly while it has a task, and that task was claimed.
HoldersKnow ==
    \A w \in Worker :
        IF worker[w].pc = "idle" THEN worker[w].id = 0
        ELSE worker[w].id \in Task /\ attempts[worker[w].id] >= 1

\* Worker w holds id, and has not held it for longer than a lease.
InLease(w, id) == w \in Holders(id) /\ worker[w].held <= Lease

\* The lease of a task runs out no sooner than the worker that holds it within
\* its lease reaches that limit, and so nobody else gets the task before.
LeaseCoversHolder ==
    \A w \in Worker, id \in Task \ again :
        InLease(w, id) =>
            /\ status[id] = "processing"
            /\ lease[id] + worker[w].held >= Lease
            /\ \A v \in Worker : InLease(v, id) => v = w

\* The time a task still has to wait, and the time since its last claim, make
\* up a lease while it is processed, and the shorter of lease and backoff after.
WaitAddsUp ==
    \A id \in Task :
        /\ status[id] = "processing" => since[id] = Lease \/ lease[id] + since[id] >= Lease
        /\ status[id] = "pending" =>
               \/ since[id] >= Min2(Lease, Backoff(1))
               \/ due[id] + since[id] >= Min2(Lease, Backoff(1))

\* No part of it is preserved without the types and the parts above.
QueueInv == QueueTypeOK /\ HoldersKnow /\ LeaseCoversHolder /\ WaitAddsUp

=============================================================================
