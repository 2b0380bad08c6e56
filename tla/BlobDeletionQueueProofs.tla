---------------------- MODULE BlobDeletionQueueProofs -----------------------
(***************************************************************************)
(* The deletion queue for any number of tasks and workers, any lease, any  *)
(* backoff, and workers that take any time: types, exclusive leases, the   *)
(* spacing of claims, and that the queue implements DeletionTasks.         *)
(***************************************************************************)
EXTENDS BlobDeletionQueue, FiniteSetTheorems, TLAPS

\* The backoff of a task that was claimed.
LEMMA BackoffBounds ==
    ASSUME NEW n \in 1 .. MaxExponent
    PROVE  Backoff(n) \in 1 .. MaxBackoff /\ Backoff(n) >= Backoff(1)
<1>1. /\ MaxExponent \in Nat \ {0} /\ MaxBackoff \in Nat \ {0}
      /\ 2 ^ 1 = 2 /\ 2 ^ n \in Nat /\ 2 ^ n >= 2
  BY QueueConstants, PowersOfTwo
<1>2. Min2(n, MaxExponent) = n /\ Min2(1, MaxExponent) = 1
  BY <1>1 DEF Min2
<1>3. Backoff(n) = Min2(2 ^ n, MaxBackoff) /\ Backoff(1) = Min2(2, MaxBackoff)
  BY <1>1, <1>2 DEF Backoff
<1> QED
  BY <1>1, <1>3 DEF Min2

LEMMA QueueInvInit == QueueInit => QueueInv
<1> SUFFICES ASSUME QueueInit PROVE QueueInv
  OBVIOUS
<1> USE QueueConstants DEF QueueInit, Idle
<1>1. QueueTypeOK
  BY DEF QueueTypeOK
<1>2. HoldersKnow
  BY DEF HoldersKnow
<1>3. LeaseCoversHolder
  BY DEF LeaseCoversHolder, InLease, Holders, Busy
<1>4. WaitAddsUp
  BY DEF WaitAddsUp
<1> QED
  BY <1>1, <1>2, <1>3, <1>4 DEF QueueInv

-----------------------------------------------------------------------------
(* The steps, one by one. *)

LEMMA EnqueueInv ==
    ASSUME QueueInv, NEW id \in Task, Enqueue(id)
    PROVE  QueueInv'
<1> USE QueueConstants DEF QueueInv
<1>1. QueueTypeOK'
  BY DEF QueueTypeOK, Enqueue
<1>2. HoldersKnow'
  BY DEF HoldersKnow, Enqueue
<1>3. LeaseCoversHolder'
  BY DEF LeaseCoversHolder, InLease, Holders, Busy, Enqueue, QueueTypeOK
<1>4. WaitAddsUp'
  <2>1. Min2(Lease, Backoff(1)) <= Lease
    BY BackoffBounds, 1 \in 1 .. MaxExponent DEF Min2
  <2> QED
    BY <2>1 DEF WaitAddsUp, Enqueue, QueueTypeOK
<1> QED
  BY <1>1, <1>2, <1>3, <1>4

\* A claim commits, whether the worker that made it learns of it or not.
LEMMA ClaimRowInv ==
    ASSUME QueueInv, NEW id \in Task, NEW locked, ClaimedFirst(id, locked), ClaimRow(id),
           since' = [since EXCEPT ![id] = 0], UNCHANGED again,
           polled' \subseteq Worker,
           \/ UNCHANGED worker
           \/ \E w \in Worker \ Busy :
                  worker' = [worker EXCEPT ![w] = [pc |-> "delete", id |-> id, held |-> 0]]
    PROVE  QueueInv'
<1> USE QueueConstants DEF QueueInv
<1>0. /\ \/ status[id] = "pending"
         \/ status[id] = "processing" /\ lease[id] < 0
      /\ id \notin again => \A v \in Worker : ~ InLease(v, id)
  <2>1. \/ status[id] = "pending"
        \/ status[id] = "processing" /\ lease[id] < 0
    BY DEF ClaimedFirst, Candidates
  <2>2. ASSUME id \notin again, NEW v \in Worker, InLease(v, id) PROVE FALSE
    BY <2>1, <2>2 DEF LeaseCoversHolder, InLease, Holders, Busy, QueueTypeOK
  <2> QED
    BY <2>1, <2>2
<1>1. QueueTypeOK'
  BY DEF QueueTypeOK, ClaimRow, Min2
<1>2. HoldersKnow'
  BY DEF HoldersKnow, ClaimRow, QueueTypeOK, Min2, Busy
<1>3. LeaseCoversHolder'
  <2> SUFFICES ASSUME NEW w \in Worker, NEW j \in Task \ again, InLease(w, j)'
               PROVE  /\ status'[j] = "processing"
                      /\ lease'[j] + worker'[w].held >= Lease
                      /\ \A v \in Worker : InLease(v, j)' => v = w
    BY DEF LeaseCoversHolder
  <2>1. \A v \in Worker, k \in Task :
            k # id => (InLease(v, k)' <=> InLease(v, k))
                      /\ (InLease(v, k) => worker'[v] = worker[v])
    BY DEF InLease, Holders, Busy, QueueTypeOK
  <2>2. CASE j # id
    BY <2>1, <2>2 DEF LeaseCoversHolder, ClaimRow, QueueTypeOK
  <2>3. CASE j = id
    <3>1. \A v \in Worker : worker'[v] = worker[v] => ~ InLease(v, id)'
      BY <1>0, <2>3 DEF InLease, Holders, Busy
    <3>2. PICK c \in Worker : worker' = [worker EXCEPT ![c] =
                                  [pc |-> "delete", id |-> id, held |-> 0]]
      BY <2>3, <3>1
    <3>3. \A v \in Worker : v # c => ~ InLease(v, id)'
      BY <3>1, <3>2 DEF QueueTypeOK
    <3>4. w = c /\ worker'[c].held = 0
      BY <2>3, <3>2, <3>3 DEF QueueTypeOK
    <3> QED
      BY <2>3, <3>3, <3>4 DEF ClaimRow, QueueTypeOK
  <2> QED
    BY <2>2, <2>3
<1>4. WaitAddsUp'
  BY DEF WaitAddsUp, ClaimRow, QueueTypeOK
<1> QED
  BY <1>1, <1>2, <1>3, <1>4

\* A poll without a claim, and the delete of the object, leave the table alone.
LEMMA QuietInv ==
    ASSUME QueueInv, NoStatement, UNCHANGED <<since, again>>, polled' \subseteq Worker,
           \/ UNCHANGED worker
           \/ \E w \in Worker, pc \in {"complete", "retry"} :
                  worker[w].pc = "delete" /\ worker' = [worker EXCEPT ![w].pc = pc]
    PROVE  QueueInv'
<1> USE DEF QueueInv, NoStatement
<1>1. QueueTypeOK'
  BY DEF QueueTypeOK
<1>2. HoldersKnow'
  BY DEF HoldersKnow, QueueTypeOK
<1>3. \A w \in Worker, id \in Task :
          (InLease(w, id)' <=> InLease(w, id)) /\ worker'[w].held = worker[w].held
  BY DEF InLease, Holders, Busy, QueueTypeOK
<1>4. LeaseCoversHolder'
  BY <1>3 DEF LeaseCoversHolder
<1>5. WaitAddsUp'
  BY DEF WaitAddsUp
<1> QED
  BY <1>1, <1>2, <1>4, <1>5

\* A worker lets go: if it changed a task that others hold, the task is in again.
LEMMA LetGoInv ==
    ASSUME QueueInv, NEW w \in Busy, LetGo(w),
           \/ NoStatement
           \/ CompleteRow(worker[w].id)
           \/ RetryRow(worker[w].id)
    PROVE  QueueInv'
<1> DEFINE id == worker[w].id
<1> USE QueueConstants DEF QueueInv
<1>0. /\ w \in Worker /\ id \in Task /\ attempts[id] \in 1 .. MaxExponent
      /\ w \in Holders(id)
      /\ Backoff(attempts[id]) \in 1 .. MaxBackoff /\ Backoff(attempts[id]) >= Backoff(1)
  <2>1. w \in Worker /\ id \in Task /\ attempts[id] >= 1
    BY DEF Busy, HoldersKnow
  <2>2. attempts[id] \in 0 .. MaxExponent
    BY <2>1 DEF QueueTypeOK
  <2>3. attempts[id] \in 1 .. MaxExponent
    BY <2>1, <2>2
  <2>4. w \in Holders(id)
    BY DEF Holders
  <2> QED
    BY <2>1, <2>3, <2>4, BackoffBounds
<1>1. /\ worker' = [worker EXCEPT ![w] = Idle]
      /\ polled' = polled \ {w} /\ UNCHANGED <<since, attempts>>
      /\ \A j \in Task : j # id => status'[j] = status[j] /\ lease'[j] = lease[j]
                                   /\ due'[j] = due[j] /\ (j \in again' <=> j \in again)
  BY <1>0 DEF LetGo, NoStatement, CompleteRow, RetryRow, QueueTypeOK
<1>2. QueueTypeOK'
  <2>1. again' \subseteq Task
    BY <1>0 DEF LetGo, QueueTypeOK
  <2>2. /\ status' \in [Task -> {"none", "pending", "processing", "completed"}]
        /\ due' \in [Task -> (-MaxAge) .. MaxBackoff]
        /\ lease' \in [Task -> -1 .. Lease]
    BY <1>0 DEF NoStatement, CompleteRow, RetryRow, QueueTypeOK
  <2>3. worker' \in [Worker -> [pc   : {"idle", "delete", "complete", "retry"},
                               id   : Task \cup {0},
                               held : 0 .. MaxHold]]
    BY <1>0, <1>1 DEF QueueTypeOK, Idle
  <2> QED
    BY <1>1, <2>1, <2>2, <2>3 DEF QueueTypeOK
<1>3. HoldersKnow'
  BY <1>0, <1>1 DEF HoldersKnow, QueueTypeOK, Idle
<1>4. \A v \in Worker, j \in Task :
          InLease(v, j)' => InLease(v, j) /\ v # w /\ worker'[v] = worker[v]
  BY <1>0, <1>1 DEF InLease, Holders, Busy, QueueTypeOK, Idle
<1>5. LeaseCoversHolder'
  <2> SUFFICES ASSUME NEW v \in Worker, NEW j \in Task \ again', InLease(v, j)'
               PROVE  /\ status'[j] = "processing"
                      /\ lease'[j] + worker'[v].held >= Lease
                      /\ \A x \in Worker : InLease(x, j)' => x = v
    BY DEF LeaseCoversHolder
  <2>0. InLease(v, j) /\ v # w /\ worker'[v] = worker[v]
    BY <1>4
  <2>1. CASE j # id
    BY <1>1, <1>4, <2>0, <2>1 DEF LeaseCoversHolder
  <2>2. CASE j = id
    <3>1. Holders(id) # {w}
      BY <2>0, <2>2 DEF InLease
    <3>2. status' = status /\ id \notin again
      BY <2>2, <3>1 DEF LetGo
    <3>3. status[id] = "processing"
      BY <2>0, <2>2, <3>2 DEF LeaseCoversHolder
    <3>4. NoStatement
      BY <1>0, <3>2, <3>3 DEF CompleteRow, RetryRow, QueueTypeOK
    <3>5. /\ status[j] = "processing" /\ lease[j] + worker[v].held >= Lease
          /\ \A x \in Worker : InLease(x, j) => x = v
      BY <2>0, <2>2, <3>2 DEF LeaseCoversHolder
    <3>6. status'[j] = status[j] /\ lease'[j] = lease[j]
      BY <3>4 DEF NoStatement
    <3> QED
      BY <1>4, <2>0, <3>5, <3>6
  <2> QED
    BY <2>1, <2>2
<1>6. WaitAddsUp'
  <2> SUFFICES ASSUME NEW j \in Task
               PROVE  /\ status'[j] = "processing"
                             => since[j] = Lease \/ lease'[j] + since[j] >= Lease
                      /\ status'[j] = "pending" =>
                             \/ since[j] >= Min2(Lease, Backoff(1))
                             \/ due'[j] + since[j] >= Min2(Lease, Backoff(1))
    BY <1>1 DEF WaitAddsUp
  <2>1. CASE j # id
    BY <1>1, <2>1 DEF WaitAddsUp
  <2>2. CASE j = id /\ NoStatement
    BY <2>2 DEF WaitAddsUp, NoStatement
  <2>3. CASE j = id /\ CompleteRow(id)
    BY <1>0, <2>3 DEF CompleteRow, QueueTypeOK
  <2>4. CASE j = id /\ RetryRow(id)
    <3>1. status'[j] = "pending" /\ due'[j] = Backoff(attempts[id])
      BY <1>0, <2>4 DEF RetryRow, QueueTypeOK
    <3>2. since[j] \in Nat /\ Backoff(1) \in Nat /\ Backoff(attempts[id]) \in Nat
      BY <1>0, BackoffBounds, 1 \in 1 .. MaxExponent DEF QueueTypeOK
    <3>3. Min2(Lease, Backoff(1)) <= Backoff(1) /\ Min2(Lease, Backoff(1)) \in Nat
      BY <3>2 DEF Min2
    <3> HIDE DEF id
    <3> QED
      BY <1>0, <3>1, <3>2, <3>3
  <2> QED
    BY <2>1, <2>2, <2>3, <2>4
<1> QED
  BY <1>2, <1>3, <1>5, <1>6

LEMMA TickInv ==
    ASSUME QueueInv, Tick
    PROVE  QueueInv'
<1> USE QueueConstants DEF QueueInv
<1>1. QueueTypeOK'
  BY DEF QueueTypeOK, Tick, Max2, Min2, Busy
<1>2. HoldersKnow'
  BY DEF HoldersKnow, Tick, QueueTypeOK, Busy
<1>3. \A w \in Worker, id \in Task :
          InLease(w, id)' => InLease(w, id) /\ worker'[w].held = worker[w].held + 1
  BY DEF InLease, Holders, Busy, Tick, QueueTypeOK
<1>4. LeaseCoversHolder'
  <2> SUFFICES ASSUME NEW w \in Worker, NEW id \in Task \ again, InLease(w, id)'
               PROVE  /\ status'[id] = "processing"
                      /\ lease'[id] + worker'[w].held >= Lease
                      /\ \A v \in Worker : InLease(v, id)' => v = w
    BY DEF LeaseCoversHolder, Tick
  <2>1. /\ status[id] = "processing" /\ lease[id] + worker[w].held >= Lease
        /\ worker'[w].held = worker[w].held + 1
        /\ \A v \in Worker : InLease(v, id)' => v = w
    BY <1>3 DEF LeaseCoversHolder
  <2>2. lease'[id] >= lease[id] - 1 /\ status' = status
    BY <2>1 DEF Tick, Max2, QueueTypeOK
  <2> QED
    BY <1>1, <2>1, <2>2 DEF QueueTypeOK
<1>5. WaitAddsUp'
  <2> SUFFICES ASSUME NEW id \in Task
               PROVE  /\ status[id] = "processing"
                             => since'[id] = Lease \/ lease'[id] + since'[id] >= Lease
                      /\ status[id] = "pending" =>
                             \/ since'[id] >= Min2(Lease, Backoff(1))
                             \/ due'[id] + since'[id] >= Min2(Lease, Backoff(1))
    BY DEF WaitAddsUp, Tick
  <2>1. /\ since[id] \in 0 .. Lease /\ lease[id] \in -1 .. Lease /\ due[id] \in Int
        /\ since'[id] = Min2(since[id] + 1, Lease)
        /\ due'[id] >= due[id] - 1 /\ due'[id] \in Int
        /\ status[id] = "processing" => lease'[id] = Max2(lease[id] - 1, -1)
    BY DEF Tick, QueueTypeOK, Max2
  <2>2. Min2(Lease, Backoff(1)) \in Nat /\ Min2(Lease, Backoff(1)) <= Lease
    BY BackoffBounds, 1 \in 1 .. MaxExponent DEF Min2
  <2>3. status[id] = "processing"
            => since'[id] = Lease \/ lease'[id] + since'[id] >= Lease
    BY <2>1 DEF WaitAddsUp, Min2, Max2
  <2>4. status[id] = "pending" => \/ since'[id] >= Min2(Lease, Backoff(1))
                                  \/ due'[id] + since'[id] >= Min2(Lease, Backoff(1))
    <3> DEFINE bound == Min2(Lease, Backoff(1))
    <3>1. status[id] = "pending" => since[id] >= bound \/ due[id] + since[id] >= bound
      BY DEF WaitAddsUp
    <3>2. since'[id] = since[id] + 1 \/ since'[id] = Lease
      BY <2>1 DEF Min2
    <3>3. bound \in Nat /\ bound <= Lease
      BY <2>2
    <3> HIDE DEF bound
    <3>4. status[id] = "pending" => since'[id] >= bound \/ due'[id] + since'[id] >= bound
      BY <2>1, <3>1, <3>2, <3>3
    <3> QED
      BY <3>4 DEF bound
  <2> QED
    BY <2>3, <2>4
<1> QED
  BY <1>1, <1>2, <1>4, <1>5

-----------------------------------------------------------------------------
\* Every step of a worker is one of the four kinds above.
LEMMA RunOnceInv ==
    ASSUME QueueInv, NEW w \in Worker, RunOnce(w)
    PROVE  QueueInv'
<1>0. polled \subseteq Worker
  BY DEF QueueInv, QueueTypeOK
<1>1. CASE \E id \in Task, locked \in SUBSET Task : Claim(w, id, locked)
  BY <1>0, <1>1, ClaimRowInv DEF Claim
<1>2. CASE ClaimFails(w)
  <2>1. CASE NoStatement /\ UNCHANGED since
    BY <1>0, <1>2, <2>1, QuietInv DEF ClaimFails
  <2>2. CASE ~ (NoStatement /\ UNCHANGED since)
    BY <1>0, <1>2, <2>2, ClaimRowInv DEF ClaimFails
  <2> QED
    BY <2>1, <2>2
<1>3. CASE \E locked \in SUBSET Task : NothingToClaim(w, locked)
  BY <1>0, <1>3, QuietInv DEF NothingToClaim
<1>4. CASE \E out \in {"ok", "failed"} : DeleteBlob(w, out)
  BY <1>0, <1>4, QuietInv DEF DeleteBlob
<1>5. CASE Complete(w) \/ Retry(w) \/ CrashWorker(w)
  BY <1>5, LetGoInv DEF Complete, Retry, CrashWorker, Busy
<1> QED
  BY <1>1, <1>2, <1>3, <1>4, <1>5 DEF RunOnce

LEMMA QueueInvNext == QueueInv /\ [QueueNext]_qvars => QueueInv'
<1> SUFFICES ASSUME QueueInv, [QueueNext]_qvars PROVE QueueInv'
  OBVIOUS
<1>1. CASE QueueNext
  BY <1>1, EnqueueInv, RunOnceInv, TickInv DEF QueueNext
<1>2. CASE UNCHANGED qvars
  <2> USE <1>2 DEF qvars, QueueInv
  <2>1. QueueTypeOK' /\ HoldersKnow'
    BY DEF QueueTypeOK, HoldersKnow
  <2>2. LeaseCoversHolder' /\ WaitAddsUp'
    BY DEF LeaseCoversHolder, InLease, Holders, Busy, WaitAddsUp
  <2> QED
    BY <2>1, <2>2
<1> QED
  BY <1>1, <1>2

\* QueueInv holds in every state the queue can reach.
THEOREM QueueInductive == QueueSpec => []QueueInv
  BY QueueInvInit, QueueInvNext, PTL DEF QueueSpec

\* Every column of the task table, and every worker, keeps its type: no backoff
\* is longer than the cap, however often a delete fails.
THEOREM QueueTypes == QueueSpec => []QueueTypeOK
<1>1. QueueInv => QueueTypeOK
  BY DEF QueueInv
<1> QED
  BY <1>1, QueueInductive, PTL

\* However many workers poll, and however late they report, no two hold a task
\* within their leases unless it was changed while it was held.
THEOREM LeasesExclude == QueueSpec => []LeaseExclusive
<1>1. ASSUME QueueInv PROVE LeaseExclusive
  <2> SUFFICES ASSUME NEW id \in Task \ again
               PROVE  Cardinality({w \in Holders(id) : worker[w].held <= Lease}) <= 1
    BY DEF LeaseExclusive
  <2> DEFINE S == {w \in Holders(id) : worker[w].held <= Lease}
  <2>1. \A v, w \in S : v = w
    BY <1>1 DEF QueueInv, LeaseCoversHolder, InLease, Holders, Busy
  <2>2. CASE S = {}
    <3>1. Cardinality(S) = 0
      BY <2>2, FS_EmptySet
    <3> QED
      BY <3>1
  <2>3. CASE \E w \in S : TRUE
    <3>1. PICK w \in S : TRUE
      BY <2>3
    <3>2. S = {w}
      BY <2>1, <3>1
    <3>3. Cardinality(S) = 1
      BY <3>2, FS_Singleton
    <3> QED
      BY <3>3
  <2> QED
    BY <2>2, <2>3
<1> QED
  BY <1>1, QueueInductive, PTL

-----------------------------------------------------------------------------
\* Only a claim brings a task to the start of a lease.
LEMMA FreshLease ==
    ASSUME QueueInv, QueueNext, NEW id \in Task,
           status'[id] = "processing", lease'[id] = Lease,
           status[id] # "processing" \/ lease[id] # Lease
    PROVE  id \in Candidates
<1> USE QueueConstants
<1>0. /\ status \in [Task -> {"none", "pending", "processing", "completed"}]
      /\ lease \in [Task -> -1 .. Lease] /\ Lease \in Nat
      /\ status'[id] # status[id] \/ lease'[id] # lease[id]
  BY DEF QueueInv, QueueTypeOK
<1>1. CASE \E j \in Task : Enqueue(j)
  BY <1>0, <1>1 DEF Enqueue
<1>2. CASE \E w \in Worker : RunOnce(w)
  <2>1. PICK w \in Worker : RunOnce(w)
    BY <1>2
  <2>2. ~ NoStatement
    BY <1>0 DEF NoStatement
  <2>3. CASE \E j \in Task, locked \in SUBSET Task : ClaimedFirst(j, locked) /\ ClaimRow(j)
    BY <1>0, <2>3 DEF ClaimRow, ClaimedFirst
  <2>4. CASE Complete(w) \/ Retry(w)
    BY <1>0, <2>2, <2>4 DEF Complete, Retry, CompleteRow, RetryRow
  <2> QED
    BY <2>1, <2>2, <2>3, <2>4
       DEF RunOnce, Claim, ClaimFails, NothingToClaim, DeleteBlob, CrashWorker
<1>3. CASE Tick
  <2>1. status[id] = "processing" /\ lease'[id] = Max2(lease[id] - 1, -1)
    BY <1>3 DEF Tick
  <2> QED
    BY <1>0, <2>1 DEF Max2
<1> QED
  BY <1>1, <1>2, <1>3 DEF QueueNext

\* For any lease and any backoff, two claims of a task are as far apart as the
\* shorter of the two, unless the task was enqueued again in between.
THEOREM ClaimsAreSpaced == QueueSpec => ClaimsSpaced
<1> DEFINE Spaced == \A id \in Task :
               /\ status'[id] = "processing" /\ lease'[id] = Lease
               /\ status[id] # "processing" \/ lease[id] # Lease
               => since[id] >= Min2(Lease, Backoff(1))
<1>1. ASSUME QueueInv, QueueNext PROVE Spaced
  <2> SUFFICES ASSUME NEW id \in Task,
                      status'[id] = "processing", lease'[id] = Lease,
                      status[id] # "processing" \/ lease[id] # Lease
               PROVE  since[id] >= Min2(Lease, Backoff(1))
    OBVIOUS
  <2> DEFINE bound == Min2(Lease, Backoff(1))
  <2>1. \/ status[id] = "pending" /\ due[id] <= 0
        \/ status[id] = "processing" /\ lease[id] < 0
    BY <1>1, FreshLease DEF Candidates
  <2>2. /\ since[id] \in 0 .. Lease /\ lease[id] \in Int /\ due[id] \in Int
        /\ Lease \in Nat
    BY <1>1, QueueConstants DEF QueueInv, QueueTypeOK
  <2>3. bound \in Nat /\ bound <= Lease
    BY <2>2, QueueConstants, BackoffBounds, 1 \in 1 .. MaxExponent DEF Min2
  <2>4. /\ status[id] = "processing" => since[id] = Lease \/ lease[id] + since[id] >= Lease
        /\ status[id] = "pending" => since[id] >= bound \/ due[id] + since[id] >= bound
    BY <1>1 DEF QueueInv, WaitAddsUp
  <2> HIDE DEF bound
  <2>5. since[id] >= bound
    BY <2>1, <2>2, <2>3, <2>4
  <2> QED
    BY <2>5 DEF bound
<1>2. QueueInv /\ [QueueNext]_qvars => [Spaced]_qvars
  BY <1>1
<1> HIDE DEF Spaced
<1>3. QueueSpec => [][Spaced]_qvars
  BY <1>2, QueueInductive, PTL DEF QueueSpec
<1> QED
  BY <1>3 DEF ClaimsSpaced, Spaced

-----------------------------------------------------------------------------
(* The queue implements DeletionTasks. *)

LEMMA MappedInit == QueueInit => Tasks!TasksInit
  BY DEF QueueInit, Idle, Tasks!TasksInit, OpenTasks, HeldTask, Removed

\* A claim leaves the set of open tasks alone: what it takes was open.
LEMMA ClaimKeepsOpen ==
    ASSUME QueueInv, NEW id \in Task, NEW locked, ClaimedFirst(id, locked), ClaimRow(id)
    PROVE  id \in OpenTasks /\ UNCHANGED OpenTasks
  BY DEF QueueInv, QueueTypeOK, ClaimedFirst, Candidates, ClaimRow, OpenTasks

\* What a worker that lets go may do to the set of open tasks.
LEMMA LetGoMapped ==
    ASSUME QueueInv, NEW w \in Busy, LetGo(w),
           \/ NoStatement
           \/ worker[w].pc = "complete" /\ CompleteRow(worker[w].id)
           \/ worker[w].pc # "complete" /\ RetryRow(worker[w].id)
    PROVE  Tasks!Release(w)
<1> DEFINE id == worker[w].id
<1> USE DEF QueueInv
<1>1. w \in Worker /\ id \in Task /\ id # 0 /\ HeldTask[w] = id
  BY QueueConstants DEF Busy, HoldersKnow, HeldTask
<1>2. HeldTask' = [HeldTask EXCEPT ![w] = 0]
  BY <1>1 DEF LetGo, HeldTask, Idle, QueueTypeOK
<1>3. Removed' = Removed \ {w}
  BY <1>1 DEF LetGo, Removed, Idle, QueueTypeOK
<1>4. \/ UNCHANGED OpenTasks
      \/ w \in Removed /\ OpenTasks' = OpenTasks \ {HeldTask[w]}
      \/ w \notin Removed /\ OpenTasks' = OpenTasks \cup {HeldTask[w]}
  <2>1. CASE NoStatement
    BY <2>1 DEF NoStatement, OpenTasks
  <2>2. CASE worker[w].pc = "complete" /\ CompleteRow(id)
    <3>1. OpenTasks' = OpenTasks \ {id}
      BY <1>1, <2>2 DEF CompleteRow, OpenTasks, QueueTypeOK
    <3> QED
      BY <1>1, <2>2, <3>1 DEF Removed
  <2>3. CASE worker[w].pc # "complete" /\ RetryRow(id)
    <3>1. OpenTasks' = OpenTasks \cup {id}
      BY <1>1, <2>3 DEF RetryRow, OpenTasks, QueueTypeOK
    <3> QED
      BY <1>1, <2>3, <3>1 DEF Removed
  <2> QED
    BY <2>1, <2>2, <2>3
<1> QED
  BY <1>1, <1>2, <1>3, <1>4 DEF Tasks!Release, OpenTasks, HeldTask, Removed

LEMMA MappedStep == QueueInv /\ [QueueNext]_qvars => [Tasks!TasksNext]_(Tasks!taskVars)
<1> SUFFICES ASSUME QueueInv, [QueueNext]_qvars
             PROVE  Tasks!TasksNext \/ UNCHANGED <<OpenTasks, HeldTask, Removed>>
  BY DEF Tasks!taskVars, OpenTasks, HeldTask, Removed
<1>1. CASE \E id \in Task : Enqueue(id)
  <2>1. PICK id \in Task : Enqueue(id)
    BY <1>1
  <2>2. OpenTasks' = OpenTasks \cup {id} /\ UNCHANGED <<HeldTask, Removed>>
    BY <2>1 DEF Enqueue, OpenTasks, HeldTask, Removed, QueueInv, QueueTypeOK
  <2>3. {id} \in SUBSET Task
    OBVIOUS
  <2> QED
    BY <2>2, <2>3 DEF Tasks!TasksNext, Tasks!Add, OpenTasks, HeldTask, Removed
<1>2. ASSUME NEW w \in Worker, RunOnce(w)
      PROVE  Tasks!WorkStep \/ UNCHANGED <<OpenTasks, HeldTask, Removed>>
  <2>1. CASE \E id \in Task, locked \in SUBSET Task : Claim(w, id, locked)
    <3>1. PICK id \in Task, locked \in SUBSET Task : Claim(w, id, locked)
      BY <2>1
    <3>2. id \in OpenTasks /\ UNCHANGED OpenTasks
      BY <3>1, ClaimKeepsOpen DEF Claim
    <3>3. HeldTask[w] = 0 /\ HeldTask' = [HeldTask EXCEPT ![w] = id]
      BY <3>1 DEF Claim, HeldTask, HoldersKnow, QueueInv, QueueTypeOK, Busy
    <3>4. UNCHANGED Removed
      BY <3>1 DEF Claim, Removed, QueueInv, QueueTypeOK, Busy
    <3> QED
      BY <3>2, <3>3, <3>4 DEF Tasks!WorkStep, Tasks!Take, OpenTasks, HeldTask, Removed
  <2>2. CASE ClaimFails(w) \/ \E locked \in SUBSET Task : NothingToClaim(w, locked)
    <3>1. UNCHANGED <<HeldTask, Removed>>
      BY <2>2 DEF ClaimFails, NothingToClaim, HeldTask, Removed
    <3>2. UNCHANGED OpenTasks
      <4>1. CASE NoStatement
        BY <4>1 DEF NoStatement, OpenTasks
      <4>2. CASE \E id \in Task, locked \in SUBSET Task : ClaimedFirst(id, locked) /\ ClaimRow(id)
        BY <4>2, ClaimKeepsOpen
      <4> QED
        BY <2>2, <4>1, <4>2 DEF ClaimFails, NothingToClaim
    <3> QED
      BY <3>1, <3>2
  <2>3. CASE \E out \in {"ok", "failed"} : DeleteBlob(w, out)
    <3>1. PICK out \in {"ok", "failed"} : DeleteBlob(w, out)
      BY <2>3
    <3>2. UNCHANGED <<OpenTasks, HeldTask>>
      BY <3>1 DEF DeleteBlob, NoStatement, OpenTasks, HeldTask, QueueInv, QueueTypeOK
    <3>3. HeldTask[w] # 0
      BY <3>1, QueueConstants DEF DeleteBlob, HeldTask, QueueInv, HoldersKnow
    <3>4. Removed' = IF out = "ok" THEN Removed \cup {w} ELSE Removed
      BY <3>1 DEF DeleteBlob, Removed, QueueInv, QueueTypeOK
    <3> QED
      BY <3>2, <3>3, <3>4 DEF Tasks!WorkStep, Tasks!Remove, OpenTasks, HeldTask, Removed
  <2>4. CASE Complete(w) \/ Retry(w) \/ CrashWorker(w)
    <3>1. w \in Busy /\ LetGo(w)
      BY <2>4 DEF Complete, Retry, CrashWorker, Busy
    <3>2. Tasks!Release(w)
      BY <2>4, <3>1, LetGoMapped DEF Complete, Retry, CrashWorker
    <3> QED
      BY <3>2 DEF Tasks!WorkStep
  <2> QED
    BY <1>2, <2>1, <2>2, <2>3, <2>4 DEF RunOnce
<1>3. CASE Tick
  <2>1. UNCHANGED HeldTask
    BY <1>3 DEF Tick, HeldTask, QueueInv, QueueTypeOK
  <2>2. UNCHANGED <<OpenTasks, Removed>>
    BY <1>3 DEF Tick, OpenTasks, Removed, QueueInv, QueueTypeOK
  <2> QED
    BY <2>1, <2>2
<1>4. CASE UNCHANGED qvars
  BY <1>4 DEF qvars, OpenTasks, HeldTask, Removed
<1> QED
  BY <1>1, <1>2, <1>3, <1>4 DEF QueueNext, Tasks!TasksNext

\* Leases, backoff, clocks, and statements that commit and are reported as
\* failed, never close a task that no worker finished.
THEOREM QueueImplementsTasks == QueueSpec => ImplementsTasks
  BY MappedInit, MappedStep, QueueInductive, PTL
     DEF QueueSpec, ImplementsTasks, Tasks!TasksSpec

=============================================================================
