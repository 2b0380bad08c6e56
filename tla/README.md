# TLA+ model of beebase-media-service

beebase-media-service stores files for the users of BeeBase. The bytes of a file
are an object in an S3 bucket, and its name, type, size and owner are a row in
PostgreSQL. No transaction spans the two. The hard part of the service is to
keep them together while uploads, downloads, deletes and a background worker
run at once, calls fail with an unknown effect, and processes die. That is what
this project models and model-checks with TLC. The safety properties, of the core
and of every other part, are proved with TLAPS as well.

## 1. The system

### Components

| Component | Source | State | Operations |
|---|---|---|---|
| object store adapter | `internal/platform/blobstore/store.go` | one S3 object per media id | `Put` (create-only, `If-None-Match: *`), `Get`, `Delete` |
| media table | `internal/repository/postgres/media_repository.go` | rows: owner, name, type, size | `Create`, `GetByID`, `ListByIDs`, `Delete`, `DeleteByIDs`, `DeleteAllByUser` |
| deletion tasks | `internal/repository/postgres/blob_deletion_repository.go` | status, due time, lease, attempts of a task per media id | `Claim`, `Complete`, `Retry`; enqueued by the delete statements |
| composite repository | `internal/repository/media/repository.go` | none: the goroutine of a request, between its calls | `Create`, `GetContent`, deletes |
| use cases | `internal/application/media/service.go` | none | `Upload`, `Get`, `Download`, `List`, `Delete`, `DeleteByIDs`, `DeleteAllMine` |
| deletion worker | `internal/application/media/blob_worker.go` | the task `RunOnce` holds | `Run`, `RunOnce` |
| HTTP handlers, router | `internal/transport/http` | none | parse, validate, map errors to statuses |
| process lifecycle | `cmd/server/main.go`, `internal/platform/postgres/postgres.go` | connections, deferred calls, signal context, worker, server | start, serve, shutdown, exit |
| clearing tool | `cmd/dbclear`, `internal/platform/postgres/clear.go` | none | truncates all tables |
| configuration, health, responses | `internal/config`, `internal/transport/http` | none | parsing, probes, formatting |

A request runs in its own goroutine: handler, use case, composite repository,
then one call after another to PostgreSQL and S3. Requests share nothing but
the two stores. Each process runs one worker, and processes share the queue
table. `Upload` stores the object, then inserts the row, and removes the object
again if the insert fails. A delete removes the rows and enqueues one task for
each in one SQL statement, then removes the objects itself as well as it can;
the worker later claims each task and removes the object once more.

The repository's own README still describes attaching media to apiaries and
soft deletes, neither of which the code has; the model follows the code.

### What is hard

- The client may choose the media id, so two uploads can race on one id, and an
  id that was deleted can be uploaded again.
- A failed call may have taken effect: the reply was lost, or the 30 second
  request timeout struck. The S3 client library also retries by itself, and a
  retry of a create-only put can find its own object.
- `Create`, `GetContent`, the deletes and `RunOnce` each make several calls, and
  anything may run between two of them, or the process may die there.
- A task is named by its media id alone: a worker that reports late changes
  whatever task that id has by then.
- Leases, due times and backoff decide who may claim a task, and when.
- The worker's calls have no deadline, shutdown has half the time of a request,
  and the deferred calls of `run` wait for connections others hold.
- `dbclear` empties the tables under a running service.
- `List` and `DeleteByIDs` count, cap and order ids that a client may repeat and
  spell in several ways.

### What makes each component correct

- Composite repository and stores: a row has the object it describes; a download
  returns the bytes of its row; rows leave only by their owner's delete, with a
  task for each; a completed task means that the object is gone.
- Worker and queue: deleted content goes away in the end, every task completes,
  two workers do not hold one task, attempts are spaced, no task starves.
- Process: it ends when it is told to, whatever hangs; when its server failed it
  ends too, unless it hangs in one known place; it closes what it opened, and cuts off only requests that outlast their grace.
- Clearing tool: what it leaves behind never becomes the content of a later row.
- Upload checks: one size limit out of two checks, and a stored type that fits
  the bytes.
- `List` and `DeleteByIDs`: the answer follows the order of the query, the cap
  counts distinct ids, a delete is all or nothing.

## 2. The modules

| Module | Models |
|---|---|
| `MediaTypes` | the sets of users, ids, contents; `Row` |
| `BlobStore` | the bucket, and `Put`, `Get`, `DeleteObject` with their outcomes |
| `MediaTables` | `media` and `media_blob_deletion_tasks`, one operator per statement |
| `MediaRepository` | requests: one action per call of `Upload`, `Download` and the deletes |
| `BlobDeletionWorker` | `RunOnce`: one action per call |
| `MediaService` | requests and workers over the two stores; properties; fairness |
| `DeletionTasks` | abstract: what the task queue promises, without leases, clocks or failures |
| `MediaCatalog` | abstract: what the service promises of rows and tasks, without objects or requests |
| `MediaServiceInv` | the inductive invariant `IInv` of the service |
| `DocumentedClaims` | what comments and tests say and the code does not keep |
| `DataClearing` | `dbclear` at any moment beside the running service; `ClearInv` |
| `BlobDeletionQueue` | the queue with a clock: due times, leases, backoff, `ORDER BY`; `QueueInv` |
| `ServerProcess` | `run` of `cmd/server`: settings, connections, worker, server, signal, shutdown, deferred calls; `ProcessInv` |
| `UploadChecks` | `POST /media` up to `Create`: body limit, form, fields, size and type |
| `ListMedia` | `GET /media?ids=` and `DELETE /media?ids=` from query to answer, one round of a loop per step; `ListInv` |
| `MediaServiceProofs`, `BlobDeletionQueueProofs`, `DataClearingProofs`, `ServerProcessProofs`, `ListMediaProofs`, `UploadChecksProofs` | the theorems about each of them, with their proofs |
| `MCMediaService`, `MCDataClearing`, `MCListMedia` | instances for TLC |

`MediaService` extends `MediaRepository` and `BlobDeletionWorker`, which both
extend `BlobStore` and `MediaTables`. `BlobDeletionQueue` is a second, more
detailed view of the tasks of `MediaTables`, where a pending task may be due,
and a lease may have ended, at any moment; it leaves out rows and objects.
`DataClearing` adds one action to `MediaService`, and extends `MediaServiceInv`
for the vocabulary of its invariant. `ServerProcess` stands alone:
it looks at the calls of requests and worker only for the connections they use
(requests still come on open connections after the server has failed),
and `MediaService` sees the end of a process as `Crash` and `CrashWorker`.

### What the modules implement

`DeletionTasks` is the queue as a caller would like to think of it: a set of open
tasks, and for each worker the task it took and whether it has removed the
object since. A task is closed only by a worker that took it while it was open
and has removed its object; several workers may hold one task. `MediaCatalog`
adds the rows: published once, never changed, withdrawn only by their owner and
together with an open task for each.

- `MediaService` implements `MediaCatalog` (`ImplementsCatalog`): the catalogue
  is the `media` table, a task is open while it is pending or processing, a
  worker holds the id it claimed and has removed the object once it is about to
  call `Complete`. All steps on objects and requests that leave rows and tasks
  alone are stuttering steps.
- `BlobDeletionQueue` implements `DeletionTasks` (`ImplementsTasks`) in the same
  way. Ticks, polls that find nothing and claims whose commit the worker never
  learns of stutter; a late `Retry` may open a closed task again, which is why
  `Release` allows it.

### Calls and their outcomes

Every operation on a store has a parameter `out`, the outcome its caller sees.
`"failed"` comes in two forms, without and with the effect. `Put` can report
`"exists"` after it created the object itself (a retry inside the S3 client).
An effect never comes later than the caller's next step: a call abandoned
by a timeout that takes effect only after other requests have run is not
modelled.

`blobs[id]`, `media[id]` and `tasks[id]` are the two stores. `req[r]` is the
stack of a request's goroutine: the call it makes next (`pc`) and the variables
it carries. `worker[w]` is that of `RunOnce`. Contents stand for an upload: its
bytes, and the name, type and size the row records of them; `req[r].content` is
what the row says, `req[r].body` the bytes read from S3.

The history variables change no behaviour and let properties say when a
promise is off: `unsure` (ids with an `INSERT` that committed and reported a
failure), `reborn` (ids whose object was created after a deletion task for
them), and in the queue `since` and `again` (tasks changed, by a delete or by a
worker that had outlived its lease, while another worker held them).

Operators under a comment that starts with "Slip:" are plausible mistakes in
the code. No specification uses them. Each is a mutation of the operator that
follows it, and shows that a property notices the difference.

## 3. What the runs check

| Run | Checks | Shows |
|---|---|---|
| `one_id` | `RowHasContent`, `CompletedMeansGone`, `DownloadMatchesRow`, `MissingNeverOnClean`, `IInv` | two users, two requests and two workers on one id, with all failures and crashes; the invariant of the proofs |
| `two_ids` | `TypeOK`, `ImplementsCatalog` | bulk deletes over rows of two owners, as steps of `MediaCatalog` |
| `live` | `DeletedContentGoes`, `TasksComplete` | two fair workers finish every task, however they fail and crash |
| `cleared` | `ClearSparesTheRest`, `ClearInv` | the tables emptied at any moment under two requests and a worker |
| `queue` | `QueueTypeOK`, `LeaseExclusive`, `QueueInv`, `ClaimsSpaced`, `ImplementsTasks`, `NoStarvation` | workers that outlive their leases and report late: two never hold a task within their leases unless it was changed under them, claims of a task are a lease or a backoff apart, and a task that always fails does not starve another |
| `lifecycle` | `ProcessTypeOK`, `CutOnlyAfterGrace`, `ClosedAtExit`, `HangsOnlyAfterFailure`, `ProcessInv`, `SignalEndsProcess`, `FailureEndsProcess` | a process with three requests, calls that hang, a server that fails and signals at any time, from its settings to its exit |
| `list` | `ListTypeOK`, `ListsInQueryOrder`, `CapCountsDistinct`, `ListInv`, `DeletesAllOrNothing` | all queries of up to four strings |
| `upload` | `UploadTypeOK`, `OneSizeLimit`, `StoredTypeFits` | sizes around both limits, all fields, extensions and sniffed types |

`IInv`, `QueueInv`, `ClearInv`, `ProcessInv` and `ListInv` are the inductive
invariants of the proofs in section 4.

Four runs check what a comment or a test says of the service, and TLC finds each
violated:

| Run | The text | What happens |
|---|---|---|
| `claim_row_content` | "a media row must never exist without its content" | an `INSERT` commits, is reported as failed, and `Create` removes the object; another upload may then store its own under the row |
| `claim_reuse` | "The id is fully free again: a new upload can reuse it" | the task of the delete is still pending, and the worker removes the new object |
| `claim_pending` | "Delete hard-deletes the media row and its stored content" | a late `Complete` closes a newer task whose object is still stored |
| `claim_conflict` | "so a miss here means the latter" (another user's media) | with one user only, an object without a row is reported as a conflict: the upload's own, when the S3 client's retry meets what its first attempt stored (the trace TLC gives), or that of an overlapping attempt, or an orphan |

The conditions in the properties that hold are these findings seen from the other
side: `RowHasContent` speaks of ids that are `Clean` (no deletion task ever, no
`unsure` insert), because `claim_reuse` and `claim_row_content` show that
without either condition it is false. `DownloadMatchesRow` excepts two kinds of
ids, because on both the code pairs a row with the bytes of another upload. On
`reborn` ids, a delete and an upload come between the two reads. On `unsure` ids
no delete is needed: the `INSERT` of one upload commits and is reported as
failed, its cleanup removes the object, another upload stores its own and then
meets the row, and a download in between returns the old row with the new bytes.
`MissingNeverOnClean` says of an id only that it is no longer clean when a
download finds no object. That a deletion task or a failed `INSERT` came between
the reads follows if the id was clean at the first of them; after `claim_reuse`
both reads come later. `ClearSparesTheRest` has the conditions of `RowHasContent`
and `CompletedMeansGone` (with histories that start again at a clear), and also
excepts ids whose object a request or a worker was about to remove when the tables
were emptied (`caught`): their object can go after a new row for the id has
appeared. An object that a clear
leaves behind blocks its id (`Put` is create-only) but never becomes the content
of another row.

One deadlock is in the code as it stands, and two properties say how far it
reaches. When the server has failed, nothing has ended the worker's context:
`db.Close` waits for the connection of a query that hangs, and `stop`, which would
end that query, is deferred to run after it (`CloseHangs`).
`HangsOnlyAfterFailure` says that this circle closes in no other process, neither
in a start that fails nor after a signal, and `FailureEndsProcess` that nothing
else keeps a process whose server failed from its exit: it exits, or it gets as
far as `db.Close` and stays there for ever. A signal ends the circle. The `select` of `run` may also take the
signal when the server has failed as well; the error is then lost and the exit
code is 0.

### Bounds

- One media id is enough for the races of `MediaService`: except for bulk
  deletes no action touches two ids. `two_ids` covers those. Two requests race
  on one id; that more of them bring nothing new is what the proofs say, for
  any number of requests. Two contents tell a row's own
  object from another one; two users tell owner and stranger; two workers let a
  lease end and the first worker report late.
- The service model has no counters and needs no bounds: its states are finite.
  TLC visits all of them.
- `BlobDeletionQueue`: times are relative to `NOW()`, in minutes. `Lease` is the
  code's own 2 minutes. `MaxExponent` is 1 instead of 8 and `MaxBackoff` 2 instead
  of 256; as in the code `MaxBackoff = 2^MaxExponent`. `MaxAge` bounds how long
  overdue tasks are told apart. With these values the backoff does not grow from
  one attempt to the next; that it may, up to any cap, is left to the proofs.
  `MaxHold` bounds how long `RunOnce` takes, one
  minute more than the lease, so that late reports happen. The safety properties
  are proved for every value of these. `attempt_count` stops growing in the
  model where the backoff stops growing.
- `ServerProcess`: two requests can hold a connection each while a third is
  cut off or finishes; there is one worker in a process. No bound is needed, and
  the safety properties are proved for any set of requests.
- `DataClearing`: one id, as above; any number of clears. Its properties are
  proved for any sets.
- `ListMedia`: `maxListIDs` is 2 and queries have up to 4 strings out of five,
  two of which denote one id and one of which is no id: below, at and above the
  cap, with and without repetition. Its properties are proved for every cap and
  every `MaxQuery`.
- `UploadChecks`: the file limit and the room for the form are 2 bytes each, and
  files and the rest of a body have up to 5: every order of the two sizes and
  the two limits. The table of extensions is the code's own. The properties are
  proved for every limit, room and `MaxBody`.

Symmetry is used in safety runs only. `lifecycle` alone does not check for
deadlock: a process that has exited stops.

### Fairness

`WorkerFairness` is about the worker and nothing else: a request may stop
anywhere. `Run` polls for as long as the process lives and `Claim` serves the
oldest task, so a task that stays claimable is claimed; a call that is repeated
again and again (claim, delete, complete) succeeds in the end (SF), which is the
assumption that outages end; `Retry` returns, with success or failure (WF).
`QueueFairness` assumes less of S3 - it may refuse an object for ever - and
shows that the others still get their turn. Each worker takes its steps (WF); a
claim of a task that could be claimed again and again succeeds in the end by
some worker, and so does a retry (SF): a retry statement that never succeeds
leaves its task at the head of the queue. A claim passes over
rows that another statement has locked (`SKIP LOCKED`), whichever they are; the
SF condition is about a claim that meets no locked row. `NoStarvation` excepts endless
re-deletion, since each delete statement sets `next_attempt_at` to now. All of
this rests on every call returning. `ServerProcess` does not assume that:
there a call under the signal context is only fair once that context has ended,
since every call takes it and returns when it ends. Requests are fair in their
queries only, which the router's 30 second timeout ends (2 seconds in
`ReadyHandler`). Their calls to S3 may hang for ever, because the compensating
delete of `Create` runs under `context.WithoutCancel` and so has no deadline; the
process need not wait for them, since `Shutdown` has a timeout and S3 takes no
connection of the pool. What does not wait is executed.

## 4. What is proved

`MediaServiceProofs` proves, for all sets of users, ids, contents, requests and
workers, finite or not, from `NoneIsNoValue` alone (`None` is no user, id,
content or row):

| Theorem | States |
|---|---|
| `TypeCorrect` | `Spec => []TypeOK` |
| `Inductive` | `Spec => []IInv` |
| `RowsHaveContent` | `Spec => []RowHasContent` |
| `CompletedAreGone` | `Spec => []CompletedMeansGone` |
| `DownloadsMatch` | `Spec => []DownloadMatchesRow` |
| `MissingMeansUnclean` | `Spec => []MissingNeverOnClean` |
| `ServiceImplementsCatalog` | `Spec => ImplementsCatalog` |

None of the four safety properties is inductive. `IInv` adds what each actor
relies on between two of its calls:

- `WellFormed`: a request between calls knows its user, id and content, and a
  worker with a task knows its id.
- `HoldersAlone`: on a clean id, the request that has stored the object and not
  yet inserted its row is the only one, its object is in place and there is no
  row. It needs `Put` to be create-only, and makes the cleanup safe: it can only
  remove the request's own object.
- `TaskedAreTainted`: an id with a task that is neither `reborn` nor `unsure`
  has no row and no upload under way, so a worker removes nobody's content.
- `SweptAreTasked`: objects are only swept or claimed under a task, so on a
  clean id no delete is under way.
- `RemovedBeforeComplete`: a worker at `Complete` has removed the object.
- `ReadersKeepContent`: between the two reads of a download the row is still
  there, or it was deleted and no other object has taken its place.

These lean on each other: `RowHasContent` needs `HoldersAlone` at the insert and
`SweptAreTasked` at every delete of an object, `HoldersAlone` needs
`SweptAreTasked`, `CompletedMeansGone` needs `RemovedBeforeComplete`, which needs
`TaskedAreTainted` when an insert meets a worker, and the properties of downloads
need `ReadersKeepContent`. The proof first shows `TypeOK` inductive, then takes
the actions one by one: a lemma per action shows that it preserves
`WellFormed` and each part of `Safety` that it can disturb.

The refinement needs `TypeOK` and `WellFormed` only: a lemma shows
that a step of a request either leaves rows and tasks alone or publishes or
withdraws rows (`RequestOnCatalog`), another that a step of a worker maps to one
of `Take`, `Remove` and `Release` or stutters (`WorkerOnCatalog`).

`BlobDeletionQueueProofs` proves, for all sets of workers and all sets of tasks,
every lease, backoff and duration of `RunOnce`, from `QueueConstants` and from
`PowersOfTwo` (what the proofs need to know of powers of two, which the provers
do not; TLC evaluates both):

| Theorem | States |
|---|---|
| `QueueInductive` | `QueueSpec => []QueueInv` |
| `QueueTypes` | `QueueSpec => []QueueTypeOK` |
| `LeasesExclude` | `QueueSpec => []LeaseExclusive` |
| `ClaimsAreSpaced` | `QueueSpec => ClaimsSpaced` |
| `QueueImplementsTasks` | `QueueSpec => ImplementsTasks` |

`QueueInv` adds to the types: `HoldersKnow` (a task in a worker's hands has been
claimed, so that its backoff is at least the first one), `LeaseCoversHolder`
(the lease of a task and the time its holder has had it make up at least a whole
lease, so no one else can claim it before the holder's time is up) and
`WaitAddsUp` (what is left to wait and the time since the last claim add up to
the lease while a task is processed, and to the shorter of lease and first
backoff while it is pending). The two sums are what a tick preserves: one side
loses the minute that the other side gains. That only a claim brings a task to
the start of a lease (`FreshLease`) then gives the spacing of claims.

`DataClearingProofs` proves, again for all sets and from `NoneIsNoValue` alone:

| Theorem | States |
|---|---|
| `ClearInductive` | `ClearSpec => []ClearInv` |
| `ClearSpares` | `ClearSpec => []ClearSparesTheRest` |

`IInv` does not survive a clear: afterwards a worker holds an id without a task,
a sweep goes on under rows that are gone. `ClearInv` says what is left of it, id
by id, for the ids that the last clear did not catch: `HolderKept`, `TaskKept` and
`RemoverKept` are `HoldersAlone`, `TaskedAreTainted`, and `SweptAreTasked` with
`RemovedBeforeComplete`, each for one id. This is possible because no action of
the service makes the state of one id depend on that of another. What is said
of downloads is left out. `Kept` puts the parts together; five lemmas say which
changes at an id preserve it (`LessKept` for everything that only takes away,
`PutKept`, `InsertKept`, `DeleteKept`, `QuietKept`), one lemma per action shows
that it makes such a change, and `ClearKeeps` shows that a clear leaves at an id
it does not catch an object and at most the one upload that stored it. That is
where `InHand` must also contain ids of an upload that was caught before or is
no longer clean: such an upload may insert its row for an object that is gone.

`ServerProcessProofs` proves, for every set of requests and without assumptions:

| Theorem | States |
|---|---|
| `ProcessInductive` | `ProcessSpec => []ProcessInv` |
| `ProcessTypes` | `ProcessSpec => []ProcessTypeOK` |
| `ExitClosesAll` | `ProcessSpec => []ClosedAtExit` |
| `GraceBeforeCut` | `ProcessSpec => []CutOnlyAfterGrace` |
| `HangMeansFailure` | `ProcessSpec => []HangsOnlyAfterFailure` |

`ClosedAtExit` needs to know how the stack of deferred calls got there:
`StackMatchesOpen` says which stack belongs to each statement of `run`, and that a
connection is open exactly while its close is on the stack. `GraceGiven`, which
speaks of the requests that are still alive when `run` returns as well as of the
ones cut off, rests on `ServesOnlyBetween`: there are no requests before the
server is up, and nothing is closed under them before `run` returns.
`HangsOnlyAfterFailure` rests on `WorkerOutlives`: the worker runs only after the
start, and `run` returns with the context still live only when the server failed.

`ListMediaProofs` proves, for every cap, every length of queries and every set of
strings and ids, from `ListConstants` (`Parse` gives an id or `NotUUID`):

| Theorem | States |
|---|---|
| `ListInductive` | `ListSpec => []ListInv` |
| `ListTypes` | `ListSpec => []ListTypeOK` |
| `ListKeepsOrder` | `ListSpec => []ListsInQueryOrder` |
| `CapIsOnDistinct` | `ListSpec => []CapCountsDistinct` |
| `DeletesAreWhole` | `ListSpec => DeletesAllOrNothing` |

What a loop computes for a list of any length would need an induction over the
list if the loop were a recursive operator. Here each round of a loop is
a step, so the induction is that of the specification and the loop's invariant a
part of `ListInv`: `Validated` (the strings passed are ids), `DedupIsPrefix`
(`dedup` has the ids of the strings passed, each once, by first place),
`Capped`, `OrderedIsPrefix` (the items so far are the caller's among the ids of
`dedup` passed). `CapCountsDistinct` follows since a sequence ordered by first
place has no repetition, so its length is the number of its ids.

`UploadChecksProofs` proves, for every limit and every room for the form, from
`UploadConstants` (they are natural numbers):

| Theorem | States |
|---|---|
| `UploadTypes` | `UploadSpec => []UploadTypeOK` |
| `SizeLimitIsOne` | `UploadSpec => []OneSizeLimit` |
| `StoredTypesFit` | `UploadSpec => []StoredTypeFits` |

The three together are inductive. `OneSizeLimit` is stated for the checks that
are still to come as well as for the answers, so that it says from which check on
a file is small enough.

Only model-checked: the liveness properties (`DeletedContentGoes`,
`TasksComplete`, `NoStarvation`, `SignalEndsProcess`, `FailureEndsProcess`), since
fairness and `ENABLED` are out of the prover's reach, and the four findings, which
are counterexamples. Every other property of a run is the statement of a theorem.

## 5. What is not modelled

- The numbers of HTTP statuses: answers are named by their error codes.
- Authentication and the router's middleware, which are library code: a request
  starts with the id of its user. `GetContent`'s legacy reader, which
  `cmd/server` does not wire.
- Parsing of the id in a path, and of settings that have a default; the liveness
  probe; response formatting; logging.
- The prompt of `dbclear`, and its redaction of the DSN.
- Migrations: they run before the service, and only the resulting tables are
  modelled.
- The end of an upload's body after the closing boundary of its form, which is
  never read: `UploadChecks` counts a body up to that boundary.
- What a second failure inside a library does while a process stops (an error of
  `redisClient.Close`, say): `run` ignores it.
- Effects of an abandoned call that come after other requests have run (see
  section 2).

## 6. Plan

Done: the service core with its findings, its inductive invariant and proofs; the
abstract catalogue and task set with both refinements checked and proved; the
timed queue; the process from start to exit; `dbclear`; list and bulk-delete
queries; the checks before an upload; proofs of all safety properties. Next:

1. Safety facts behind the liveness properties, proved for every value of the
   constants: that a task is open until it is completed and what a worker with a
   task can do next, so that only the appeal to fairness is left to TLC.
2. What holds of `reborn` and `unsure` ids without exception, to state how far the
   damage of the findings can reach.
