------------------------- MODULE MediaServiceProofs -------------------------
(***************************************************************************)
(* Proofs for MediaService, for any sets of users, ids, contents, requests *)
(* and workers.  First the types, then the inductive invariant IInv, from  *)
(* which the safety properties follow.                                     *)
(***************************************************************************)
EXTENDS MediaServiceInv, TLAPS

TypeInv == TypeOK /\ WellFormed

-----------------------------------------------------------------------------
(* The states a request can be in. *)

LEMMA FreeType == Free \in RequestState /\ Informed(Free)
  BY DEF Free, RequestState, PCs, Answers, Informed

LEMMA ReplyType ==
    ASSUME NEW a \in Answers \ {"content", "missing"}
    PROVE  /\ [Free EXCEPT !.answer = a] \in RequestState
           /\ Informed([Free EXCEPT !.answer = a])
  BY DEF Free, RequestState, PCs, Answers, Informed

LEMMA UploadingType ==
    ASSUME NEW u \in User, NEW id \in MediaID, NEW c \in Content, NEW client \in BOOLEAN
    PROVE  /\ Uploading(u, id, c, client) \in RequestState
           /\ Uploading(u, id, c, client).id = id
           /\ Uploading(u, id, c, client).user = u
           /\ Uploading(u, id, c, client).content = c
           /\ Uploading(u, id, c, client).answer = "none"
           /\ Uploading(u, id, c, client).todo = {}
  BY DEF Uploading, Free, RequestState, PCs, Answers

\* A request that knows its id moves on to another call.
LEMMA MoveType ==
    ASSUME NEW s \in RequestState, NEW pc \in PCs, NEW taken \in BOOLEAN,
           s.id \in MediaID, s.user \in User, s.content \in Content,
           s.answer = "none", s.todo = {}
    PROVE  /\ [s EXCEPT !.pc = pc] \in RequestState
           /\ Informed([s EXCEPT !.pc = pc])
           /\ [s EXCEPT !.pc = pc, !.taken = taken] \in RequestState
           /\ Informed([s EXCEPT !.pc = pc, !.taken = taken])
  BY DEF RequestState, PCs, Answers, Informed

\* One request changes to a state of the right kind, and no worker does.
LEMMA BecomeType ==
    ASSUME TypeInv, NEW r \in Request, NEW s \in RequestState, Informed(s),
           Become(r, s), UNCHANGED worker,
           BlobsTypeOK', TablesTypeOK', reborn' \subseteq MediaID
    PROVE  TypeInv'
<1>1. req' \in [Request -> RequestState]
  BY DEF TypeInv, TypeOK, RequestsTypeOK, Become
<1>2. \A q \in Request : Informed(req'[q])
  BY DEF TypeInv, TypeOK, RequestsTypeOK, WellFormed, Become
<1>3. RequestsTypeOK' /\ WorkersTypeOK'
  BY <1>1 DEF TypeInv, TypeOK, RequestsTypeOK, WorkersTypeOK
<1>4. WellFormed'
  BY <1>2 DEF TypeInv, WellFormed, Informed
<1> QED
  BY <1>3, <1>4 DEF TypeInv, TypeOK

LEMMA ReplyKeepsType ==
    ASSUME TypeInv, NEW r \in Request, NEW a \in Answers \ {"content", "missing"},
           Reply(r, a), UNCHANGED worker,
           BlobsTypeOK', TablesTypeOK', reborn' \subseteq MediaID
    PROVE  TypeInv'
  BY ReplyType, BecomeType DEF Reply

LEMMA OnIDConflictKeepsType ==
    ASSUME TypeInv, NEW r \in Request, NEW s \in RequestState,
           s.id \in MediaID, s.user \in User, s.content \in Content,
           s.answer = "none", s.todo = {},
           OnIDConflict(r, s), UNCHANGED worker,
           BlobsTypeOK', TablesTypeOK', reborn' \subseteq MediaID
    PROVE  TypeInv'
<1>1. CASE s.client
  <2>1. [s EXCEPT !.pc = "lookup"] \in RequestState /\ Informed([s EXCEPT !.pc = "lookup"])
    BY MoveType DEF PCs
  <2> QED
    BY <1>1, <2>1, BecomeType DEF OnIDConflict
<1>2. CASE ~ s.client
  BY <1>2, ReplyKeepsType DEF OnIDConflict, Answers
<1> QED
  BY <1>1, <1>2

-----------------------------------------------------------------------------
(* The tables and the object store keep their types. *)

LEMMA PutType ==
    ASSUME BlobsTypeOK, NEW id, NEW c \in Content, NEW out, Put(id, c, out)
    PROVE  BlobsTypeOK'
  BY DEF BlobsTypeOK, Put

LEMMA DeleteObjectType ==
    ASSUME BlobsTypeOK, NEW id, NEW out, DeleteObject(id, out)
    PROVE  BlobsTypeOK'
  BY DEF BlobsTypeOK, DeleteObject

LEMMA InsertType ==
    ASSUME TablesTypeOK, NEW id \in MediaID, NEW u \in User, NEW c \in Content,
           NEW out, Insert(id, u, c, out)
    PROVE  TablesTypeOK'
  BY DEF TablesTypeOK, Insert, tableVars, Row

LEMMA DeleteStatementType ==
    ASSUME TablesTypeOK, NEW u, NEW ids, NEW out, DeleteStatement(u, ids, out)
    PROVE  TablesTypeOK' /\ Matching(u, ids) \subseteq MediaID
  BY DEF TablesTypeOK, DeleteStatement, DeleteRows, Matching, OwnedBy, tableVars, Statuses

LEMMA SetStatusType ==
    ASSUME TablesTypeOK, NEW id, NEW status \in Statuses, NEW out, SetStatus(id, status, out)
    PROVE  TablesTypeOK'
  BY DEF TablesTypeOK, SetStatus

-----------------------------------------------------------------------------
(* Every step keeps the types. *)

LEMMA TypeInit == Init => TypeInv
<1> SUFFICES ASSUME Init PROVE TypeInv
  OBVIOUS
<1> USE DEF Init, BlobsInit, TablesInit, RequestsInit, WorkersInit
<1>1. BlobsTypeOK /\ TablesTypeOK
  BY DEF BlobsTypeOK, TablesTypeOK, Statuses
<1>2. RequestsTypeOK
  BY FreeType DEF RequestsTypeOK
<1>3. WorkersTypeOK
  BY DEF WorkersTypeOK, WorkerState, Idle
<1>4. WellFormed
  BY FreeType DEF WellFormed, Idle
<1> QED
  BY <1>1, <1>2, <1>3, <1>4 DEF TypeInv, TypeOK

LEMMA UploadType ==
    ASSUME TypeInv, UNCHANGED worker,
           NEW r \in Request, NEW u \in User, NEW id \in MediaID,
           NEW c \in Content, NEW client \in BOOLEAN,
           Upload(r, u, id, c, client)
    PROVE  TypeInv'
<1> DEFINE s == Uploading(u, id, c, client)
<1>1. BlobsTypeOK'
  BY PutType DEF TypeInv, TypeOK, Upload
<1>2. TablesTypeOK' /\ reborn' \subseteq MediaID
  BY DEF TypeInv, TypeOK, RequestsTypeOK, Upload, tableVars, TablesTypeOK
<1>3. /\ s \in RequestState /\ s.id \in MediaID /\ s.user \in User
      /\ s.content \in Content /\ s.answer = "none" /\ s.todo = {}
  BY UploadingType
<1> HIDE DEF s
<1>4. CASE Become(r, [s EXCEPT !.pc = "insert"])
  <2>1. [s EXCEPT !.pc = "insert"] \in RequestState /\ Informed([s EXCEPT !.pc = "insert"])
    BY <1>3, MoveType DEF PCs
  <2> QED
    BY <1>1, <1>2, <1>4, <2>1, BecomeType
<1>5. CASE OnIDConflict(r, s)
  BY <1>1, <1>2, <1>3, <1>5, OnIDConflictKeepsType
<1>6. CASE Reply(r, "error")
  BY <1>1, <1>2, <1>6, ReplyKeepsType DEF Answers
<1> QED
  BY <1>4, <1>5, <1>6 DEF Upload, s

LEMMA CreateRowType ==
    ASSUME TypeInv, UNCHANGED worker, NEW r \in Request, CreateRow(r)
    PROVE  TypeInv'
<1> DEFINE s == req[r]
<1>1. /\ s \in RequestState /\ s.id \in MediaID /\ s.user \in User
      /\ s.content \in Content /\ s.answer = "none" /\ s.todo = {}
  BY DEF TypeInv, TypeOK, RequestsTypeOK, WellFormed, Informed, CreateRow
<1>2. BlobsTypeOK' /\ reborn' \subseteq MediaID
  BY DEF TypeInv, TypeOK, RequestsTypeOK, BlobsTypeOK, CreateRow
<1>3. TablesTypeOK'
  BY <1>1, InsertType DEF TypeInv, TypeOK, CreateRow
<1> HIDE DEF s
<1>4. CASE Reply(r, "created")
  BY <1>2, <1>3, <1>4, ReplyKeepsType DEF Answers
<1>5. CASE Become(r, [s EXCEPT !.pc = "cleanup", !.taken = TRUE])
  <2>1. /\ [s EXCEPT !.pc = "cleanup", !.taken = TRUE] \in RequestState
        /\ Informed([s EXCEPT !.pc = "cleanup", !.taken = TRUE])
    BY <1>1, MoveType DEF PCs
  <2> QED
    BY <1>2, <1>3, <1>5, <2>1, BecomeType
<1>6. CASE Become(r, [s EXCEPT !.pc = "cleanup"])
  <2>1. [s EXCEPT !.pc = "cleanup"] \in RequestState /\ Informed([s EXCEPT !.pc = "cleanup"])
    BY <1>1, MoveType DEF PCs
  <2> QED
    BY <1>2, <1>3, <1>6, <2>1, BecomeType
<1> QED
  BY <1>4, <1>5, <1>6 DEF CreateRow, s

LEMMA CleanupBlobType ==
    ASSUME TypeInv, UNCHANGED worker, NEW r \in Request, CleanupBlob(r)
    PROVE  TypeInv'
<1>1. /\ req[r] \in RequestState /\ req[r].id \in MediaID
      /\ req[r].user \in User /\ req[r].content \in Content
      /\ req[r].answer = "none" /\ req[r].todo = {}
  BY DEF TypeInv, TypeOK, RequestsTypeOK, WellFormed, Informed, CleanupBlob
<1>2. TablesTypeOK' /\ reborn' \subseteq MediaID
  BY DEF TypeInv, TypeOK, RequestsTypeOK, TablesTypeOK, tableVars, CleanupBlob
<1>3. BlobsTypeOK'
  BY DeleteObjectType DEF TypeInv, TypeOK, CleanupBlob
<1>4. OnIDConflict(r, req[r]) \/ Reply(r, "error")
  BY DEF CleanupBlob
<1> QED
  BY <1>1, <1>2, <1>3, <1>4, OnIDConflictKeepsType, ReplyKeepsType DEF Answers

LEMMA LookupExistingType ==
    ASSUME TypeInv, UNCHANGED worker, NEW r \in Request, LookupExisting(r)
    PROVE  TypeInv'
<1>1. TablesTypeOK' /\ BlobsTypeOK' /\ reborn' \subseteq MediaID
  BY DEF TypeInv, TypeOK, RequestsTypeOK, TablesTypeOK, BlobsTypeOK, tableVars,
         LookupExisting
<1>2. \E a \in {"existed", "conflict"} : Reply(r, a)
  BY DEF LookupExisting
<1> QED
  BY <1>1, <1>2, ReplyKeepsType DEF Answers

LEMMA DeleteMetadataType ==
    ASSUME TypeInv, UNCHANGED worker, NEW r \in Request, NEW u \in User,
           NEW ids, NEW single \in BOOLEAN, DeleteMetadata(r, u, ids, single)
    PROVE  TypeInv'
<1> DEFINE s == [Free EXCEPT !.pc = "sweep", !.user = u, !.todo = Matching(u, ids)]
<1>1. BlobsTypeOK' /\ reborn' \subseteq MediaID
  BY DEF TypeInv, TypeOK, RequestsTypeOK, BlobsTypeOK, DeleteMetadata
<1>2. TablesTypeOK' /\ Matching(u, ids) \subseteq MediaID
  BY DeleteStatementType DEF TypeInv, TypeOK, DeleteMetadata
<1>3. s \in RequestState /\ Informed(s)
  BY <1>2 DEF Free, RequestState, PCs, Answers, Informed
<1>4. \/ \E a \in {"notfound", "deleted", "error"} : Reply(r, a)
      \/ Become(r, s)
  BY DEF DeleteMetadata
<1> HIDE DEF s
<1>5. CASE \E a \in {"notfound", "deleted", "error"} : Reply(r, a)
  BY <1>1, <1>2, <1>5, ReplyKeepsType DEF Answers
<1>6. CASE Become(r, s)
  BY <1>1, <1>2, <1>3, <1>6, BecomeType
<1> QED
  BY <1>4, <1>5, <1>6

LEMMA SweepBlobType ==
    ASSUME TypeInv, UNCHANGED worker, NEW r \in Request, NEW id \in MediaID,
           SweepBlob(r, id)
    PROVE  TypeInv'
<1> DEFINE s == [req[r] EXCEPT !.todo = req[r].todo \ {id}]
<1>1. TablesTypeOK' /\ reborn' \subseteq MediaID
  BY DEF TypeInv, TypeOK, RequestsTypeOK, TablesTypeOK, tableVars, SweepBlob
<1>2. BlobsTypeOK'
  BY DeleteObjectType DEF TypeInv, TypeOK, SweepBlob
<1>3. req[r] \in RequestState /\ Informed(req[r])
  BY DEF TypeInv, TypeOK, RequestsTypeOK, WellFormed
<1>4. s \in RequestState /\ Informed(s)
  BY <1>3 DEF RequestState, Informed
<1>5. Reply(r, "deleted") \/ Become(r, s)
  BY DEF SweepBlob
<1> HIDE DEF s
<1> QED
  BY <1>1, <1>2, <1>4, <1>5, ReplyKeepsType, BecomeType DEF Answers

LEMMA GetMediaType ==
    ASSUME TypeInv, UNCHANGED worker, NEW r \in Request, NEW u \in User,
           NEW id \in MediaID, GetMedia(r, u, id)
    PROVE  TypeInv'
<1>1. TablesTypeOK' /\ BlobsTypeOK' /\ reborn' \subseteq MediaID
  BY DEF TypeInv, TypeOK, RequestsTypeOK, TablesTypeOK, BlobsTypeOK, tableVars, GetMedia
<1>2. \E a \in {"found", "notfound", "error"} : Reply(r, a)
  BY DEF GetMedia
<1> QED
  BY <1>1, <1>2, ReplyKeepsType DEF Answers

LEMMA DownloadRowType ==
    ASSUME TypeInv, UNCHANGED worker, NEW r \in Request, NEW u \in User,
           NEW id \in MediaID, DownloadRow(r, u, id)
    PROVE  TypeInv'
<1> DEFINE s == [Free EXCEPT !.pc = "read", !.user = u, !.id = id,
                             !.content = media[id].content]
<1>1. TablesTypeOK' /\ BlobsTypeOK' /\ reborn' \subseteq MediaID
  BY DEF TypeInv, TypeOK, RequestsTypeOK, TablesTypeOK, BlobsTypeOK, tableVars,
         DownloadRow
<1>2. CASE GetByID(u, id) # None /\ Become(r, s)
  <2>1. media[id].content \in Content
    BY <1>2 DEF TypeInv, TypeOK, TablesTypeOK, Row, GetByID, OwnedBy
  <2>2. s \in RequestState /\ Informed(s)
    BY <2>1 DEF Free, RequestState, PCs, Answers, Informed
  <2> HIDE DEF s
  <2> QED
    BY <1>1, <1>2, <2>2, BecomeType
<1>3. CASE \E a \in {"notfound", "error"} : Reply(r, a)
  BY <1>1, <1>3, ReplyKeepsType DEF Answers
<1> QED
  BY <1>2, <1>3 DEF DownloadRow

LEMMA DownloadBlobType ==
    ASSUME TypeInv, UNCHANGED worker, NEW r \in Request, DownloadBlob(r)
    PROVE  TypeInv'
<1> DEFINE done  == [req[r] EXCEPT !.pc = "free", !.user = None]
           read  == [done EXCEPT !.answer = "content", !.body = Get(req[r].id)]
           empty == [done EXCEPT !.answer = "missing"]
<1>1. TablesTypeOK' /\ BlobsTypeOK' /\ reborn' \subseteq MediaID
  BY DEF TypeInv, TypeOK, RequestsTypeOK, TablesTypeOK, BlobsTypeOK, tableVars,
         DownloadBlob
<1>2. req[r] \in RequestState /\ req[r].id \in MediaID /\ req[r].todo = {}
  BY DEF TypeInv, TypeOK, RequestsTypeOK, WellFormed, Informed, DownloadBlob
<1>3. blobs[req[r].id] \in Content \cup {None}
  BY <1>2 DEF TypeInv, TypeOK, BlobsTypeOK
<1>4. /\ read \in RequestState /\ Informed(read)
      /\ empty \in RequestState /\ Informed(empty)
  BY <1>2, <1>3 DEF RequestState, PCs, Answers, Informed, Get
<1>5. Become(r, read) \/ Become(r, empty) \/ Reply(r, "error")
  BY DEF DownloadBlob
<1> HIDE DEF read, empty
<1> QED
  BY <1>1, <1>4, <1>5, ReplyKeepsType, BecomeType DEF Answers

LEMMA CrashType ==
    ASSUME TypeInv, UNCHANGED worker, NEW r \in Request, Crash(r)
    PROVE  TypeInv'
<1>1. TablesTypeOK' /\ BlobsTypeOK' /\ reborn' \subseteq MediaID
  BY DEF TypeInv, TypeOK, RequestsTypeOK, TablesTypeOK, BlobsTypeOK, tableVars, Crash
<1> QED
  BY <1>1, FreeType, BecomeType DEF Crash

LEMMA RequestStepType ==
    ASSUME TypeInv, UNCHANGED worker, NEW r \in Request, RequestStep(r)
    PROVE  TypeInv'
<1>1. CASE UploadStep(r)
  BY <1>1, UploadType, CreateRowType, CleanupBlobType, LookupExistingType
     DEF UploadStep
<1>2. CASE DeleteStep(r)
  BY <1>2, DeleteMetadataType, SweepBlobType
     DEF DeleteStep, Delete, DeleteByIDs, DeleteAllByUser
<1>3. CASE ReadStep(r)
  BY <1>3, GetMediaType, DownloadRowType, DownloadBlobType DEF ReadStep
<1>4. CASE Crash(r)
  BY <1>4, CrashType
<1> QED
  BY <1>1, <1>2, <1>3, <1>4 DEF RequestStep

LEMMA WorkerStepType ==
    ASSUME TypeInv, UNCHANGED <<req, reborn>>, NEW w \in Worker, WorkerStep(w)
    PROVE  TypeInv'
<1>1. worker' \in [Worker -> WorkerState]
      /\ \A v \in Worker : IF worker'[v].pc = "idle" THEN worker'[v].id = None
                            ELSE worker'[v].id \in MediaID
  BY DEF TypeInv, TypeOK, WorkersTypeOK, WorkerState, WellFormed, Idle, WorkerStep,
         ClaimTask, DeleteBlob, CompleteTask, RetryTask, CrashWorker
<1>2. BlobsTypeOK'
  BY DeleteObjectType DEF TypeInv, TypeOK, BlobsTypeOK, WorkerStep,
         ClaimTask, DeleteBlob, CompleteTask, RetryTask, CrashWorker
<1>3. TablesTypeOK'
  BY SetStatusType DEF TypeInv, TypeOK, TablesTypeOK, Statuses, tableVars, WorkerStep,
         ClaimTask, DeleteBlob, CompleteTask, RetryTask, CrashWorker,
         Claim, Complete, Retry
<1>4. RequestsTypeOK' /\ \A r \in Request : Informed(req'[r])
  BY DEF TypeInv, TypeOK, RequestsTypeOK, WellFormed
<1> QED
  BY <1>1, <1>2, <1>3, <1>4 DEF TypeInv, TypeOK, WorkersTypeOK, WellFormed, Informed

LEMMA TypeNext == TypeInv /\ [Next]_vars => TypeInv'
<1> SUFFICES ASSUME TypeInv, [Next]_vars PROVE TypeInv'
  OBVIOUS
<1>1. CASE Next
  BY <1>1, RequestStepType, WorkerStepType DEF Next
<1>2. CASE UNCHANGED vars
  BY <1>2 DEF TypeInv, TypeOK, BlobsTypeOK, TablesTypeOK, RequestsTypeOK,
              WorkersTypeOK, WellFormed, Informed, vars, tableVars
<1> QED
  BY <1>1, <1>2

\* Every variable keeps its type.  (WellFormed is needed with it: the row an
\* upload inserts is made of what its request holds.)
THEOREM TypeCorrect == Spec => []TypeOK
<1>1. Init => TypeInv
  BY TypeInit
<1>2. TypeInv /\ [Next]_vars => TypeInv'
  BY TypeNext
<1>3. TypeInv => TypeOK
  BY DEF TypeInv
<1> QED
  BY <1>1, <1>2, <1>3, PTL DEF Spec

-----------------------------------------------------------------------------
(* The inductive invariant. *)

\* What a request does to its own state.
LEMMA BecomeEffect ==
    ASSUME TypeInv, NEW r \in Request, NEW s, Become(r, s)
    PROVE  req'[r] = s /\ \A q \in Request \ {r} : req'[q] = req[q]
  BY DEF TypeInv, TypeOK, RequestsTypeOK, Become

\* A request that holds nothing another actor could disturb.
Neutral(s) ==
    /\ s.pc \notin {"insert", "cleanup", "read"}
    /\ s.answer \notin {"content", "missing"}
    /\ s.todo = {}

LEMMA ReplyNeutral ==
    ASSUME TypeInv, NEW r \in Request, NEW a \in Answers \ {"content", "missing"},
           Reply(r, a)
    PROVE  Neutral(req'[r]) /\ \A q \in Request \ {r} : req'[q] = req[q]
<1>1. Neutral([Free EXCEPT !.answer = a])
  BY DEF Free, Answers, Neutral
<1> QED
  BY <1>1, BecomeEffect DEF Reply

LEMMA OnIDConflictNeutral ==
    ASSUME TypeInv, NEW r \in Request, NEW s \in RequestState,
           s.todo = {}, s.answer = "none", OnIDConflict(r, s)
    PROVE  Neutral(req'[r]) /\ \A q \in Request \ {r} : req'[q] = req[q]
<1>1. Neutral([s EXCEPT !.pc = "lookup"])
  BY DEF RequestState, Neutral
<1> QED
  BY <1>1, BecomeEffect, ReplyNeutral DEF OnIDConflict, Answers

\* Blobs and tables stay as they are, and r ends up with nothing.
LEMMA WithdrawSafe ==
    ASSUME IInv, NEW r \in Request, Neutral(req'[r]),
           \A q \in Request \ {r} : req'[q] = req[q],
           UNCHANGED <<blobs, media, tasks, unsure, reborn, worker>>
    PROVE  Safety'
<1> USE DEF IInv, Safety, Neutral
<1>1. RowHasContent'
  BY DEF RowHasContent, Clean
<1>2. CompletedMeansGone'
  BY DEF CompletedMeansGone
<1>3. DownloadMatchesRow'
  BY DEF DownloadMatchesRow
<1>4. MissingNeverOnClean'
  BY DEF MissingNeverOnClean, Clean
<1>5. HoldersAlone'
  BY DEF HoldersAlone, Holds, Clean
<1>6. TaskedAreTainted'
  BY DEF TaskedAreTainted, Holds, Tainted
<1>7. SweptAreTasked'
  BY DEF SweptAreTasked
<1>8. RemovedBeforeComplete'
  BY DEF RemovedBeforeComplete
<1>9. ReadersKeepContent'
  BY DEF ReadersKeepContent, Reads, Clean, Tainted
<1> QED
  BY <1>1, <1>2, <1>3, <1>4, <1>5, <1>6, <1>7, <1>8, <1>9

\* The object of id is created: by an upload that goes on to insert its row, or
\* by one that was told it failed.
LEMMA PutSafe ==
    ASSUME IInv, NEW r \in Request, NEW id \in MediaID, NEW c \in Content,
           \A q \in Request \ {r} : req'[q] = req[q],
           blobs[id] = None, blobs' = [blobs EXCEPT ![id] = c],
           reborn' = IF tasks[id] # "none" THEN reborn \cup {id} ELSE reborn,
           UNCHANGED <<media, tasks, unsure, worker>>,
           \/ Neutral(req'[r])
           \/ /\ req'[r].pc = "insert" /\ req'[r].id = id /\ req'[r].content = c
              /\ req'[r].todo = {} /\ req'[r].answer = "none"
    PROVE  Safety'
<1>0. /\ blobs'[id] = c /\ c # None
      /\ \A i \in MediaID \ {id} : blobs'[i] = blobs[i]
      /\ \A q \in Request : req'[q].todo = {} \/ req'[q] = req[q]
      /\ \A q \in Request : req'[q].pc = "read" => req'[q] = req[q]
      /\ \A q \in Request : req'[q].answer \in {"content", "missing"} => req'[q] = req[q]
      /\ reborn \subseteq reborn'
      /\ \A i \in reborn' : i \in reborn \/ (i = id /\ tasks[i] # "none")
      /\ tasks[id] # "none" => id \in reborn'
  BY NoneIsNoValue DEF IInv, TypeOK, BlobsTypeOK, Neutral
<1> USE DEF IInv, Safety
<1>1. RowHasContent'
  <2>1. ASSUME media[id] # None, Clean(id) PROVE FALSE
    BY <2>1, NoneIsNoValue DEF RowHasContent, TypeOK, TablesTypeOK, Row
  <2> QED
    BY <1>0, <2>1 DEF RowHasContent, Clean
<1>2. CompletedMeansGone'
  BY <1>0 DEF CompletedMeansGone
<1>3. DownloadMatchesRow'
  BY <1>0 DEF DownloadMatchesRow
<1>4. MissingNeverOnClean'
  BY <1>0 DEF MissingNeverOnClean, Clean
<1>5. HoldersAlone'
  <2>1. ASSUME Clean(id), NEW q \in Request, Holds(q, id) PROVE FALSE
    BY <2>1, NoneIsNoValue DEF HoldersAlone, Holds, WellFormed, Informed
  <2>2. media[id] = None \/ ~ Clean(id)
    BY NoneIsNoValue DEF RowHasContent, TypeOK, TablesTypeOK, Row
  <2> QED
    BY <1>0, <2>1, <2>2 DEF HoldersAlone, Holds, Clean, Neutral
<1>6. TaskedAreTainted'
  BY <1>0 DEF TaskedAreTainted, Holds, Tainted, Neutral
<1>7. SweptAreTasked'
  BY <1>0 DEF SweptAreTasked
<1>8. RemovedBeforeComplete'
  BY <1>0 DEF RemovedBeforeComplete, SweptAreTasked, WellFormed
<1>9. ReadersKeepContent'
  BY <1>0 DEF ReadersKeepContent, Reads, Clean, Tainted
<1> QED
  BY <1>1, <1>2, <1>3, <1>4, <1>5, <1>6, <1>7, <1>8, <1>9

\* The object of id is removed, or not, by an actor that may do so: the id has
\* a deletion task, or r stored the object and gives it up.
LEMMA RemoveSafe ==
    ASSUME IInv, NEW id \in MediaID,
           blobs' = blobs \/ blobs' = [blobs EXCEPT ![id] = None],
           UNCHANGED <<media, tasks, unsure, reborn>>,
           \A q \in Request :
               \/ req'[q] = req[q]
               \/ /\ req'[q].pc \notin {"insert", "cleanup", "read"}
                  /\ req'[q].answer \notin {"content", "missing"}
                  /\ req'[q].todo \subseteq req[q].todo,
           \A w \in Worker :
               \/ worker'[w] = worker[w]
               \/ /\ worker[w].pc # "idle" /\ worker'[w].id = worker[w].id
                  /\ worker'[w].pc = "complete" => blobs'[worker[w].id] = None,
           \/ tasks[id] # "none"
           \/ \E r \in Request : Holds(r, id) /\ Neutral(req'[r])
    PROVE  Safety'
<1>0. /\ \A i \in MediaID : blobs'[i] \in {blobs[i], None}
      /\ \A i \in MediaID \ {id} : blobs'[i] = blobs[i]
  BY DEF IInv, TypeOK, BlobsTypeOK
<1> USE DEF IInv, Safety
<1>1. RowHasContent'
  BY <1>0 DEF RowHasContent, Clean, HoldersAlone
<1>2. CompletedMeansGone'
  BY <1>0 DEF CompletedMeansGone
<1>3. DownloadMatchesRow'
  BY DEF DownloadMatchesRow
<1>4. MissingNeverOnClean'
  BY DEF MissingNeverOnClean, Clean
<1>5. HoldersAlone'
  <2>1. ASSUME NEW q \in Request, NEW i \in MediaID, Holds(q, i)', Clean(i)
        PROVE  blobs'[i] = req'[q].content /\ Holds(q, i) /\ req'[q] = req[q]
    <3>1. Holds(q, i) /\ req'[q] = req[q] /\ blobs[i] = req[q].content
      BY <2>1 DEF HoldersAlone, Holds
    <3>2. CASE i # id
      BY <1>0, <3>1, <3>2
    <3>3. CASE i = id
      <4>1. PICK r \in Request : Holds(r, id) /\ Neutral(req'[r])
        BY <2>1, <3>3 DEF Clean
      <4>2. q = r
        BY <2>1, <3>1, <3>3, <4>1 DEF HoldersAlone
      <4> QED
        BY <2>1, <4>1, <4>2 DEF Holds, Neutral
    <3> QED
      BY <3>2, <3>3
  <2>2. \A q \in Request, i \in MediaID : Holds(q, i)' => Holds(q, i)
    BY DEF Holds
  <2> QED
    BY <2>1, <2>2 DEF HoldersAlone, Clean
<1>6. TaskedAreTainted'
  BY DEF TaskedAreTainted, Holds, Tainted
<1>7. SweptAreTasked'
  BY DEF SweptAreTasked
<1>8. RemovedBeforeComplete'
  BY <1>0 DEF RemovedBeforeComplete, WellFormed
<1>9. ReadersKeepContent'
  BY <1>0 DEF ReadersKeepContent, Reads, Clean, Tainted, HoldersAlone
<1> QED
  BY <1>1, <1>2, <1>3, <1>4, <1>5, <1>6, <1>7, <1>8, <1>9

\* Only the deletion tasks of ids that have one change, and no worker that is
\* about to complete a task is added.
LEMMA StatusSafe ==
    ASSUME IInv, NEW id \in MediaID, tasks[id] # "none", NEW status \in Statuses \ {"none"},
           tasks' = tasks \/ tasks' = [tasks EXCEPT ![id] = status],
           status = "completed" => id \in reborn \/ blobs[id] = None,
           UNCHANGED <<media, unsure, blobs, req, reborn>>,
           \A w \in Worker :
               \/ worker'[w] = worker[w]
               \/ worker'[w].pc = "idle"
               \/ worker'[w].pc = "delete" /\ worker'[w].id = id
    PROVE  Safety'
<1>0. /\ \A i \in MediaID : tasks'[i] = "none" <=> tasks[i] = "none"
      /\ \A i \in MediaID : tasks'[i] = "completed" =>
             tasks[i] = "completed" \/ (i = id /\ status = "completed")
  BY DEF IInv, TypeOK, TablesTypeOK
<1> USE DEF IInv, Safety
<1>1. RowHasContent'
  BY <1>0 DEF RowHasContent, Clean
<1>2. CompletedMeansGone'
  BY <1>0 DEF CompletedMeansGone
<1>3. DownloadMatchesRow'
  BY DEF DownloadMatchesRow
<1>4. MissingNeverOnClean'
  BY <1>0 DEF MissingNeverOnClean, Clean, WellFormed, Informed
<1>5. HoldersAlone'
  BY <1>0 DEF HoldersAlone, Holds, Clean
<1>6. TaskedAreTainted'
  BY <1>0 DEF TaskedAreTainted, Holds, Tainted
<1>7. SweptAreTasked'
  BY <1>0 DEF SweptAreTasked, TypeOK, RequestsTypeOK, RequestState, WellFormed
<1>8. RemovedBeforeComplete'
  BY DEF RemovedBeforeComplete
<1>9. ReadersKeepContent'
  BY <1>0 DEF ReadersKeepContent, Reads, Clean, Tainted
<1> QED
  BY <1>1, <1>2, <1>3, <1>4, <1>5, <1>6, <1>7, <1>8, <1>9

\* A row is inserted by r, whose object is in place.  If the INSERT is reported
\* as failed the id is no longer clean, and r goes on to remove the object.
LEMMA InsertSafe ==
    ASSUME IInv, NEW r \in Request, req[r].pc = "insert",
           NEW u \in User,
           media[req[r].id] = None,
           media' = [media EXCEPT ![req[r].id] = [user |-> u, content |-> req[r].content]],
           \A q \in Request \ {r} : req'[q] = req[q],
           UNCHANGED <<blobs, tasks, reborn, worker>>,
           req'[r].todo \subseteq req[r].todo,
           req'[r].answer \notin {"content", "missing"},
           \/ Neutral(req'[r]) /\ unsure' = unsure
           \/ /\ req'[r].pc = "cleanup" /\ req'[r].id = req[r].id
              /\ unsure' = unsure \cup {req[r].id}
    PROVE  Safety'
<1> DEFINE id == req[r].id
           c  == req[r].content
<1>0. /\ id \in MediaID /\ c \in Content
      /\ media'[id] # None /\ media'[id].content = c
      /\ \A i \in MediaID \ {id} : media'[i] = media[i]
      /\ unsure \subseteq unsure' /\ unsure' \subseteq unsure \cup {id}
      /\ Holds(r, id)
  BY NoneIsNoValue DEF IInv, TypeOK, TablesTypeOK, WellFormed, Informed, Row, Holds
<1>a. \A q \in Request :
          /\ req'[q].pc = "read" => req'[q] = req[q]
          /\ req'[q].answer \in {"content", "missing"} => req'[q] = req[q]
          /\ req'[q].todo \subseteq req[q].todo
  BY DEF Neutral
<1>b. \A q \in Request, i \in MediaID :
          Holds(q, i)' => Holds(q, i) /\ (q = r => i \in unsure')
  BY <1>0 DEF Holds, Neutral
<1> HIDE DEF id, c
<1> USE DEF IInv, Safety
<1>1. RowHasContent'
  <2>1. Clean(id) => blobs[id] = c
    BY <1>0 DEF HoldersAlone, c
  <2> QED
    BY <1>0, <2>1 DEF RowHasContent, Clean
<1>2. CompletedMeansGone'
  BY DEF CompletedMeansGone
<1>3. DownloadMatchesRow'
  BY <1>0, <1>a DEF DownloadMatchesRow
<1>4. MissingNeverOnClean'
  BY <1>0, <1>a DEF MissingNeverOnClean, Clean
<1>5. HoldersAlone'
  <2> SUFFICES ASSUME NEW q \in Request, NEW i \in MediaID, Holds(q, i)', Clean(i)'
               PROVE  /\ blobs[i] = req'[q].content
                      /\ media'[i] = None
                      /\ \A p \in Request : Holds(p, i)' => p = q
    BY DEF HoldersAlone
  <2>1. Holds(q, i) /\ Clean(i) /\ q # r
    BY <1>0, <1>b DEF Clean
  <2>2. i # id
    BY <1>0, <2>1 DEF HoldersAlone
  <2> QED
    BY <1>0, <1>b, <2>1, <2>2 DEF HoldersAlone
<1>6. TaskedAreTainted'
  BY <1>0, <1>b DEF TaskedAreTainted, Tainted
<1>7. SweptAreTasked'
  BY <1>a DEF SweptAreTasked
<1>8. RemovedBeforeComplete'
  BY DEF RemovedBeforeComplete
<1>9. ReadersKeepContent'
  <2> SUFFICES ASSUME NEW q \in Request, NEW i \in MediaID, Reads(q, i)'
               PROVE  /\ Clean(i)' => media'[i] # None /\ media'[i].content = req'[q].content
                      /\ tasks[i] # "none" /\ ~ Tainted(i)' => blobs[i] \in {req'[q].content, None}
    BY DEF ReadersKeepContent
  <2>1. Reads(q, i) /\ req'[q] = req[q]
    BY <1>a DEF Reads
  <2>2. Clean(i)' => i # id
    BY <1>0, <2>1 DEF ReadersKeepContent, Clean, id
  <2> QED
    BY <1>0, <2>1, <2>2 DEF ReadersKeepContent, Clean, Tainted
<1> QED
  BY <1>1, <1>2, <1>3, <1>4, <1>5, <1>6, <1>7, <1>8, <1>9

\* Nothing happens but that r turns from inserting its row to removing its object.
LEMMA ToCleanupSafe ==
    ASSUME IInv, NEW r \in Request, req[r].pc = "insert",
           \A q \in Request \ {r} : req'[q] = req[q],
           req'[r].pc = "cleanup", req'[r].id = req[r].id,
           req'[r].content = req[r].content, req'[r].todo = req[r].todo,
           req'[r].answer = "none",
           UNCHANGED <<blobs, media, tasks, unsure, reborn, worker>>
    PROVE  Safety'
<1>0. \A q \in Request :
          /\ req'[q].content = req[q].content
          /\ req'[q].todo = req[q].todo
          /\ req'[q].pc = "read" => req'[q] = req[q]
          /\ req'[q].answer \in {"content", "missing"} => req'[q] = req[q]
          /\ \A i \in MediaID : Holds(q, i)' <=> Holds(q, i)
  BY DEF Holds
<1> USE DEF IInv, Safety
<1>1. RowHasContent' /\ CompletedMeansGone' /\ RemovedBeforeComplete'
  BY DEF RowHasContent, Clean, CompletedMeansGone, RemovedBeforeComplete
<1>2. DownloadMatchesRow' /\ MissingNeverOnClean'
  BY <1>0 DEF DownloadMatchesRow, MissingNeverOnClean, Clean
<1>3. HoldersAlone' /\ TaskedAreTainted'
  BY <1>0 DEF HoldersAlone, TaskedAreTainted, Clean, Tainted
<1>4. SweptAreTasked'
  BY <1>0 DEF SweptAreTasked
<1>5. ReadersKeepContent'
  BY <1>0 DEF ReadersKeepContent, Reads, Clean, Tainted
<1> QED
  BY <1>1, <1>2, <1>3, <1>4, <1>5

\* The rows of some ids are removed, each leaving a pending deletion task.
LEMMA DeleteRowsSafe ==
    ASSUME IInv, NEW r \in Request, NEW ids \in SUBSET MediaID,
           \A id \in ids : media[id] # None,
           DeleteRows(ids),
           \A q \in Request \ {r} : req'[q] = req[q],
           UNCHANGED <<blobs, reborn, worker>>,
           req'[r].pc \notin {"insert", "cleanup", "read"},
           req'[r].answer \notin {"content", "missing"},
           req'[r].todo \subseteq ids
    PROVE  Safety'
<1>0. /\ \A i \in ids : media'[i] = None /\ tasks'[i] = "pending"
      /\ \A i \in MediaID \ ids : media'[i] = media[i] /\ tasks'[i] = tasks[i]
      /\ unsure' = unsure
  BY DEF DeleteRows
<1>a. \A q \in Request :
          /\ req'[q].pc \in {"insert", "cleanup", "read"} => req'[q] = req[q]
          /\ req'[q].answer \in {"content", "missing"} => req'[q] = req[q]
          /\ req'[q].todo \subseteq req[q].todo \cup ids
  OBVIOUS
<1> USE DEF IInv, Safety
<1>b. /\ \A i \in MediaID : tasks[i] # "none" => tasks'[i] # "none"
      /\ \A i \in MediaID : Clean(i)' => Clean(i) /\ i \notin ids
  BY <1>0 DEF Clean
<1>1. RowHasContent'
  BY <1>0, <1>b DEF RowHasContent
<1>2. CompletedMeansGone'
  BY <1>0 DEF CompletedMeansGone
<1>3. DownloadMatchesRow'
  BY <1>0, <1>a DEF DownloadMatchesRow
<1>4. MissingNeverOnClean'
  BY <1>a, <1>b DEF MissingNeverOnClean, WellFormed, Informed
<1>5. HoldersAlone'
  BY <1>0, <1>a, <1>b DEF HoldersAlone, Holds
<1>6. TaskedAreTainted'
  <2>1. ASSUME NEW i \in ids, ~ Tainted(i), NEW q \in Request, Holds(q, i)' PROVE FALSE
    <3>1. Holds(q, i)
      BY <1>a, <2>1 DEF Holds
    <3> QED
      BY <2>1, <3>1 DEF TaskedAreTainted, HoldersAlone, Clean, Tainted
  <2> QED
    BY <1>0, <1>a, <2>1 DEF TaskedAreTainted, Holds, Tainted
<1>7. SweptAreTasked'
  BY <1>0, <1>a, <1>b DEF SweptAreTasked, TypeOK, RequestsTypeOK, RequestState, WellFormed
<1>8. RemovedBeforeComplete'
  BY DEF RemovedBeforeComplete
<1>9. ReadersKeepContent'
  <2> SUFFICES ASSUME NEW q \in Request, NEW i \in MediaID, Reads(q, i)'
               PROVE  /\ Clean(i)' => media'[i] # None /\ media'[i].content = req'[q].content
                      /\ tasks'[i] # "none" /\ ~ Tainted(i)' => blobs[i] \in {req'[q].content, None}
    BY DEF ReadersKeepContent
  <2>1. Reads(q, i) /\ req'[q] = req[q]
    BY <1>a DEF Reads
  <2>2. Clean(i)' => media'[i] # None /\ media'[i].content = req'[q].content
    BY <1>0, <1>b, <2>1 DEF ReadersKeepContent
  <2>3. ASSUME tasks'[i] # "none", ~ Tainted(i)' PROVE blobs[i] \in {req'[q].content, None}
    <3>1. ~ Tainted(i)
      BY <1>0, <2>3 DEF Tainted
    <3>2. CASE tasks[i] # "none"
      BY <2>1, <3>1, <3>2 DEF ReadersKeepContent
    <3>3. CASE tasks[i] = "none"
      BY <2>1, <3>1, <3>3 DEF ReadersKeepContent, RowHasContent, Clean, Tainted
    <3> QED
      BY <3>2, <3>3
  <2> QED
    BY <2>2, <2>3
<1> QED
  BY <1>1, <1>2, <1>3, <1>4, <1>5, <1>6, <1>7, <1>8, <1>9

-----------------------------------------------------------------------------
(* Every action is one of these effects. *)

LEMMA UploadSafe ==
    ASSUME IInv, UNCHANGED worker,
           NEW r \in Request, NEW u \in User, NEW id \in MediaID,
           NEW c \in Content, NEW client \in BOOLEAN,
           Upload(r, u, id, c, client)
    PROVE  Safety'
<1> DEFINE s == Uploading(u, id, c, client)
<1>0. TypeInv
  BY DEF IInv, TypeInv
<1>1. s \in RequestState /\ s.todo = {} /\ s.answer = "none" /\ s.id = id /\ s.content = c
  BY UploadingType
<1> HIDE DEF s
<1>2. \/ Put(id, c, "ok") /\ Become(r, [s EXCEPT !.pc = "insert"])
      \/ Put(id, c, "exists") /\ OnIDConflict(r, s)
      \/ Put(id, c, "failed") /\ Reply(r, "error")
  BY DEF Upload, s
<1>3. UNCHANGED <<media, tasks, unsure>>
  BY DEF Upload, tableVars
<1>4. \/ blobs' = blobs
      \/ blobs[id] = None /\ blobs' = [blobs EXCEPT ![id] = c]
  BY <1>2 DEF Put, PreconditionFailed
<1>5. /\ blobs' = blobs => reborn' = reborn
      /\ blobs' # blobs => reborn' = IF tasks[id] # "none" THEN reborn \cup {id} ELSE reborn
  BY DEF Upload
<1>6. CASE OnIDConflict(r, s) \/ Reply(r, "error")
  <2>1. Neutral(req'[r]) /\ \A q \in Request \ {r} : req'[q] = req[q]
    BY <1>0, <1>1, <1>6, OnIDConflictNeutral, ReplyNeutral DEF Answers
  <2> QED
    BY <1>3, <1>4, <1>5, <2>1, WithdrawSafe, PutSafe
<1>7. CASE Put(id, c, "ok") /\ Become(r, [s EXCEPT !.pc = "insert"])
  <2>1. /\ req'[r] = [s EXCEPT !.pc = "insert"]
        /\ \A q \in Request \ {r} : req'[q] = req[q]
    BY <1>0, <1>7, BecomeEffect
  <2>2. /\ req'[r].pc = "insert" /\ req'[r].id = id /\ req'[r].content = c
        /\ req'[r].todo = {} /\ req'[r].answer = "none"
    BY <1>1, <2>1 DEF RequestState
  <2>3. blobs[id] = None /\ blobs' = [blobs EXCEPT ![id] = c] /\ blobs' # blobs
    <3>1. blobs[id] = None /\ blobs' = [blobs EXCEPT ![id] = c]
      BY <1>7 DEF Put, PreconditionFailed
    <3>2. blobs'[id] # blobs[id]
      BY <3>1, NoneIsNoValue DEF IInv, TypeOK, BlobsTypeOK
    <3> QED
      BY <3>1, <3>2
  <2> QED
    BY <1>3, <1>5, <2>1, <2>2, <2>3, PutSafe
<1> QED
  BY <1>2, <1>6, <1>7

LEMMA CreateRowSafe ==
    ASSUME IInv, UNCHANGED worker, NEW r \in Request, CreateRow(r)
    PROVE  Safety'
<1> DEFINE s == req[r]
<1>0. TypeInv /\ s \in RequestState /\ s.pc = "insert" /\ Informed(s)
  BY DEF IInv, TypeInv, TypeOK, RequestsTypeOK, WellFormed, CreateRow
<1>1. UNCHANGED <<blobs, reborn>> /\ UNCHANGED tasks
  BY DEF CreateRow, Insert, tableVars
<1>2. CASE Insert(s.id, s.user, s.content, "ok") /\ Reply(r, "created")
  <2>1. Neutral(req'[r]) /\ \A q \in Request \ {r} : req'[q] = req[q]
    BY <1>0, <1>2, ReplyNeutral DEF Answers
  <2>2. /\ media[s.id] = None /\ unsure' = unsure
        /\ media' = [media EXCEPT ![s.id] = [user |-> s.user, content |-> s.content]]
    BY <1>2 DEF Insert
  <2>3. req'[r].todo \subseteq req[r].todo /\ req'[r].answer \notin {"content", "missing"}
    BY <2>1 DEF Neutral
  <2> QED
    BY <1>0, <1>1, <2>1, <2>2, <2>3, InsertSafe DEF Informed
<1>3. CASE \/ /\ Insert(s.id, s.user, s.content, "conflict")
              /\ Become(r, [s EXCEPT !.pc = "cleanup", !.taken = TRUE])
           \/ /\ Insert(s.id, s.user, s.content, "failed")
              /\ Become(r, [s EXCEPT !.pc = "cleanup"])
  <2>1. /\ \A q \in Request \ {r} : req'[q] = req[q]
        /\ \/ req'[r] = [s EXCEPT !.pc = "cleanup", !.taken = TRUE]
           \/ req'[r] = [s EXCEPT !.pc = "cleanup"]
    BY <1>0, <1>3, BecomeEffect
  <2>2. /\ req'[r].pc = "cleanup" /\ req'[r].id = s.id /\ req'[r].content = s.content
        /\ req'[r].todo = s.todo /\ req'[r].answer = s.answer
    BY <1>0, <2>1 DEF RequestState
  <2>3. \/ media' = media /\ unsure' = unsure
        \/ /\ media[s.id] = None
           /\ media' = [media EXCEPT ![s.id] = [user |-> s.user, content |-> s.content]]
           /\ unsure' = unsure \cup {s.id}
    BY <1>3 DEF Insert, tableVars
  <2>3a. s.answer = "none"
    BY <1>0 DEF Informed
  <2>4. CASE media' = media /\ unsure' = unsure
    BY <1>0, <1>1, <2>1, <2>2, <2>3a, <2>4, ToCleanupSafe
  <2>5. CASE ~ (media' = media /\ unsure' = unsure)
    BY <1>0, <1>1, <2>1, <2>2, <2>3, <2>3a, <2>5, InsertSafe DEF Informed
  <2> QED
    BY <2>4, <2>5
<1> QED
  BY <1>2, <1>3 DEF CreateRow

LEMMA CleanupBlobSafe ==
    ASSUME IInv, UNCHANGED worker, NEW r \in Request, CleanupBlob(r)
    PROVE  Safety'
<1>1. /\ TypeInv /\ req[r] \in RequestState /\ req[r].pc = "cleanup"
      /\ req[r].id \in MediaID /\ req[r].answer = "none" /\ req[r].todo = {}
  BY DEF IInv, TypeInv, TypeOK, RequestsTypeOK, WellFormed, Informed, CleanupBlob
<1>2. Neutral(req'[r]) /\ \A q \in Request \ {r} : req'[q] = req[q]
  BY <1>1, OnIDConflictNeutral, ReplyNeutral DEF CleanupBlob, Answers
<1>3. Holds(r, req[r].id)
  BY <1>1 DEF Holds
<1>4. blobs' = blobs \/ blobs' = [blobs EXCEPT ![req[r].id] = None]
  BY DEF CleanupBlob, DeleteObject
<1>5. UNCHANGED <<media, tasks, unsure, reborn>>
  BY DEF CleanupBlob, tableVars
<1>6. \A q \in Request :
          \/ req'[q] = req[q]
          \/ /\ req'[q].pc \notin {"insert", "cleanup", "read"}
             /\ req'[q].answer \notin {"content", "missing"}
             /\ req'[q].todo \subseteq req[q].todo
  BY <1>2 DEF Neutral
<1> QED
  BY <1>1, <1>2, <1>3, <1>4, <1>5, <1>6, RemoveSafe

LEMMA LookupExistingSafe ==
    ASSUME IInv, UNCHANGED worker, NEW r \in Request, LookupExisting(r)
    PROVE  Safety'
<1>1. \E a \in {"existed", "conflict"} : Reply(r, a)
  BY DEF LookupExisting
<1>2. Neutral(req'[r]) /\ \A q \in Request \ {r} : req'[q] = req[q]
  BY <1>1, ReplyNeutral DEF IInv, TypeInv, Answers
<1> QED
  BY <1>2, WithdrawSafe DEF LookupExisting, tableVars

LEMMA DeleteMetadataSafe ==
    ASSUME IInv, UNCHANGED worker, NEW r \in Request, NEW u \in User,
           NEW ids, NEW single \in BOOLEAN, DeleteMetadata(r, u, ids, single)
    PROVE  Safety'
<1> DEFINE matched == Matching(u, ids)
           s == [Free EXCEPT !.pc = "sweep", !.user = u, !.todo = matched]
<1>0. TypeInv
  BY DEF IInv, TypeInv
<1>1. matched \in SUBSET MediaID /\ \A id \in matched : media[id] # None
  BY DEF Matching, OwnedBy
<1>2. UNCHANGED <<blobs, reborn>>
  BY DEF DeleteMetadata
<1>3. s.pc = "sweep" /\ s.answer = "none" /\ s.todo = matched
  BY DEF Free
<1>4. \/ \E a \in {"notfound", "deleted", "error"} : Reply(r, a)
      \/ Become(r, s) /\ DeleteRows(matched)
  BY DEF DeleteMetadata, DeleteStatement
<1>5. DeleteRows(matched) \/ UNCHANGED <<media, tasks, unsure>>
  BY DEF DeleteMetadata, DeleteStatement, tableVars
<1> HIDE DEF s, matched
<1>6. CASE \E a \in {"notfound", "deleted", "error"} : Reply(r, a)
  <2>1. Neutral(req'[r]) /\ \A q \in Request \ {r} : req'[q] = req[q]
    BY <1>0, <1>6, ReplyNeutral DEF Answers
  <2>2. CASE DeleteRows(matched)
    BY <1>1, <1>2, <2>1, <2>2, DeleteRowsSafe DEF Neutral
  <2>3. CASE UNCHANGED <<media, tasks, unsure>>
    BY <1>2, <2>1, <2>3, WithdrawSafe
  <2> QED
    BY <1>5, <2>2, <2>3
<1>7. CASE Become(r, s) /\ DeleteRows(matched)
  <2>1. req'[r] = s /\ \A q \in Request \ {r} : req'[q] = req[q]
    BY <1>0, <1>7, BecomeEffect
  <2> QED
    BY <1>1, <1>2, <1>3, <1>7, <2>1, DeleteRowsSafe
<1> QED
  BY <1>4, <1>6, <1>7

LEMMA SweepBlobSafe ==
    ASSUME IInv, UNCHANGED worker, NEW r \in Request, NEW id \in MediaID,
           SweepBlob(r, id)
    PROVE  Safety'
<1> DEFINE s == [req[r] EXCEPT !.todo = req[r].todo \ {id}]
<1>0. /\ TypeInv /\ req[r] \in RequestState
      /\ req[r].pc = "sweep" /\ req[r].answer = "none"
  BY DEF IInv, TypeInv, TypeOK, RequestsTypeOK, WellFormed, Informed, SweepBlob
<1>1. s.pc = "sweep" /\ s.answer = "none" /\ s.todo \subseteq req[r].todo
  BY <1>0 DEF RequestState
<1>2. Reply(r, "deleted") \/ Become(r, s)
  BY DEF SweepBlob
<1> HIDE DEF s
<1>3. /\ \A q \in Request \ {r} : req'[q] = req[q]
      /\ Neutral(req'[r]) \/ req'[r] = s
  BY <1>0, <1>2, BecomeEffect, ReplyNeutral DEF Answers
<1>4. \A q \in Request :
          \/ req'[q] = req[q]
          \/ /\ req'[q].pc \notin {"insert", "cleanup", "read"}
             /\ req'[q].answer \notin {"content", "missing"}
             /\ req'[q].todo \subseteq req[q].todo
  BY <1>1, <1>3 DEF Neutral
<1>5. tasks[id] # "none"
  BY DEF IInv, Safety, SweptAreTasked, SweepBlob
<1>6. blobs' = blobs \/ blobs' = [blobs EXCEPT ![id] = None]
  BY DEF SweepBlob, DeleteObject
<1> QED
  BY <1>4, <1>5, <1>6, RemoveSafe DEF SweepBlob, tableVars

LEMMA GetMediaSafe ==
    ASSUME IInv, UNCHANGED worker, NEW r \in Request, NEW u \in User,
           NEW id \in MediaID, GetMedia(r, u, id)
    PROVE  Safety'
<1>1. \E a \in {"found", "notfound", "error"} : Reply(r, a)
  BY DEF GetMedia
<1>2. Neutral(req'[r]) /\ \A q \in Request \ {r} : req'[q] = req[q]
  BY <1>1, ReplyNeutral DEF IInv, TypeInv, Answers
<1> QED
  BY <1>2, WithdrawSafe DEF GetMedia, tableVars

LEMMA DownloadRowSafe ==
    ASSUME IInv, UNCHANGED worker, NEW r \in Request, NEW u \in User,
           NEW id \in MediaID, DownloadRow(r, u, id)
    PROVE  Safety'
<1> DEFINE s == [Free EXCEPT !.pc = "read", !.user = u, !.id = id,
                             !.content = media[id].content]
<1>0. TypeInv
  BY DEF IInv, TypeInv
<1>1. UNCHANGED <<blobs, media, tasks, unsure, reborn>>
  BY DEF DownloadRow, tableVars
<1>2. CASE GetByID(u, id) # None /\ Become(r, s)
  <2>1. /\ s.pc = "read" /\ s.id = id /\ s.content = media[id].content
        /\ s.todo = {} /\ s.answer = "none"
    BY DEF Free
  <2>2. media[id] # None
    BY <1>2 DEF GetByID, OwnedBy
  <2> HIDE DEF s
  <2>3. req'[r] = s /\ \A q \in Request \ {r} : req'[q] = req[q]
    BY <1>0, <1>2, BecomeEffect
  <2> USE DEF IInv, Safety
  <2>4. RowHasContent' /\ CompletedMeansGone' /\ RemovedBeforeComplete'
    BY <1>1 DEF RowHasContent, Clean, CompletedMeansGone, RemovedBeforeComplete
  <2>5. DownloadMatchesRow' /\ MissingNeverOnClean'
    BY <1>1, <2>1, <2>3 DEF DownloadMatchesRow, MissingNeverOnClean, Clean
  <2>6. HoldersAlone' /\ TaskedAreTainted'
    BY <1>1, <2>1, <2>3 DEF HoldersAlone, TaskedAreTainted, Holds, Clean, Tainted
  <2>7. SweptAreTasked'
    BY <1>1, <2>1, <2>3 DEF SweptAreTasked
  <2>8. ReadersKeepContent'
    BY <1>1, <2>1, <2>2, <2>3
       DEF ReadersKeepContent, TaskedAreTainted, Reads, Clean, Tainted
  <2> QED
    BY <2>4, <2>5, <2>6, <2>7, <2>8
<1>3. CASE \E a \in {"notfound", "error"} : Reply(r, a)
  <2>1. Neutral(req'[r]) /\ \A q \in Request \ {r} : req'[q] = req[q]
    BY <1>0, <1>3, ReplyNeutral DEF Answers
  <2> QED
    BY <1>1, <2>1, WithdrawSafe
<1> QED
  BY <1>2, <1>3 DEF DownloadRow

LEMMA DownloadBlobSafe ==
    ASSUME IInv, UNCHANGED worker, NEW r \in Request, DownloadBlob(r)
    PROVE  Safety'
<1> DEFINE id    == req[r].id
           done  == [req[r] EXCEPT !.pc = "free", !.user = None]
           read  == [done EXCEPT !.answer = "content", !.body = Get(id)]
           empty == [done EXCEPT !.answer = "missing"]
<1>0. /\ TypeInv /\ req[r] \in RequestState /\ id \in MediaID
      /\ req[r].pc = "read" /\ req[r].todo = {} /\ Reads(r, id)
  BY DEF IInv, TypeInv, TypeOK, RequestsTypeOK, WellFormed, Informed, DownloadBlob, Reads
<1>1. UNCHANGED <<blobs, media, tasks, unsure, reborn>>
  BY DEF DownloadBlob, tableVars
<1>2. /\ read.pc = "free" /\ read.answer = "content" /\ read.todo = {} /\ read.id = id
      /\ read.content = req[r].content /\ read.body = blobs[id]
      /\ empty.pc = "free" /\ empty.answer = "missing" /\ empty.todo = {} /\ empty.id = id
  BY <1>0 DEF RequestState, Get
<1>3. \/ Get(id) # None /\ Become(r, read)
      \/ Get(id) = None /\ Become(r, empty)
      \/ Reply(r, "error")
  BY DEF DownloadBlob
<1> HIDE DEF read, empty, id
<1>4. CASE Reply(r, "error")
  <2>1. Neutral(req'[r]) /\ \A q \in Request \ {r} : req'[q] = req[q]
    BY <1>0, <1>4, ReplyNeutral DEF Answers
  <2> QED
    BY <1>1, <2>1, WithdrawSafe
<1>5. CASE (Get(id) # None /\ Become(r, read)) \/ (Get(id) = None /\ Become(r, empty))
  <2>1. /\ \A q \in Request \ {r} : req'[q] = req[q]
        /\ \/ blobs[id] # None /\ req'[r] = read
           \/ blobs[id] = None /\ req'[r] = empty
    BY <1>0, <1>5, BecomeEffect DEF Get
  <2> USE DEF IInv, Safety
  <2>2. RowHasContent' /\ CompletedMeansGone' /\ RemovedBeforeComplete'
    BY <1>1 DEF RowHasContent, Clean, CompletedMeansGone, RemovedBeforeComplete
  <2>3. Clean(id) => blobs[id] = req[r].content /\ blobs[id] # None
    BY <1>0, NoneIsNoValue
       DEF ReadersKeepContent, RowHasContent, TypeOK, TablesTypeOK, Row
  <2>4. DownloadMatchesRow'
    <3>1. blobs[id] # None /\ ~ Tainted(id) => blobs[id] = req[r].content
      BY <1>0, <2>3 DEF ReadersKeepContent, Clean, Tainted
    <3> QED
      BY <1>1, <1>2, <2>1, <3>1 DEF DownloadMatchesRow, Tainted
  <2>5. MissingNeverOnClean'
    BY <1>1, <1>2, <2>1, <2>3 DEF MissingNeverOnClean, Clean
  <2>6. HoldersAlone' /\ TaskedAreTainted'
    BY <1>1, <1>2, <2>1 DEF HoldersAlone, TaskedAreTainted, Holds, Clean, Tainted
  <2>7. SweptAreTasked'
    BY <1>1, <1>2, <2>1 DEF SweptAreTasked
  <2>8. ReadersKeepContent'
    BY <1>1, <1>2, <2>1 DEF ReadersKeepContent, Reads, Clean, Tainted
  <2> QED
    BY <2>2, <2>4, <2>5, <2>6, <2>7, <2>8
<1> QED
  BY <1>3, <1>4, <1>5

LEMMA CrashSafe ==
    ASSUME IInv, UNCHANGED worker, NEW r \in Request, Crash(r)
    PROVE  Safety'
<1>1. Neutral(Free)
  BY DEF Neutral, Free
<1>2. req'[r] = Free /\ \A q \in Request \ {r} : req'[q] = req[q]
  BY BecomeEffect DEF IInv, TypeInv, Crash
<1> QED
  BY <1>1, <1>2, WithdrawSafe DEF Crash, tableVars

LEMMA RequestStepSafe ==
    ASSUME IInv, UNCHANGED worker, NEW r \in Request, RequestStep(r)
    PROVE  Safety'
<1>1. CASE UploadStep(r)
  BY <1>1, UploadSafe, CreateRowSafe, CleanupBlobSafe, LookupExistingSafe
     DEF UploadStep
<1>2. CASE DeleteStep(r)
  BY <1>2, DeleteMetadataSafe, SweepBlobSafe
     DEF DeleteStep, Delete, DeleteByIDs, DeleteAllByUser
<1>3. CASE ReadStep(r)
  BY <1>3, GetMediaSafe, DownloadRowSafe, DownloadBlobSafe DEF ReadStep
<1>4. CASE Crash(r)
  BY <1>4, CrashSafe
<1> QED
  BY <1>1, <1>2, <1>3, <1>4 DEF RequestStep

LEMMA WorkerStepSafe ==
    ASSUME IInv, UNCHANGED <<req, reborn>>, NEW w \in Worker, WorkerStep(w)
    PROVE  Safety'
<1> DEFINE id == worker[w].id
<1>0. /\ worker \in [Worker -> WorkerState]
      /\ worker[w].pc # "idle" => id \in MediaID /\ tasks[id] # "none"
  BY DEF IInv, TypeOK, WorkersTypeOK, WellFormed, Safety, SweptAreTasked
<1>1. CASE \E i \in MediaID, out \in {"ok", "failed"} : ClaimTask(w, i, out)
  <2> PICK i \in MediaID, out \in {"ok", "failed"} : ClaimTask(w, i, out)
    BY <1>1
  <2>1. /\ tasks[i] # "none"
        /\ tasks' = tasks \/ tasks' = [tasks EXCEPT ![i] = "processing"]
        /\ UNCHANGED <<media, unsure, blobs>>
    BY DEF ClaimTask, Claim, Claimable, SetStatus
  <2>2. \A v \in Worker : \/ worker'[v] = worker[v]
                          \/ worker'[v].pc = "delete" /\ worker'[v].id = i
    BY <1>0 DEF ClaimTask
  <2> QED
    BY <2>1, <2>2, StatusSafe DEF Statuses
<1>2. CASE \E out \in {"ok", "failed"} : DeleteBlob(w, out)
  <2> PICK out \in {"ok", "failed"} : DeleteBlob(w, out)
    BY <1>2
  <2>1. /\ worker[w].pc # "idle" /\ id \in MediaID /\ tasks[id] # "none"
        /\ blobs' = blobs \/ blobs' = [blobs EXCEPT ![id] = None]
        /\ out = "ok" => blobs' = [blobs EXCEPT ![id] = None]
        /\ UNCHANGED <<media, tasks, unsure>>
    BY <1>0 DEF DeleteBlob, DeleteObject, tableVars
  <2>2. out = "ok" => blobs'[id] = None
    BY <2>1 DEF IInv, TypeOK, BlobsTypeOK
  <2>3. \A v \in Worker :
            \/ worker'[v] = worker[v]
            \/ /\ worker[v].pc # "idle" /\ worker'[v].id = worker[v].id
               /\ worker'[v].pc = "complete" => blobs'[worker[v].id] = None
    BY <1>0, <2>2 DEF DeleteBlob, WorkerState
  <2> HIDE DEF id
  <2> QED
    BY <2>1, <2>3, RemoveSafe
<1>3. CASE \E out \in {"ok", "failed"} : CompleteTask(w, out)
  <2>1. /\ id \in MediaID /\ tasks[id] # "none"
        /\ tasks' = tasks \/ tasks' = [tasks EXCEPT ![id] = "completed"]
        /\ UNCHANGED <<media, unsure, blobs>>
    BY <1>0, <1>3 DEF CompleteTask, Complete, SetStatus
  <2>2. id \in reborn \/ blobs[id] = None
    BY <1>3 DEF IInv, Safety, RemovedBeforeComplete, CompleteTask
  <2>3. \A v \in Worker : worker'[v] = worker[v] \/ worker'[v].pc = "idle"
    BY <1>0, <1>3 DEF CompleteTask, Idle
  <2> HIDE DEF id
  <2> QED
    BY <2>1, <2>2, <2>3, StatusSafe DEF Statuses
<1>4. CASE \E out \in {"ok", "failed"} : RetryTask(w, out)
  <2>1. /\ id \in MediaID /\ tasks[id] # "none"
        /\ tasks' = tasks \/ tasks' = [tasks EXCEPT ![id] = "pending"]
        /\ UNCHANGED <<media, unsure, blobs>>
    BY <1>0, <1>4 DEF RetryTask, Retry, SetStatus
  <2>2. \A v \in Worker : worker'[v] = worker[v] \/ worker'[v].pc = "idle"
    BY <1>0, <1>4 DEF RetryTask, Idle
  <2> HIDE DEF id
  <2> QED
    BY <2>1, <2>2, StatusSafe DEF Statuses
<1>5. CASE CrashWorker(w)
  <2>1. /\ id \in MediaID /\ tasks[id] # "none"
        /\ UNCHANGED <<media, tasks, unsure, blobs>>
    BY <1>0, <1>5 DEF CrashWorker, tableVars
  <2>2. \A v \in Worker : worker'[v] = worker[v] \/ worker'[v].pc = "idle"
    BY <1>0, <1>5 DEF CrashWorker, Idle
  <2> HIDE DEF id
  <2> QED
    BY <2>1, <2>2, StatusSafe DEF Statuses
<1> QED
  BY <1>1, <1>2, <1>3, <1>4, <1>5 DEF WorkerStep

-----------------------------------------------------------------------------
(* The theorems. *)

LEMMA IInvInit == Init => IInv
<1> SUFFICES ASSUME Init PROVE Safety
  BY TypeInit DEF IInv, TypeInv
<1> USE DEF Init, BlobsInit, TablesInit, RequestsInit, WorkersInit
<1>1. RowHasContent /\ CompletedMeansGone /\ RemovedBeforeComplete
  BY DEF RowHasContent, CompletedMeansGone, RemovedBeforeComplete, Idle
<1>2. DownloadMatchesRow /\ MissingNeverOnClean
  BY DEF DownloadMatchesRow, MissingNeverOnClean, Free
<1>3. HoldersAlone /\ ReadersKeepContent
  BY DEF HoldersAlone, ReadersKeepContent, Holds, Reads, Free
<1>4. TaskedAreTainted /\ SweptAreTasked
  BY DEF TaskedAreTainted, SweptAreTasked, Free, Idle
<1> QED
  BY <1>1, <1>2, <1>3, <1>4 DEF Safety

LEMMA IInvNext == IInv /\ [Next]_vars => IInv'
<1> SUFFICES ASSUME IInv, [Next]_vars PROVE IInv'
  OBVIOUS
<1>1. TypeOK' /\ WellFormed'
  BY TypeNext DEF IInv, TypeInv
<1>2. CASE \E r \in Request : RequestStep(r) /\ UNCHANGED worker
  BY <1>1, <1>2, RequestStepSafe DEF IInv
<1>3. CASE \E w \in Worker : WorkerStep(w) /\ UNCHANGED <<req, reborn>>
  BY <1>1, <1>3, WorkerStepSafe DEF IInv
<1>4. CASE UNCHANGED vars
  <2> USE <1>4 DEF IInv, Safety, vars, tableVars
  <2>1. RowHasContent' /\ CompletedMeansGone' /\ RemovedBeforeComplete'
    BY DEF RowHasContent, CompletedMeansGone, RemovedBeforeComplete, Clean
  <2>2. DownloadMatchesRow' /\ MissingNeverOnClean'
    BY DEF DownloadMatchesRow, MissingNeverOnClean, Clean
  <2>3. HoldersAlone' /\ ReadersKeepContent'
    BY DEF HoldersAlone, ReadersKeepContent, Holds, Reads, Clean, Tainted
  <2>4. TaskedAreTainted' /\ SweptAreTasked'
    BY DEF TaskedAreTainted, SweptAreTasked, Holds, Tainted
  <2> QED
    BY <1>1, <2>1, <2>2, <2>3, <2>4
<1> QED
  BY <1>2, <1>3, <1>4 DEF Next

\* IInv holds in every state the service can reach.
THEOREM Inductive == Spec => []IInv
  BY IInvInit, IInvNext, PTL DEF Spec

\* Whatever requests, workers and crashes do, a row of a clean id has the object
\* its upload stored.  Clean leaves out the ids that ever had a deletion task, and
\* those with an INSERT that committed and was reported as failed: of neither is
\* it true.
THEOREM RowsHaveContent == Spec => []RowHasContent
<1>1. IInv => RowHasContent
  BY DEF IInv, Safety
<1> QED
  BY <1>1, Inductive, PTL

\* While a deletion task is completed its object is gone, unless an upload has
\* created it again since there was a task.
THEOREM CompletedAreGone == Spec => []CompletedMeansGone
<1>1. IInv => CompletedMeansGone
  BY DEF IInv, Safety
<1> QED
  BY <1>1, Inductive, PTL

\* A download returns the bytes that go with the row it returns, unless the object
\* of the id was created again after a delete, or an INSERT of the id committed
\* and was reported as failed.
THEOREM DownloadsMatch == Spec => []DownloadMatchesRow
<1>1. IInv => DownloadMatchesRow
  BY DEF IInv, Safety
<1> QED
  BY <1>1, Inductive, PTL

\* A download without content means that the id has had a deletion task, or an
\* INSERT that committed and was reported as failed, before or between its reads.
THEOREM MissingMeansUnclean == Spec => []MissingNeverOnClean
<1>1. IInv => MissingNeverOnClean
  BY DEF IInv, Safety
<1> QED
  BY <1>1, Inductive, PTL

-----------------------------------------------------------------------------
(* The service implements the catalogue. *)

\* Request r adds its row.
Inserts(r) ==
    /\ media[req[r].id] = None
    /\ media' = [media EXCEPT ![req[r].id] =
                     [user |-> req[r].user, content |-> req[r].content]]
    /\ UNCHANGED tasks

\* A request inserts one row, or removes rows of one user and enqueues their
\* tasks, or leaves both tables alone.
LEMMA RequestOnTables ==
    ASSUME UNCHANGED worker, NEW r \in Request, RequestStep(r)
    PROVE  \/ UNCHANGED <<media, tasks>>
           \/ req[r].pc = "insert" /\ Inserts(r)
           \/ \E u \in User, ids \in SUBSET MediaID : DeleteRows(Matching(u, ids))
<1>1. CASE CreateRow(r)
  BY <1>1 DEF CreateRow, Insert, tableVars, Inserts
<1>2. ASSUME NEW u \in User, NEW ids \in SUBSET MediaID, NEW single,
             DeleteMetadata(r, u, ids, single)
      PROVE  UNCHANGED <<media, tasks>> \/ DeleteRows(Matching(u, ids))
  BY <1>2 DEF DeleteMetadata, DeleteStatement, tableVars
<1>3. CASE DeleteStep(r)
  <2>1. ASSUME NEW u \in User, NEW id \in MediaID, Delete(r, u, id)
        PROVE  UNCHANGED <<media, tasks>> \/ DeleteRows(Matching(u, {id}))
    BY <2>1, <1>2, {id} \in SUBSET MediaID DEF Delete
  <2>2. ASSUME NEW u \in User, NEW ids \in SUBSET MediaID, DeleteByIDs(r, u, ids)
        PROVE  UNCHANGED <<media, tasks>> \/ DeleteRows(Matching(u, ids))
    BY <2>2, <1>2 DEF DeleteByIDs
  <2>3. ASSUME NEW u \in User, DeleteAllByUser(r, u)
        PROVE  UNCHANGED <<media, tasks>> \/ DeleteRows(Matching(u, MediaID))
    BY <2>3, <1>2, MediaID \in SUBSET MediaID DEF DeleteAllByUser
  <2>4. ASSUME NEW id \in MediaID, SweepBlob(r, id)
        PROVE  UNCHANGED <<media, tasks>>
    BY <2>4 DEF SweepBlob, tableVars
  <2>5. \A id \in MediaID : {id} \in SUBSET MediaID
    OBVIOUS
  <2> QED
    BY <1>3, <2>1, <2>2, <2>3, <2>4, <2>5, MediaID \in SUBSET MediaID DEF DeleteStep
<1>4. CASE UploadStep(r) /\ ~ CreateRow(r)
  BY <1>4 DEF UploadStep, Upload, CleanupBlob, LookupExisting, tableVars
<1>5. CASE ReadStep(r) \/ Crash(r)
  BY <1>5 DEF ReadStep, GetMedia, DownloadRow, DownloadBlob, Crash, tableVars
<1> QED
  BY <1>1, <1>3, <1>4, <1>5 DEF RequestStep

LEMMA RequestOnCatalog ==
    ASSUME TypeInv, UNCHANGED worker, NEW r \in Request, RequestStep(r)
    PROVE  [Catalog!CatalogNext]_(Catalog!catalogVars)
<1>1. CASE UNCHANGED <<media, tasks>>
  BY <1>1 DEF Catalog!catalogVars, Catalog!taskVars, Open
<1>2. CASE req[r].pc = "insert" /\ Inserts(r)
  <2>1. /\ req[r].id \in MediaID /\ req[r].user \in User /\ req[r].content \in Content
        /\ media \in [MediaID -> Row \cup {None}]
    BY <1>2 DEF TypeInv, TypeOK, TablesTypeOK, WellFormed, Informed
  <2>2. Catalog!Publish(req[r].id, req[r].user, req[r].content)
    BY <1>2, <2>1 DEF Inserts, Catalog!Publish, Catalog!taskVars, Open
  <2> QED
    BY <2>1, <2>2 DEF Catalog!CatalogNext
<1>3. ASSUME NEW u \in User, NEW ids \in SUBSET MediaID, DeleteRows(Matching(u, ids))
      PROVE  Catalog!CatalogNext
  <2>1. /\ Matching(u, ids) \in SUBSET MediaID
        /\ \A id \in Matching(u, ids) : media[id] # None /\ media[id].user = u
    BY DEF Matching, OwnedBy
  <2>2. {id \in MediaID : Open(id)'}
            = {id \in MediaID : Open(id)} \cup Matching(u, ids)
    BY <1>3, <2>1 DEF DeleteRows, Open
  <2>3. Catalog!Withdraw(u, Matching(u, ids))
    BY <1>3, <2>1, <2>2 DEF DeleteRows, Catalog!Withdraw, Catalog!Add
  <2> QED
    BY <2>1, <2>3 DEF Catalog!CatalogNext
<1> QED
  BY <1>1, <1>2, <1>3, RequestOnTables

\* Setting the status of a task that exists opens it, closes it, or does neither.
LEMMA StatusOnOpen ==
    ASSUME TypeInv, NEW id \in MediaID, tasks[id] # "none", NEW status, NEW out,
           SetStatus(id, status, out)
    PROVE  /\ UNCHANGED media
           /\ \/ UNCHANGED tasks
              \/ /\ status \in {"pending", "processing"}
                 /\ {i \in MediaID : Open(i)'} = {i \in MediaID : Open(i)} \cup {id}
              \/ /\ status \notin {"pending", "processing"}
                 /\ {i \in MediaID : Open(i)'} = {i \in MediaID : Open(i)} \ {id}
  BY DEF TypeInv, TypeOK, TablesTypeOK, SetStatus, Open

LEMMA WorkerOnCatalog ==
    ASSUME IInv, NEW w \in Worker, WorkerStep(w)
    PROVE  [Catalog!CatalogNext]_(Catalog!catalogVars)
<1> DEFINE id      == worker[w].id
           held    == [v \in Worker |-> worker[v].id]
           removed == {v \in Worker : worker[v].pc = "complete"}
<1>0. /\ TypeInv
      /\ worker \in [Worker -> WorkerState]
      /\ IF worker[w].pc = "idle" THEN id = None
         ELSE id \in MediaID /\ id # None /\ tasks[id] # "none"
  BY NoneIsNoValue DEF IInv, TypeInv, TypeOK, WorkersTypeOK, WellFormed, Safety, SweptAreTasked
<1>1. ASSUME NEW i \in MediaID, NEW out \in {"ok", "failed"}, ClaimTask(w, i, out)
      PROVE  [Catalog!CatalogNext]_(Catalog!catalogVars)
  <2>1. /\ media' = media /\ Open(i)
        /\ {j \in MediaID : Open(j)'} = {j \in MediaID : Open(j)}
    BY <1>0, <1>1, StatusOnOpen DEF ClaimTask, Claim, Claimable, Open
  <2>2. CASE out = "ok"
    <3>1. Catalog!Take(w, i)
      BY <1>0, <1>1, <2>1, <2>2 DEF ClaimTask, Catalog!Take
    <3> QED
      BY <2>1, <3>1 DEF Catalog!CatalogNext, Catalog!WorkStep
  <2>3. CASE out = "failed"
    BY <1>1, <2>1, <2>3 DEF ClaimTask, Catalog!catalogVars, Catalog!taskVars
  <2> QED
    BY <2>2, <2>3
<1>2. ASSUME NEW out \in {"ok", "failed"}, DeleteBlob(w, out)
      PROVE  [Catalog!CatalogNext]_(Catalog!catalogVars)
  <2>1. media' = media /\ {j \in MediaID : Open(j)'} = {j \in MediaID : Open(j)}
    BY <1>2 DEF DeleteBlob, tableVars, Open
  <2>2. id # None /\ held' = held
    BY <1>0, <1>2 DEF DeleteBlob, WorkerState
  <2>3. CASE out = "ok"
    <3>1. removed' = removed \cup {w}
      BY <1>0, <1>2, <2>3 DEF DeleteBlob, WorkerState
    <3>2. Catalog!Remove(w)
      BY <2>1, <2>2, <3>1 DEF Catalog!Remove
    <3> QED
      BY <2>1, <3>2 DEF Catalog!CatalogNext, Catalog!WorkStep
  <2>4. CASE out = "failed"
    <3>1. removed' = removed
      BY <1>0, <1>2, <2>4 DEF DeleteBlob, WorkerState
    <3> QED
      BY <2>1, <2>2, <3>1 DEF Catalog!catalogVars, Catalog!taskVars
  <2> QED
    BY <2>3, <2>4
<1>3. ASSUME worker[w].pc # "idle", worker' = [worker EXCEPT ![w] = Idle], media' = media,
             \/ UNCHANGED tasks
             \/ /\ worker[w].pc = "complete"
                /\ {i \in MediaID : Open(i)'} = {i \in MediaID : Open(i)} \ {id}
             \/ /\ worker[w].pc # "complete"
                /\ {i \in MediaID : Open(i)'} = {i \in MediaID : Open(i)} \cup {id}
      PROVE  Catalog!CatalogNext
  <2>1. held' = [held EXCEPT ![w] = None] /\ removed' = removed \ {w}
    BY <1>0, <1>3 DEF Idle, WorkerState
  <2>2. w \in removed <=> worker[w].pc = "complete"
    OBVIOUS
  <2>3. UNCHANGED tasks => {i \in MediaID : Open(i)'} = {i \in MediaID : Open(i)}
    BY DEF Open
  <2>4. Catalog!Release(w)
    BY <1>0, <1>3, <2>1, <2>2, <2>3 DEF Catalog!Release
  <2> QED
    BY <1>3, <2>4 DEF Catalog!CatalogNext, Catalog!WorkStep
<1>4. CASE \E out \in {"ok", "failed"} : CompleteTask(w, out)
  BY <1>0, <1>3, <1>4, StatusOnOpen DEF CompleteTask, Complete
<1>5. CASE \E out \in {"ok", "failed"} : RetryTask(w, out)
  BY <1>0, <1>3, <1>5, StatusOnOpen DEF RetryTask, Retry
<1>6. CASE CrashWorker(w)
  BY <1>0, <1>3, <1>6 DEF CrashWorker, tableVars
<1> QED
  BY <1>1, <1>2, <1>4, <1>5, <1>6 DEF WorkerStep

LEMMA CatalogStep == IInv /\ [Next]_vars => [Catalog!CatalogNext]_(Catalog!catalogVars)
<1> SUFFICES ASSUME IInv, [Next]_vars PROVE [Catalog!CatalogNext]_(Catalog!catalogVars)
  OBVIOUS
<1>1. CASE UNCHANGED vars
  BY <1>1 DEF vars, tableVars, Catalog!catalogVars, Catalog!taskVars, Open
<1>2. CASE Next
  BY <1>2, RequestOnCatalog, WorkerOnCatalog DEF Next, IInv, TypeInv
<1> QED
  BY <1>1, <1>2

LEMMA CatalogStarts == Init => Catalog!CatalogInit
  BY DEF Init, TablesInit, WorkersInit, Idle, Open,
         Catalog!CatalogInit, Catalog!TasksInit

\* Every behaviour of the service is one of the catalogue: rows never change in
\* place and go only in deletes of one owner, with an open task for each, and a
\* task is closed only by a worker that claimed it open and removed the object.
THEOREM ServiceImplementsCatalog == Spec => ImplementsCatalog
<1>1. Init => Catalog!CatalogInit
  BY CatalogStarts
<1>2. IInv /\ [Next]_vars => [Catalog!CatalogNext]_(Catalog!catalogVars)
  BY CatalogStep
<1> QED
  BY <1>1, <1>2, Inductive, PTL DEF Spec, ImplementsCatalog, Catalog!CatalogSpec

=============================================================================
