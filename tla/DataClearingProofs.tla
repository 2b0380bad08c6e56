------------------------- MODULE DataClearingProofs -------------------------
(***************************************************************************)
(* dbclear beside the running service, for any sets of users, ids,         *)
(* contents, requests and workers and any number of clears.                *)
(***************************************************************************)
EXTENDS DataClearing, MediaServiceProofs

\* What ClearInv says of one id.
Kept(id) ==
    /\ media[id] # None /\ Clean(id) => blobs[id] = media[id].content
    /\ tasks[id] = "completed" /\ id \notin reborn => blobs[id] = None
    /\ HolderKept(id)
    /\ TaskKept(id)
    /\ RemoverKept(id)

LEMMA ClearInvIsKept ==
    ClearInv <=> /\ TypeInv /\ caught \subseteq MediaID
                 /\ \A id \in MediaID \ caught : Kept(id)
  BY DEF ClearInv, ClearSparesTheRest, Kept, TypeInv

-----------------------------------------------------------------------------
(* What a step may do to one id. *)

\* Row and histories of id stay; its object may go if someone may remove it, its
\* task may change, holders and removers may leave, and removers may come if
\* there is a task.
LEMMA LessKept ==
    ASSUME NEW id \in MediaID, Kept(id),
           media'[id] = media[id],
           id \in unsure' <=> id \in unsure,
           id \in reborn' <=> id \in reborn,
           \/ blobs'[id] = blobs[id]
           \/ /\ blobs'[id] = None
              /\ \/ tasks[id] # "none"
                 \/ \E r \in Request : Holds(r, id) /\ ~ Holds(r, id)',
           \/ tasks'[id] = tasks[id]
           \/ /\ tasks[id] # "none" /\ tasks'[id] # "none"
              /\ tasks'[id] = "completed" => id \in reborn \/ blobs'[id] = None,
           \A q \in Request :
               /\ Holds(q, id)' => Holds(q, id) /\ req'[q].content = req[q].content
               /\ id \in req'[q].todo => tasks[id] # "none",
           \A w \in Worker :
               worker'[w].id = id =>
                   /\ tasks[id] # "none"
                   /\ worker'[w].pc = "complete" => id \in reborn \/ blobs'[id] = None
    PROVE  Kept(id)'
<1> USE DEF Kept
<1>0. /\ tasks'[id] = "none" <=> tasks[id] = "none"
      /\ Clean(id)' <=> Clean(id)
      /\ Tainted(id)' <=> Tainted(id)
  BY DEF Clean, Tainted
<1>1. HolderKept(id)'
  <2> SUFFICES ASSUME NEW r \in Request, Holds(r, id)', Clean(id)
               PROVE  /\ blobs'[id] = req'[r].content
                      /\ media'[id] = None
                      /\ \A q \in Request : Holds(q, id)' => q = r
    BY <1>0 DEF HolderKept
  <2>1. /\ Holds(r, id) /\ req'[r].content = req[r].content
        /\ blobs[id] = req[r].content /\ media[id] = None
        /\ \A q \in Request : Holds(q, id) => q = r
    BY DEF HolderKept
  <2>2. tasks[id] = "none"
    BY DEF Clean
  <2>3. blobs'[id] = blobs[id]
    BY <2>1, <2>2
  <2> QED
    BY <2>1, <2>3
<1>2. TaskKept(id)'
  BY <1>0 DEF TaskKept
<1>3. RemoverKept(id)'
  BY <1>0 DEF RemoverKept
<1>4. (media[id] # None /\ Clean(id) => blobs[id] = media[id].content)'
  BY <1>0 DEF HolderKept, Clean
<1>5. (tasks[id] = "completed" /\ id \notin reborn => blobs[id] = None)'
  OBVIOUS
<1> QED
  BY <1>1, <1>2, <1>3, <1>4, <1>5

\* The object of id is created, by an upload that may go on to insert its row.
LEMMA PutKept ==
    ASSUME TypeInv, NEW id \in MediaID, Kept(id), NEW r \in Request, NEW c \in Content,
           blobs[id] = None, blobs'[id] = c,
           UNCHANGED <<media, tasks, unsure, worker>>,
           id \in reborn' <=> (id \in reborn \/ tasks[id] # "none"),
           \A q \in Request : id \in req'[q].todo => id \in req[q].todo,
           \A q \in Request : Holds(q, id)' => q = r \/ Holds(q, id),
           Holds(r, id)' => req'[r].content = c
    PROVE  Kept(id)'
<1> USE DEF Kept
<1>0. c # None /\ (media[id] # None => media[id].content # None)
  BY NoneIsNoValue DEF TypeInv, TypeOK, TablesTypeOK, Row
<1>1. ASSUME Clean(id) PROVE media[id] = None /\ \A q \in Request : ~ Holds(q, id)
  <2>1. ASSUME NEW q \in Request, Holds(q, id) PROVE FALSE
    BY <1>1, <2>1, NoneIsNoValue DEF HolderKept, Holds, TypeInv, WellFormed, Informed
  <2> QED
    BY <1>0, <1>1, <2>1
<1>2. HolderKept(id)'
  BY <1>1 DEF HolderKept, Clean
<1>3. TaskKept(id)'
  BY DEF TaskKept, Tainted
<1>4. RemoverKept(id)'
  BY DEF RemoverKept
<1>5. (media[id] # None /\ Clean(id) => blobs[id] = media[id].content)'
  BY <1>1 DEF Clean
<1>6. (tasks[id] = "completed" /\ id \notin reborn => blobs[id] = None)'
  OBVIOUS
<1> QED
  BY <1>2, <1>3, <1>4, <1>5, <1>6

\* The row of id is inserted by r, and id is unsure unless r forgets it.
LEMMA InsertKept ==
    ASSUME TypeInv, NEW id \in MediaID, Kept(id), NEW r \in Request, Holds(r, id),
           media[id] = None, media'[id] # None, media'[id].content = req[r].content,
           UNCHANGED <<blobs, tasks, reborn, worker>>,
           \/ ~ Holds(r, id)' /\ unsure' = unsure
           \/ id \in unsure',
           \A q \in Request : id \in req'[q].todo => id \in req[q].todo,
           \A q \in Request : Holds(q, id)' => Holds(q, id)
    PROVE  Kept(id)'
<1> USE DEF Kept
<1>0. Clean(id)' => Clean(id) /\ ~ Holds(r, id)'
  BY DEF Clean, HolderKept
<1>1. HolderKept(id)'
  BY <1>0 DEF HolderKept
<1>2. TaskKept(id)'
  BY DEF TaskKept, Tainted
<1>3. RemoverKept(id)'
  BY DEF RemoverKept
<1>4. (media[id] # None /\ Clean(id) => blobs[id] = media[id].content)'
  BY <1>0 DEF HolderKept
<1>5. (tasks[id] = "completed" /\ id \notin reborn => blobs[id] = None)'
  OBVIOUS
<1> QED
  BY <1>1, <1>2, <1>3, <1>4, <1>5

\* The row of id is deleted, and leaves a pending task.
LEMMA DeleteKept ==
    ASSUME NEW id \in MediaID, Kept(id),
           media[id] # None, media'[id] = None, tasks'[id] = "pending",
           UNCHANGED <<blobs, unsure, reborn, worker>>,
           \A q \in Request : Holds(q, id)' => Holds(q, id)
    PROVE  Kept(id)'
<1> USE DEF Kept
<1>1. ASSUME ~ Tainted(id), NEW q \in Request, Holds(q, id) PROVE FALSE
  BY <1>1 DEF HolderKept, TaskKept, Clean, Tainted
<1>2. HolderKept(id)'
  BY DEF HolderKept, Clean
<1>3. TaskKept(id)'
  BY <1>1 DEF TaskKept, Tainted
<1>4. RemoverKept(id)'
  BY DEF RemoverKept
<1> QED
  BY <1>2, <1>3, <1>4

\* A request moves on and nothing happens to id.
LEMMA QuietKept ==
    ASSUME NEW id \in MediaID, Kept(id),
           blobs'[id] = blobs[id], media'[id] = media[id], tasks'[id] = tasks[id],
           id \in unsure' <=> id \in unsure,
           id \in reborn' <=> id \in reborn,
           UNCHANGED worker,
           \A q \in Request :
               /\ Holds(q, id)' => Holds(q, id) /\ req'[q].content = req[q].content
               /\ id \in req'[q].todo => id \in req[q].todo
    PROVE  Kept(id)'
<1>1. \A q \in Request : id \in req'[q].todo => tasks[id] # "none"
  BY DEF Kept, RemoverKept
<1>2. \A w \in Worker :
          worker'[w].id = id =>
              /\ tasks[id] # "none"
              /\ worker'[w].pc = "complete" => id \in reborn \/ blobs'[id] = None
  BY DEF Kept, RemoverKept
<1> QED
  BY <1>1, <1>2, LessKept

-----------------------------------------------------------------------------
(* Every step of the service keeps every id. *)

\* A request that neither holds an object nor has any to remove.
Harmless(s) == s.pc \notin {"insert", "cleanup"} /\ s.todo = {}

LEMMA HarmlessKept ==
    ASSUME NEW id \in MediaID, Kept(id), NEW r \in Request, Harmless(req'[r]),
           \A q \in Request \ {r} : req'[q] = req[q],
           UNCHANGED <<blobs, media, tasks, unsure, reborn, worker>>
    PROVE  Kept(id)'
<1>1. \A q \in Request :
          /\ Holds(q, id)' => Holds(q, id) /\ req'[q].content = req[q].content
          /\ id \in req'[q].todo => id \in req[q].todo
  BY DEF Holds, Harmless
<1> QED
  BY <1>1, QuietKept

LEMMA UploadKept ==
    ASSUME TypeInv, NEW m \in MediaID, Kept(m), UNCHANGED worker,
           NEW r \in Request, NEW u \in User, NEW id \in MediaID,
           NEW c \in Content, NEW client \in BOOLEAN,
           Upload(r, u, id, c, client)
    PROVE  Kept(m)'
<1> DEFINE s == Uploading(u, id, c, client)
<1>1. s \in RequestState /\ s.todo = {} /\ s.answer = "none" /\ s.id = id /\ s.content = c
  BY UploadingType
<1> HIDE DEF s
<1>2. \/ Put(id, c, "ok") /\ Become(r, [s EXCEPT !.pc = "insert"])
      \/ Put(id, c, "exists") /\ OnIDConflict(r, s)
      \/ Put(id, c, "failed") /\ Reply(r, "error")
  BY DEF Upload, s
<1>3. UNCHANGED <<media, tasks, unsure>>
  BY DEF Upload, tableVars
<1>4. \/ blobs' = blobs /\ ~ Put(id, c, "ok")
      \/ blobs[id] = None /\ blobs' = [blobs EXCEPT ![id] = c]
  <2>1. [blobs EXCEPT ![id] = c][id] = c /\ c # None
    BY NoneIsNoValue DEF TypeInv, TypeOK, BlobsTypeOK
  <2> QED
    BY <1>2, <2>1 DEF Put, PreconditionFailed
<1>5. /\ blobs' = blobs => reborn' = reborn
      /\ blobs' # blobs => reborn' = IF tasks[id] # "none" THEN reborn \cup {id} ELSE reborn
  BY DEF Upload
<1>6. /\ \A q \in Request \ {r} : req'[q] = req[q]
      /\ \/ Neutral(req'[r])
         \/ /\ Put(id, c, "ok") /\ req'[r].pc = "insert" /\ req'[r].id = id
            /\ req'[r].content = c /\ req'[r].todo = {}
  <2>1. CASE OnIDConflict(r, s) \/ Reply(r, "error")
    BY <1>1, <2>1, OnIDConflictNeutral, ReplyNeutral DEF Answers
  <2>2. CASE Put(id, c, "ok") /\ Become(r, [s EXCEPT !.pc = "insert"])
    <3>1. /\ req'[r] = [s EXCEPT !.pc = "insert"]
          /\ \A q \in Request \ {r} : req'[q] = req[q]
      BY <2>2, BecomeEffect
    <3> QED
      BY <1>1, <2>2, <3>1 DEF RequestState
  <2> QED
    BY <1>2, <2>1, <2>2
<1>7. CASE blobs' = blobs /\ ~ Put(id, c, "ok")
  BY <1>3, <1>5, <1>6, <1>7, HarmlessKept DEF Neutral, Harmless
<1>8. CASE blobs[id] = None /\ blobs' = [blobs EXCEPT ![id] = c]
  <2>1. /\ blobs'[id] = c /\ blobs' # blobs
        /\ \A i \in MediaID \ {id} : blobs'[i] = blobs[i]
    BY <1>8, NoneIsNoValue DEF TypeInv, TypeOK, BlobsTypeOK
  <2>2. reborn' = IF tasks[id] # "none" THEN reborn \cup {id} ELSE reborn
    BY <1>5, <2>1
  <2>3. \A q \in Request : m \in req'[q].todo => m \in req[q].todo
    BY <1>6 DEF Neutral
  <2>4. CASE m = id
    <3>1. \A q \in Request : Holds(q, id)' => q = r \/ Holds(q, id)
      BY <1>6 DEF Holds
    <3>2. Holds(r, id)' => req'[r].content = c
      BY <1>6 DEF Holds, Neutral
    <3> QED
      BY <1>3, <1>8, <2>1, <2>2, <2>3, <2>4, <3>1, <3>2, PutKept
  <2>5. CASE m # id
    <3>1. \A q \in Request : Holds(q, m)' => Holds(q, m) /\ req'[q].content = req[q].content
      BY <1>6, <2>5 DEF Holds, Neutral
    <3>2. m \in reborn' <=> m \in reborn
      BY <2>2, <2>5
    <3> QED
      BY <1>3, <2>1, <2>3, <2>5, <3>1, <3>2, QuietKept
  <2> QED
    BY <2>4, <2>5
<1> QED
  BY <1>4, <1>7, <1>8

LEMMA CreateRowKept ==
    ASSUME TypeInv, NEW m \in MediaID, Kept(m), UNCHANGED worker,
           NEW r \in Request, CreateRow(r)
    PROVE  Kept(m)'
<1> DEFINE s == req[r]
           id == s.id
<1>0. /\ s \in RequestState /\ s.pc = "insert" /\ s.todo = {}
      /\ id \in MediaID /\ s.user \in User /\ s.content \in Content
      /\ Holds(r, id)
  BY DEF TypeInv, TypeOK, RequestsTypeOK, WellFormed, Informed, CreateRow, Holds
<1>1. UNCHANGED <<blobs, reborn, tasks>>
  BY DEF CreateRow, Insert, tableVars
<1>2. \/ media' = media /\ unsure' = unsure
      \/ /\ media[id] = None
         /\ media' = [media EXCEPT ![id] = [user |-> s.user, content |-> s.content]]
         /\ \/ unsure' = unsure /\ Reply(r, "created")
            \/ unsure' = unsure \cup {id}
  BY DEF CreateRow, Insert, tableVars
<1>3. /\ \A q \in Request \ {r} : req'[q] = req[q]
      /\ Reply(r, "created") => Neutral(req'[r])
      /\ \/ Neutral(req'[r])
         \/ /\ req'[r].pc = "cleanup" /\ req'[r].id = id
            /\ req'[r].content = s.content /\ req'[r].todo = {}
  <2>1. CASE Reply(r, "created")
    BY <2>1, ReplyNeutral DEF Answers
  <2>2. CASE \/ Become(r, [s EXCEPT !.pc = "cleanup", !.taken = TRUE])
             \/ Become(r, [s EXCEPT !.pc = "cleanup"])
    <3>1. /\ \A q \in Request \ {r} : req'[q] = req[q]
          /\ \/ req'[r] = [s EXCEPT !.pc = "cleanup", !.taken = TRUE]
             \/ req'[r] = [s EXCEPT !.pc = "cleanup"]
      BY <2>2, BecomeEffect
    <3>2. /\ req'[r].pc = "cleanup" /\ req'[r].id = id
          /\ req'[r].content = s.content /\ req'[r].todo = {}
      BY <1>0, <3>1 DEF RequestState
    <3>3. Reply(r, "created") => Neutral(req'[r])
      BY ReplyNeutral DEF Answers
    <3> QED
      BY <3>1, <3>2, <3>3
  <2> QED
    BY <2>1, <2>2 DEF CreateRow
<1>4. \A q \in Request :
          /\ \A i \in MediaID : Holds(q, i)' =>
                 Holds(q, i) /\ req'[q].content = req[q].content
          /\ m \in req'[q].todo => m \in req[q].todo
  BY <1>0, <1>3 DEF Holds, Neutral
<1>5. CASE media' = media /\ unsure' = unsure
  BY <1>1, <1>4, <1>5, QuietKept
<1>6. CASE ~ (media' = media /\ unsure' = unsure)
  <2>1. /\ media[id] = None /\ media'[id] # None /\ media'[id].content = s.content
        /\ \A i \in MediaID \ {id} : media'[i] = media[i]
    BY <1>0, <1>2, <1>6, NoneIsNoValue DEF TypeInv, TypeOK, TablesTypeOK, Row
  <2>2. \/ unsure' = unsure /\ Neutral(req'[r])
        \/ unsure' = unsure \cup {id}
    BY <1>2, <1>3, <1>6
  <2>3. CASE m = id
    <3>1. /\ Holds(r, m) /\ media[m] = None /\ media'[m] # None
          /\ media'[m].content = req[r].content
      BY <1>0, <2>1, <2>3
    <3>2. \/ ~ Holds(r, m)' /\ unsure' = unsure
          \/ m \in unsure'
      BY <2>2, <2>3 DEF Holds, Neutral
    <3> QED
      BY <1>1, <1>4, <3>1, <3>2, InsertKept
  <2>4. CASE m # id
    <3>1. media'[m] = media[m] /\ (m \in unsure' <=> m \in unsure)
      BY <2>1, <2>2, <2>4
    <3> QED
      BY <1>1, <1>4, <3>1, QuietKept
  <2> QED
    BY <2>3, <2>4
<1> QED
  BY <1>5, <1>6

LEMMA CleanupBlobKept ==
    ASSUME TypeInv, NEW m \in MediaID, Kept(m), UNCHANGED worker,
           NEW r \in Request, CleanupBlob(r)
    PROVE  Kept(m)'
<1>1. /\ req[r] \in RequestState /\ req[r].pc = "cleanup"
      /\ req[r].id \in MediaID /\ req[r].answer = "none" /\ req[r].todo = {}
  BY DEF TypeInv, TypeOK, RequestsTypeOK, WellFormed, Informed, CleanupBlob
<1>2. Neutral(req'[r]) /\ \A q \in Request \ {r} : req'[q] = req[q]
  BY <1>1, OnIDConflictNeutral, ReplyNeutral DEF CleanupBlob, Answers
<1>3. /\ UNCHANGED <<media, tasks, unsure, reborn>>
      /\ \/ blobs'[m] = blobs[m]
         \/ m = req[r].id /\ blobs'[m] = None
  BY DEF CleanupBlob, tableVars, DeleteObject, TypeInv, TypeOK, BlobsTypeOK
<1>4. \A q \in Request :
          /\ Holds(q, m)' => Holds(q, m) /\ req'[q].content = req[q].content
          /\ m \in req'[q].todo => m \in req[q].todo
  BY <1>2 DEF Holds, Neutral
<1>5. CASE blobs'[m] = blobs[m]
  BY <1>3, <1>4, <1>5, QuietKept
<1>6. CASE m = req[r].id /\ blobs'[m] = None
  <2>1. Holds(r, m) /\ ~ Holds(r, m)'
    BY <1>1, <1>2, <1>6 DEF Holds, Neutral
  <2>2. \A q \in Request : m \in req'[q].todo => tasks[m] # "none"
    BY <1>4 DEF Kept, RemoverKept
  <2>3. \A w \in Worker : worker'[w].id = m => tasks[m] # "none"
    BY DEF Kept, RemoverKept
  <2> QED
    BY <1>3, <1>4, <1>6, <2>1, <2>2, <2>3, LessKept
<1> QED
  BY <1>3, <1>5, <1>6

LEMMA DeleteMetadataKept ==
    ASSUME TypeInv, NEW m \in MediaID, Kept(m), UNCHANGED worker,
           NEW r \in Request, NEW u \in User, NEW ids, NEW single \in BOOLEAN,
           DeleteMetadata(r, u, ids, single)
    PROVE  Kept(m)'
<1> DEFINE matched == Matching(u, ids)
           s == [Free EXCEPT !.pc = "sweep", !.user = u, !.todo = matched]
<1>1. \A id \in matched : media[id] # None
  BY DEF Matching, OwnedBy
<1>2. UNCHANGED <<blobs, reborn>>
  BY DEF DeleteMetadata
<1>3. s.pc = "sweep" /\ s.todo = matched
  BY DEF Free
<1>4. \/ \E a \in {"notfound", "deleted", "error"} : Reply(r, a)
      \/ Become(r, s) /\ DeleteRows(matched)
  BY DEF DeleteMetadata, DeleteStatement
<1>5. DeleteRows(matched) \/ UNCHANGED <<media, tasks, unsure>>
  BY DEF DeleteMetadata, DeleteStatement, tableVars
<1> HIDE DEF s, matched
<1>6. /\ \A q \in Request \ {r} : req'[q] = req[q]
      /\ \/ Neutral(req'[r])
         \/ req'[r] = s /\ DeleteRows(matched)
  <2>1. CASE \E a \in {"notfound", "deleted", "error"} : Reply(r, a)
    BY <2>1, ReplyNeutral DEF Answers
  <2>2. CASE Become(r, s) /\ DeleteRows(matched)
    BY <2>2, BecomeEffect
  <2> QED
    BY <1>4, <2>1, <2>2
<1>7. \A q \in Request :
          Holds(q, m)' => Holds(q, m) /\ req'[q].content = req[q].content
  BY <1>3, <1>6 DEF Holds, Neutral
<1>8. CASE m \in matched /\ DeleteRows(matched)
  <2>1. media[m] # None /\ media'[m] = None /\ tasks'[m] = "pending" /\ unsure' = unsure
    BY <1>1, <1>8 DEF DeleteRows
  <2> QED
    BY <1>2, <1>7, <2>1, DeleteKept
<1>9. CASE ~ (m \in matched /\ DeleteRows(matched))
  <2>1. media'[m] = media[m] /\ tasks'[m] = tasks[m] /\ unsure' = unsure
    BY <1>5, <1>9 DEF DeleteRows
  <2>2. \A q \in Request : m \in req'[q].todo => m \in req[q].todo
    BY <1>3, <1>6, <1>9 DEF Neutral
  <2> QED
    BY <1>2, <1>7, <2>1, <2>2, QuietKept
<1> QED
  BY <1>8, <1>9

LEMMA SweepBlobKept ==
    ASSUME TypeInv, NEW m \in MediaID, Kept(m), UNCHANGED worker,
           NEW r \in Request, NEW id \in MediaID, SweepBlob(r, id)
    PROVE  Kept(m)'
<1> DEFINE s == [req[r] EXCEPT !.todo = req[r].todo \ {id}]
<1>0. req[r] \in RequestState /\ req[r].pc = "sweep"
  BY DEF TypeInv, TypeOK, RequestsTypeOK, SweepBlob
<1>1. s.pc = "sweep" /\ s.todo \subseteq req[r].todo
  BY <1>0 DEF RequestState
<1>2. Reply(r, "deleted") \/ Become(r, s)
  BY DEF SweepBlob
<1> HIDE DEF s
<1>3. /\ \A q \in Request \ {r} : req'[q] = req[q]
      /\ Neutral(req'[r]) \/ req'[r] = s
  BY <1>2, BecomeEffect, ReplyNeutral DEF Answers
<1>4. \A q \in Request :
          /\ Holds(q, m)' => Holds(q, m) /\ req'[q].content = req[q].content
          /\ m \in req'[q].todo => m \in req[q].todo
  BY <1>1, <1>3 DEF Holds, Neutral
<1>5. /\ UNCHANGED <<media, tasks, unsure, reborn>>
      /\ \/ blobs'[m] = blobs[m]
         \/ m = id /\ blobs'[m] = None
  BY DEF SweepBlob, tableVars, DeleteObject, TypeInv, TypeOK, BlobsTypeOK
<1>6. CASE blobs'[m] = blobs[m]
  BY <1>4, <1>5, <1>6, QuietKept
<1>7. CASE m = id /\ blobs'[m] = None
  <2>1. tasks[m] # "none"
    BY <1>7 DEF SweepBlob, Kept, RemoverKept
  <2> QED
    BY <1>4, <1>5, <1>7, <2>1, LessKept
<1> QED
  BY <1>5, <1>6, <1>7

LEMMA ReadStepKept ==
    ASSUME TypeInv, NEW m \in MediaID, Kept(m), UNCHANGED worker, NEW r \in Request,
           ReadStep(r) \/ LookupExisting(r) \/ Crash(r)
    PROVE  Kept(m)'
<1>1. UNCHANGED <<blobs, media, tasks, unsure, reborn>>
  BY DEF ReadStep, GetMedia, DownloadRow, DownloadBlob, LookupExisting, Crash, tableVars
<1>2. CASE \E a \in Answers \ {"content", "missing"} : Reply(r, a)
  BY <1>1, <1>2, ReplyNeutral, HarmlessKept DEF Neutral, Harmless
<1>3. CASE LookupExisting(r)
  BY <1>2, <1>3 DEF LookupExisting, Answers
<1>4. CASE Crash(r)
  <2>1. req'[r] = Free /\ \A q \in Request \ {r} : req'[q] = req[q]
    BY <1>4, BecomeEffect DEF Crash
  <2> QED
    BY <1>1, <2>1, HarmlessKept DEF Harmless, Free
<1>5. ASSUME NEW u \in User, NEW id \in MediaID, GetMedia(r, u, id) PROVE Kept(m)'
  BY <1>2, <1>5 DEF GetMedia, Answers
<1>6. ASSUME NEW u \in User, NEW id \in MediaID, DownloadRow(r, u, id) PROVE Kept(m)'
  <2> DEFINE s == [Free EXCEPT !.pc = "read", !.user = u, !.id = id,
                               !.content = media[id].content]
  <2>1. Harmless(s)
    BY DEF Harmless, Free
  <2> HIDE DEF s
  <2>2. CASE Become(r, s)
    BY <1>1, <2>1, <2>2, BecomeEffect, HarmlessKept
  <2> QED
    BY <1>2, <1>6, <2>2 DEF DownloadRow, Answers, s
<1>7. CASE DownloadBlob(r)
  <2> DEFINE done  == [req[r] EXCEPT !.pc = "free", !.user = None]
             read  == [done EXCEPT !.answer = "content", !.body = Get(req[r].id)]
             empty == [done EXCEPT !.answer = "missing"]
  <2>1. req[r] \in RequestState /\ req[r].todo = {}
    BY <1>7 DEF TypeInv, TypeOK, RequestsTypeOK, WellFormed, Informed, DownloadBlob
  <2>2. Harmless(read) /\ Harmless(empty)
    BY <2>1 DEF Harmless, RequestState
  <2>3. Become(r, read) \/ Become(r, empty) \/ Reply(r, "error")
    BY <1>7 DEF DownloadBlob
  <2> HIDE DEF read, empty
  <2>4. CASE Become(r, read) \/ Become(r, empty)
    BY <1>1, <2>2, <2>4, BecomeEffect, HarmlessKept
  <2> QED
    BY <1>2, <2>3, <2>4 DEF Answers
<1> QED
  BY <1>3, <1>4, <1>5, <1>6, <1>7 DEF ReadStep

LEMMA RequestStepKept ==
    ASSUME TypeInv, NEW m \in MediaID, Kept(m), UNCHANGED worker,
           NEW r \in Request, RequestStep(r)
    PROVE  Kept(m)'
<1>1. CASE UploadStep(r)
  BY <1>1, UploadKept, CreateRowKept, CleanupBlobKept, ReadStepKept DEF UploadStep
<1>2. CASE DeleteStep(r)
  BY <1>2, DeleteMetadataKept, SweepBlobKept
     DEF DeleteStep, Delete, DeleteByIDs, DeleteAllByUser
<1>3. CASE ReadStep(r) \/ Crash(r)
  BY <1>3, ReadStepKept
<1> QED
  BY <1>1, <1>2, <1>3 DEF RequestStep

\* The workers that have id have a task, and have removed the object before
\* they complete it: what LessKept asks of a step of theirs.
LEMMA WorkerStepKept ==
    ASSUME TypeInv, NEW m \in MediaID, Kept(m), UNCHANGED <<req, reborn>>,
           NEW w \in Worker, WorkerStep(w)
    PROVE  Kept(m)'
<1>0. /\ worker \in [Worker -> WorkerState]
      /\ tasks \in [MediaID -> Statuses] /\ DOMAIN blobs = MediaID
      /\ \A v \in Worker : worker[v].id = m =>
             /\ tasks[m] # "none"
             /\ worker[v].pc = "complete" => m \in reborn \/ blobs[m] = None
  BY DEF TypeInv, TypeOK, WorkersTypeOK, TablesTypeOK, BlobsTypeOK, Kept, RemoverKept
<1>1. /\ media' = media /\ unsure' = unsure
      /\ blobs'[m] = blobs[m] \/ (worker[w].id = m /\ blobs'[m] = None)
  BY <1>0 DEF WorkerStep, ClaimTask, DeleteBlob, CompleteTask, RetryTask, CrashWorker,
              Claim, Complete, Retry, SetStatus, DeleteObject, tableVars
<1>2. \A q \in Request :
          /\ Holds(q, m)' => Holds(q, m) /\ req'[q].content = req[q].content
          /\ m \in req'[q].todo => tasks[m] # "none"
  BY DEF Holds, Kept, RemoverKept
<1>3. \/ tasks'[m] = tasks[m]
      \/ /\ tasks[m] # "none" /\ tasks'[m] # "none"
         /\ tasks'[m] = "completed" => m \in reborn \/ blobs'[m] = None
  <2>1. ASSUME NEW i \in MediaID, NEW out, ClaimTask(w, i, out)
        PROVE  tasks'[m] = tasks[m] \/ (tasks[m] # "none" /\ tasks'[m] = "processing")
    BY <1>0, <2>1 DEF ClaimTask, Claim, Claimable, SetStatus
  <2>2. ASSUME NEW out, CompleteTask(w, out)
        PROVE  \/ tasks'[m] = tasks[m]
               \/ /\ tasks[m] # "none" /\ tasks'[m] = "completed"
                  /\ m \in reborn \/ blobs'[m] = None
    BY <1>0, <2>2 DEF CompleteTask, Complete, SetStatus
  <2>3. ASSUME NEW out, RetryTask(w, out)
        PROVE  tasks'[m] = tasks[m] \/ (tasks[m] # "none" /\ tasks'[m] = "pending")
    BY <1>0, <2>3 DEF RetryTask, Retry, SetStatus
  <2>4. (\E out : DeleteBlob(w, out)) \/ CrashWorker(w) => tasks' = tasks
    BY DEF DeleteBlob, CrashWorker, tableVars
  <2> QED
    BY <2>1, <2>2, <2>3, <2>4 DEF WorkerStep
<1>4. \A v \in Worker :
          worker'[v].id = m =>
              /\ tasks[m] # "none"
              /\ worker'[v].pc = "complete" => m \in reborn \/ blobs'[m] = None
  <2> SUFFICES ASSUME NEW v \in Worker, worker'[v].id = m
               PROVE  /\ tasks[m] # "none"
                      /\ worker'[v].pc = "complete" => m \in reborn \/ blobs'[m] = None
    OBVIOUS
  <2>1. CASE worker'[v] = worker[v]
    BY <1>0, <1>1, <2>1
  <2>2. ASSUME NEW i \in MediaID, NEW out, ClaimTask(w, i, out)
        PROVE  \/ worker'[v] = worker[v]
               \/ tasks[m] # "none" /\ worker'[v].pc = "delete"
    BY <1>0, <2>2 DEF ClaimTask, Claim, Claimable
  <2>3. ASSUME NEW out, DeleteBlob(w, out)
        PROVE  \/ worker'[v] = worker[v]
               \/ /\ worker[v].id = m
                  /\ worker'[v].pc = "complete" => blobs'[m] = None
    BY <1>0, <2>3 DEF DeleteBlob, DeleteObject, WorkerState
  <2>4. ASSUME NEW out, CompleteTask(w, out) \/ RetryTask(w, out) \/ CrashWorker(w)
        PROVE  worker'[v] = worker[v]
    BY <1>0, <2>4, NoneIsNoValue DEF CompleteTask, RetryTask, CrashWorker, Idle
  <2> QED
    BY <1>0, <2>1, <2>2, <2>3, <2>4 DEF WorkerStep
<1> QED
  BY <1>0, <1>1, <1>2, <1>3, <1>4, LessKept

LEMMA ServiceStepKept ==
    ASSUME TypeInv, NEW m \in MediaID, Kept(m), [Next]_vars
    PROVE  Kept(m)'
<1>1. CASE Next
  BY <1>1, RequestStepKept, WorkerStepKept DEF Next
<1>2. CASE UNCHANGED vars
  BY <1>2, QuietKept DEF vars, tableVars, Holds
<1> QED
  BY <1>1, <1>2

-----------------------------------------------------------------------------
(* The clear itself. *)

LEMMA ClearKeepsType == TypeInv /\ ClearAllData => TypeInv'
  BY DEF TypeInv, TypeOK, BlobsTypeOK, TablesTypeOK, RequestsTypeOK, WorkersTypeOK,
         WellFormed, Informed, Statuses, ClearAllData, TruncateAll

\* Of an id that nobody is about to remove, only an object is left, and at most
\* the request that stored it.
LEMMA ClearKeeps ==
    ASSUME ClearInv, ClearAllData, NEW id \in MediaID, id \notin InHand
    PROVE  Kept(id)'
<1>1. /\ media'[id] = None /\ tasks'[id] = "none" /\ unsure' = {} /\ reborn' = {}
      /\ UNCHANGED <<blobs, req, worker>>
  BY DEF ClearAllData, TruncateAll
<1>2. /\ \A r \in Request : id \notin req[r].todo
      /\ \A w \in Worker : worker[w].id # id
      /\ \A r \in Request : Holds(r, id) => id \notin caught /\ Clean(id)
  BY DEF InHand
<1>3. HolderKept(id)'
  <2> SUFFICES ASSUME NEW r \in Request, Holds(r, id)
               PROVE  /\ blobs[id] = req[r].content
                      /\ \A q \in Request : Holds(q, id) => q = r
    BY <1>1 DEF HolderKept, Holds
  <2> QED
    BY <1>2, ClearInvIsKept DEF Kept, HolderKept
<1>4. TaskKept(id)' /\ RemoverKept(id)'
  BY <1>1, <1>2 DEF TaskKept, RemoverKept
<1> QED
  BY <1>1, <1>3, <1>4 DEF Kept

LEMMA ClearInvInit == ClearInit => ClearInv
<1> SUFFICES ASSUME ClearInit PROVE ClearInv
  OBVIOUS
<1> USE DEF ClearInit, Init, BlobsInit, TablesInit, RequestsInit, WorkersInit
<1>1. TypeInv
  BY TypeInit
<1>2. ASSUME NEW id \in MediaID PROVE Kept(id)
  BY NoneIsNoValue DEF Kept, HolderKept, TaskKept, RemoverKept, Holds, Free, Idle
<1> QED
  BY <1>1, <1>2, ClearInvIsKept

LEMMA ClearInvNext == ClearInv /\ [ClearNext]_clearVars => ClearInv'
<1> SUFFICES ASSUME ClearInv, [ClearNext]_clearVars PROVE ClearInv'
  OBVIOUS
<1>0. /\ TypeInv /\ caught \subseteq MediaID
      /\ \A id \in MediaID \ caught : Kept(id)
  BY ClearInvIsKept
<1>1. CASE [Next]_vars /\ UNCHANGED caught
  <2>1. TypeInv'
    BY <1>0, <1>1, TypeNext
  <2>2. \A id \in MediaID \ caught : Kept(id)'
    BY <1>0, <1>1, ServiceStepKept
  <2> QED
    BY <1>0, <1>1, <2>1, <2>2
       DEF ClearInv, ClearSparesTheRest, Kept, TypeInv
<1>2. CASE ClearAllData
  <2>1. TypeInv' /\ caught' = InHand /\ InHand \subseteq MediaID
    BY <1>0, <1>2, ClearKeepsType DEF ClearAllData, InHand
  <2>2. \A id \in MediaID \ InHand : Kept(id)'
    BY <1>2, ClearKeeps
  <2> QED
    BY <2>1, <2>2 DEF ClearInv, ClearSparesTheRest, Kept, TypeInv
<1> QED
  BY <1>1, <1>2 DEF ClearNext, clearVars

-----------------------------------------------------------------------------
(* The theorems. *)

\* ClearInv holds in every state the service and dbclear can reach together.
THEOREM ClearInductive == ClearSpec => []ClearInv
  BY ClearInvInit, ClearInvNext, PTL DEF ClearSpec

\* However often the tables are emptied under the running service, two things hold
\* of every id whose object nobody was about to remove at the last clear (caught):
\* its row has its own content, if the id is clean (since the clear, no deletion
\* task and no INSERT that committed and was reported as failed), and its completed
\* task means that the object is gone, if no upload has created it again (reborn).
THEOREM ClearSpares == ClearSpec => []ClearSparesTheRest
<1>1. ClearInv => ClearSparesTheRest
  BY DEF ClearInv
<1> QED
  BY <1>1, ClearInductive, PTL

=============================================================================
