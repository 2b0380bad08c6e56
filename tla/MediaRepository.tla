-------------------------- MODULE MediaRepository --------------------------
(***************************************************************************)
(* The composite repository (internal/repository/media) and the use cases  *)
(* that call it (application/media.Service), as concurrent requests.  A    *)
(* request runs in a goroutine of its own and other requests, and the      *)
(* deletion worker, run between any two of its calls to PostgreSQL or S3;  *)
(* each action below is one such call with the code up to the next one.    *)
(* Uploads are those that passed the size and type checks.                 *)
(***************************************************************************)
EXTENDS BlobStore, MediaTables

CONSTANT Request \* slots for concurrent requests

VARIABLES
    req,       \* req[r]: where request r is, and what it holds
    reborn     \* history: ids whose object was created after a deletion task for them

PCs == {"free", "insert", "cleanup", "lookup", "sweep", "read"}

Answers == {"none", "created", "existed", "conflict", "error", "notfound",
            "deleted", "found", "content", "missing"}

RequestState ==
    [pc      : PCs,
     user    : User \cup {None},
     id      : MediaID \cup {None},
     content : Content \cup {None},  \* uploaded, or recorded in the row read
     body    : Content \cup {None},  \* bytes read from the object store
     client  : BOOLEAN,              \* the id is a client-supplied media id
     taken   : BOOLEAN,              \* the INSERT reported the id as taken
     todo    : SUBSET MediaID,       \* objects a delete has still to remove
     answer  : Answers]

Free == [pc |-> "free", user |-> None, id |-> None, content |-> None,
         body |-> None, client |-> FALSE, taken |-> FALSE, todo |-> {},
         answer |-> "none"]

RequestsTypeOK ==
    /\ req \in [Request -> RequestState]
    /\ reborn \subseteq MediaID

RequestsInit ==
    /\ req = [r \in Request |-> Free]
    /\ reborn = {}

Become(r, s) == req' = [req EXCEPT ![r] = s]

\* The request ends with an answer to the client.
Reply(r, a) == Become(r, [Free EXCEPT !.answer = a])

-----------------------------------------------------------------------------
(* Service.Upload and Repository.Create. *)

\* uuid.New(): an id nothing in the system has seen.
Fresh(id) ==
    /\ media[id] = None /\ blobs[id] = None /\ tasks[id] = "none"
    /\ \A r \in Request : req[r].id # id /\ id \notin req[r].todo

\* Create returned ErrIDConflict: look the id up if the client supplied it.
OnIDConflict(r, s) ==
    IF s.client THEN Become(r, [s EXCEPT !.pc = "lookup"]) ELSE Reply(r, "error")

Uploading(u, id, c, client) ==
    [Free EXCEPT !.user = u, !.id = id, !.content = c, !.client = client]

\* Slip: the compensating delete also runs when Put found an object.
UploadCleansConflict(r, u, id, c, client) ==
    LET s == Uploading(u, id, c, client)
    IN  /\ req[r].pc = "free"
        /\ client \/ Fresh(id)
        /\ \/ Put(id, c, "ok") /\ Become(r, [s EXCEPT !.pc = "insert"])
           \/ Put(id, c, "exists") /\ Become(r, [s EXCEPT !.pc = "cleanup", !.taken = TRUE])
           \/ Put(id, c, "failed") /\ Reply(r, "error")
        /\ reborn' = IF blobs' # blobs /\ tasks[id] # "none"
                     THEN reborn \cup {id} ELSE reborn
        /\ UNCHANGED tableVars

\* blobs.Put, the first call of Create.
Upload(r, u, id, c, client) ==
    LET s == Uploading(u, id, c, client)
    IN  /\ req[r].pc = "free"
        /\ client \/ Fresh(id)
        /\ \/ Put(id, c, "ok") /\ Become(r, [s EXCEPT !.pc = "insert"])
           \/ Put(id, c, "exists") /\ OnIDConflict(r, s)
           \/ Put(id, c, "failed") /\ Reply(r, "error")
        /\ reborn' = IF blobs' # blobs /\ tasks[id] # "none"
                     THEN reborn \cup {id} ELSE reborn
        /\ UNCHANGED tableVars

\* metadata.Create, once the object is stored.
CreateRow(r) ==
    LET s == req[r]
    IN  /\ s.pc = "insert"
        /\ \/ Insert(s.id, s.user, s.content, "ok") /\ Reply(r, "created")
           \/ /\ Insert(s.id, s.user, s.content, "conflict")
              /\ Become(r, [s EXCEPT !.pc = "cleanup", !.taken = TRUE])
           \/ /\ Insert(s.id, s.user, s.content, "failed")
              /\ Become(r, [s EXCEPT !.pc = "cleanup"])
        /\ UNCHANGED <<blobs, reborn>>

\* blobs.Delete after a failed INSERT; a failure of it is only logged.
CleanupBlob(r) ==
    LET s == req[r]
    IN  /\ s.pc = "cleanup"
        /\ \E out \in {"ok", "failed"} : DeleteObject(s.id, out)
        /\ IF s.taken THEN OnIDConflict(r, s) ELSE Reply(r, "error")
        /\ UNCHANGED <<tableVars, reborn>>

\* GetByID after a conflict: any miss, and any error, is ErrMediaIDConflict.
LookupExisting(r) ==
    LET s == req[r]
    IN  /\ s.pc = "lookup"
        /\ \/ GetByID(s.user, s.id) # None /\ Reply(r, "existed")
           \/ Reply(r, "conflict")
        /\ UNCHANGED <<tableVars, blobs, reborn>>

-----------------------------------------------------------------------------
(* Repository.Delete, DeleteByIDs and DeleteAllByUser. *)

\* The delete statement; the objects of the matched rows are removed next.
DeleteMetadata(r, u, ids, single) ==
    LET matched == Matching(u, ids)
    IN  /\ req[r].pc = "free"
        /\ \/ /\ DeleteStatement(u, ids, "ok")
              /\ IF matched = {}
                 THEN Reply(r, IF single THEN "notfound" ELSE "deleted")
                 ELSE Become(r, [Free EXCEPT !.pc = "sweep", !.user = u,
                                             !.todo = matched])
           \/ DeleteStatement(u, ids, "failed") /\ Reply(r, "error")
        /\ UNCHANGED <<blobs, reborn>>

Delete(r, u, id) == DeleteMetadata(r, u, {id}, TRUE)

DeleteByIDs(r, u, ids) == ids # {} /\ DeleteMetadata(r, u, ids, FALSE)

DeleteAllByUser(r, u) == DeleteMetadata(r, u, MediaID, FALSE)

\* blobs.Delete for one of the deleted ids; a failure is only logged.
SweepBlob(r, id) ==
    LET left == req[r].todo \ {id}
    IN  /\ req[r].pc = "sweep"
        /\ id \in req[r].todo
        /\ \E out \in {"ok", "failed"} : DeleteObject(id, out)
        /\ IF left = {} THEN Reply(r, "deleted")
           ELSE Become(r, [req[r] EXCEPT !.todo = left])
        /\ UNCHANGED <<tableVars, reborn>>

-----------------------------------------------------------------------------
(* Repository.GetByID and GetContent, the latter with no legacy reader (as    *)
(* cmd/server wires it).                                                      *)

GetMedia(r, u, id) ==
    /\ req[r].pc = "free"
    /\ \/ Reply(r, IF GetByID(u, id) # None THEN "found" ELSE "notfound")
       \/ Reply(r, "error")
    /\ UNCHANGED <<tableVars, blobs, reborn>>

DownloadRow(r, u, id) ==
    /\ req[r].pc = "free"
    /\ \/ /\ GetByID(u, id) # None
          /\ Become(r, [Free EXCEPT !.pc = "read", !.user = u, !.id = id,
                                    !.content = media[id].content])
       \/ GetByID(u, id) = None /\ Reply(r, "notfound")
       \/ Reply(r, "error")
    /\ UNCHANGED <<tableVars, blobs, reborn>>

DownloadBlob(r) ==
    LET s    == req[r]
        done == [s EXCEPT !.pc = "free", !.user = None]
    IN  /\ s.pc = "read"
        /\ \/ /\ Get(s.id) # None
              /\ Become(r, [done EXCEPT !.answer = "content", !.body = Get(s.id)])
           \/ Get(s.id) = None /\ Become(r, [done EXCEPT !.answer = "missing"])
           \/ Reply(r, "error")
        /\ UNCHANGED <<tableVars, blobs, reborn>>

-----------------------------------------------------------------------------
\* The process dies in the middle of the request: no answer, no cleanup.
Crash(r) ==
    /\ req[r].pc # "free"
    /\ Become(r, Free)
    /\ UNCHANGED <<tableVars, blobs, reborn>>

UploadStep(r) ==
    \/ \E u \in User, id \in MediaID, c \in Content, client \in BOOLEAN :
           Upload(r, u, id, c, client)
    \/ CreateRow(r)
    \/ CleanupBlob(r)
    \/ LookupExisting(r)

DeleteStep(r) ==
    \/ \E u \in User, id \in MediaID : Delete(r, u, id)
    \/ \E u \in User, ids \in SUBSET MediaID : DeleteByIDs(r, u, ids)
    \/ \E u \in User : DeleteAllByUser(r, u)
    \/ \E id \in MediaID : SweepBlob(r, id)

ReadStep(r) ==
    \/ \E u \in User, id \in MediaID : GetMedia(r, u, id)
    \/ \E u \in User, id \in MediaID : DownloadRow(r, u, id)
    \/ DownloadBlob(r)

RequestStep(r) == UploadStep(r) \/ DeleteStep(r) \/ ReadStep(r) \/ Crash(r)

=============================================================================
