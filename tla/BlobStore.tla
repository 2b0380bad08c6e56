----------------------------- MODULE BlobStore -----------------------------
(***************************************************************************)
(* The object store behind domain/media.BlobStore, as blobstore.Store      *)
(* drives it: one S3 object per media id (ObjectKey is injective, so the   *)
(* key is the id itself).  A call has an outcome the caller sees, and a    *)
(* failed call may or may not have taken effect: the error can be a reply  *)
(* lost after S3 applied the request.                                      *)
(***************************************************************************)
EXTENDS MediaTypes

VARIABLE blobs \* blobs[id]: the content of the object of id, or None

BlobsTypeOK == blobs \in [MediaID -> Content \cup {None}]

BlobsInit == blobs = [id \in MediaID |-> None]

\* Slip: without the If-None-Match condition PutObject overwrites.
PutOverwrites(id, c, out) ==
    out = "ok" /\ blobs' = [blobs EXCEPT ![id] = c]

PreconditionFailed(id) == blobs[id] # None

\* PutObject with If-None-Match: * creates the object only if there is none.
\* When the reply of an attempt that created it is lost, the call fails, or the
\* client library's own retry meets the new object and reports that it exists.
Put(id, c, out) ==
    \/ /\ out = "ok"
       /\ ~ PreconditionFailed(id)
       /\ blobs' = [blobs EXCEPT ![id] = c]
    \/ /\ out = "exists"
       /\ PreconditionFailed(id)
       /\ UNCHANGED blobs
    \/ /\ out = "failed"
       /\ UNCHANGED blobs
    \/ /\ out \in {"failed", "exists"}
       /\ ~ PreconditionFailed(id)
       /\ blobs' = [blobs EXCEPT ![id] = c]

\* DeleteObject: removing an object that does not exist also succeeds.
DeleteObject(id, out) ==
    \/ /\ out \in {"ok", "failed"}
       /\ blobs' = [blobs EXCEPT ![id] = None]
    \/ /\ out = "failed"
       /\ UNCHANGED blobs

\* GetObject: the content read, None for NoSuchKey.
Get(id) == blobs[id]

=============================================================================
