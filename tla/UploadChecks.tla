---------------------------- MODULE UploadChecks ----------------------------
(***************************************************************************)
(* POST /media up to the call of Repository.Create: the body limit, the    *)
(* form and its fields (Handler.Upload), then the size and type checks of  *)
(* Service.Upload.  None of these touches a store; MediaRepository goes on *)
(* with the uploads that end in "create".                                  *)
(***************************************************************************)
EXTENDS Integers

CONSTANTS
    MaxUpload,   \* maxUploadSizeBytes
    Overhead,    \* multipartOverheadBytes
    MaxBody      \* bound: the longest file, and the longest rest of a body

ASSUME UploadConstants == MaxUpload \in Nat /\ Overhead \in Nat /\ MaxBody \in Nat

\* allowedExtensions: the stored type, and what the bytes may be sniffed as;
\* no family at all means that the extension is trusted.
Allowed(mime, families) == [mime |-> mime, families |-> families]

allowedExtensions ==
    [jpg  |-> Allowed("image/jpeg", {"image/jpeg"}),
     jpeg |-> Allowed("image/jpeg", {"image/jpeg"}),
     png  |-> Allowed("image/png", {"image/png"}),
     webp |-> Allowed("image/webp", {"image/webp"}),
     heic |-> Allowed("image/heic", {}),
     pdf  |-> Allowed("application/pdf", {"application/pdf"}),
     xml  |-> Allowed("application/xml", {"text/xml", "text/plain", "application/xml"}),
     txt  |-> Allowed("text/plain", {"text/plain"}),
     csv  |-> Allowed("text/csv", {"text/plain", "text/csv"})]

\* Lower-cased extensions, an unknown one and a missing one among them.
Extension == DOMAIN allowedExtensions \cup {"exe", ""}

\* What http.DetectContentType says of the bytes, without its parameters: they
\* come last, and the families are compared as prefixes.
Sniffed == {"image/jpeg", "image/png", "image/webp", "application/pdf", "text/xml",
            "text/plain", "text/html", "application/octet-stream"}

\* A request: its file and the rest of its body in bytes, whether the body is a
\* multipart form, the mediaId field, whether there is a file part, and the file.
\* A form ends with its closing boundary: what follows is never read, and no part
\* of rest.
Requests ==
    [file : 0 .. MaxBody, rest : 1 .. MaxBody, form : BOOLEAN,
     mediaId : {"", "uuid", "junk"}, hasFile : BOOLEAN,
     ext : Extension, bytes : Sniffed]

VARIABLES
    request,
    at,       \* the next check, or the answer
    fields,   \* fields of the request found wrong
    type      \* contentType, "" until it is known

uploadVars == <<request, at, fields, type>>

Refusals == {"invalid_body", "file_too_large", "validation_error", "unsupported_file_type"}

UploadTypeOK ==
    /\ request \in Requests
    /\ at \in {"parse", "fields", "read", "size", "type", "create"} \cup Refusals
    /\ fields \subseteq {"mediaId", "file"}
    /\ type \in {""} \cup {allowedExtensions[e].mime : e \in DOMAIN allowedExtensions}

UploadInit ==
    /\ request \in {q \in Requests : q.hasFile \/ (q.file = 0 /\ q.ext = "")}
    /\ at = "parse"
    /\ fields = {}
    /\ type = ""

-----------------------------------------------------------------------------
(* Handler.Upload. *)

TooLong == request.file + request.rest > MaxUpload + Overhead

\* The answer when the form or the file part cannot be read.
writeMultipartError(maxBytes) ==
    at' = IF maxBytes THEN "file_too_large" ELSE "invalid_body"

\* Slip: the body limit has no room for the form around the file.
ParseTight ==
    /\ at = "parse"
    /\ \/ request.file + request.rest > MaxUpload /\ writeMultipartError(TRUE)
       \/ ~ request.form /\ writeMultipartError(FALSE)
       \/ request.file + request.rest <= MaxUpload /\ request.form /\ at' = "fields"
    /\ UNCHANGED <<request, fields, type>>

\* MaxBytesReader and ParseMultipartForm: a body that is neither a form nor
\* short enough fails in whichever way comes first.
ParseMultipartForm ==
    /\ at = "parse"
    /\ \/ TooLong /\ writeMultipartError(TRUE)
       \/ ~ request.form /\ writeMultipartError(FALSE)
       \/ ~ TooLong /\ request.form /\ at' = "fields"
    /\ UNCHANGED <<request, fields, type>>

\* UploadRequest.Validate: mediaId is a UUID, if it is there at all.
InvalidMediaID == request.mediaId = "junk"

\* The mediaId and the file part: both are looked at before the answer.
ValidateFields ==
    /\ at = "fields"
    /\ fields' = {f \in {"mediaId", "file"} :
                      \/ f = "mediaId" /\ InvalidMediaID
                      \/ f = "file" /\ ~ request.hasFile}
    /\ at' = IF fields' = {} THEN "read" ELSE "validation_error"
    /\ UNCHANGED <<request, type>>

\* io.ReadAll of the parsed file; it may fail, but the body is already within
\* its limit, so a failure is no MaxBytesError.
ReadFile ==
    /\ at = "read"
    /\ at' = "size" \/ writeMultipartError(FALSE)
    /\ UNCHANGED <<request, fields, type>>

-----------------------------------------------------------------------------
(* Service.Upload. *)

CheckSize ==
    /\ at = "size"
    /\ at' = IF request.file > MaxUpload THEN "file_too_large" ELSE "type"
    /\ UNCHANGED <<request, fields, type>>

\* Slip: bytes that the sniffer cannot name pass with any extension.
ConsistentOrUnknown(ext, bytes) ==
    /\ ext \in DOMAIN allowedExtensions
    /\ bytes \in allowedExtensions[ext].families \cup {"application/octet-stream"}
           \/ allowedExtensions[ext].families = {}

\* The extension is allowed, and the bytes are what it promises.
Consistent(ext, bytes) ==
    /\ ext \in DOMAIN allowedExtensions
    /\ bytes \in allowedExtensions[ext].families \/ allowedExtensions[ext].families = {}

\* Slip: the sniffed type is stored instead of the canonical one.
SniffedMIME(ext, bytes) == bytes

canonicalMIME(ext, bytes) == allowedExtensions[ext].mime

canonicalContentType ==
    /\ at = "type"
    /\ \/ /\ Consistent(request.ext, request.bytes)
          /\ at' = "create"
          /\ type' = canonicalMIME(request.ext, request.bytes)
       \/ /\ ~ Consistent(request.ext, request.bytes)
          /\ at' = "unsupported_file_type"
          /\ UNCHANGED type
    /\ UNCHANGED <<request, fields>>

\* The request is answered, or handed to Create.
Checked == at \in {"create"} \cup Refusals /\ UNCHANGED uploadVars

UploadNext ==
    \/ ParseMultipartForm
    \/ ValidateFields
    \/ ReadFile
    \/ CheckSize
    \/ canonicalContentType
    \/ Checked

UploadSpec == UploadInit /\ [][UploadNext]_uploadVars

-----------------------------------------------------------------------------
\* The two size checks make one limit: a file above maxUploadSizeBytes is never
\* looked into and never reaches Create, and "file_too_large" is never said of one
\* within it unless the rest of the body alone exceeds multipartOverheadBytes.
OneSizeLimit ==
    /\ at \in {"type", "unsupported_file_type", "create"} => request.file <= MaxUpload
    /\ at = "file_too_large" => request.file > MaxUpload \/ request.rest > Overhead

\* Apart from HEIC, which cannot be sniffed, an upload is stored under the type
\* its bytes have, or as a kind of text if they are text; a page of HTML never is.
StoredTypeFits ==
    at = "create" /\ type # "image/heic" =>
        \/ type = request.bytes
        \/ /\ type \in {"application/xml", "text/csv"}
           /\ request.bytes \in {"text/plain", "text/xml"}

=============================================================================
