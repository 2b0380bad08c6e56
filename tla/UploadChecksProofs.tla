------------------------- MODULE UploadChecksProofs -------------------------
(***************************************************************************)
(* The checks before an upload, for every limit on files and on the rest   *)
(* of a body, and files and bodies of any size.                            *)
(***************************************************************************)
EXTENDS UploadChecks, TLAPS

\* No property is inductive without what the earlier checks have established.
UploadInv == UploadTypeOK /\ OneSizeLimit /\ StoredTypeFits

LEMMA RequestSizes ==
    ASSUME UploadTypeOK
    PROVE  request.file \in Nat /\ request.rest \in Nat
<1>1. request.file \in 0 .. MaxBody /\ request.rest \in 1 .. MaxBody
  BY DEF UploadTypeOK, Requests
<1> QED
  BY <1>1, UploadConstants

\* A type is stored only for an extension that promises these bytes.
LEMMA CanonicalFits ==
    ASSUME NEW ext, NEW bytes, Consistent(ext, bytes)
    PROVE  /\ canonicalMIME(ext, bytes) \in {allowedExtensions[e].mime : e \in DOMAIN allowedExtensions}
           /\ \/ canonicalMIME(ext, bytes) \in {bytes, "image/heic"}
              \/ /\ canonicalMIME(ext, bytes) \in {"application/xml", "text/csv"}
                 /\ bytes \in {"text/plain", "text/xml"}
<1>1. ext \in DOMAIN allowedExtensions
  BY DEF Consistent
<1>2. ext \in {"jpg", "jpeg", "png", "webp", "heic", "pdf", "xml", "txt", "csv"}
  BY <1>1 DEF allowedExtensions
<1>3. allowedExtensions[ext] \in
          {Allowed("image/jpeg", {"image/jpeg"}), Allowed("image/png", {"image/png"}),
           Allowed("image/webp", {"image/webp"}), Allowed("image/heic", {}),
           Allowed("application/pdf", {"application/pdf"}),
           Allowed("application/xml", {"text/xml", "text/plain", "application/xml"}),
           Allowed("text/plain", {"text/plain"}),
           Allowed("text/csv", {"text/plain", "text/csv"})}
  BY <1>2 DEF allowedExtensions
<1>4. bytes \in allowedExtensions[ext].families \/ allowedExtensions[ext].families = {}
  BY DEF Consistent
<1> QED
  BY <1>1, <1>3, <1>4 DEF canonicalMIME, Allowed

LEMMA UploadInvInit == UploadInit => UploadInv
  BY DEF UploadInit, UploadInv, UploadTypeOK, OneSizeLimit, StoredTypeFits,
         Refusals

-----------------------------------------------------------------------------
(* The checks, one by one. *)

LEMMA ParseInv ==
    ASSUME UploadInv, ParseMultipartForm
    PROVE  UploadInv'
<1> USE DEF UploadInv, ParseMultipartForm, writeMultipartError
<1>1. UploadTypeOK'
  BY DEF UploadTypeOK, Refusals
<1>2. OneSizeLimit'
  <2>1. TooLong => request.file > MaxUpload \/ request.rest > Overhead
    BY RequestSizes, UploadConstants DEF TooLong
  <2> QED
    BY <2>1 DEF OneSizeLimit
<1>3. StoredTypeFits'
  BY DEF StoredTypeFits
<1> QED
  BY <1>1, <1>2, <1>3

LEMMA FieldsInv ==
    ASSUME UploadInv, ValidateFields
    PROVE  UploadInv'
<1> USE DEF UploadInv, ValidateFields
<1>0. at' \in {"read", "validation_error"}
  OBVIOUS
<1>1. UploadTypeOK'
  BY <1>0 DEF UploadTypeOK, Refusals
<1>2. OneSizeLimit'
  BY <1>0 DEF OneSizeLimit
<1>3. StoredTypeFits'
  BY <1>0 DEF StoredTypeFits
<1> QED
  BY <1>1, <1>2, <1>3

LEMMA ReadInv ==
    ASSUME UploadInv, ReadFile
    PROVE  UploadInv'
<1> USE DEF UploadInv, ReadFile, writeMultipartError
<1>1. UploadTypeOK'
  BY DEF UploadTypeOK, Refusals
<1>2. OneSizeLimit'
  BY DEF OneSizeLimit
<1>3. StoredTypeFits'
  BY DEF StoredTypeFits
<1> QED
  BY <1>1, <1>2, <1>3

LEMMA SizeInv ==
    ASSUME UploadInv, CheckSize
    PROVE  UploadInv'
<1> USE DEF UploadInv, CheckSize
<1>1. UploadTypeOK'
  BY DEF UploadTypeOK, Refusals
<1>2. OneSizeLimit'
  BY RequestSizes, UploadConstants DEF OneSizeLimit
<1>3. StoredTypeFits'
  BY DEF StoredTypeFits
<1> QED
  BY <1>1, <1>2, <1>3

LEMMA TypeInv ==
    ASSUME UploadInv, canonicalContentType
    PROVE  UploadInv'
<1> USE DEF UploadInv, canonicalContentType
<1>0. \/ at' = "unsupported_file_type" /\ type' = type
      \/ /\ at' = "create"
         /\ type' \in {allowedExtensions[e].mime : e \in DOMAIN allowedExtensions}
         /\ \/ type' \in {request.bytes, "image/heic"}
            \/ /\ type' \in {"application/xml", "text/csv"}
               /\ request.bytes \in {"text/plain", "text/xml"}
  BY CanonicalFits
<1>1. UploadTypeOK'
  BY <1>0 DEF UploadTypeOK, Refusals
<1>2. OneSizeLimit'
  BY <1>0 DEF OneSizeLimit
<1>3. StoredTypeFits'
  BY <1>0 DEF StoredTypeFits
<1> QED
  BY <1>1, <1>2, <1>3

LEMMA UploadInvNext ==
    ASSUME UploadInv, [UploadNext]_uploadVars
    PROVE  UploadInv'
<1>1. CASE UNCHANGED uploadVars
  BY <1>1 DEF uploadVars, UploadInv, UploadTypeOK, OneSizeLimit, StoredTypeFits
<1> QED
  BY <1>1, ParseInv, FieldsInv, ReadInv, SizeInv, TypeInv DEF UploadNext, Checked

LEMMA UploadInductive == UploadSpec => []UploadInv
  BY UploadInvInit, UploadInvNext, PTL DEF UploadSpec

-----------------------------------------------------------------------------
(* The theorems. *)

\* Every answer is one the handler has, and every stored type is one of the
\* table of extensions.
THEOREM UploadTypes == UploadSpec => []UploadTypeOK
<1>1. UploadInv => UploadTypeOK
  BY DEF UploadInv
<1> QED
  BY <1>1, UploadInductive, PTL

\* For every maxUploadSizeBytes and every multipartOverheadBytes, the body limit
\* and the check of the file make one limit.
THEOREM SizeLimitIsOne == UploadSpec => []OneSizeLimit
<1>1. UploadInv => OneSizeLimit
  BY DEF UploadInv
<1> QED
  BY <1>1, UploadInductive, PTL

\* What canonicalContentType lets through has the type its bytes were sniffed as,
\* or is text stored as a kind of text, or is HEIC.
THEOREM StoredTypesFit == UploadSpec => []StoredTypeFits
<1>1. UploadInv => StoredTypeFits
  BY DEF UploadInv
<1> QED
  BY <1>1, UploadInductive, PTL

=============================================================================
