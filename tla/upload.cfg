SPECIFICATION UploadSpec
CONSTANTS
    MaxUpload = 2
    Overhead = 2
    MaxBody = 5
INVARIANTS
    UploadTypeOK
    OneSizeLimit
    StoredTypeFits
