----------------------------- MODULE MediaTypes -----------------------------
(***************************************************************************)
(* The values the components of the service exchange.                      *)
(***************************************************************************)

CONSTANTS
    User,      \* authenticated callers
    MediaID,   \* media ids, and so object keys: ObjectKey is injective
    Content,   \* what one upload stores: its bytes, and the row's account of them
    None       \* no object, no row, nothing held

\* A row of media: its owner, and the upload whose name, type and size it records.
Row == [user : User, content : Content]

ASSUME NoneIsNoValue ==
    None \notin Content \cup Row \cup MediaID \cup User

=============================================================================
