---------------------------- MODULE MCListMedia -----------------------------
(* ListMedia on queries of a few strings, two of which denote the same id. *)
EXTENDS ListMedia, TLC

CONSTANTS a, A, b, c, junk, ida, idb, idc

MCParse == a :> ida @@ A :> ida @@ b :> idb @@ c :> idc @@ junk :> NotUUID

=============================================================================
