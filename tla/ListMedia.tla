----------------------------- MODULE ListMedia ------------------------------
(***************************************************************************)
(* GET /media?ids= and DELETE /media?ids=: from the ids of the query       *)
(* string, through IDsQuery.Validate, dedupeIDs and the cap, to the answer.*)
(* One step is one round of a loop, or the database call.                  *)
(***************************************************************************)
EXTENDS Integers, SequencesExt

CONSTANTS
    Raw,          \* strings a client may send
    ID,           \* media ids
    NotUUID,      \* the result of parsing a string that is no UUID
    Parse,        \* uuid.Parse: several strings can denote one id
    maxListIDs,   \* cap on the distinct ids of one call
    MaxQuery      \* bound: the longest query

ASSUME ListConstants ==
    /\ Parse \in [Raw -> ID \cup {NotUUID}] /\ NotUUID \notin ID
    /\ maxListIDs \in Nat /\ MaxQuery \in Nat

VARIABLES
    op,      \* "list" or "delete"
    raw,     \* q.IDs
    mine,    \* ids of the rows that belong to the caller
    pc,      \* "validate", "dedupe", "query", "order" or the answer
    i,       \* how far the current loop is
    dedup,
    found,   \* the rows the statement returned, in its order
    ordered  \* the items of List

listVars == <<op, raw, mine, pc, i, dedup, found, ordered>>

Answers == {"ids_invalid", "ids_too_many", "internal", "ok"}

ListTypeOK ==
    /\ op \in {"list", "delete"}
    /\ raw \in Seq(Raw) /\ Len(raw) <= MaxQuery
    /\ mine \subseteq ID
    /\ pc \in {"validate", "dedupe", "query", "order"} \cup Answers
    /\ i \in 1 .. MaxQuery + 1
    /\ dedup \in Seq(ID) /\ found \in Seq(ID) /\ ordered \in Seq(ID)

ListInit ==
    /\ op \in {"list", "delete"}
    /\ raw \in UNION {[1 .. n -> Raw] : n \in 0 .. MaxQuery}
    /\ mine \in SUBSET ID
    /\ pc = "validate"
    /\ i = 1
    /\ dedup = <<>>
    /\ found = <<>> /\ ordered = <<>>

Goto(next) == pc' = next /\ i' = 1

\* Slip: a string that is no UUID is passed over.
ValidateLenient ==
    /\ pc = "validate"
    /\ \/ i > Len(raw) /\ Goto("dedupe")
       \/ i <= Len(raw) /\ i' = i + 1 /\ UNCHANGED pc
    /\ UNCHANGED <<op, raw, mine, dedup, found, ordered>>

\* IDsQuery.Validate stops at the first string that is no UUID.
Validate ==
    /\ pc = "validate"
    /\ \/ i > Len(raw) /\ Goto("dedupe")
       \/ i <= Len(raw) /\ Parse[raw[i]] = NotUUID /\ Goto("ids_invalid")
       \/ i <= Len(raw) /\ Parse[raw[i]] # NotUUID /\ i' = i + 1 /\ UNCHANGED pc
    /\ UNCHANGED <<op, raw, mine, dedup, found, ordered>>

\* Slip: duplicates are found among the strings, before they are parsed.
DedupeIDsUnparsed ==
    /\ pc = "dedupe"
    /\ i <= Len(raw)
    /\ dedup' = IF raw[i] \in {raw[j] : j \in 1 .. i - 1} THEN dedup
                ELSE Append(dedup, Parse[raw[i]])
    /\ i' = i + 1
    /\ UNCHANGED <<op, raw, mine, pc, found, ordered>>

\* dedupeIDs keeps the first of each id.
DedupeIDs ==
    /\ pc = "dedupe"
    /\ i <= Len(raw)
    /\ dedup' = IF Parse[raw[i]] \in Range(dedup) THEN dedup
                ELSE Append(dedup, Parse[raw[i]])
    /\ i' = i + 1
    /\ UNCHANGED <<op, raw, mine, pc, found, ordered>>

\* Slip: a list that is too long is cut off.
CapTruncates ==
    /\ pc = "dedupe"
    /\ i > Len(raw)
    /\ Goto(IF dedup = <<>> THEN "ok" ELSE "query")
    /\ dedup' = IF Len(dedup) > maxListIDs THEN SubSeq(dedup, 1, maxListIDs) ELSE dedup
    /\ UNCHANGED <<op, raw, mine, found, ordered>>

\* An empty list needs no query, and one that is too long gets none.
Cap ==
    /\ pc = "dedupe"
    /\ i > Len(raw)
    /\ Goto(CASE dedup = <<>>             -> "ok"
              [] Len(dedup) > maxListIDs  -> "ids_too_many"
              [] OTHER                    -> "query")
    /\ UNCHANGED <<op, raw, mine, dedup, found, ordered>>

\* ListByIDs or DeleteByIDs of the repository, one statement: the rows of dedup
\* that are the caller's, in the order the database returns them.
Query ==
    /\ pc = "query"
    /\ found' \in SetToSeqs(Range(dedup) \cap mine)
    /\ Goto(IF op = "list" THEN "order" ELSE "ok")
    /\ mine' = IF op = "delete" THEN mine \ Range(dedup) ELSE mine
    /\ UNCHANGED <<op, raw, dedup, ordered>>

\* The statement is reported as failed; a delete may have committed.
QueryFails ==
    /\ pc = "query"
    /\ Goto("internal")
    /\ mine' \in {mine} \cup IF op = "delete" THEN {mine \ Range(dedup)} ELSE {}
    /\ UNCHANGED <<op, raw, dedup, found, ordered>>

\* Slip: List returns what the database returned.
OrderNothing ==
    /\ pc = "order"
    /\ Goto("ok")
    /\ ordered' = found
    /\ UNCHANGED <<op, raw, mine, dedup, found>>

\* List walks dedup and takes the rows it finds in byID.
Order ==
    /\ pc = "order"
    /\ \/ /\ i <= Len(dedup)
          /\ ordered' = IF dedup[i] \in Range(found) THEN Append(ordered, dedup[i]) ELSE ordered
          /\ i' = i + 1 /\ UNCHANGED pc
       \/ i > Len(dedup) /\ Goto("ok") /\ UNCHANGED ordered
    /\ UNCHANGED <<op, raw, mine, dedup, found>>

\* The answer is sent.
Answered == pc \in Answers /\ UNCHANGED listVars

ListNext ==
    Validate \/ DedupeIDs \/ Cap \/ Query \/ QueryFails \/ Order \/ Answered

ListSpec == ListInit /\ [][ListNext]_listVars

-----------------------------------------------------------------------------
(* What the caller may expect, from the ids it sent. *)

Ids == [k \in DOMAIN raw |-> Parse[raw[k]]]

IsFirst(k, id) == Ids[k] = id /\ \A j \in 1 .. k - 1 : Ids[j] # id

FirstAt(id) == CHOOSE k \in DOMAIN raw : IsFirst(k, id)

InQueryOrder(ids) ==
    \A j, k \in DOMAIN ids : j < k => FirstAt(ids[j]) < FirstAt(ids[k])

\* List answers with the caller's rows among the ids it asked for, each once,
\* in the order in which their ids first appear in the query.
ListsInQueryOrder ==
    pc = "ok" /\ op = "list" =>
        /\ Range(ordered) = Range(Ids) \cap mine
        /\ InQueryOrder(ordered)

\* A call is refused for its length exactly if it is valid and names more than
\* maxListIDs distinct ids, however often it repeats them.
CapCountsDistinct ==
    pc \in Answers =>
        (pc = "ids_too_many" <=>
            NotUUID \notin Range(Ids) /\ Cardinality(Range(Ids)) > maxListIDs)

\* A delete that is refused has deleted nothing, one that is accepted has deleted
\* every row of the caller it named, and one that failed either of the two.
DeletesAllOrNothing ==
    [][op = "delete" /\ pc' \in Answers =>
           \/ pc' # "ok" /\ mine' = mine
           \/ pc' \in {"ok", "internal"} /\ mine' = mine \ Range(Ids)]_listVars

-----------------------------------------------------------------------------
(* What the loops keep true. *)

\* No string passed so far, and none at all after the loop, is not a UUID.
Validated ==
    /\ pc = "validate" =>
           /\ i <= Len(raw) + 1 /\ dedup = <<>>
           /\ \A k \in 1 .. i - 1 : Ids[k] # NotUUID
    /\ pc = "ids_invalid" <=> pc # "validate" /\ NotUUID \in Range(Ids)

\* dedup has the ids of the strings passed so far, ordered by their first place.
DedupIsPrefix ==
    pc \notin {"validate", "ids_invalid"} =>
        LET n == IF pc = "dedupe" THEN i - 1 ELSE Len(raw)
        IN  /\ Len(dedup) <= n /\ n <= Len(raw)
            /\ Range(dedup) = {Ids[k] : k \in 1 .. n}
            /\ \A d \in DOMAIN dedup : \E k \in 1 .. n : IsFirst(k, dedup[d])
            /\ InQueryOrder(dedup)

\* Only a list within the cap gets to the database, and only one above it is
\* refused for its length.
Capped ==
    /\ pc = "ids_too_many" => Len(dedup) > maxListIDs
    /\ pc \in {"query", "order", "internal", "ok"} => Len(dedup) <= maxListIDs

\* ordered has those ids of dedup passed so far that are the caller's.
OrderedIsPrefix ==
    /\ pc \in {"validate", "dedupe", "query"} => ordered = <<>>
    /\ pc = "order" =>
           op = "list" /\ i <= Len(dedup) + 1 /\ Range(found) = Range(dedup) \cap mine
    /\ pc = "order" \/ (pc = "ok" /\ op = "list") =>
           LET n == IF pc = "order" THEN i - 1 ELSE Len(dedup)
           IN  /\ Range(ordered) = {dedup[k] : k \in 1 .. n} \cap mine
               /\ InQueryOrder(ordered)

\* The inductive invariant of a query.
ListInv == ListTypeOK /\ Validated /\ DedupIsPrefix /\ Capped /\ OrderedIsPrefix

=============================================================================
