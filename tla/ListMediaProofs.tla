-------------------------- MODULE ListMediaProofs ---------------------------
(***************************************************************************)
(* List and DeleteByIDs for queries of any length, any cap and any way in  *)
(* which strings denote ids: order, cap, and all or nothing.               *)
(***************************************************************************)
EXTENDS ListMedia, FiniteSetTheorems, SequenceTheorems, TLAPS

LEMMA RangeOfAppend ==
    ASSUME NEW S, NEW s \in Seq(S), NEW x \in S
    PROVE  /\ Append(s, x) \in Seq(S) /\ Len(Append(s, x)) = Len(s) + 1
           /\ \A k \in 1 .. Len(s) : Append(s, x)[k] = s[k]
           /\ Append(s, x)[Len(s) + 1] = x
           /\ Range(Append(s, x)) = Range(s) \cup {x}
<1> DEFINE t == Append(s, x)
<1>1. /\ t \in Seq(S) /\ Len(t) = Len(s) + 1 /\ Len(s) \in Nat
      /\ \A k \in 1 .. Len(s) : t[k] = s[k]
      /\ t[Len(s) + 1] = x
      /\ DOMAIN s = 1 .. Len(s) /\ DOMAIN t = 1 .. Len(s) + 1
  OBVIOUS
<1> HIDE DEF t
<1>2. 1 .. Len(s) + 1 = 1 .. Len(s) \cup {Len(s) + 1}
  BY <1>1
<1>3. Range(t) = Range(s) \cup {x}
  BY <1>1, <1>2 DEF Range
<1> QED
  BY <1>1, <1>3 DEF t

\* A sequence without repetition is as long as it has elements.
LEMMA DistinctLen ==
    ASSUME NEW S, NEW s \in Seq(S), \A j, k \in DOMAIN s : j < k => s[j] # s[k]
    PROVE  IsFiniteSet(Range(s)) /\ Cardinality(Range(s)) = Len(s)
<1>1. Len(s) \in Nat /\ DOMAIN s = 1 .. Len(s)
  OBVIOUS
<1>2. IsFiniteSet(1 .. Len(s)) /\ Cardinality(1 .. Len(s)) = Len(s)
  BY <1>1, FS_Interval
<1>3. s \in Surjection(1 .. Len(s), Range(s))
  BY <1>1 DEF Surjection, Range
<1>4. s \in Injection(1 .. Len(s), Range(s))
  BY <1>1, <1>3 DEF Injection, IsInjective, Surjection
<1> QED
  BY <1>2, <1>3, <1>4, FS_Surjection

\* Whatever order the database chooses, it returns each row once.
LEMMA RowsInSomeOrder ==
    ASSUME NEW S, IsFiniteSet(S), NEW s \in SetToSeqs(S)
    PROVE  s \in Seq(S) /\ Range(s) = S
<1>1. Cardinality(S) \in Nat
  BY FS_CardinalityType
<1> DEFINE D == 1 .. Cardinality(S)
<1>2. s \in [D -> S] /\ s \in Injection(D, S)
  BY DEF SetToSeqs, Injection, IsInjective
<1>3. IsFiniteSet(D) /\ Cardinality(D) = Cardinality(S)
  BY <1>1, FS_Interval
<1>4. s \in Surjection(D, S)
  BY <1>2, <1>3, FS_Injection
<1> QED
  BY <1>1, <1>2, <1>4 DEF Surjection, Range

\* The first place of an id is unique, and no step but the first sees it change.
LEMMA FirstAtIs ==
    ASSUME NEW k \in DOMAIN raw, NEW id, IsFirst(k, id), raw \in Seq(Raw)
    PROVE  FirstAt(id) = k
<1>1. DOMAIN raw = 1 .. Len(raw) /\ Len(raw) \in Nat
  OBVIOUS
<1>2. \A j \in DOMAIN raw : IsFirst(j, id) => j = k
  BY <1>1 DEF IsFirst
<1> QED
  BY <1>2 DEF FirstAt

LEMMA QueryFixed ==
    ASSUME UNCHANGED raw
    PROVE  Ids' = Ids /\ \A id : FirstAt(id)' = FirstAt(id)
  BY DEF FirstAt, IsFirst, Ids

\* The ids of a query are ids, or no UUIDs.
LEMMA IdsTyped ==
    ASSUME raw \in Seq(Raw)
    PROVE  /\ DOMAIN raw = 1 .. Len(raw) /\ Len(raw) \in Nat
           /\ DOMAIN Ids = 1 .. Len(raw)
           /\ \A k \in 1 .. Len(raw) :
                  raw[k] \in Raw /\ Ids[k] = Parse[raw[k]] /\ Ids[k] \in ID \cup {NotUUID}
           /\ Range(Ids) = {Ids[k] : k \in 1 .. Len(raw)}
<1>1. /\ DOMAIN raw = 1 .. Len(raw) /\ Len(raw) \in Nat
      /\ \A k \in 1 .. Len(raw) : raw[k] \in Raw
  OBVIOUS
<1> QED
  BY <1>1, ListConstants DEF Ids, Range

\* An id that first appears after all the others goes to the end of the list.
LEMMA OrderedAppend ==
    ASSUME NEW ids \in Seq(ID), NEW x \in ID, InQueryOrder(ids),
           \A k \in DOMAIN ids : FirstAt(ids[k]) < FirstAt(x)
    PROVE  InQueryOrder(Append(ids, x))
<1> DEFINE t == Append(ids, x)
<1>1. /\ Len(ids) \in Nat /\ DOMAIN ids = 1 .. Len(ids) /\ DOMAIN t = 1 .. Len(ids) + 1
      /\ \A k \in 1 .. Len(ids) : t[k] = ids[k]
      /\ t[Len(ids) + 1] = x
  OBVIOUS
<1> HIDE DEF t
<1>2. ASSUME NEW j \in DOMAIN t, NEW k \in DOMAIN t, j < k
      PROVE  FirstAt(t[j]) < FirstAt(t[k])
  <2>1. j \in DOMAIN ids /\ t[j] = ids[j]
    BY <1>1, <1>2
  <2>2. CASE k = Len(ids) + 1
    BY <1>1, <2>1, <2>2
  <2>3. CASE k \in DOMAIN ids
    BY <1>1, <1>2, <2>1, <2>3 DEF InQueryOrder
  <2> QED
    BY <1>1, <2>2, <2>3
<1>3. InQueryOrder(t)
  BY <1>2 DEF InQueryOrder
<1> QED
  BY <1>3 DEF t

\* A list ordered by first places has no id twice, and order survives a step that
\* leaves the query alone.
LEMMA OrderedDistinct ==
    ASSUME raw \in Seq(Raw), dedup \in Seq(ID), NEW n \in Nat, n <= Len(raw),
           \A d \in DOMAIN dedup : \E k \in 1 .. n : IsFirst(k, dedup[d]),
           InQueryOrder(dedup)
    PROVE  /\ \A d \in DOMAIN dedup : FirstAt(dedup[d]) \in 1 .. n
           /\ \A j, k \in DOMAIN dedup : j < k => dedup[j] # dedup[k]
           /\ IsFiniteSet(Range(dedup)) /\ Cardinality(Range(dedup)) = Len(dedup)
<1>1. ASSUME NEW d \in DOMAIN dedup PROVE FirstAt(dedup[d]) \in 1 .. n
  <2>1. PICK k \in 1 .. n : IsFirst(k, dedup[d])
    OBVIOUS
  <2>2. k \in DOMAIN raw
    BY IdsTyped
  <2> QED
    BY <2>1, <2>2, FirstAtIs
<1>2. \A j, k \in DOMAIN dedup : j < k => dedup[j] # dedup[k]
  BY <1>1 DEF InQueryOrder
<1> QED
  BY <1>1, <1>2, DistinctLen

-----------------------------------------------------------------------------
(* The steps, one by one. *)

LEMMA ListInvInit == ListInit => ListInv
<1> SUFFICES ASSUME ListInit PROVE ListInv
  OBVIOUS
<1> USE ListConstants DEF ListInit
<1>0. raw \in Seq(Raw) /\ Len(raw) \in 0 .. MaxQuery
  <2>1. PICK n \in 0 .. MaxQuery : raw \in [1 .. n -> Raw]
    OBVIOUS
  <2> QED
    BY <2>1
<1>1. ListTypeOK
  BY <1>0 DEF ListTypeOK
<1>2. Validated
  BY <1>0 DEF Validated
<1>3. DedupIsPrefix /\ Capped /\ OrderedIsPrefix
  BY DEF DedupIsPrefix, Capped, OrderedIsPrefix
<1> QED
  BY <1>1, <1>2, <1>3 DEF ListInv

LEMMA ValidateInv ==
    ASSUME ListInv, Validate
    PROVE  ListInv'
<1> USE ListConstants, QueryFixed DEF ListInv
<1>0. /\ pc = "validate" /\ UNCHANGED <<op, raw, mine, dedup, found, ordered>>
      /\ raw \in Seq(Raw) /\ Len(raw) \in Nat /\ Len(raw) <= MaxQuery /\ i \in Nat /\ i >= 1
      /\ dedup = <<>> /\ i <= Len(raw) + 1
      /\ \A k \in 1 .. i - 1 : Ids[k] # NotUUID
      /\ Ids' = Ids
  BY DEF Validate, ListTypeOK, Validated
<1>1. CASE i > Len(raw) /\ Goto("dedupe")
  <2>1. ListTypeOK'
    BY <1>0, <1>1 DEF ListTypeOK, Goto
  <2>2. NotUUID \notin Range(Ids)
    BY <1>0, <1>1, IdsTyped
  <2>3. Validated'
    BY <1>0, <1>1, <2>2 DEF Validated, Goto
  <2>4. DedupIsPrefix'
    BY <1>0, <1>1 DEF DedupIsPrefix, Goto, Range, InQueryOrder
  <2>5. Capped' /\ OrderedIsPrefix'
    BY <1>0, <1>1 DEF Capped, OrderedIsPrefix, Goto
  <2> QED
    BY <2>1, <2>3, <2>4, <2>5
<1>2. CASE i <= Len(raw) /\ Parse[raw[i]] = NotUUID /\ Goto("ids_invalid")
  <2>1. ListTypeOK'
    BY <1>0, <1>2 DEF ListTypeOK, Goto, Answers
  <2>2. NotUUID \in Range(Ids)
    BY <1>0, <1>2, IdsTyped
  <2>3. Validated'
    BY <1>0, <1>2, <2>2 DEF Validated, Goto
  <2>4. DedupIsPrefix' /\ Capped' /\ OrderedIsPrefix'
    BY <1>0, <1>2 DEF DedupIsPrefix, Capped, OrderedIsPrefix, Goto
  <2> QED
    BY <2>1, <2>3, <2>4
<1>3. CASE i <= Len(raw) /\ Parse[raw[i]] # NotUUID /\ i' = i + 1 /\ UNCHANGED pc
  <2>1. ListTypeOK'
    BY <1>0, <1>3 DEF ListTypeOK
  <2>2. \A k \in 1 .. i' - 1 : Ids[k] # NotUUID
    BY <1>0, <1>3, IdsTyped
  <2>3. Validated'
    BY <1>0, <1>3, <2>2 DEF Validated
  <2>4. DedupIsPrefix' /\ Capped' /\ OrderedIsPrefix'
    BY <1>0, <1>3 DEF DedupIsPrefix, Capped, OrderedIsPrefix
  <2> QED
    BY <2>1, <2>3, <2>4
<1> QED
  BY <1>1, <1>2, <1>3 DEF Validate

\* A new id was not among the strings before, so its first place is this one.
LEMMA DedupeInv ==
    ASSUME ListInv, DedupeIDs
    PROVE  ListInv'
<1> USE ListConstants DEF ListInv
<1> DEFINE x == Ids[i]
<1>0. /\ pc = "dedupe" /\ UNCHANGED <<op, raw, mine, pc, found, ordered>>
      /\ raw \in Seq(Raw) /\ Len(raw) \in Nat /\ Len(raw) <= MaxQuery
      /\ dedup \in Seq(ID) /\ Len(dedup) \in Nat
      /\ i \in 1 .. Len(raw) /\ i' = i + 1
      /\ Ids' = Ids /\ \A id : FirstAt(id)' = FirstAt(id)
  BY QueryFixed DEF DedupeIDs, ListTypeOK
<1>1. NotUUID \notin Range(Ids)
  BY <1>0 DEF Validated
<1>2. x \in ID /\ x = Parse[raw[i]]
  BY <1>0, <1>1, IdsTyped
<1>3. /\ Len(dedup) <= i - 1 /\ i - 1 <= Len(raw)
      /\ Range(dedup) = {Ids[k] : k \in 1 .. i - 1}
      /\ \A d \in DOMAIN dedup : \E k \in 1 .. i - 1 : IsFirst(k, dedup[d])
      /\ InQueryOrder(dedup)
  BY <1>0 DEF DedupIsPrefix
<1> HIDE DEF x
<1>4. {Ids[k] : k \in 1 .. i} = {Ids[k] : k \in 1 .. i - 1} \cup {x}
  <2>1. 1 .. i = 1 .. i - 1 \cup {i}
    BY <1>0
  <2> QED
    BY <2>1 DEF x
<1>5. /\ dedup' \in Seq(ID) /\ Len(dedup') <= i
      /\ Range(dedup') = {Ids[k] : k \in 1 .. i}
      /\ \A d \in DOMAIN dedup' : \E k \in 1 .. i : IsFirst(k, dedup'[d])
      /\ \A j, k \in DOMAIN dedup' : j < k => FirstAt(dedup'[j]) < FirstAt(dedup'[k])
  <2>1. CASE x \in Range(dedup)
    <3>1. dedup' = dedup
      BY <1>2, <2>1 DEF DedupeIDs
    <3>2. Range(dedup) = {Ids[k] : k \in 1 .. i}
      BY <1>3, <1>4, <2>1
    <3>3. \A d \in DOMAIN dedup : \E k \in 1 .. i : IsFirst(k, dedup[d])
      BY <1>0, <1>3
    <3> QED
      BY <1>0, <1>3, <3>1, <3>2, <3>3 DEF InQueryOrder
  <2>2. CASE x \notin Range(dedup)
    <3>1. dedup' = Append(dedup, x)
      BY <1>2, <2>2 DEF DedupeIDs
    <3>2. IsFirst(i, x)
      BY <1>0, <1>3, <2>2 DEF IsFirst, x
    <3>3. FirstAt(x) = i
      BY <1>0, <3>2, FirstAtIs, IdsTyped
    <3>4. \A d \in DOMAIN dedup : FirstAt(dedup[d]) \in 1 .. i - 1
      <4>1. i - 1 \in Nat
        BY <1>0
      <4> QED
        BY <1>0, <1>3, <4>1, OrderedDistinct
    <3>5. \A d \in DOMAIN dedup : FirstAt(dedup[d]) < FirstAt(x)
      BY <1>0, <3>3, <3>4
    <3>6. InQueryOrder(dedup')
      BY <1>0, <1>2, <1>3, <3>1, <3>5, OrderedAppend
    <3>7. /\ dedup' \in Seq(ID) /\ Len(dedup') = Len(dedup) + 1
          /\ DOMAIN dedup' = 1 .. Len(dedup) + 1 /\ DOMAIN dedup = 1 .. Len(dedup)
          /\ \A d \in 1 .. Len(dedup) : dedup'[d] = dedup[d]
          /\ dedup'[Len(dedup) + 1] = x
          /\ Range(dedup') = Range(dedup) \cup {x}
      BY <1>0, <1>2, <3>1, RangeOfAppend
    <3>8. ASSUME NEW d \in DOMAIN dedup' PROVE \E k \in 1 .. i : IsFirst(k, dedup'[d])
      <4>1. CASE d = Len(dedup) + 1
        BY <1>0, <3>2, <3>7, <4>1
      <4>2. CASE d \in DOMAIN dedup
        <5>1. PICK k \in 1 .. i - 1 : IsFirst(k, dedup[d])
          BY <1>3, <4>2
        <5> QED
          BY <1>0, <3>7, <4>2, <5>1
      <4> QED
        BY <1>0, <3>7, <4>1, <4>2
    <3>9. Range(dedup') = {Ids[k] : k \in 1 .. i}
      BY <1>3, <1>4, <3>7
    <3>10. Len(dedup') <= i
      BY <1>0, <1>3, <3>7
    <3> QED
      BY <3>6, <3>7, <3>8, <3>9, <3>10 DEF InQueryOrder
  <2> QED
    BY <2>1, <2>2
<1>6. ListTypeOK'
  BY <1>0, <1>5 DEF ListTypeOK
<1>7. Validated'
  BY <1>0, <1>1 DEF Validated
<1>8. DedupIsPrefix'
  <2>1. \A k, id : IsFirst(k, id)' <=> IsFirst(k, id)
    BY <1>0 DEF IsFirst
  <2>2. InQueryOrder(dedup)'
    BY <1>0, <1>5 DEF InQueryOrder
  <2>3. i' - 1 = i
    BY <1>0
  <2> QED
    BY <1>0, <1>5, <2>1, <2>2, <2>3 DEF DedupIsPrefix
<1>9. Capped' /\ OrderedIsPrefix'
  BY <1>0 DEF Capped, OrderedIsPrefix
<1> QED
  BY <1>6, <1>7, <1>8, <1>9

\* The cap compares the length of a list without repetition.
LEMMA CapInv ==
    ASSUME ListInv, Cap
    PROVE  ListInv'
<1> USE ListConstants DEF ListInv
<1>0. /\ pc = "dedupe" /\ UNCHANGED <<op, raw, mine, dedup, found, ordered>>
      /\ raw \in Seq(Raw) /\ dedup \in Seq(ID) /\ Len(dedup) \in Nat
      /\ i' = 1 /\ i \in Nat /\ i > Len(raw) /\ Len(raw) \in Nat
      /\ Ids' = Ids /\ \A id : FirstAt(id)' = FirstAt(id)
  BY QueryFixed DEF Cap, Goto, ListTypeOK
<1>1. \/ pc' = "ok" /\ dedup = <<>>
      \/ pc' = "ids_too_many" /\ Len(dedup) > maxListIDs
      \/ pc' = "query" /\ Len(dedup) <= maxListIDs
  BY <1>0 DEF Cap, Goto
<1>2. ListTypeOK'
  BY <1>0, <1>1 DEF ListTypeOK, Answers
<1>3. Validated'
  BY <1>0, <1>1 DEF Validated
<1>4. DedupIsPrefix'
  <2>1. i - 1 = Len(raw)
    BY <1>0 DEF DedupIsPrefix
  <2>2. \A k, id : IsFirst(k, id)' <=> IsFirst(k, id)
    BY <1>0 DEF IsFirst
  <2>3. InQueryOrder(dedup) => InQueryOrder(dedup)'
    BY <1>0 DEF InQueryOrder
  <2> QED
    BY <1>0, <1>1, <2>1, <2>2, <2>3 DEF DedupIsPrefix
<1>5. Capped'
  BY <1>0, <1>1 DEF Capped
<1>6. OrderedIsPrefix'
  BY <1>0, <1>1 DEF OrderedIsPrefix, InQueryOrder, Range
<1> QED
  BY <1>2, <1>3, <1>4, <1>5, <1>6

\* Nothing that follows changes the list.
LEMMA ListStays ==
    ASSUME ListInv, pc \in {"query", "order"}, pc' \in {"order", "internal", "ok"},
           UNCHANGED <<op, raw, dedup>>
    PROVE  Validated' /\ DedupIsPrefix' /\ Capped'
<1> USE DEF ListInv
<1>0. Ids' = Ids /\ \A id : FirstAt(id)' = FirstAt(id)
  BY QueryFixed
<1>1. Validated'
  BY <1>0 DEF Validated
<1>2. DedupIsPrefix'
  <2>1. \A k, id : IsFirst(k, id)' <=> IsFirst(k, id)
    BY <1>0 DEF IsFirst
  <2>2. InQueryOrder(dedup) => InQueryOrder(dedup)'
    BY <1>0 DEF InQueryOrder
  <2> QED
    BY <1>0, <2>1, <2>2 DEF DedupIsPrefix
<1>3. Capped'
  BY DEF Capped
<1> QED
  BY <1>1, <1>2, <1>3

LEMMA QueryInv ==
    ASSUME ListInv, Query
    PROVE  ListInv'
<1> USE ListConstants DEF ListInv
<1>0. /\ pc = "query" /\ i' = 1 /\ UNCHANGED <<op, raw, dedup, ordered>>
      /\ pc' = (IF op = "list" THEN "order" ELSE "ok")
      /\ op = "list" => mine' = mine
      /\ mine' \subseteq mine
      /\ raw \in Seq(Raw) /\ dedup \in Seq(ID) /\ Len(raw) \in Nat /\ Len(dedup) \in Nat
      /\ op \in {"list", "delete"} /\ ordered = <<>>
      /\ DOMAIN dedup = 1 .. Len(dedup)
  BY DEF Query, Goto, ListTypeOK, OrderedIsPrefix
<1>1. IsFiniteSet(Range(dedup)) /\ Range(dedup) \subseteq ID
  <2>1. Len(raw) <= Len(raw)
    BY <1>0
  <2>2. /\ \A d \in DOMAIN dedup : \E k \in 1 .. Len(raw) : IsFirst(k, dedup[d])
        /\ InQueryOrder(dedup)
    BY <1>0 DEF DedupIsPrefix
  <2>3. IsFiniteSet(Range(dedup))
    BY <1>0, <2>1, <2>2, OrderedDistinct
  <2> QED
    BY <1>0, <2>3 DEF Range
<1>2. found' \in Seq(ID) /\ Range(found') = Range(dedup) \cap mine
  <2> DEFINE R == Range(dedup) \cap mine
  <2>1. IsFiniteSet(R) /\ R \subseteq ID /\ found' \in SetToSeqs(R)
    BY <1>1, FS_Subset DEF Query
  <2> HIDE DEF R
  <2>2. found' \in Seq(R) /\ Range(found') = R
    BY <2>1, RowsInSomeOrder
  <2>3. found' \in Seq(ID)
    BY <2>1, <2>2
  <2> QED
    BY <2>2, <2>3 DEF R
<1>3. ListTypeOK'
  BY <1>0, <1>2 DEF ListTypeOK, Answers
<1>4. OrderedIsPrefix'
  <2>1. Range(ordered') = {} /\ InQueryOrder(ordered)'
    BY <1>0 DEF InQueryOrder, Range
  <2>2. 1 .. i' - 1 = {}
    BY <1>0
  <2> QED
    BY <1>0, <1>2, <2>1, <2>2 DEF OrderedIsPrefix
<1> QED
  BY <1>0, <1>3, <1>4, ListStays

LEMMA QueryFailsInv ==
    ASSUME ListInv, QueryFails
    PROVE  ListInv'
<1> USE ListConstants DEF ListInv, QueryFails, Goto
<1>1. ListTypeOK'
  BY DEF ListTypeOK, Answers
<1>2. OrderedIsPrefix'
  BY DEF OrderedIsPrefix
<1> QED
  BY <1>1, <1>2, ListStays

\* Since dedup is ordered by first places, so is what is picked from it in turn.
LEMMA OrderInv ==
    ASSUME ListInv, Order
    PROVE  ListInv'
<1> USE ListConstants DEF ListInv
<1>0. /\ pc = "order" /\ op = "list" /\ UNCHANGED <<op, raw, mine, dedup, found>>
      /\ raw \in Seq(Raw) /\ Len(raw) \in Nat /\ Len(raw) <= MaxQuery
      /\ dedup \in Seq(ID) /\ Len(dedup) \in Nat /\ Len(dedup) <= Len(raw)
      /\ DOMAIN dedup = 1 .. Len(dedup)
      /\ ordered \in Seq(ID) /\ DOMAIN ordered = 1 .. Len(ordered) /\ Len(ordered) \in Nat
      /\ i \in Nat /\ 1 <= i /\ i <= Len(dedup) + 1
      /\ Range(found) = Range(dedup) \cap mine
      /\ Range(ordered) = {dedup[k] : k \in 1 .. i - 1} \cap mine
      /\ InQueryOrder(ordered) /\ InQueryOrder(dedup)
      /\ \A id : FirstAt(id)' = FirstAt(id)
  BY QueryFixed DEF Order, ListTypeOK, OrderedIsPrefix, DedupIsPrefix
<1>1. CASE i > Len(dedup) /\ Goto("ok") /\ UNCHANGED ordered
  <2>1. ListTypeOK'
    BY <1>0, <1>1 DEF ListTypeOK, Goto, Answers
  <2>2. i - 1 = Len(dedup)
    BY <1>0, <1>1
  <2>3. InQueryOrder(ordered)'
    BY <1>0, <1>1 DEF InQueryOrder
  <2>4. OrderedIsPrefix'
    BY <1>0, <1>1, <2>2, <2>3 DEF OrderedIsPrefix, Goto
  <2> QED
    BY <1>0, <1>1, <2>1, <2>4, ListStays DEF Goto
<1>2. CASE /\ i <= Len(dedup)
           /\ ordered' = IF dedup[i] \in Range(found) THEN Append(ordered, dedup[i]) ELSE ordered
           /\ i' = i + 1 /\ UNCHANGED pc
  <2> DEFINE x == dedup[i]
  <2>1. x \in ID /\ x \in Range(dedup) /\ (x \in Range(found) <=> x \in mine)
    BY <1>0, <1>2 DEF Range
  <2>2. {dedup[k] : k \in 1 .. i' - 1} = {dedup[k] : k \in 1 .. i - 1} \cup {x}
    <3>1. 1 .. i' - 1 = 1 .. i - 1 \cup {i}
      BY <1>0, <1>2
    <3> QED
      BY <3>1
  <2>3. \A k \in DOMAIN ordered : FirstAt(ordered[k]) < FirstAt(x)
    <3> SUFFICES ASSUME NEW k \in DOMAIN ordered PROVE FirstAt(ordered[k]) < FirstAt(x)
      OBVIOUS
    <3>1. ordered[k] \in Range(ordered)
      BY DEF Range
    <3>2. PICK d \in 1 .. i - 1 : ordered[k] = dedup[d]
      BY <1>0, <3>1
    <3>3. d \in DOMAIN dedup /\ i \in DOMAIN dedup /\ d < i
      BY <1>0, <1>2
    <3> QED
      BY <1>0, <3>2, <3>3 DEF InQueryOrder
  <2> HIDE DEF x
  <2>4. /\ ordered' \in Seq(ID) /\ InQueryOrder(ordered')
        /\ Range(ordered') = {dedup[k] : k \in 1 .. i' - 1} \cap mine
    <3>1. CASE x \in mine
      <4>1. ordered' = Append(ordered, x)
        BY <1>2, <2>1, <3>1 DEF x
      <4>2. ordered' \in Seq(ID) /\ Range(ordered') = Range(ordered) \cup {x}
        BY <1>0, <2>1, <4>1, RangeOfAppend
      <4>3. InQueryOrder(ordered')
        BY <1>0, <2>1, <2>3, <4>1, OrderedAppend
      <4> QED
        BY <1>0, <2>2, <3>1, <4>2, <4>3
    <3>2. CASE x \notin mine
      <4>1. ordered' = ordered
        BY <1>2, <2>1, <3>2 DEF x
      <4> QED
        BY <1>0, <2>2, <3>2, <4>1
    <3> QED
      BY <3>1, <3>2
  <2>5. ListTypeOK'
    BY <1>0, <1>2, <2>4 DEF ListTypeOK
  <2>6. InQueryOrder(ordered)'
    BY <1>0, <2>4 DEF InQueryOrder
  <2>7. i' <= Len(dedup) + 1
    BY <1>0, <1>2
  <2>8. OrderedIsPrefix'
    BY <1>0, <1>2, <2>4, <2>6, <2>7 DEF OrderedIsPrefix
  <2> QED
    BY <1>0, <1>2, <2>5, <2>8, ListStays
<1> QED
  BY <1>1, <1>2 DEF Order

LEMMA ListInvNext ==
    ASSUME ListInv, [ListNext]_listVars
    PROVE  ListInv'
<1>1. CASE UNCHANGED listVars
  <2> USE <1>1 DEF listVars, ListInv
  <2>0. Ids' = Ids /\ \A id : FirstAt(id)' = FirstAt(id)
    BY QueryFixed
  <2>1. ListTypeOK'
    BY DEF ListTypeOK
  <2>2. Validated'
    BY <2>0 DEF Validated
  <2>3. DedupIsPrefix'
    BY <2>0 DEF DedupIsPrefix, IsFirst, InQueryOrder
  <2>4. Capped'
    BY DEF Capped
  <2>5. OrderedIsPrefix'
    BY <2>0 DEF OrderedIsPrefix, InQueryOrder
  <2> QED
    BY <2>1, <2>2, <2>3, <2>4, <2>5
<1> QED
  BY <1>1, ValidateInv, DedupeInv, CapInv, QueryInv, QueryFailsInv, OrderInv
  DEF ListNext, Answered

\* Once the loop is over, dedup names exactly the ids of the query, each once.
LEMMA DedupIsQuery ==
    ASSUME ListInv, pc \notin {"validate", "dedupe", "ids_invalid"}
    PROVE  /\ Range(dedup) = Range(Ids)
           /\ Cardinality(Range(Ids)) = Len(dedup)
           /\ dedup \in Seq(ID)
<1>0. raw \in Seq(Raw) /\ Len(raw) \in Nat /\ Len(raw) <= Len(raw) /\ dedup \in Seq(ID)
  BY DEF ListInv, ListTypeOK
<1>1. /\ Range(dedup) = {Ids[k] : k \in 1 .. Len(raw)}
      /\ \A d \in DOMAIN dedup : \E k \in 1 .. Len(raw) : IsFirst(k, dedup[d])
      /\ InQueryOrder(dedup)
  BY DEF ListInv, DedupIsPrefix
<1>2. Range(dedup) = Range(Ids)
  BY <1>0, <1>1, IdsTyped
<1>3. Cardinality(Range(dedup)) = Len(dedup)
  BY <1>0, <1>1, OrderedDistinct
<1> QED
  BY <1>0, <1>2, <1>3

-----------------------------------------------------------------------------
(* The theorems. *)

\* The loops of Validate, dedupeIDs and List keep their invariants, for a query
\* of any length.
THEOREM ListInductive == ListSpec => []ListInv
  BY ListInvInit, ListInvNext, PTL DEF ListSpec

\* What is kept of a query, what is returned and what is answered have their
\* types: a string that is no UUID gets no further than IDsQuery.Validate.
THEOREM ListTypes == ListSpec => []ListTypeOK
<1>1. ListInv => ListTypeOK
  BY DEF ListInv
<1> QED
  BY <1>1, ListInductive, PTL

\* List answers with the caller's rows in the order in which a query of any
\* length first names them, whatever order the database returned them in.
THEOREM ListKeepsOrder == ListSpec => []ListsInQueryOrder
<1>1. ListInv => ListsInQueryOrder
  <2> SUFFICES ASSUME ListInv, pc = "ok", op = "list"
               PROVE  Range(ordered) = Range(Ids) \cap mine /\ InQueryOrder(ordered)
    BY DEF ListsInQueryOrder
  <2>1. /\ Range(ordered) = {dedup[k] : k \in 1 .. Len(dedup)} \cap mine
        /\ InQueryOrder(ordered)
    BY DEF ListInv, OrderedIsPrefix
  <2>2. Range(dedup) = Range(Ids) /\ dedup \in Seq(ID)
    BY DedupIsQuery
  <2>3. Range(dedup) = {dedup[k] : k \in 1 .. Len(dedup)}
    BY <2>2 DEF Range
  <2> QED
    BY <2>1, <2>2, <2>3
<1> QED
  BY <1>1, ListInductive, PTL

\* Whatever maxListIDs is and however ids are spelled and repeated, the cap
\* refuses exactly the valid queries that name more distinct ids than it allows.
THEOREM CapIsOnDistinct == ListSpec => []CapCountsDistinct
<1>1. ListInv => CapCountsDistinct
  <2> SUFFICES ASSUME ListInv, pc \in Answers
               PROVE  pc = "ids_too_many" <=>
                          /\ NotUUID \notin Range(Ids)
                          /\ Cardinality(Range(Ids)) > maxListIDs
    BY DEF CapCountsDistinct
  <2>1. CASE pc = "ids_invalid"
    BY <2>1 DEF ListInv, Validated
  <2>2. CASE pc # "ids_invalid"
    <3>1. /\ pc \in {"ids_too_many", "internal", "ok"}
          /\ NotUUID \notin Range(Ids)
          /\ Cardinality(Range(Ids)) = Len(dedup) /\ Len(dedup) \in Nat
      BY <2>2, DedupIsQuery DEF Answers, ListInv, Validated
    <3>2. /\ pc = "ids_too_many" => Len(dedup) > maxListIDs
          /\ pc # "ids_too_many" => Len(dedup) <= maxListIDs
      BY <3>1 DEF ListInv, Capped
    <3> QED
      BY <3>1, <3>2, ListConstants
  <2> QED
    BY <2>1, <2>2
<1> QED
  BY <1>1, ListInductive, PTL

\* DeleteByIDs deletes every row of the caller that the query names or none, and
\* none if it refuses the query.
THEOREM DeletesAreWhole == ListSpec => DeletesAllOrNothing
<1> DEFINE A == op = "delete" /\ pc' \in Answers =>
                    \/ pc' # "ok" /\ mine' = mine
                    \/ pc' \in {"ok", "internal"} /\ mine' = mine \ Range(Ids)
<1>1. ASSUME ListInv, [ListNext]_listVars PROVE [A]_listVars
  <2> SUFFICES ASSUME op = "delete", pc' \in Answers, ListNext, ~ UNCHANGED listVars
               PROVE  \/ pc' # "ok" /\ mine' = mine
                      \/ pc' \in {"ok", "internal"} /\ mine' = mine \ Range(Ids)
    BY <1>1
  <2>1. CASE Validate \/ DedupeIDs
    BY <2>1 DEF Validate, DedupeIDs, Goto, Answers
  <2>2. CASE Cap
    <3>1. CASE dedup = <<>>
      <4>1. pc' = "ok" /\ mine' = mine /\ UNCHANGED <<raw, dedup>>
        BY <2>2, <3>1, Len(<<>>) = 0, ListConstants DEF Cap, Goto
      <4>2. raw \in Seq(Raw) /\ Len(raw) \in Nat /\ i \in Nat /\ i > Len(raw) /\ pc = "dedupe"
        BY <1>1, <2>2 DEF Cap, ListInv, ListTypeOK
      <4>3. i - 1 = Len(raw) /\ Range(dedup) = {Ids[k] : k \in 1 .. i - 1}
        BY <1>1, <4>2 DEF ListInv, DedupIsPrefix
      <4>4. Range(dedup) = Range(Ids)
        BY <4>2, <4>3, IdsTyped
      <4>5. Range(dedup) = {}
        BY <3>1 DEF Range
      <4> QED
        BY <4>1, <4>4, <4>5
    <3>2. CASE dedup # <<>>
      BY <2>2, <3>2 DEF Cap, Goto, Answers
    <3> QED
      BY <3>1, <3>2
  <2>3. CASE Query
    BY <1>1, <2>3, DedupIsQuery DEF Query, Goto
  <2>4. CASE QueryFails
    BY <1>1, <2>4, DedupIsQuery DEF QueryFails, Goto
  <2>5. CASE Order
    BY <1>1, <2>5 DEF Order, ListInv, OrderedIsPrefix
  <2> QED
    BY <2>1, <2>2, <2>3, <2>4, <2>5 DEF ListNext, Answered
<1>2. ListSpec => [][A]_listVars
  BY <1>1, ListInductive, PTL DEF ListSpec
<1> QED
  BY <1>2 DEF DeletesAllOrNothing

=============================================================================
