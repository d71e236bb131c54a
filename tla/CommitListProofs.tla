-------------------------- MODULE CommitListProofs --------------------------
(***************************************************************************)
(* Proofs about the loops of make_topic_partition_list, for any number of  *)
(* partitions and any log.                                                 *)
(***************************************************************************)
EXTENDS CommitList, DataModelProofs

Inv == TypeOK /\ ScanInvariant

\* Every variable keeps its type through the call.
LEMMA TypeInit == Init => TypeOK
<1> SUFFICES ASSUME Init PROVE TypeOK
  OBVIOUS
<1>1. 0 .. LogSize \cup {NoOffset} \subseteq MaybeOffset
  BY LogAssumption DEF MaybeOffset
<1>2. offsets_watermark \in [Partitions -> MaybeOffset]
  BY <1>1 DEF Init
<1>3. result \in [Partitions -> MaybeOffset]
  BY DEF Init, MaybeOffset
<1>4. before \in [uploaded : [Partitions -> SUBSET Offsets],
                  watermark : [Partitions -> MaybeOffset]]
  BY <1>2 DEF Init
<1> QED
  BY <1>2, <1>3, <1>4 DEF Init, TypeOK

LEMMA TypeNext == TypeOK /\ [Next]_vars => TypeOK'
<1> SUFFICES ASSUME TypeOK, [Next]_vars PROVE TypeOK'
  OBVIOUS
<1> USE DEF TypeOK
<1>1. ASSUME NEW p \in Partitions, Visit(p) PROVE TypeOK'
  <2>1. CASE VisitUnassigned(p)
    BY <1>1, <2>1 DEF Visit, VisitUnassigned
  <2>2. CASE VisitWithoutWatermark(p)
    BY <1>1, <2>2 DEF Visit, VisitWithoutWatermark
  <2>3. CASE BeginScan(p)
    <3>1. offsets_watermark[p] \in Nat
      BY <2>3 DEF BeginScan, MaybeOffset
    <3>2. {o \in offsets_uploaded[p] : o >= offsets_watermark[p]} \in SUBSET Offsets
      OBVIOUS
    <3> QED
      BY <1>1, <2>3, <3>1, <3>2 DEF Visit, BeginScan
  <2> QED
    BY <1>1, <2>1, <2>2, <2>3 DEF Visit
<1>2. ASSUME NEW o \in Offsets, ScanOffset(o) PROVE TypeOK'
  <2>1. scan \in [key : Partitions, ahead : SUBSET Offsets, offset_to_commit : Nat]
    BY <1>2 DEF ScanOffset
  <2>2. scan' \in [key : Partitions, ahead : SUBSET Offsets, offset_to_commit : Nat]
    <3>1. CASE o = scan.offset_to_commit
      <4>1. scan' = [scan EXCEPT !.ahead = @ \ {o}, !.offset_to_commit = @ + 1]
        BY <1>2, <3>1 DEF ScanOffset
      <4>2. /\ scan.offset_to_commit + 1 \in Nat
            /\ scan.ahead \ {o} \in SUBSET Offsets
        BY <2>1
      <4> QED
        BY <2>1, <4>1, <4>2
    <3>2. CASE o # scan.offset_to_commit
      <4>1. scan' = [scan EXCEPT !.ahead = {}]
        BY <1>2, <3>2 DEF ScanOffset
      <4> QED
        BY <2>1, <4>1
    <3> QED
      BY <3>1, <3>2
  <2> QED
    BY <1>2, <2>2 DEF ScanOffset
<1>3. CASE FinishKey
  <2>1. scan \in [key : Partitions, ahead : SUBSET Offsets, offset_to_commit : Nat]
    BY <1>3 DEF FinishKey
  <2> QED
    BY <1>3, <2>1 DEF FinishKey, MaybeOffset
<1>4. CASE Return
  BY <1>4 DEF Return
<1>5. CASE UNCHANGED vars
  BY <1>5 DEF vars
<1> QED
  BY <1>1, <1>2, <1>3, <1>4, <1>5 DEF Next

\* The variables of the loops keep their types, for every number of partitions.
THEOREM TypeCorrect == Spec => []TypeOK
<1> QED
  BY TypeInit, TypeNext, PTL DEF Spec

-----------------------------------------------------------------------------
\* The loop invariant of the inner loop is inductive.
LEMMA ScanInvariantNext == Inv /\ [Next]_vars => ScanInvariant'
<1> SUFFICES ASSUME Inv, [Next]_vars PROVE ScanInvariant'
  OBVIOUS
<1> USE DEF Inv
<1>1. ASSUME NEW p \in Partitions, Visit(p) PROVE ScanInvariant'
  <2>1. CASE BeginScan(p)
    <3>1. /\ scan'.key = p
          /\ scan'.offset_to_commit = offsets_watermark[p]
          /\ scan'.ahead = {o \in offsets_uploaded[p] : o >= offsets_watermark[p]}
      BY <2>1 DEF BeginScan
    <3>2. offsets_watermark[p] \in Nat /\ offsets_watermark[p] # NoOffset
      BY <2>1 DEF BeginScan, TypeOK, MaybeOffset
    <3>3. offsets_watermark' = offsets_watermark /\ offsets_uploaded' = offsets_uploaded
      BY <1>1 DEF Visit
    <3> QED
      BY <3>1, <3>2, <3>3 DEF ScanInvariant
  <2>2. CASE scan' = scan
    BY <1>1, <2>2 DEF Visit, ScanInvariant
  <2> QED
    BY <1>1, <2>1, <2>2 DEF Visit, VisitUnassigned, VisitWithoutWatermark
<1>2. ASSUME NEW o \in Offsets, ScanOffset(o) PROVE ScanInvariant'
  <2> DEFINE uploaded  == offsets_uploaded[scan.key]
             watermark == offsets_watermark[scan.key]
             end       == scan.offset_to_commit
  <2>1. scan \in [key : Partitions, ahead : SUBSET Offsets, offset_to_commit : Nat]
    BY <1>2 DEF ScanOffset, TypeOK
  <2>2. /\ uploaded \in SUBSET Offsets
        /\ watermark \in Nat
        /\ end \in Nat
    BY <1>2, <2>1 DEF ScanOffset, ScanInvariant, TypeOK, MaybeOffset
  <2>3. /\ watermark # NoOffset
        /\ watermark <= end
        /\ watermark .. end - 1 \subseteq uploaded
        /\ scan.ahead = {x \in uploaded : x >= end}
    BY <1>2 DEF ScanOffset, ScanInvariant
  <2>4. offsets_watermark' = offsets_watermark /\ offsets_uploaded' = offsets_uploaded
    BY <1>2 DEF ScanOffset
  <2>5. o \in uploaded /\ o >= end /\ o \in Nat /\ \A x \in uploaded : x >= end => o <= x
    BY <1>2, <2>3 DEF ScanOffset, Offsets
  <2>6. CASE o = end
    <3>1. /\ scan'.key = scan.key
          /\ scan'.offset_to_commit = end + 1
          /\ scan'.ahead = scan.ahead \ {o}
      BY <1>2, <2>1, <2>6 DEF ScanOffset
    <3>2. scan.ahead \ {o} = {x \in uploaded : x >= end + 1}
      <4>1. uploaded \subseteq Nat
        BY <2>2 DEF Offsets
      <4> QED
        BY <2>2, <2>3, <2>6, <4>1
    <3>3. watermark .. (end + 1) - 1 \subseteq uploaded
      BY <2>2, <2>3, <2>5, <2>6
    <3> QED
      BY <2>2, <2>3, <2>4, <3>1, <3>2, <3>3 DEF ScanInvariant
  <2>7. CASE o # end
    <3>1. /\ scan'.key = scan.key
          /\ scan'.offset_to_commit = end
          /\ scan'.ahead = {}
      BY <1>2, <2>1, <2>7 DEF ScanOffset
    <3>2. end \notin uploaded
      BY <2>2, <2>5, <2>7
    <3> QED
      BY <2>2, <2>3, <2>4, <3>1, <3>2 DEF ScanInvariant
  <2> QED
    BY <2>6, <2>7
<1>3. CASE FinishKey
  BY <1>3 DEF FinishKey, ScanInvariant
<1>4. CASE Return
  BY <1>4 DEF Return, ScanInvariant
<1>5. CASE UNCHANGED vars
  BY <1>5 DEF vars, ScanInvariant
<1> QED
  BY <1>1, <1>2, <1>3, <1>4, <1>5 DEF Next

\* When the loop is over its result is the one ContiguousEnd names.
LEMMA ScanInvariantImplies == Inv => ScanFindsContiguousEnd
<1> SUFFICES ASSUME Inv, scan # NotInScan, scan.ahead = {}
             PROVE  scan.offset_to_commit =
                      ContiguousEnd(offsets_uploaded[scan.key],
                                    offsets_watermark[scan.key])
  BY DEF ScanFindsContiguousEnd
<1> DEFINE uploaded  == offsets_uploaded[scan.key]
           watermark == offsets_watermark[scan.key]
           end       == scan.offset_to_commit
<1>1. /\ uploaded \in SUBSET Offsets
      /\ watermark \in Nat
      /\ end \in Nat
  BY DEF Inv, TypeOK, ScanInvariant, MaybeOffset
<1>2. IsContiguousEnd(uploaded, watermark, end)
  BY <1>1 DEF Inv, ScanInvariant, IsContiguousEnd
<1>3. /\ ContiguousEnd(uploaded, watermark) \in Nat
      /\ IsContiguousEnd(uploaded, watermark, ContiguousEnd(uploaded, watermark))
  BY <1>1, ContiguousEndCorrect
<1> HIDE DEF uploaded, watermark, end
<1>4. end = ContiguousEnd(uploaded, watermark)
  BY <1>1, <1>2, <1>3, ContiguousEndUnique
<1> QED
  BY <1>4 DEF uploaded, watermark, end

LEMMA InvInductive == Spec => []Inv
<1>1. Init => Inv
  BY TypeInit DEF Inv, Init, ScanInvariant
<1>2. Inv /\ [Next]_vars => Inv'
  BY TypeNext, ScanInvariantNext DEF Inv
<1> QED
  BY <1>1, <1>2, PTL DEF Spec

\* The inner loop of make_topic_partition_list computes the first offset from
\* the watermark on that is not uploaded, for every log and watermark.
THEOREM ScanCorrect == Spec => []ScanFindsContiguousEnd
BY InvInductive, ScanInvariantImplies, PTL

-----------------------------------------------------------------------------
(* The outer loop: what it leaves is what the one step does.                *)

\* A partition without entry has nothing to list and nothing to trim.
LEMMA WithoutEntry ==
    ASSUME TypeOK, NEW p \in Partitions, before.uploaded[p] = {}, Untouched(p)
    PROVE  Done(p)
<1>1. before.watermark[p] # NoOffset =>
        ContiguousEnd({}, before.watermark[p]) = before.watermark[p]
  <2> SUFFICES ASSUME before.watermark[p] # NoOffset
               PROVE  ContiguousEnd({}, before.watermark[p]) = before.watermark[p]
    OBVIOUS
  <2>1. before.watermark[p] \in Nat
    BY DEF TypeOK, MaybeOffset
  <2>2. IsContiguousEnd({}, before.watermark[p], before.watermark[p])
    BY <2>1 DEF IsContiguousEnd
  <2> QED
    BY <2>1, <2>2, ContiguousEndCorrect, ContiguousEndUnique
<1>2. Listed(p) = NoOffset
  BY <1>1 DEF Listed, TypeOK, MaybeOffset, NoOffset
<1> QED
  BY <1>2 DEF Done, Untouched, Kept, Trimmed, Advanced

LEMMA ListInit == Init => ListInvariant
<1> SUFFICES ASSUME Init PROVE ListInvariant
  OBVIOUS
<1>1. TypeOK
  BY TypeInit
<1>2. \A p \in Partitions : Untouched(p)
  BY DEF Init, Untouched
<1>3. \A p \in Partitions : p \notin unvisited => Done(p)
  BY <1>1, <1>2, WithoutEntry DEF Init
<1> QED
  BY <1>2, <1>3 DEF ListInvariant, Init, NotInScan, NoKey

\* A key that a step does not touch stays as it was, done or not.
LEMMA KeyKept ==
    ASSUME NEW p \in Partitions,
           UNCHANGED <<current_assignment, before, offsets_watermark[p], result[p],
                       offsets_uploaded[p]>>,
           p \in keys_for_gc <=> p \in keys_for_gc'
    PROVE  /\ Untouched(p) => Untouched(p)'
           /\ Done(p) => Done(p)'
BY DEF Untouched, Done, Kept, Trimmed, Advanced, Listed

\* The three ways to visit a key: set aside, left alone, scanned.
LEMMA VisitKeepsList ==
    ASSUME Inv, ListInvariant, NEW p \in Partitions, Visit(p)
    PROVE  ListInvariant'
<1>1. /\ scan = NotInScan /\ p \in unvisited /\ unvisited' = unvisited \ {p}
      /\ UNCHANGED <<current_assignment, offsets_uploaded, offsets_watermark,
                     result, returned, before>>
  BY DEF Visit
<1>2. Untouched(p) /\ ~returned
  BY <1>1 DEF ListInvariant
<1>3. \A x \in Partitions : x # p => (x \in keys_for_gc <=> x \in keys_for_gc')
  BY DEF Visit, VisitUnassigned, VisitWithoutWatermark, BeginScan
<1>4. ASSUME NEW x \in Partitions, x # p
      PROVE  IF x \in unvisited' THEN Untouched(x)' ELSE Done(x)'
  BY <1>1, <1>3, <1>4, KeyKept DEF ListInvariant
<1>5. CASE scan' = scan /\ Done(p)'
  BY <1>1, <1>2, <1>4, <1>5 DEF ListInvariant
<1>6. CASE VisitUnassigned(p)
  <2>1. Listed(p)' = NoOffset /\ Trimmed(p)' = {} /\ Kept(p)' = {}
    BY <1>1, <1>6 DEF VisitUnassigned, Listed, Trimmed, Kept
  <2>2. Done(p)'
    BY <1>1, <1>2, <2>1 DEF Done, Untouched, Advanced
  <2> QED
    BY <1>5, <1>6, <2>2 DEF VisitUnassigned
<1>7. CASE VisitWithoutWatermark(p)
  <2>1. Listed(p)' = NoOffset /\ Advanced(p)' = NoOffset
    BY <1>1, <1>2, <1>7 DEF VisitWithoutWatermark, Listed, Advanced, Untouched
  <2>2. Trimmed(p)' = before.uploaded[p]
    <3>1. before.uploaded[p] \subseteq Nat
      BY DEF Inv, TypeOK, Offsets
    <3> QED
      BY <1>1, <1>7, <2>1, <3>1 DEF Trimmed, VisitWithoutWatermark, NoOffset
  <2>3. Done(p)'
    BY <1>1, <1>2, <1>7, <2>1, <2>2 DEF Done, Untouched, Kept, VisitWithoutWatermark
  <2> QED
    BY <1>5, <1>7, <2>3 DEF VisitWithoutWatermark
<1>8. CASE BeginScan(p)
  <2>1. scan'.key = p /\ scan' # NotInScan /\ p \in current_assignment
    <3>1. offsets_watermark[p] \in Nat
      BY <1>8 DEF BeginScan, Inv, TypeOK, MaybeOffset
    <3> QED
      BY <1>8, <3>1 DEF BeginScan, NotInScan, NoOffset
  <2>2. Untouched(p)'
    BY <1>1, <1>2, <1>8, KeyKept DEF BeginScan
  <2> QED
    BY <1>1, <1>2, <1>4, <2>1, <2>2 DEF ListInvariant
<1> QED
  BY <1>6, <1>7, <1>8 DEF Visit

\* After a scan the key is as the one step leaves it.
LEMMA FinishKeepsList ==
    ASSUME Inv, ListInvariant, FinishKey,
           NEW key \in Partitions, key = scan.key,
           NEW end \in Nat, end = scan.offset_to_commit
    PROVE  ListInvariant'
<1> DEFINE new == {o \in offsets_uploaded[key] : o >= end}
<1>1. /\ scan # NotInScan /\ scan.ahead = {} /\ scan' = NotInScan
      /\ UNCHANGED <<current_assignment, unvisited, returned, before>>
      /\ result' = [result EXCEPT ![key] = IF end > offsets_watermark[key] THEN end ELSE @]
      /\ offsets_watermark' = [offsets_watermark EXCEPT ![key] = end]
      /\ offsets_uploaded' = [offsets_uploaded EXCEPT ![key] = new]
      /\ keys_for_gc' = IF new = {} THEN keys_for_gc \cup {key} ELSE keys_for_gc
  BY DEF FinishKey
<1>2. Untouched(key) /\ key \in current_assignment /\ key \notin unvisited /\ ~returned
  BY <1>1 DEF ListInvariant
<1>3. /\ end = ContiguousEnd(before.uploaded[key], before.watermark[key])
      /\ before.watermark[key] # NoOffset /\ before.watermark[key] <= end
  BY <1>1, <1>2, ScanInvariantImplies
  DEF ScanFindsContiguousEnd, Untouched, Inv, ScanInvariant
<1>4. ASSUME NEW x \in Partitions, x # key
      PROVE  IF x \in unvisited' THEN Untouched(x)' ELSE Done(x)'
  <2>1. /\ offsets_watermark'[x] = offsets_watermark[x]
        /\ offsets_uploaded'[x] = offsets_uploaded[x]
        /\ result'[x] = result[x]
        /\ x \in keys_for_gc <=> x \in keys_for_gc'
    BY <1>1, <1>4 DEF Inv, TypeOK
  <2>2. IF x \in unvisited THEN Untouched(x) ELSE Done(x)
    BY <1>4 DEF ListInvariant
  <2> QED
    BY <1>1, <2>1, <2>2, KeyKept
<1>5. Done(key)'
  <2>1. before.watermark[key] \in Nat /\ before.uploaded[key] \subseteq Nat
    BY <1>3 DEF Inv, TypeOK, MaybeOffset, Offsets
  <2>2. /\ before'.watermark[key] = before.watermark[key]
        /\ before'.uploaded[key] = before.uploaded[key]
        /\ key \in current_assignment'
    BY <1>1, <1>2
  <2>3. /\ Listed(key)' = IF end > before.watermark[key] THEN end ELSE NoOffset
        /\ Advanced(key)' = end
    <3>1. Listed(key)' = IF end > before.watermark[key] THEN end ELSE NoOffset
      BY <1>3, <2>2 DEF Listed
    <3>2. end # NoOffset
      BY DEF NoOffset
    <3> QED
      BY <1>3, <2>1, <2>2, <3>1, <3>2 DEF Advanced
  <2>4. Trimmed(key)' = new
    BY <1>2, <2>2, <2>3 DEF Trimmed, Untouched
  <2>5. offsets_uploaded'[key] = new /\ offsets_watermark'[key] = end
    BY <1>1 DEF Inv, TypeOK
  <2>6. Kept(key)' = new
    BY <1>1, <1>2, <2>5 DEF Kept, Untouched
  <2>7. result'[key] = IF end > before.watermark[key] THEN end ELSE NoOffset
    BY <1>1, <1>2 DEF Inv, TypeOK, Untouched
  <2> HIDE DEF new
  <2> QED
    BY <2>3, <2>4, <2>5, <2>6, <2>7 DEF Done
<1> QED
  BY <1>1, <1>2, <1>4, <1>5 DEF ListInvariant

LEMMA ListNext == Inv /\ ListInvariant /\ [Next]_vars => ListInvariant'
<1> SUFFICES ASSUME Inv, ListInvariant, [Next]_vars PROVE ListInvariant'
  OBVIOUS
<1>1. ASSUME NEW p \in Partitions, Visit(p) PROVE ListInvariant'
  BY <1>1, VisitKeepsList
<1>2. ASSUME NEW o \in Offsets, ScanOffset(o) PROVE ListInvariant'
  <2>1. scan \in [key : Partitions, ahead : SUBSET Offsets, offset_to_commit : Nat]
    BY <1>2 DEF ScanOffset, Inv, TypeOK
  <2>2. /\ scan # NotInScan /\ scan'.key = scan.key /\ scan' # NotInScan
        /\ UNCHANGED <<current_assignment, offsets_uploaded, offsets_watermark,
                       unvisited, result, keys_for_gc, returned, before>>
    <3>1. scan'.key = scan.key /\ scan'.offset_to_commit \in Nat
      <4>1. CASE o = scan.offset_to_commit
        BY <1>2, <2>1, <4>1 DEF ScanOffset
      <4>2. CASE o # scan.offset_to_commit
        BY <1>2, <2>1, <4>2 DEF ScanOffset
      <4> QED
        BY <4>1, <4>2
    <3>2. scan' # NotInScan
      BY <3>1 DEF NotInScan, NoOffset
    <3> QED
      BY <1>2, <3>1, <3>2 DEF ScanOffset
  <2>3. \A x \in Partitions : (Untouched(x) => Untouched(x)') /\ (Done(x) => Done(x)')
    BY <2>2, KeyKept
  <2> QED
    BY <2>2, <2>3 DEF ListInvariant
<1>3. CASE FinishKey
  <2>1. scan.key \in Partitions /\ scan.offset_to_commit \in Nat
    BY <1>3 DEF FinishKey, Inv, TypeOK
  <2> QED
    BY <1>3, <2>1, FinishKeepsList
<1>4. CASE Return
  <2>1. \A x \in Partitions : Done(x)
    BY <1>4 DEF Return, ListInvariant
  <2>2. \A x \in Partitions : offsets_uploaded'[x] = Kept(x)
    BY <1>4 DEF Return, Kept
  <2>3. \A x \in Partitions : Done(x)'
    BY <1>4, <2>1, <2>2 DEF Return, Done, Kept, Trimmed, Advanced, Listed
  <2> QED
    BY <1>4, <2>3 DEF Return, ListInvariant
<1>5. CASE UNCHANGED vars
  BY <1>5 DEF vars, ListInvariant, Untouched, Done, Kept, Trimmed, Advanced, Listed
<1> QED
  BY <1>1, <1>2, <1>3, <1>4, <1>5 DEF Next

\* The one step's list and watermarks, in the terms of the call.
LEMMA WholeList ==
    ASSUME ~returned
    PROVE  /\ Whole!TopicPartitionList(current_assignment) =
                  [p \in Partitions |-> Listed(p)]
           /\ Whole!NoOffset = NoOffset
<1>1. \A S, w : Whole!ContiguousEnd(S, w) = ContiguousEnd(S, w)
  BY DEF Whole!ContiguousEnd, ContiguousEnd
<1> QED
  BY <1>1 DEF Whole!TopicPartitionList, Whole!NoOffset, NoOffset, SeenUploaded,
              SeenWatermark, Listed

\* Returning is the one step; any other step is none.
LEMMA ReturnIsStep ==
    ASSUME Inv, ListInvariant, Return
    PROVE  /\ Whole!make_topic_partition_list(current_assignment)
           /\ result' = Whole!TopicPartitionList(current_assignment)
<1>1. ~returned /\ returned' /\ unvisited = {} /\ scan = NotInScan
      /\ UNCHANGED <<offsets_watermark, result>>
  BY DEF Return
<1>2. \A p \in Partitions : Done(p)
  BY <1>1 DEF ListInvariant
<1>3. Whole!TopicPartitionList(current_assignment) = [p \in Partitions |-> Listed(p)]
  BY <1>1, WholeList
<1>4. result' = [p \in Partitions |-> Listed(p)]
  BY <1>1, <1>2 DEF Inv, TypeOK, Done
<1>5. SeenWatermark' = [p \in Partitions |-> Advanced(p)]
  BY <1>1, <1>2 DEF SeenWatermark, Inv, TypeOK, Done
<1>6. SeenUploaded' = [p \in Partitions |-> Trimmed(p)]
  <2>1. offsets_uploaded' = [p \in Partitions |-> Kept(p)]
    BY DEF Return, Kept
  <2> QED
    BY <1>1, <1>2, <2>1 DEF SeenUploaded, Done
<1>7. Whole!make_topic_partition_list(current_assignment)
  <2>1. SeenWatermark = before.watermark /\ SeenUploaded = before.uploaded
    BY <1>1 DEF SeenWatermark, SeenUploaded
  <2> QED
    BY <1>1, <1>3, <1>5, <1>6, <2>1, WholeList
    DEF Whole!make_topic_partition_list, Advanced, Trimmed
<1> QED
  BY <1>3, <1>4, <1>7

\* The loops of make_topic_partition_list return the list of the one step of
\* module StateMachine and leave the two maps as it does, for all partitions,
\* logs, assignments and orders of keys.
THEOREM LoopsImplementList == Spec => ImplementsList
<1>1. Inv /\ ListInvariant /\ [Next]_vars =>
        [/\ Whole!make_topic_partition_list(current_assignment)
         /\ result' = Whole!TopicPartitionList(current_assignment)
        ]_<<SeenUploaded, SeenWatermark, returned>>
  <2> SUFFICES ASSUME Inv, ListInvariant, [Next]_vars
               PROVE  Return \/ UNCHANGED <<SeenUploaded, SeenWatermark, returned>>
    BY ReturnIsStep
  <2>1. ASSUME NEW p \in Partitions, Visit(p)
        PROVE  UNCHANGED <<SeenUploaded, SeenWatermark, returned>>
    BY <2>1 DEF Visit, SeenUploaded, SeenWatermark
  <2>2. ASSUME NEW o \in Offsets, ScanOffset(o)
        PROVE  UNCHANGED <<SeenUploaded, SeenWatermark, returned>>
    BY <2>2 DEF ScanOffset, SeenUploaded, SeenWatermark
  <2>3. CASE FinishKey
    <3>1. ~returned /\ UNCHANGED <<before, returned>>
      BY <2>3 DEF FinishKey, ListInvariant
    <3> QED
      BY <3>1 DEF SeenUploaded, SeenWatermark
  <2>4. CASE UNCHANGED vars
    BY <2>4 DEF vars, SeenUploaded, SeenWatermark
  <2> QED
    BY <2>1, <2>2, <2>3, <2>4 DEF Next
<1>2. Spec => []ListInvariant
  BY InvInductive, ListInit, ListNext, PTL DEF Spec
<1> QED
  BY InvInductive, <1>1, <1>2, PTL DEF Spec, ImplementsList
=============================================================================
