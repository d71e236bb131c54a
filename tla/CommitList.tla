----------------------------- MODULE CommitList -----------------------------
(***************************************************************************)
(* make_topic_partition_list (src/src/state_machine.rs) as the code runs   *)
(* it: one key of offsets_uploaded after the other, in the hash map's      *)
(* order, one uploaded offset after the other, the garbage collected last. *)
(* Module StateMachine has the whole call as one step; ImplementsList says *)
(* that the loops compute that step.                                       *)
(***************************************************************************)
EXTENDS DataModel

VARIABLES
    current_assignment, \* the argument
    offsets_uploaded,   \* as in StateMachine
    offsets_watermark,
    unvisited,          \* keys the outer loop has still to visit
    scan,               \* the inner loop: its key, the offsets still ahead of
                        \* it in range(watermark..), and offset_to_commit
    result,             \* the list under construction
    keys_for_gc,
    returned,           \* the call is over
    before              \* history: offsets_uploaded and offsets_watermark
                        \* when the call began

vars == <<current_assignment, offsets_uploaded, offsets_watermark, unvisited,
          scan, result, keys_for_gc, returned, before>>

NoKey     == "no key"
NotInScan == [key |-> NoKey, ahead |-> {}, offset_to_commit |-> NoOffset]

TypeOK ==
    /\ current_assignment \subseteq Partitions
    /\ offsets_uploaded \in [Partitions -> SUBSET Offsets]
    /\ offsets_watermark \in [Partitions -> MaybeOffset]
    /\ unvisited \subseteq Partitions
    /\ scan \in [key : Partitions, ahead : SUBSET Offsets, offset_to_commit : Nat]
                  \cup {NotInScan}
    /\ result \in [Partitions -> MaybeOffset]
    /\ keys_for_gc \subseteq Partitions
    /\ returned \in BOOLEAN
    /\ before \in [uploaded : [Partitions -> SUBSET Offsets],
                   watermark : [Partitions -> MaybeOffset]]

\* A call begins with any uploaded offsets, watermarks and assignment; a
\* watermark may be the end of the log, all of which is committed then.
Init ==
    /\ current_assignment \in SUBSET Partitions
    /\ offsets_uploaded \in [Partitions -> SUBSET Offsets]
    /\ offsets_watermark \in [Partitions -> 0 .. LogSize \cup {NoOffset}]
    /\ unvisited = {p \in Partitions : offsets_uploaded[p] # {}}
    /\ scan = NotInScan
    /\ result = [p \in Partitions |-> NoOffset]
    /\ keys_for_gc = {}
    /\ returned = FALSE
    /\ before = [uploaded |-> offsets_uploaded, watermark |-> offsets_watermark]

\* The outer loop takes the next key; a partition that is not ours is left for
\* garbage collection, one without watermark is left alone.
VisitUnassigned(p) ==
    /\ p \notin current_assignment
    /\ keys_for_gc' = keys_for_gc \cup {p}
    /\ UNCHANGED scan

VisitWithoutWatermark(p) ==
    /\ p \in current_assignment
    /\ offsets_watermark[p] = NoOffset
    /\ UNCHANGED <<scan, keys_for_gc>>

\* Mutant of BeginScan: scans without a watermark, too.
BeginScanAlways(p) ==
    /\ p \in current_assignment
    /\ scan' = [key |-> p,
                ahead |-> {o \in offsets_uploaded[p] : o >= offsets_watermark[p]},
                offset_to_commit |-> offsets_watermark[p]]
    /\ UNCHANGED keys_for_gc

BeginScan(p) ==
    /\ p \in current_assignment
    /\ offsets_watermark[p] # NoOffset
    /\ scan' = [key |-> p,
                ahead |-> {o \in offsets_uploaded[p] : o >= offsets_watermark[p]},
                offset_to_commit |-> offsets_watermark[p]]
    /\ UNCHANGED keys_for_gc

Visit(p) ==
    /\ scan = NotInScan
    /\ p \in unvisited
    /\ unvisited' = unvisited \ {p}
    /\ VisitUnassigned(p) \/ VisitWithoutWatermark(p) \/ BeginScan(p)
    /\ UNCHANGED <<current_assignment, offsets_uploaded, offsets_watermark,
                   result, returned, before>>

\* Mutant of ScanOffset: a gap does not end the loop.
ScanOffsetOverGaps(o) ==
    /\ scan # NotInScan
    /\ o \in scan.ahead
    /\ \A x \in scan.ahead : o <= x
    /\ scan' = [scan EXCEPT !.ahead = @ \ {o}, !.offset_to_commit = o + 1]
    /\ UNCHANGED <<current_assignment, offsets_uploaded, offsets_watermark,
                   unvisited, result, keys_for_gc, returned, before>>

\* The BTreeSet yields its offsets in ascending order; the first that is not
\* the one expected ends the loop.
ScanOffset(o) ==
    /\ scan # NotInScan
    /\ o \in scan.ahead
    /\ \A x \in scan.ahead : o <= x
    /\ scan' = IF o = scan.offset_to_commit
               THEN [scan EXCEPT !.ahead = @ \ {o}, !.offset_to_commit = @ + 1]
               ELSE [scan EXCEPT !.ahead = {}]
    /\ UNCHANGED <<current_assignment, offsets_uploaded, offsets_watermark,
                   unvisited, result, keys_for_gc, returned, before>>

\* Mutant of FinishKey: split_off at the old watermark keeps what is committed.
FinishKeyKeepsCommitted ==
    /\ scan # NotInScan
    /\ scan.ahead = {}
    /\ LET key == scan.key
           end == scan.offset_to_commit
       IN  /\ result' = [result EXCEPT ![key] =
                            IF end > offsets_watermark[key] THEN end ELSE @]
           /\ offsets_watermark' = [offsets_watermark EXCEPT ![key] = end]
           /\ offsets_uploaded' = [offsets_uploaded EXCEPT ![key] =
                            {o \in @ : o >= offsets_watermark[key]}]
           /\ UNCHANGED keys_for_gc
    /\ scan' = NotInScan
    /\ UNCHANGED <<current_assignment, unvisited, returned, before>>

\* After the inner loop: the list, the watermark, split_off, empty sets.
FinishKey ==
    /\ scan # NotInScan
    /\ scan.ahead = {}
    /\ LET key == scan.key
           end == scan.offset_to_commit
           new == {o \in offsets_uploaded[key] : o >= end}
       IN  /\ result' = [result EXCEPT ![key] =
                            IF end > offsets_watermark[key] THEN end ELSE @]
           /\ offsets_watermark' = [offsets_watermark EXCEPT ![key] = end]
           /\ offsets_uploaded' = [offsets_uploaded EXCEPT ![key] = new]
           /\ keys_for_gc' = IF new = {} THEN keys_for_gc \cup {key}
                                         ELSE keys_for_gc
    /\ scan' = NotInScan
    /\ UNCHANGED <<current_assignment, unvisited, returned, before>>

\* The keys set aside are removed and the call returns.
Return ==
    /\ ~returned
    /\ scan = NotInScan
    /\ unvisited = {}
    /\ offsets_uploaded' = [p \in Partitions |->
           IF p \in keys_for_gc THEN {} ELSE offsets_uploaded[p]]
    /\ returned' = TRUE
    /\ UNCHANGED <<current_assignment, offsets_watermark, unvisited, scan,
                   result, keys_for_gc, before>>

Next ==
    \/ \E p \in Partitions : Visit(p)
    \/ \E o \in Offsets : ScanOffset(o)
    \/ FinishKey
    \/ Return

Spec == Init /\ [][Next]_vars

-----------------------------------------------------------------------------
\* What the rest of the state machine sees of the two maps: the call's effect
\* all at once, when it returns.
SeenUploaded  == IF returned THEN offsets_uploaded ELSE before.uploaded
SeenWatermark == IF returned THEN offsets_watermark ELSE before.watermark

Whole == INSTANCE StateMachine
    WITH offsets_uploaded <- SeenUploaded, offsets_watermark <- SeenWatermark,
         streams <- << >>, files <- << >>, in_flight_uploads <- 0,
         TargetFileSize <- 0, ActiveFileTimeout <- 0,
         MaxConcurrentUploads <- 0, MaxUploadsRetry <- 0

\* The loops of make_topic_partition_list return the list and leave the maps
\* that the one step of module StateMachine does, whatever the order of keys.
ImplementsList ==
    [][/\ Whole!make_topic_partition_list(current_assignment)
       /\ result' = Whole!TopicPartitionList(current_assignment)
      ]_<<SeenUploaded, SeenWatermark, returned>>

\* The loop invariant behind it: offset_to_commit has reached the end of an
\* uploaded run, and either all uploaded offsets from there on are still ahead
\* or the loop has broken off at a missing one.
ScanInvariant ==
    scan # NotInScan =>
        LET uploaded  == offsets_uploaded[scan.key]
            watermark == offsets_watermark[scan.key]
            end       == scan.offset_to_commit
        IN  /\ watermark # NoOffset
            /\ watermark <= end
            /\ watermark .. end - 1 \subseteq uploaded
            /\ \/ scan.ahead = {o \in uploaded : o >= end}
               \/ scan.ahead = {} /\ end \notin uploaded

\* The loop invariant of the outer loop: a key that is not done is as it was
\* when the call began; one that is, or that has no entry, is left as the one
\* step of module StateMachine leaves it, but for the garbage.
Listed(p) ==
    LET watermark == before.watermark[p]
        end == ContiguousEnd(before.uploaded[p], watermark)
    IN  IF p \in current_assignment /\ watermark # NoOffset /\ end > watermark
        THEN end ELSE NoOffset
Advanced(p) == IF Listed(p) = NoOffset THEN before.watermark[p] ELSE Listed(p)
Trimmed(p) ==
    {o \in before.uploaded[p] : p \in current_assignment /\ o >= Advanced(p)}
Kept(p) == IF p \in keys_for_gc THEN {} ELSE offsets_uploaded[p]

Untouched(p) ==
    /\ offsets_uploaded[p] = before.uploaded[p]
    /\ offsets_watermark[p] = before.watermark[p]
    /\ result[p] = NoOffset
    /\ p \notin keys_for_gc
Done(p) ==
    /\ Kept(p) = Trimmed(p)
    /\ offsets_watermark[p] = Advanced(p)
    /\ result[p] = Listed(p)
ListInvariant ==
    /\ \A p \in Partitions :
          IF p \in unvisited \/ (scan # NotInScan /\ p = scan.key)
          THEN Untouched(p) ELSE Done(p)
    /\ scan # NotInScan => scan.key \in current_assignment \ unvisited
    /\ returned => unvisited = {} /\ scan = NotInScan

\* When the inner loop is over, offset_to_commit is the first offset from the
\* watermark on that is not uploaded: "the offset at which a consumer should
\* restart on crash"; no uploaded offset is passed twice and no gap is jumped.
ScanFindsContiguousEnd ==
    scan # NotInScan /\ scan.ahead = {} =>
        scan.offset_to_commit =
            ContiguousEnd(offsets_uploaded[scan.key], offsets_watermark[scan.key])
=============================================================================
