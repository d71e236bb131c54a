-------------------------------- MODULE Sink --------------------------------
(***************************************************************************)
(* The sink process (src/src/sink.rs): the event loop around the state     *)
(* machine, the pool of uploads, the rebalance channel and the drain at    *)
(* shutdown, together with what it talks to: the Kafka group coordinator,  *)
(* the consumer's position and assignment, the object store, the scratch   *)
(* directory, and crashes and restarts of the process.                     *)
(*                                                                         *)
(* One action is one turn of the event loop: a ready branch of select! is  *)
(* handled and all its responses are applied, with no await in between.    *)
(* Draining the rebalance channel comes first in every turn; it is an      *)
(* action of its own and every turn waits for the channel to be empty,     *)
(* which is the same, for nothing runs between the two.                    *)
(***************************************************************************)
EXTENDS StateMachine, Sequences

CONSTANTS
    OffsetReset,        \* auto.offset.reset: "earliest" or "latest"
    Cooperative,        \* TRUE: incremental rebalances; FALSE: eager ones
    Peers,              \* TRUE: other members of the group consume too
    Faults,             \* which faults may happen, of FaultKinds
    InitialEnd,         \* InitialEnd[p]: records in the log when the sink starts
    MaxRevocations,     \* bound: revocations waiting in the rebalance channel
    MaxPendingCommits   \* bound: asynchronous commits on their way

FaultKinds == {"crash", "evict", "upload", "commit", "disk"}

ASSUME SinkAssumption ==
    /\ OffsetReset \in {"earliest", "latest"}
    /\ Cooperative \in BOOLEAN
    /\ Peers \in BOOLEAN
    /\ Faults \subseteq FaultKinds
    /\ InitialEnd \in [Partitions -> 0 .. LogSize]
    /\ MaxRevocations \in Nat
    /\ MaxPendingCommits \in Nat

VARIABLES
    status,         \* of the process; "stopped" is exit code 0
    pool,           \* upload_pool: the uploads whose result was not handled
    disk,           \* the scratch files this process created and not removed
    rebalance,      \* rebalance_rx: sets of revoked partitions
    assignment,     \* consumer.assignment()
    position,       \* next offset recv() returns, NoOffset if not assigned
    evicted,        \* the group dropped this member, which does not know yet
    commits,        \* asynchronous commits sent and not answered
    committed,      \* the group's committed offsets
    logEnd,         \* logEnd[p]: number of offsets of p written so far
    durable,        \* the records stored in S3
    resets          \* history: offsets at which auto.offset.reset began p

procvars   == <<status, pool, disk, rebalance>>
groupvars  == <<assignment, position, evicted, commits, committed, resets>>
worldvars  == <<logEnd, durable>>
vars == <<smvars, procvars, groupvars, worldvars>>

Statuses == {"running", "draining", "stopped", "failed"}
CommitList == [Partitions -> MaybeOffset]

TypeOK ==
    /\ StateMachineTypeOK
    /\ status \in Statuses
    /\ pool \subseteq Upload /\ IsFiniteSet(pool)
    /\ disk \subseteq Nat /\ IsFiniteSet(disk)
    /\ rebalance \in Seq(SUBSET Partitions)
    /\ assignment \subseteq Partitions
    /\ position \in CommitList
    /\ \A p \in assignment : position[p] # NoOffset
    /\ evicted \in BOOLEAN
    /\ commits \in Seq(CommitList)
    /\ committed \in CommitList
    /\ logEnd \in [Partitions -> 0 .. LogSize]
    /\ durable \subseteq RecordIds
    /\ resets \in [Partitions -> SUBSET Nat]

Init ==
    /\ StateMachineInit
    /\ status = "running"
    /\ pool = {}
    /\ disk = {}
    /\ rebalance = << >>
    /\ assignment = {}
    /\ position = [p \in Partitions |-> NoOffset]
    /\ evicted = FALSE
    /\ commits = << >>
    /\ committed = [p \in Partitions |-> NoOffset]
    /\ logEnd = InitialEnd
    /\ durable = {}
    /\ resets = [p \in Partitions |-> {}]

\* The process is gone with its memory; its files on disk are left behind and
\* no later process looks at them.  Commits already sent may still arrive.
ProcessEnds(how) ==
    /\ status' = how
    /\ StateMachineForgotten
    /\ pool' = {}
    /\ disk' = {}
    /\ rebalance' = << >>
    /\ assignment' = {}
    /\ position' = [p \in Partitions |-> NoOffset]
    /\ evicted' = FALSE

\* handle_fatal_error: start() returns the error and main exits.
Fatal == ProcessEnds("failed") /\ UNCHANGED <<commits, committed, resets, worldvars>>

Turn == status = "running" /\ rebalance = << >>

-----------------------------------------------------------------------------
(* The world: producers, time, the consumer group.                          *)

Produce(p) ==
    /\ logEnd[p] < LogSize
    /\ logEnd' = [logEnd EXCEPT ![p] = @ + 1]
    /\ UNCHANGED <<smvars, procvars, groupvars, durable>>

TimePasses ==
    /\ status = "running"
    /\ \E s \in OpenStreams : streams[s].age < ActiveFileTimeout
    /\ StreamsAge
    /\ UNCHANGED <<procvars, groupvars, worldvars>>

\* Where a member that is given p begins: at the committed offset, or where
\* auto.offset.reset says when the group has none.
ResetPosition(p) == IF OffsetReset = "earliest" THEN 0 ELSE logEnd[p]
StartPosition(p) == IF committed[p] = NoOffset THEN ResetPosition(p)
                                               ELSE committed[p]
Resets(P) == [p \in Partitions |->
                 IF p \in P /\ committed[p] = NoOffset
                 THEN resets[p] \cup {ResetPosition(p)} ELSE resets[p]]

\* A new generation of the group gives the partitions A to this member.  What
\* it sent under the old generation is refused from now on.
Assign(A) ==
    /\ status = "running"
    /\ ~evicted
    /\ A # {} /\ A \cap assignment = {}
    /\ Cooperative \/ assignment = {}
    /\ assignment' = assignment \cup A
    /\ position' = [p \in Partitions |->
                       IF p \in A THEN StartPosition(p) ELSE position[p]]
    /\ resets' = Resets(A)
    /\ commits' = << >>
    /\ UNCHANGED <<smvars, procvars, evicted, committed, worldvars>>

\* pre_rebalance: a revocation reaches the consumer inside recv(); the set is
\* queued for the event loop.  Eager members, and evicted ones, lose it all.
Revoke(R) ==
    /\ status = "running"
    /\ Len(rebalance) < MaxRevocations
    /\ R # {} /\ R \subseteq assignment
    /\ R = assignment \/ (Cooperative /\ ~evicted)
    /\ rebalance' = Append(rebalance, R)
    /\ assignment' = assignment \ R
    /\ position' = [p \in Partitions |->
                       IF p \in R THEN NoOffset ELSE position[p]]
    /\ evicted' = FALSE
    /\ UNCHANGED <<smvars, status, pool, disk, commits, committed, resets,
                   worldvars>>

\* The coordinator gives up on a member that does not poll or heartbeat in
\* time and refuses its commits; the member finds out at its next poll.
Evict ==
    /\ "evict" \in Faults
    /\ status \in {"running", "draining"}
    /\ ~evicted /\ assignment # {}
    /\ evicted' = TRUE
    /\ commits' = << >>
    /\ UNCHANGED <<smvars, procvars, assignment, position, committed, resets,
                   worldvars>>

\* Another member owns p and, as this program does, stores what it reads
\* before it commits it: the records from its start up to n.  It, too, ends at
\* a record it cannot decode.
PeerProgress(p, n) ==
    /\ Peers
    /\ p \notin assignment \/ evicted
    /\ StartPosition(p) < n /\ n <= logEnd[p]
    /\ \A o \in StartPosition(p) .. n - 1 : Log[p][o].kind # "poison"
    /\ durable' = durable \cup
                    DataOf({<<p, o>> : o \in StartPosition(p) .. n - 1})
    /\ committed' = [committed EXCEPT ![p] = n]
    /\ resets' = Resets({p})
    /\ commits' = << >>
    /\ UNCHANGED <<smvars, procvars, assignment, position, evicted, logEnd>>

BrokerAppliesCommit ==
    /\ commits # << >>
    /\ committed' = [p \in Partitions |->
                        IF Head(commits)[p] = NoOffset THEN committed[p]
                                                       ELSE Head(commits)[p]]
    /\ commits' = Tail(commits)
    /\ UNCHANGED <<smvars, procvars, assignment, position, evicted, resets,
                   worldvars>>

\* commit_callback with an error: it is logged and nothing else happens.
CommitLost ==
    /\ "commit" \in Faults
    /\ commits # << >>
    /\ commits' = Tail(commits)
    /\ UNCHANGED <<smvars, procvars, assignment, position, evicted, committed,
                   resets, worldvars>>

-----------------------------------------------------------------------------
(* The event loop.                                                          *)

\* Mutant of DrainRevocation: DeleteFile is not acted upon.
DrainRevocationKeepsFiles ==
    /\ status = "running"
    /\ rebalance # << >>
    /\ handle_revoke_partitions(Head(rebalance))
    /\ rebalance' = Tail(rebalance)
    /\ UNCHANGED <<status, disk, pool, groupvars, worldvars>>

DrainRevocation ==
    /\ status = "running"
    /\ rebalance # << >>
    /\ handle_revoke_partitions(Head(rebalance))
    /\ disk' = disk \ DeletedPaths(Head(rebalance))
    /\ rebalance' = Tail(rebalance)
    /\ UNCHANGED <<status, pool, groupvars, worldvars>>

\* A file name nothing on the disk has (the code draws a UUID).
FreshPath == CHOOSE n \in 0 .. Cardinality(disk) : n \notin disk

CanRead(p) == Turn /\ p \in assignment /\ position[p] < logEnd[p]

ReadPast(p) == position' = [position EXCEPT ![p] = @ + 1]

ProcessRecord(p) ==
    /\ CanRead(p)
    /\ Log[p][position[p]].kind \in {"data", "empty"}
    /\ ReadPast(p)
    /\ LET o == position[p]
           s == StreamOf(p, o)
       IN  /\ handle_process_record(p, o, FreshPath)
           /\ disk' = IF IsData(<<p, o>>) /\ files[s] = NoFile
                      THEN disk \cup {FreshPath} ELSE disk
           /\ pool' = IF Seals(p, o)
                      THEN pool \cup {ToUpload(StreamAfter(p, o),
                                               FileAfter(p, o, FreshPath))}
                      ELSE pool
    /\ UNCHANGED <<status, rebalance, assignment, evicted, commits, committed,
                   resets, worldvars>>

\* Mutant of ProcessRecordFails: an undecodable record is logged and passed over
\* (its offset is in offsets_consumed by then).
ProcessRecordSkips(p) ==
    /\ CanRead(p)
    /\ Log[p][position[p]].kind = "poison"
    /\ ReadPast(p)
    /\ handle_process_record(p, position[p], FreshPath)
    /\ UNCHANGED <<procvars, assignment, evicted, commits, committed, resets,
                   worldvars>>

\* No topic configuration, an undecodable payload, or a failing disk.
ProcessRecordFails(p) ==
    /\ CanRead(p)
    /\ \/ Log[p][position[p]].kind = "poison"
       \/ Log[p][position[p]].kind = "data" /\ "disk" \in Faults
    /\ Fatal

\* The consumer itself steps over offsets that hold no record.
SkipGap(p) ==
    /\ CanRead(p)
    /\ Log[p][position[p]].kind = "gap"
    /\ ReadPast(p)
    /\ UNCHANGED <<smvars, procvars, assignment, evicted, commits, committed,
                   resets, worldvars>>

UploadTick ==
    /\ Turn
    /\ \E S \in UploadBatches :
          IF CloseFails(S)
          THEN Fatal
          ELSE /\ handle_upload_tick(S)
               /\ pool' = pool \cup UploadsOf(S)
               /\ UNCHANGED <<status, disk, rebalance, groupvars, worldvars>>

\* file_registry.close fails on the disk, in a tick or at the shutdown signal.
SealFails ==
    /\ Turn
    /\ "disk" \in Faults
    /\ OpenStreams # {}
    /\ Fatal

CommitTick ==
    /\ Turn
    /\ make_topic_partition_list(assignment)
    /\ LET tpl == TopicPartitionList(assignment)
       IN  IF IsEmptyList(tpl) \/ evicted
           THEN UNCHANGED commits
           ELSE /\ Len(commits) < MaxPendingCommits
                /\ commits' = Append(commits, tpl)
    /\ UNCHANGED <<procvars, assignment, position, evicted, committed, resets,
                   worldvars>>

\* The object is complete in S3; the upload's future has not answered yet.  An
\* attempt whose file is gone from the disk can only fail.
StoreObject(u) ==
    /\ u \in pool /\ ~u.stored
    /\ u.path \in disk
    /\ durable' = durable \cup u.data
    /\ pool' = (pool \ {u}) \cup {[u EXCEPT !.stored = TRUE]}
    /\ UNCHANGED <<smvars, status, disk, rebalance, groupvars, logEnd>>

UploadSucceeds(u) ==
    /\ Turn
    /\ u \in pool /\ u.stored
    /\ upload_success(u)
    /\ pool' = pool \ {u}
    /\ disk' = disk \ {u.path}
    /\ UNCHANGED <<status, rebalance, groupvars, worldvars>>

\* Mutants of UploadFails: the retry counter is not looked at; the retry is
\* not pushed back to the pool.
UploadFailsUnchecked(u) ==
    /\ Turn
    /\ "upload" \in Faults
    /\ u \in pool
    /\ pool' = (pool \ {u}) \cup {decrement(u)}
    /\ UNCHANGED <<smvars, status, disk, rebalance, groupvars, worldvars>>

UploadFailsForgotten(u) ==
    /\ Turn
    /\ "upload" \in Faults
    /\ u \in pool
    /\ IF u.retries > 0
       THEN /\ pool' = pool \ {u}
            /\ UNCHANGED <<smvars, status, disk, rebalance, groupvars, worldvars>>
       ELSE Fatal

\* A failed upload, possibly after S3 had stored the object, is tried again;
\* the last failure ends the process.
UploadFails(u) ==
    /\ Turn
    /\ "upload" \in Faults
    /\ u \in pool
    /\ IF u.retries > 0
       THEN /\ pool' = (pool \ {u}) \cup {decrement(u)}
            /\ UNCHANGED <<smvars, status, disk, rebalance, groupvars, worldvars>>
       ELSE Fatal

ShutdownSignal ==
    /\ Turn
    /\ IF CloseFails(OpenStreams)
       THEN Fatal
       ELSE /\ handle_shutdown_signal
            /\ pool' = pool \cup UploadsOf(OpenStreams)
            /\ status' = "draining"
            /\ UNCHANGED <<disk, rebalance, groupvars, worldvars>>

-----------------------------------------------------------------------------
(* drain_and_shutdown.  Of the responses of a completion only Fatal is      *)
(* looked at: files are not deleted and uploads are not retried.            *)

DrainUploadSucceeds(u) ==
    /\ status = "draining"
    /\ u \in pool /\ u.stored
    /\ upload_success(u)
    /\ pool' = pool \ {u}
    /\ UNCHANGED <<status, disk, rebalance, groupvars, worldvars>>

\* Mutant of DrainUploadFails: retried for ever.
DrainUploadFailsForever(u) ==
    /\ status = "draining"
    /\ "upload" \in Faults
    /\ u \in pool
    /\ pool' = (pool \ {u}) \cup {[u EXCEPT !.stored = FALSE]}
    /\ UNCHANGED <<smvars, status, disk, rebalance, groupvars, worldvars>>

DrainUploadFails(u) ==
    /\ status = "draining"
    /\ "upload" \in Faults
    /\ u \in pool
    /\ IF u.retries > 0
       THEN /\ pool' = pool \ {u}
            /\ UNCHANGED <<smvars, status, disk, rebalance, groupvars, worldvars>>
       ELSE Fatal

\* The last commit is synchronous, behind the asynchronous ones; an error of
\* it is the error start() returns.
FinalCommit ==
    /\ status = "draining"
    /\ pool = {}
    /\ commits = << >>
    /\ LET tpl == TopicPartitionList(assignment)
           refused == evicted /\ ~IsEmptyList(tpl)
           lost == "commit" \in Faults /\ ~IsEmptyList(tpl)
       IN  \/ /\ ~refused
              /\ committed' = [p \in Partitions |->
                                  IF tpl[p] = NoOffset THEN committed[p] ELSE tpl[p]]
              /\ ProcessEnds("stopped")
              /\ UNCHANGED <<commits, resets, worldvars>>
           \/ (refused \/ lost) /\ Fatal

-----------------------------------------------------------------------------
Crash ==
    /\ "crash" \in Faults
    /\ status \in {"running", "draining"}
    /\ Fatal

Restart ==
    /\ status \in {"stopped", "failed"}
    /\ status' = "running"
    /\ UNCHANGED <<smvars, pool, disk, rebalance, groupvars, worldvars>>

World ==
    \/ \E p \in Partitions : Produce(p)
    \/ TimePasses
    \/ \E A \in SUBSET Partitions : Assign(A)
    \/ \E R \in SUBSET Partitions : Revoke(R)
    \/ Evict
    \/ \E p \in Partitions, n \in 1 .. LogSize : PeerProgress(p, n)
    \/ BrokerAppliesCommit
    \/ CommitLost
    \/ \E u \in pool : StoreObject(u)
    \/ Crash
    \/ Restart

EventLoop ==
    \/ DrainRevocation
    \/ \E p \in Partitions :
          ProcessRecord(p) \/ ProcessRecordFails(p) \/ SkipGap(p)
    \/ UploadTick
    \/ SealFails
    \/ CommitTick
    \/ \E u \in pool : UploadSucceeds(u) \/ UploadFails(u)
    \/ ShutdownSignal

Drain ==
    \/ \E u \in pool : DrainUploadSucceeds(u) \/ DrainUploadFails(u)
    \/ FinalCommit

Next == World \/ EventLoop \/ Drain

Spec == Init /\ [][Next]_vars
=============================================================================
