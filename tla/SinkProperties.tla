--------------------------- MODULE SinkProperties ---------------------------
(***************************************************************************)
(* The correctness properties of the sink.  Those a model checking run     *)
(* checks are named in its configuration; README.md says which and why.    *)
(***************************************************************************)
EXTENDS Sink

Running == status = "running"

\* Of the records of p, those from the latest auto.offset.reset on.
Owed(p, o) == IsData(<<p, o>>) /\ \A r \in resets[p] : r <= o

\* At-least-once delivery, what the commit logic of make_topic_partition_list
\* is for: a record below the committed offset, which no member will read
\* again, is in S3; whatever crashes, rebalances, late completions and retries
\* came before.
AtLeastOnce ==
    \A p \in Partitions, o \in Offsets :
        Owed(p, o) /\ o < committed[p] => <<p, o>> \in durable

\* Why it holds.  n is a safe offset of p if all that is owed below it is
\* stored.  Every offset that may become the committed one is safe: the
\* watermark, what is on its way to the broker, and the position from which a
\* partition without (or about to lose its) watermark is read.  What may move
\* the watermark is stored: uploaded offsets; and uploads and open files hold
\* the data of all offsets they stand for.
SafeIn(stored, starts, p, n) ==
    \A o \in Offsets :
        IsData(<<p, o>>) /\ (\A r \in starts : r <= o) /\ o < n => <<p, o>> \in stored
Safe(p, n) == SafeIn(durable, resets[p], p, n)

BeingRevoked(p) == \E i \in 1 .. Len(rebalance) : p \in rebalance[i]

CommittedSafe == \A p \in Partitions : Safe(p, committed[p])
WatermarkSafe == \A p \in Partitions : Safe(p, offsets_watermark[p])
PendingSafe   == \A i \in 1 .. Len(commits), p \in Partitions : Safe(p, commits[i][p])
PositionSafe  ==
    \A p \in assignment :
        offsets_watermark[p] = NoOffset \/ BeingRevoked(p) => Safe(p, position[p])
UploadedStored ==
    \A p \in Partitions : \A o \in offsets_uploaded[p] :
        IsData(<<p, o>>) => <<p, o>> \in durable
PoolSound ==
    \A u \in pool : /\ DataOf(u.offsets) \subseteq u.data
                    /\ u.stored => u.data \subseteq durable
OpenFilesSound == \A s \in Streams : DataOf(streams[s].offsets) \subseteq files[s].data

Custody ==
    /\ CommittedSafe
    /\ WatermarkSafe
    /\ PendingSafe
    /\ PositionSafe
    /\ UploadedStored
    /\ PoolSound
    /\ OpenFilesSound

\* The same as the README of the sink promises it: no record written after
\* the group first began to read the partition is lost.
AtLeastOnceSinceFirstStart ==
    \A p \in Partitions, o \in Offsets :
        /\ IsData(<<p, o>>)
        /\ \E r \in resets[p] : r <= o
        /\ o < committed[p]
        => <<p, o>> \in durable

\* A record that cannot be decoded stops the group there: nobody commits past
\* it, so it is neither dropped nor counted as delivered, although its offset is
\* entered in the stream before the payload is looked at (handle_process_record
\* answers Fatal); a tombstone, entered in the same way, may be passed.
IsPoison(p, o) == Log[p][o].kind = "poison"
ClearIn(starts, p, n) ==
    \A o \in Offsets : IsPoison(p, o) /\ (\A r \in starts : r <= o) => n <= o
Clear(p, n) == ClearIn(resets[p], p, n)

PoisonNotPassed == \A p \in Partitions : Clear(p, committed[p])

\* Why it holds: neither does a watermark, a commit under way or a position lie
\* past such a record, and the offset of none gets to an upload that succeeds.
PassesNoPoison ==
    /\ \A p \in Partitions : Clear(p, offsets_watermark[p])
    /\ \A i \in 1 .. Len(commits), p \in Partitions : Clear(p, commits[i][p])
    /\ \A p \in assignment : Clear(p, position[p])
NoPoisonKept ==
    /\ \A p \in Partitions : \A o \in offsets_uploaded[p] : ~IsPoison(p, o)
    /\ \A u \in pool : \A r \in u.offsets : ~IsPoison(r[1], r[2])
    /\ \A s \in Streams : \A r \in streams[s].offsets : ~IsPoison(r[1], r[2])

Held(r) ==
    \/ r \in durable
    \/ \E s \in Streams : r \in files[s].data
    \/ \E u \in pool : r \in u.data

\* The event loop keeps custody of all it has read: a record below the
\* position of an assigned partition is in S3, in a stream's open file, or in
\* an upload; a revocation or a retry never lets go of one (handlers of
\* process_record, revoke_partitions, upload_completion).
InCustody ==
    Running =>
        \A p \in assignment, o \in Offsets :
            Owed(p, o) /\ o < position[p] => Held(<<p, o>>)

\* Why it holds: of a partition about to be revoked, and assigned again, all
\* that lies below its position is stored (PositionSafe); of another one the
\* records read are held, and a file that goes with a revocation holds records
\* of its own stream's offsets only.  A new process owns nothing to begin with.
ReadHeld ==
    Running =>
        \A p \in assignment, o \in Offsets :
            ~BeingRevoked(p) /\ Owed(p, o) /\ o < position[p] => Held(<<p, o>>)
FilesOfOffsets == \A s \in Streams : files[s].data \subseteq streams[s].offsets
EndedOwnsNothing == status \in {"stopped", "failed"} => assignment = {}

\* The counter the back pressure rests on is the number of uploads the pool
\* holds: a completion, a retry, a tick or a revocation never lets them drift
\* apart, so the u64 never wraps below zero and capacity is never lost.
InFlightAccurate == Running => in_flight_uploads = Cardinality(pool)

\* "maximum number of concurrent uploads at any given point" (config.rs).
ConcurrencyBounded == Cardinality(pool) <= MaxConcurrentUploads

\* The part of it the event loop keeps to until the shutdown signal.
ConcurrencyBoundedWhileRunning == Running => ConcurrencyBounded

OpenFiles == {s \in Streams : files[s] # NoFile}

\* Scratch files: while the event loop runs, the files on disk are exactly the
\* open ones and those being uploaded, each used once.  No upload reads a file
\* that DeleteFile removed or that is still written, and none is leaked.
ScratchFilesAccounted ==
    Running =>
        /\ disk = {files[s].path : s \in OpenFiles} \cup {u.path : u \in pool}
        /\ Cardinality(disk) = Cardinality(OpenFiles) + Cardinality(pool)

\* Why these hold.  While the event loop runs no two of the open files and
\* uploads have a path in common, their paths are the files on disk, a file is
\* open for a stream with offsets only, and every slot is counted; a process
\* that has ended leaves nothing of it.
PathsDistinct ==
    /\ \A s, t \in OpenFiles : files[s].path = files[t].path => s = t
    /\ \A u, v \in pool : u.path = v.path => u = v
    /\ \A s \in OpenFiles, u \in pool : files[s].path # u.path
PathsOnDisk == disk = {files[s].path : s \in OpenFiles} \cup {u.path : u \in pool}
FilesHaveStreams == OpenFiles \subseteq OpenStreams
SlotsCounted ==
    /\ in_flight_uploads = Cardinality(pool)
    /\ in_flight_uploads <= MaxConcurrentUploads

PoolAccount == PathsDistinct /\ PathsOnDisk /\ FilesHaveStreams /\ SlotsCounted
NothingLeft == pool = {} /\ disk = {} /\ OpenFiles = {} /\ in_flight_uploads = 0
PoolInv ==
    /\ Running => PoolAccount
    /\ status \in {"stopped", "failed"} => NothingLeft

\* "offset at which we can safely say that all lower offsets have been
\* committed" (the comment at offsets_watermark): with no commit under way,
\* what lies below the watermark of an assigned partition is committed.
WatermarkCommitted ==
    Running /\ commits = << >> /\ rebalance = << >> /\ ~evicted =>
        \A p \in assignment, o \in Offsets :
            Owed(p, o) /\ o < offsets_watermark[p] => o < committed[p]

\* Nothing but a failed upload, disk, decoding or commit ends the process: the
\* handlers answer Fatal for no legal sequence of records, ticks and signals;
\* a tombstone is no exception ("skip records with empty data body",
\* json_serializer.rs).
NeverFatal == status # "failed"

\* An upload leaves the pool only with its records stored, or to be retried, or
\* with the process: "maximum number of times to retry an upload before
\* crashing" (config.rs).
NoUploadAbandoned ==
    [][\A u \in pool :
          status' \in {"running", "draining"} /\ u.path \notin {v.path : v \in pool'}
          => u.data \subseteq durable']_vars

\* The part of it the event loop keeps to (handle_upload_completion).
NoUploadAbandonedWhileRunning ==
    [][\A u \in pool :
          Running' /\ u.path \notin {v.path : v \in pool'}
          => u.data \subseteq durable']_vars

\* The scan for what may be committed stops at an offset that holds no record,
\* which is never uploaded (offset_to_commit in make_topic_partition_list).
NoGapBelow(p, o) ==
    \A x \in Offsets :
        x < o /\ (\A r \in resets[p] : r <= x) => Log[p][x].kind # "gap"

\* A shutdown that ends well and dropped no upload (then the counter is back at
\* zero) leaves no work behind: of every partition this member still owns all it
\* has read is in S3, and committed up to the first gap (handle_shutdown_signal,
\* drain_and_shutdown, handle_final_commit).
CleanShutdownCommitsAll ==
    [][status = "draining" /\ status' = "stopped" /\ in_flight_uploads = 0 =>
          \A p \in assignment, o \in Offsets :
              Owed(p, o) /\ o < position[p] =>
                  /\ <<p, o>> \in durable'
                  /\ NoGapBelow(p, o) => o < committed'[p]]_vars

\* The sink implements the at-least-once delivery of module Delivery.
Promise == INSTANCE Delivery WITH stored <- durable
Delivers == Promise!DeliverySpec

\* The offset below which the member will not commit: its position if it has no
\* watermark, or is about to lose it, its watermark otherwise.
Floor(p) == IF offsets_watermark[p] = NoOffset \/ BeingRevoked(p)
            THEN position[p] ELSE offsets_watermark[p]

\* Why the committed offset only grows.  Commits under way are ahead of it and
\* in order; the watermark of a partition that the group and the member agree
\* on is not behind either; nor is the position from which one without a
\* watermark, or about to lose it, will get it.  Other partitions have none.
CommitsAhead ==
    \A p \in Partitions, i \in 1 .. Len(commits) :
        commits[i][p] # NoOffset =>
            /\ committed[p] < commits[i][p]
            /\ \A j \in 1 .. i - 1 : commits[j][p] < commits[i][p]
NotBehind(p, n) ==
    /\ committed[p] <= n
    /\ \A i \in 1 .. Len(commits) : commits[i][p] <= n
MemberAhead == ~evicted => \A p \in assignment : NotBehind(p, Floor(p))
QueueEmptied == status # "running" => rebalance = << >>
WatermarksOwned ==
    \A p \in Partitions :
        offsets_watermark[p] # NoOffset => p \in assignment \/ BeingRevoked(p)

\* Why the watermark does not run ahead of what is committed, where every commit
\* arrives: what the member will not commit again is committed or on its way.
CommitsArrive == ~Cooperative /\ ~Peers /\ "commit" \notin Faults

Covered(p, o) ==
    \/ o < committed[p]
    \/ \E i \in 1 .. Len(commits) : o < commits[i][p]
CommitsCover ==
    ~evicted =>
        \A p \in assignment, o \in Offsets :
            Owed(p, o) /\ o < Floor(p) => Covered(p, o)

\* Why a clean shutdown has committed all up to the first gap.  A member begins
\* at or beyond every reset of its partition, so no gap but an owed one stops the
\* scan.  Each offset read from the watermark on is uploaded, in an upload or in
\* a stream; the drain keeps that, and custody of all records, as long as it
\* has dropped no upload, which the counter would show.
ResetsBehind ==
    \A p \in Partitions : \A r \in resets[p] :
        /\ OffsetReset = "earliest" => r = 0
        /\ r <= logEnd[p]
        /\ committed[p] # NoOffset => r <= committed[p]
        /\ \A i \in 1 .. Len(commits) : commits[i][p] # NoOffset => r <= commits[i][p]
        /\ p \in assignment => r <= Floor(p)

NoneDropped == in_flight_uploads = Cardinality(pool)

Tracked(r) ==
    \/ r[2] \in offsets_uploaded[r[1]]
    \/ \E u \in pool : r \in u.offsets
    \/ \E s \in Streams : r \in streams[s].offsets
KeepsAll == Running \/ (status = "draining" /\ NoneDropped)
ReadTracked ==
    KeepsAll =>
        \A p \in assignment, o \in Offsets :
            /\ ~BeingRevoked(p) /\ offsets_watermark[p] # NoOffset
            /\ offsets_watermark[p] <= o /\ o < position[p]
            /\ Log[p][o].kind # "gap"
            => Tracked(<<p, o>>)
DrainAccount ==
    status = "draining" =>
        /\ \A u, v \in pool : u.path = v.path => u = v
        /\ OpenStreams = {}
        /\ Cardinality(pool) <= in_flight_uploads
        /\ NoneDropped =>
              \A p \in assignment, o \in Offsets :
                  Owed(p, o) /\ o < position[p] => Held(<<p, o>>)

\* Why nothing ends the process where nothing fails and every record has a
\* payload: each stream it will seal has a file.
NothingFails ==
    /\ Faults = {}
    /\ \A p \in Partitions, o \in Offsets : Log[p][o].kind \in {"data", "gap"}
StreamsHaveFiles == OpenStreams \subseteq OpenFiles

-----------------------------------------------------------------------------
(* Fairness: the event loop handles what is ready, timers tick, S3 answers   *)
(* each attempt, the broker answers each commit.  Nothing obliges a crash,   *)
(* a rebalance, a shutdown signal or a producer to happen.                   *)

Fairness ==
    /\ WF_vars(TimePasses)
    /\ WF_vars(BrokerAppliesCommit)
    /\ WF_vars(\E u \in pool : StoreObject(u))
    /\ WF_vars(DrainRevocation)
    /\ \A p \in Partitions : WF_vars(ProcessRecord(p) \/ SkipGap(p))
    /\ WF_vars(UploadTick)
    /\ WF_vars(CommitTick)
    /\ WF_vars(\E u \in pool : UploadSucceeds(u))
    /\ WF_vars(Drain)

FairSpec == Spec /\ Fairness

\* A partition this member keeps is consumed and uploaded to the end of its log,
\* retries included, and committed up to its first gap: no record stays forever
\* in an open file, in the pool or behind an offset nobody uploads.
StableProgress ==
    \A p \in Partitions :
        <>[](Running /\ p \in assignment /\ ~evicted)
        => <>[](\A o \in Offsets :
                   Owed(p, o) /\ o < logEnd[p] =>
                       /\ <<p, o>> \in durable
                       /\ NoGapBelow(p, o) => o < committed[p])

\* The drain at shutdown ends, whether its uploads succeed or fail.
DrainTerminates == status = "draining" ~> status # "draining"
=============================================================================
