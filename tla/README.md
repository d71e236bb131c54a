# A TLA+ model of the S3 sink

The service reads records from Kafka, appends each one to a local file of the *stream* its router
assigns it to, seals files by size or age, uploads them to S3 and commits offsets back to Kafka
once all lower offsets are uploaded. This directory holds its specification: modules that model
it, model-checking runs on small instances (TLC), and proofs for all instances (TLAPS).

Source paths below are relative to the repository, `src/...`; the map from every definition to
the lines it models is in `PROJECT.json`.

## The system

One process, one thread. `Sink::start` (`src/sink.rs`) is a loop around a `select!` with five
branches; it passes each event as a `Request` to the `StateMachine` (`src/state_machine.rs`) and
applies the `Response`s it returns, with no `await` in between. So a turn of the loop is atomic,
and what interleaves is the turns, the uploads in the pool, the consumer's callbacks, the
consumer group, S3, and crashes.

| component | state it keeps | operations | what is hard | what makes it correct |
|---|---|---|---|---|
| state machine | streams, `offsets_uploaded`, `offsets_watermark`, `in_flight_uploads` | seven requests | completions out of order, late completions, partial revocation, tombstones, the counter | commits only past stored records; custody of every record read; exact counter |
| event loop, drain (`sink.rs`) | upload pool, rebalance channel | select, apply responses, drain at shutdown | revocations queued by a callback, responses the drain ignores | no upload dropped, files removed exactly once, drain ends |
| consumer callbacks (`kafka_consumer.rs`) | the channel's sender | `pre_rebalance`, `commit_callback` | failed commits are only logged | watermark against committed offset |
| Kafka group and broker (external) | assignment, positions, committed offsets | assign, revoke, evict, apply or refuse a commit | eviction the member has not noticed, older generations, offset reset | committed offsets do not go back |
| uploader (`uploader/`) | none | one attempt, backoff | failure after the object was stored, retries, the number of the attempt | stored before reported; the sleep is that of the failures there were |
| file registry, active files (`files/`) | open files by stream | write (create), close, revoke | a stream without a file | files on disk are the open ones and those being uploaded |
| serializer, router, decoder, cache (`json_serializer.rs`, `record/`, `cache.rs`) | identifier cache, buffers reused for every record | a record's stream and line | what an earlier record left in a buffer, duplicate or non-text headers, payloads at the length of the schema header, undecodable records | one stream per route; a line holds its own record only |
| timers (`timer_interrupts.rs`), runtime (`bin/main.rs`) | deadlines of two intervals | ticks, bursts of missed ticks, yields | one thread for all; a biased `select!` whose last branch is the signal | files sealed, signals noticed, the loop at rest in bounded time |
| object keys (`key_generator.rs`) | none | a key from identifier, time and digits | slashes inside segments, identifiers that begin alike | a directory holds one stream |
| configuration | limits | | zero periods | |
| statistics, error texts, OAuth token, `benches/`, start script | | | not modelled | |

The interactions: the broker hands records and rebalances to the consumer, whose `recv` runs the
callbacks; these put revoked partitions in a channel the loop empties at the start of each turn;
the state machine owns the file registry and calls it directly; uploads run as futures in a pool
polled by the loop; a commit goes to the broker and its answer comes back to a callback.

## The modules

| module | what it is |
|---|---|
| `DataModel` | partitions, streams, logs and kinds of record; `ContiguousEnd`, the scan that decides what may be committed |
| `StateMachine` | one operator per handler of the state machine, with the file registry it owns |
| `Sink` | extends it with the event loop, pool, rebalance channel, disk, broker, S3, crashes; `Spec` |
| `SinkProperties` | the properties of `Sink`, `FairSpec`, and the refinement of `Delivery` |
| `Delivery` | abstract: what the sink promises, with neither process nor file in it |
| `CommitList` | `make_topic_partition_list` loop by loop; refines the one-step list of `StateMachine` |
| `RecordPath` | from the bytes of a message to its stream and its line: router, identifier cache, decoder, serializer. `StateMachine` takes both as given by the log |
| `ObjectKeys` | extends `RecordPath` with the key of each stream's objects |
| `Timing` | the same event loop in milliseconds: what is ready when, in which order the biased `select!` takes it, how old files get |
| `MCSink`, `MCCommitList`, `MCRecordPath` | values of the constants for TLC |
| `DataModelProofs`, `CommitListProofs` | the scan for what may be committed; the loops implement it, and the list |
| `SinkProofs` | the types of `Sink`; the counter, the limit of the pool, the scratch files; what can end the process |
| `DeliveryProofs`, `CustodyProofs` | at-least-once delivery; custody of records read, undecodable records |
| `RefinementProofs` | `Sink` implements `Delivery`; the watermark against the committed offset; clean shutdown |
| `RecordProofs` | streams, lines and keys of records |
| `TimingProofs` | the bounds on file age, signal latency and backoff |

### How state and actions correspond to the code

* **Data.** A record is `<<partition, offset>>`. Of the log each record keeps its stream, its size
  and its kind: `data` (the serializer returns a payload), `empty` (it returns none), `poison`
  (decoding or the topic configuration fails) and `gap` (the offset holds no record).
  `bytes` and `age` of a stream are kept up to the threshold they are compared with.
  A missing key of a map is `NoOffset`, `NoStream`, `NoFile` or the empty set.
* **State machine.** `handle_process_record`, `handle_upload_tick`, `upload_success`, `decrement`,
  `make_topic_partition_list`, `handle_revoke_partitions` and `handle_shutdown_signal` fix the next
  value of every variable of the state machine. Responses are operators of the state the handler
  starts in: `Seals` and `ToUpload` (`ReadyForUpload`), `DeletedPaths` (`DeleteFile`),
  `TopicPartitionList` (`CommitAsync`, `CommitSync`), `CloseFails` (`Fatal`).
* **Hash maps.** Where the result depends on the iteration order of a map the order is a choice:
  which dormant streams a full pool has room for (`UploadBatches`), the keys in `CommitList`.
* **Turns.** `ProcessRecord`, `UploadTick`, `CommitTick`, `UploadSucceeds`, `UploadFails` and
  `ShutdownSignal` are a turn each: handler and responses together. Draining the rebalance channel
  is an action of its own, and a turn waits for the channel to be empty. This is the order of the
  code: `select!` decides, then the channel is drained, then the request is handled. The
  assignment a commit tick takes with it cannot change between the two, since rebalance callbacks
  run inside `recv`.
* **Fatal.** A `Fatal` response, an error of `recv` or of a commit ends `start`, and the process.
  `ProcessEnds` forgets all memory. A crash does the same; files stay on disk, and no later
  process looks at them. `Crash` stands for errors of `recv` and of `consumer.assignment()`, too.
* **Uploads.** `StoreObject` is the moment the object is complete; the future may answer success
  only after it, and failure before or after it. A PUT that completes after a crash is left out:
  it could only store more.
* **File names.** The code draws a UUID. The model takes the least number no file on the disk has.
* **Kafka group.** `Assign` starts a generation: the member begins at the committed offset, or
  where `auto.offset.reset` says (the history variable `resets` records that), and asynchronous
  commits it sent before are refused. `Revoke` is `pre_rebalance`: one partition or several when
  the protocol is cooperative, all when it is eager or the member was evicted. `Evict` is the
  coordinator's doing alone; the member goes on until it polls. A peer stores and commits in one
  step (`PeerProgress`), which assumes of the other members what is checked of this one.
* **Records.** In `RecordPath` a text is the sequence of the segments between its delimiters, so
  joining texts by the delimiter is concatenation and an ambiguous identifier shows; a payload is a
  sequence of bytes; a line keeps its body and its headers. `id_buf` and `buf` are the two reused
  buffers, cleared where the code clears them (a tombstone leaves `buf` alone); what a step takes, as
  identifier and as line, it reads from them, so bytes an earlier record left behind would be taken too
  (the mutants `write_id_unclear` and `serialize_unclear`). `WriteRecord`,
  `SkipRecord` and `RefuseRecord` are the three outcomes of `serialize`: the kinds `data`, `empty`
  and `poison` of the log in `Sink`.
* **Time.** `Sink` lets every branch be ready in any turn. `Timing` drops partitions, offsets and
  rebalances and keeps what decides which branch is ready: `Branch1` to `Branch5` are the branches
  of the biased `select!`, each enabled only when those above are pending; a branch is a turn.
  `main` builds a current-thread runtime and blocks on the loop, so deadlines, signals and answers
  are noticed only when it yields (`Yield`), which happens when all its branches are pending; `busy`
  is the time since. The intervals tick at once when created and catch up with missed ticks in a burst
  (tokio's default). `Sink::start` creates them before it awaits the consumer (`sink.rs:40`, `:49`), so the loop
  may begin with ticks missed: `Init` leaves the deadlines up to `MaxStart` in the past.
  A retry sleeps `100 * 2^min(attempt, 6)` ms, at most 5 s, jittered, from its
  first poll on (`BeginAttempt`, `EndBackoff`); the attempt number is `max_uploads_retry - retries`. The signal
  handlers are installed when the shutdown future is first polled (`listening`): an earlier
  signal kills the process.
* **Keys.** `key_inner` makes directories of an identifier's segments; a segment with a slash
  (`Slashed`) makes several. The day, the second and the UUID's digits are chosen from sets. That
  two draws of digits differ is taken for granted: `KeysTellStreams` says what different digits give, and no
  property covers equal ones.
* **What is owed.** With nothing committed, reading begins where the reset policy says. The group
  owes the records from the *latest* such reset on (`Owed`). With `earliest` that is every record;
  with `latest` see the finding `LatestResetSkips`.

## The runs

| run | instance | what it shows |
|---|---|---|
| `CrashAndRetry` | reset to latest, as `main` sets it; 1 partition, 3 records of 2 streams produced along the way, 2 concurrent uploads, 1 retry, a revocation, 2 commits pending; crashes, failing uploads, lost commits | out-of-order completions, retries and restarts: `AtLeastOnce`, the counter of uploads equals the pool, the limit holds while the loop runs, no upload is dropped by it |
| `CooperativeRebalance` | 2 partitions with 2 offsets (one a gap) feeding 1 stream; partial revocations; peers | `InCustody` (no record is let go of by a partial revocation), files on disk accounted for, no `Fatal`, `Delivers` |
| `EvictionAndPeers` | 1 partition: data, gap, data, tombstone, poison; evictions, peers, failing disk and uploads, crashes | late completions, retries, stale watermarks and commits of a zombie member: `AtLeastOnce`, `Delivers`; no commit passes the record that cannot be decoded (`PoisonNotPassed`) |
| `Progress` | 4 offsets `a, b, gap, a`, 2 streams, pool of 1, failing uploads, fairness | `StableProgress`, `DrainTerminates`, `CleanShutdownCommitsAll`, `WatermarkCommitted`: all is stored, and committed up to the gap |
| `CommitList` | every assignment, uploaded set and watermark (none, any offset, the end of the log) of 2 partitions with 3 offsets | the loops compute the list (`ImplementsList`) and stop where they should |
| `Records` | 10 messages of 3 topics (both decoders, both routers, streams shared by topics, duplicate, empty and non-text headers, payloads at the length of the schema header), any order, restarts | `StreamPerRoute` and `LinesStandAlone`: nothing of one message reaches the stream or line of another; `KeysTellStreams`: no object gets a key in another stream's directory, or the key of another object |
| `Timing` | 1 stream, 1 slot, 2 retries, files of 1 s, commits every 200 ms, at most 200 ms between yields, up to 300 ms for the consumer to start, fairness | `SealedInTime`, `SignalInTime`, `RetryInTime`: the deadlines hold whatever the order of ticks, bursts, completions and records; `ComesToRest`: bursts end |
| `LatestResetSkips`, `ShutdownOverCapacity`, `DrainDropsRetry`, `TombstoneStream`, `BinaryHeaders` | as small as shows it | violations of what a document or comment says: see below |

Every property of a passing run has a mutant in `PROJECT.json`: a plausible bug of the code
(written beside the definition it replaces) under which TLC finds the property violated.

**Bounds.** `LogSize` bounds each log; `MaxRevocations` the revocations in the channel;
`MaxPendingCommits` the asynchronous commits under way. One revocation waiting while the
partition may be assigned again, revoked and read by others is enough for a late completion to
meet each stage of a rebalance. Two streams and records `a, b, a` give uploads that complete in
either order with a second file behind the first. Two partitions sharing one stream are the least with
a stream that a revocation must keep. Target sizes of one and two records make both ways of sealing
(size, age) happen; the age counts to one, and in `CooperativeRebalance` to zero (a file may be
sealed at any tick). `CommitList` needs three offsets for a run, a gap and an offset beyond it.
In `Records` each message stands for one case of a header or payload; any one may follow any
other, which is all that the buffers, overwritten by every record, could pass on.
In `Progress` the log has a gap with records on both sides, so the scan stops while uploads go on behind it.
`Timing` counts in steps of 100 ms. Files of a second give an upload period of one step, and commits
every second step; a spell of 200 ms without a yield misses two upload ticks, enough for a burst;
two retries give a first attempt and two different backoffs (the cap of 5 s is reached from the
sixth failure on: only the theorem covers it); a start of 300 ms misses three upload ticks and one commit tick.
Nothing in the code bounds the time
between yields (with records always ready `recv` is never pending): `MaxBusy` is an assumption on
the load, and the bounds of `Timing` are stated in terms of it.
What is proved (below) does not depend on these bounds.

**Fairness** (`Fairness`, weak only). The loop turns and both timers tick again and again
(`UploadTick`, `CommitTick`); a record that is there is received (`recv` comes after the timers
and completions in the biased `select!`, whose branches are not always ready); a completion that is
ready is handled; S3 stores an object of an upload in the pool; the broker answers a commit; the
drain goes on. Nothing obliges a fault, a rebalance, a producer or a shutdown signal to happen.
`StableProgress` speaks of a partition that stays with a running, non-evicted member: a failing
upload with no retries left ends the process, so it cannot fail for ever while it runs.
`Timing` assumes that the loop handles what is ready (it never blocks outside `select!`) and yields
when nothing is; that a record or an answer comes is not assumed.

### Findings

* `LatestResetSkips`: `src/bin/main.rs:46` sets `auto.offset.reset` to `latest`. A partition that
  is revoked, or whose process restarts, before its first commit is read again from the end of its
  log; what was read and not uploaded is skipped, against "The service has an at-least-once
  delivery semantic." (README.md).
* `ShutdownOverCapacity`: the shutdown signal seals and uploads every stream at once, against
  "maximum number of concurrent uploads at any given point" (`src/config.rs`).
* `DrainDropsRetry`: the drain looks only at `Fatal`; a failed upload with retries left is dropped,
  against "maximum number of times to retry an upload before crashing" (`src/config.rs`). Its
  records are not committed and will be read again.
* `TombstoneStream`: a stream that only received records without payload has no file; sealing it
  answers `Fatal`, against "skip records with empty data body" (`src/json_serializer.rs`).
* `BinaryHeaders`: a header whose value is not UTF-8 is copied into the line, which then is not
  JSON, against "Headers that contain problematic characters will be dropped."
  (`src/json_serializer.rs`).

Not a finding, but worth knowing: the watermark moves when the list is built, not when the commit
succeeds (`src/state_machine.rs:464`). After a failed asynchronous commit nothing is sent again for
the partition until more is uploaded. No record is lost by it; `WatermarkCommitted` is therefore
checked where every commit sent arrives in the end.

## What is proved

For every value of the constants that satisfies the assumptions `LogAssumption`,
`StateMachineAssumption` and `SinkAssumption` (finite sets of partitions and streams, natural
limits), or `TimingAssumption`, which TLC evaluates in each run. The proofs about `Sink` build on
each other: `SinkProofs`, `DeliveryProofs`, then `CustodyProofs` and `RefinementProofs`; the parts of the invariants are defined in `SinkProperties`, so TLC can check them too.

* `ContiguousEndCorrect` (`DataModelProofs`): the `CHOOSE` that models the scan has a value, the
  first offset from the watermark on that is missing. By the least natural number outside a
  finite range.
* `SinkProofs!TypeCorrect`: `TypeOK` of `Sink`. It is inductive as it stands; it includes that
  the pool and the disk are finite (so that a fresh file name exists), that retry counters do not
  go below zero, and that an assigned partition has a position.
* `DeliveryProofs!AtLeastOnceHolds`: `Spec => []AtLeastOnce`. `AtLeastOnce` speaks only of the
  committed offset and is not inductive. An offset is *safe* if all that is owed below it is
  stored. `Custody` follows the chain by which an offset gets committed: the committed offset is
  safe; so are the offsets in commits under way, the watermarks, and the position of each assigned
  partition that has no watermark or is about to lose it to a queued revocation (from that position the next
  watermark will be taken); uploaded offsets are stored; an upload and an open file hold the data
  of every offset they stand for. `TypeOK /\ Custody` is inductive. Safe offsets stay safe because
  `durable` and `resets` only grow (`HistoryOnlyGrows`); a list to commit is safe by
  `ContiguousEndCorrect` (`ListSafe`); a member begins at a safe offset (`StartSafe`).
* `SinkProofs!InFlightAccurateHolds`, `ConcurrencyHolds`, `ScratchFilesHold`. The pool is a set,
  and the counter follows its size only if two uploads never coincide. So `PoolInv` says at once
  that paths of open files and uploads are distinct (a fresh path is one no file on disk has), that these are the
  files on disk, that the counter is the size of the pool and within the limit; with
  `TypeOK` it is inductive. A process that has ended leaves nothing of it.
  `PoolWithinStreamsHolds` says how far the finding `ShutdownOverCapacity` goes: after the signal the
  pool holds at most one upload per stream above the limit.
* `SinkProofs!NeverFatalHolds`: `NothingFails /\ Spec => []NeverFatal`. `NothingFails` says that no fault
  happens and that the log holds records with payload and gaps only; each part is needed, since an upload
  without retries, the disk, a refused last commit, an undecodable record and a stream of
  tombstones do end the process. The invariant, `FInv`: a stream with offsets has a file
  (`StreamsHaveFiles`), so it can be sealed. The run `CooperativeRebalance` is an instance of it.
* `DeliveryProofs!SinceFirstStartHolds`: `OffsetReset = "earliest" /\ Spec => []AtLeastOnceSinceFirstStart`.
  The promise of the README that `LatestResetSkips` refutes for the reset `main` sets holds with the
  other one, because every reset is then at offset 0.
* `CustodyProofs!InCustodyHolds`: `Spec => []InCustody`. A revocation deletes files, so this is not
  inductive. `ReadHeld`: a record below the position of an owned partition that is not about to be
  revoked is in S3, an upload or a file. `FilesOfOffsets`: a file holds records of its
  stream's offsets only, so the files a revocation deletes hold none of the partitions kept. If a partition
  came back before its revocation was handled, its position is safe (`Custody`).
  `NoUploadAbandonedHolds` follows step by step: an upload leaves the pool only once stored.
* `CustodyProofs!PoisonNotPassedHolds`: the offset of a record that cannot be decoded is entered in
  its stream before the handler answers `Fatal`, so what has to be shown is that no stream survives
  that, and that no commit, watermark, position or upload of any kind is beyond it (`NInv`).
* `RefinementProofs!DeliveryImplemented`: `Spec => Delivers`, the sink implements `Delivery`.
  `AtLeastOnce` gives that a commit passes only stored records. That committed offsets do not go back
  needs an order: commits under way of the present generation are ahead of the committed offset and of
  each other (`CommitsAhead`), and the member's watermarks and positions are not behind
  (`MemberAhead`, with `QueueEmptied` and `WatermarksOwned` for what a queued revocation leaves).
* `RefinementProofs!WatermarkCommittedHolds`: `CommitsArrive /\ Spec => []WatermarkCommitted`. `CommitsArrive`:
  no commit is lost, and the member neither shares the group nor keeps partitions over a
  rebalance (a new generation refuses commits sent before it). Failing uploads, disks, crashes, evictions and
  eager rebalances are allowed. The invariant (`WInv`): every owed offset below the member's floor, which is
  its watermark or the position the next one will be taken from, is below the committed offset or a commit
  under way (`CommitsCover`), and no reset lies beyond a floor, a commit or the committed offset (`ResetsBehind`).
* `RefinementProofs!CleanShutdownHolds`: with `CommitsArrive` and no evictions, `Spec => CleanShutdownCommitsAll`.
  `ReadTracked`: every offset from the watermark up to the position is uploaded, or in an upload, or in a
  stream. `DrainAccount`: in the drain no stream is open, and the pool is never larger than the counter. A dropped
  upload leaves the pool and not the counter, so the two differ for good; if the counter is at zero at the
  end none was dropped, all that was tracked is uploaded, and the scan stops at a gap only.
* `CommitListProofs!ScanCorrect`: `Spec => []ScanFindsContiguousEnd`, with `ScanInvariant` (what
  lies between the watermark and `offset_to_commit` is uploaded, and all uploaded offsets from
  there on are ahead of the cursor, or it broke off at a missing one) as the inductive part.
  `CommitListProofs!TypeCorrect` is its type invariant.
* `CommitListProofs!LoopsImplementList`: `Spec => ImplementsList`, the loops refine the one-step operator
  `make_topic_partition_list` that `Sink` uses. `ListInvariant`: keys visited have the list entry, watermark and
  trimmed set of the operator, keys not yet visited are untouched; what is left for the end is the
  trimming of sets whose watermark did not move.
* `TimingProofs`: `SealedInTimeHolds` and `SignalInTimeHolds`, for all timeouts, periods, pool sizes
  and loads. `DeadlinesKept`: the next upload tick is at most a period away, and while a file is open its
  deadline is at most one busy spell late when noticed (what was missed before the loop began is caught up
  with before the first record is read). `AgesKept`: since the last upload tick, which left no file
  of the timeout's age unless the pool was full, a file has aged no more than the deadline has come closer.
  `SignalKept`: an unnoticed signal is younger than the spell, a noticed one is handled before the next ends.
  `RetryInTimeHolds`: failures and retries left make up the limit, so the number of the attempt the
  backoff is computed from is the number of failures, and a sleep is noticed to be over at most a spell late (`RetryKept`).
* `RecordProofs`: `RecordTypeCorrect`, `StreamPerRouteHolds`, `LinesHold`, `KeysTell`, for all messages, topics and
  orders. `RecordInv`: whatever the reused buffers held, a message was given the identifier and the line
  that `write_id` and `serialize` make of it alone. The rest is about sequences of texts: joining
  `Plain` texts loses none of them, and no directory of a `Regular` identifier lies below another one's.
  `TextAssumption` and `NamesAssumption` are facts about strings, which the provers take for
  atoms (a status is told by the text it is formatted to; a day and a file name tell the instant and the
  UUID's digits). TLC evaluates both in the run `Records`.

Only model-checked: the liveness properties (`StableProgress`, `DrainTerminates`, `ComesToRest`), which are out
of the prover's reach. Every invariant, action property and refinement of a passing run is stated by a
theorem; those with a hypothesis (`CommitsArrive`, `NothingFails`, no eviction) name it, and the run that
checks the property is an instance of it.

## What is not modelled

Statistics and logging (never read by the logic), error texts, the OAuth token callback,
compression and buffering of files, multipart transfer inside the AWS library, reading the
environment, benchmarks and scripts. `Sink` has no clock and `Timing` no partitions: what a
rebalance does within a given time is in neither. A shutdown signal may come in any turn, and no
fairness is assumed for it. Over an offset that holds no record the scan stops
(`src/state_machine.rs:452`), and the committed offset passes it only after the partition is assigned anew: the
liveness properties promise storage beyond the first gap and a commit up to it.
Line breaks inside a body and the growth of the set of interned identifiers are left to the producers by the code.

## Plan

1. Done: data model, state machine, sink, their properties and runs; records, keys, time.
2. Done: `AtLeastOnce`, the pool, custody, undecodable records, the refinement of `Delivery`, the
   watermark and clean shutdown, the loops of `CommitList`, the bounds of `Timing`, records and keys, all proved.
3. Left: two members modelled in full in place of `PeerProgress`.
