---------------------------- MODULE TimingProofs ----------------------------
(***************************************************************************)
(* The bounds of module Timing for every value of its constants: how long  *)
(* a file stays open, a shutdown signal waits, and an attempt is held up.  *)
(***************************************************************************)
EXTENDS Timing, TLAPS

\* The next upload tick is at most a period away, and while a file is open its
\* deadline is at most a busy spell late when it is noticed: what was missed
\* before the loop began is caught up with before the first record is read.
DeadlinesKept ==
    /\ due["upload"] <= UploadPeriod
    /\ \A s \in Streams : open[s] # Closed => due["upload"] + busy > - MaxBusy

\* The last upload tick left no file of age ActiveFileTimeout open; since then
\* files grew older as the next deadline came nearer, so the sum has not moved.
AgesKept ==
    ~crowded =>
        \A s \in Streams :
            open[s] # Closed => open[s] + due["upload"] < ActiveFileTimeout + UploadPeriod

\* A signal is noticed at the next yield after it came, and no yield follows.
SignalKept == signal <= IF noticed THEN MaxBusy + busy ELSE busy

\* The failures of an upload and the retries it has left make up the limit.
\* It waits to be polled no longer than the spell it was pushed in; from then
\* on what is left of its sleep goes down as `idle` goes up, and is noticed to
\* be over at most a spell late.
RetryKept ==
    \A i \in Slots :
        pool[i] # NoUpload =>
            /\ pool[i].failures + pool[i].retries = MaxUploadsRetry
            /\ pool[i].phase = "pushed" => pool[i].idle <= busy
            /\ pool[i].phase = "backoff" =>
                  /\ pool[i].failures > 0
                  /\ pool[i].wait + busy > - MaxBusy
                  /\ pool[i].wait + pool[i].idle <=
                         LongestWait(pool[i].failures) + MaxBusy

TimingInv == TypeOK /\ DeadlinesKept /\ AgesKept /\ SignalKept /\ RetryKept

\* The periods are what tokio's interval accepts: positive.
LEMMA PeriodsPositive == UploadPeriod \in Nat /\ UploadPeriod > 0 /\ SealLimit \in Nat
BY TimingAssumption DEF UploadPeriod, SealLimit

LEMMA InitTiming == Init => TimingInv
<1> SUFFICES ASSUME Init PROVE TimingInv
    OBVIOUS
<1> USE TimingAssumption, PeriodsPositive DEF Init
<1>0. PICK late \in 0 .. MaxStart : due = [t \in Timers |-> - late]
    OBVIOUS
<1>1. TypeOK
    <2>1. busy \in 0 .. MaxBusy /\ due \in [Timers -> Int]
        BY <1>0
    <2>2. open \in [Streams -> Nat \cup {Closed}]
        OBVIOUS
    <2>3. pool \in [Slots -> Upload \cup {NoUpload}]
        OBVIOUS
    <2> QED
        BY <2>1, <2>2, <2>3 DEF TypeOK
<1>2. DeadlinesKept
    BY <1>0 DEF DeadlinesKept, Timers
<1>3. AgesKept /\ SignalKept /\ RetryKept
    BY DEF AgesKept, SignalKept, RetryKept, Timers, NoSignal
<1> QED
    BY <1>1, <1>2, <1>3 DEF TimingInv

LEMMA NewUploadType == NewUpload \in Upload
BY TimingAssumption DEF NewUpload, Upload, Phases

\* What a poll, an answer, a failure and time make of an upload is one.
LEMMA UploadUpdates ==
    ASSUME NEW u \in Upload
    PROVE  /\ \A time \in Int : Asleep(u, time) \in Upload
           /\ Sending(u) \in Upload
           /\ \A answer \in {"stored", "failed"} : [u EXCEPT !.phase = answer] \in Upload
           /\ u.retries > 0 => Retried(u) \in Upload
           /\ Later(u) \in Upload
<1>1. \A time \in Int : Asleep(u, time) \in Upload
    BY DEF Upload, Phases, Asleep
<1>2. Sending(u) \in Upload
    BY DEF Upload, Phases, Sending
<1>3. \A answer \in {"stored", "failed"} : [u EXCEPT !.phase = answer] \in Upload
    BY DEF Upload, Phases
<1>4. u.retries > 0 => Retried(u) \in Upload
    BY TimingAssumption DEF Upload, Phases, Retried
<1>5. Later(u) \in Upload
    <2>1. CASE u.phase = "pushed"
        BY <2>1, TimingAssumption DEF Upload, Later
    <2>2. CASE u.phase = "backoff"
        <3>1. Later(u) = [phase |-> u.phase, retries |-> u.retries,
                          failures |-> u.failures, wait |-> u.wait - Step,
                          idle |-> u.idle + Step]
            BY <2>2 DEF Upload, Later
        <3> QED
            BY <3>1, TimingAssumption DEF Upload
    <2>3. CASE u.phase \notin {"pushed", "backoff"}
        BY <2>3 DEF Later
    <2> QED
        BY <2>1, <2>2, <2>3
<1> QED
    BY <1>1, <1>2, <1>3, <1>4, <1>5

\* An upload in any phase is an upload: the empty slot has none of them.
LEMMA PhaseIsUpload ==
    ASSUME TypeOK, NEW i \in Slots, pool[i].phase \in Phases
    PROVE  pool[i] \in Upload
BY DEF TypeOK, NoUpload, Phases

LEMMA TypeStep == TypeOK /\ [Next]_vars => TypeOK'
<1> SUFFICES ASSUME TypeOK, [Next]_vars PROVE TypeOK'
    OBVIOUS
<1> USE TimingAssumption, PeriodsPositive
<1>1. CASE UploadTick
    BY <1>1, NewUploadType DEF UploadTick, Seal, TickOf, TypeOK, Timers, Branch1, Running
<1>2. ASSUME NEW i \in Slots, BeginAttempt(i) PROVE TypeOK'
    <2>1. pool[i] \in Upload
        BY <1>2, PhaseIsUpload DEF BeginAttempt, Phases
    <2>2. \/ \E jitter \in Int : pool' = [pool EXCEPT ![i] = Asleep(@, jitter)]
          \/ pool' = [pool EXCEPT ![i] = Sending(@)]
        BY <1>2 DEF BeginAttempt
    <2>3. pool' \in [Slots -> Upload \cup {NoUpload}]
        BY <2>1, <2>2, UploadUpdates DEF TypeOK
    <2> QED
        BY <1>2, <2>3 DEF BeginAttempt, TypeOK
<1>3. ASSUME NEW i \in Slots, EndBackoff(i) PROVE TypeOK'
    <2>1. pool[i] \in Upload
        BY <1>3, PhaseIsUpload DEF EndBackoff, SleepOver, Phases
    <2> QED
        BY <1>3, <2>1, UploadUpdates DEF EndBackoff, TypeOK
<1>4. ASSUME NEW i \in Slots, UploadCompletion(i) PROVE TypeOK'
    <2>1. pool[i] \in Upload
        BY <1>4, PhaseIsUpload DEF UploadCompletion, Phases
    <2> QED
        BY <1>4, <2>1, UploadUpdates DEF UploadCompletion, TypeOK
<1>5. CASE CommitTick
    BY <1>5 DEF CommitTick, TickOf, TypeOK, Timers
<1>6. ASSUME NEW s \in Streams, ProcessRecord(s) PROVE TypeOK'
    <2>1. CASE \E i \in Free : Seal({s}, {i})
        BY <1>6, <2>1, NewUploadType DEF ProcessRecord, Seal, TypeOK
    <2>2. CASE open' = [open EXCEPT ![s] = 0] /\ UNCHANGED pool
        BY <1>6, <2>2 DEF ProcessRecord, TypeOK
    <2> QED
        BY <1>6, <2>1, <2>2 DEF ProcessRecord
<1>7. CASE ShutdownSignal
    BY <1>7 DEF ShutdownSignal, TypeOK
<1>8. CASE Yield
    BY <1>8 DEF Yield, TypeOK
<1>9. ASSUME NEW i \in Slots, S3Answers(i) PROVE TypeOK'
    <2>1. pool[i] \in Upload
        BY <1>9, PhaseIsUpload DEF S3Answers, Phases
    <2>2. \E answer \in {"stored", "failed"} :
              pool' = [pool EXCEPT ![i] = [pool[i] EXCEPT !.phase = answer]]
        BY <1>9 DEF S3Answers
    <2> QED
        BY <1>9, <2>1, <2>2, UploadUpdates DEF S3Answers, TypeOK
<1>10. CASE SignalSent
    BY <1>10 DEF SignalSent, TypeOK
<1>11. CASE Elapse
    <2>1. \A i \in Slots : Later(pool[i]) \in Upload \cup {NoUpload}
        <3> TAKE i \in Slots
        <3>1. CASE pool[i] = NoUpload
            BY <3>1 DEF Later, NoUpload
        <3>2. CASE pool[i] \in Upload
            BY <3>2, UploadUpdates
        <3> QED
            BY <3>1, <3>2 DEF TypeOK
    <2>2. busy' \in 0 .. MaxBusy /\ due' \in [Timers -> Int] /\ signal' \in Nat \cup {NoSignal}
        BY <1>11 DEF Elapse, TypeOK, NoSignal
    <2>3. open' \in [Streams -> Nat \cup {Closed}]
        BY <1>11 DEF Elapse, TypeOK, Closed, Least
    <2> QED
        BY <1>11, <2>1, <2>2, <2>3 DEF Elapse, TypeOK
<1>12. CASE UNCHANGED vars
    BY <1>12 DEF vars, TypeOK
<1> QED
    BY <1>1, <1>2, <1>3, <1>4, <1>5, <1>6, <1>7, <1>8, <1>9, <1>10, <1>11, <1>12
    DEF Next, EventLoop

\* A deadline moves on by a period when its tick was due; the loop yields, and
\* reads a record, only when no deadline has been noticed.
LEMMA DeadlinesStep == TypeOK /\ DeadlinesKept /\ [Next]_vars => DeadlinesKept'
<1> SUFFICES ASSUME TypeOK, DeadlinesKept, [Next]_vars PROVE DeadlinesKept'
    OBVIOUS
<1> USE TimingAssumption, PeriodsPositive DEF DeadlinesKept
<1>1. CASE UploadTick
    <2>1. /\ due["upload"] \in Int /\ busy \in Nat /\ busy' = busy
          /\ due["upload"] + busy <= 0
          /\ due'["upload"] = due["upload"] + UploadPeriod
        BY <1>1 DEF UploadTick, TickOf, TimerReady, TypeOK, Timers
    <2>2. \A s \in Streams : open'[s] # Closed => open[s] # Closed
        BY <1>1 DEF UploadTick, Seal
    <2> QED
        BY <2>1, <2>2
<1>2. CASE CommitTick
    BY <1>2 DEF CommitTick, TickOf, TimerReady, TypeOK, Timers
<1>3. CASE Yield
    BY <1>3 DEF Yield, Branch5, Branch4, Branch3, Branch2, TimerReady, TypeOK, Timers
<1>4. CASE Elapse
    BY <1>4 DEF Elapse, TypeOK, Timers
<1>5. ASSUME NEW s \in Streams, ProcessRecord(s) PROVE DeadlinesKept'
    BY <1>5 DEF ProcessRecord, Branch4, Branch3, Branch2, TimerReady, TypeOK, Timers
<1>6. CASE UNCHANGED <<busy, due, open>>
    BY <1>6
<1> QED
    BY <1>1, <1>2, <1>3, <1>4, <1>5, <1>6
    DEF Next, EventLoop, BeginAttempt, EndBackoff, UploadCompletion,
        ShutdownSignal, S3Answers, SignalSent, vars

\* Only a tick moves the deadline against the ages, and it leaves no file
\* behind that is old enough, unless it sets `crowded`.
LEMMA AgesStep == TypeOK /\ DeadlinesKept /\ AgesKept /\ [Next]_vars => AgesKept'
<1> SUFFICES ASSUME TypeOK, DeadlinesKept, AgesKept, [Next]_vars PROVE AgesKept'
    OBVIOUS
<1> USE TimingAssumption, PeriodsPositive DEF AgesKept
<1>1. CASE UploadTick
    <2>1. PICK S \in SUBSET Dormant, I \in SUBSET Free :
             Seal(S, I) /\ crowded' = (S # Dormant)
        BY <1>1 DEF UploadTick
    <2> SUFFICES ASSUME ~crowded', NEW s \in Streams, open'[s] # Closed
                 PROVE  open'[s] + due'["upload"] < ActiveFileTimeout + UploadPeriod
        OBVIOUS
    <2>2. s \notin Dormant /\ open'[s] = open[s]
        BY <2>1 DEF Seal
    <2>4. open[s] \in Nat /\ open[s] < ActiveFileTimeout
        BY <2>2 DEF Dormant, TypeOK, Closed
    <2>3. due'["upload"] \in Int /\ due'["upload"] <= UploadPeriod
        BY <1>1 DEF UploadTick, TickOf, TimerReady, TypeOK, Timers
    <2> QED
        BY <2>2, <2>3, <2>4
<1>2. ASSUME NEW r \in Streams, ProcessRecord(r) PROVE AgesKept'
    <2>1. \A s \in Streams : open'[s] \in {open[s], Closed, 0}
        BY <1>2 DEF ProcessRecord, Seal, TypeOK
    <2>2. due' = due /\ crowded' = crowded /\ due["upload"] \in Int
        BY <1>2 DEF ProcessRecord, TypeOK, Timers
    <2>3. due["upload"] < ActiveFileTimeout + UploadPeriod
        BY <2>2 DEF DeadlinesKept
    <2> QED
        BY <2>1, <2>2, <2>3
<1>3. CASE Elapse
    <2> SUFFICES ASSUME ~crowded', NEW s \in Streams, open'[s] # Closed
                 PROVE  open'[s] + due'["upload"] < ActiveFileTimeout + UploadPeriod
        OBVIOUS
    <2>1. open[s] \in Nat /\ open'[s] \in Nat /\ open'[s] <= open[s] + Step
        BY <1>3 DEF Elapse, TypeOK, Closed, Least
    <2>2. due["upload"] \in Int /\ due'["upload"] = due["upload"] - Step
        BY <1>3 DEF Elapse, TypeOK, Timers
    <2>3. open[s] + due["upload"] < ActiveFileTimeout + UploadPeriod
        BY <1>3, <2>1 DEF Elapse, Closed
    <2> QED
        BY <2>1, <2>2, <2>3
<1>4. CASE CommitTick
    BY <1>4 DEF CommitTick, TickOf, TypeOK, Timers
<1>5. CASE UNCHANGED <<due, open, crowded>>
    BY <1>5
<1> QED
    BY <1>1, <1>2, <1>3, <1>4, <1>5
    DEF Next, EventLoop, BeginAttempt, EndBackoff, UploadCompletion,
        ShutdownSignal, Yield, S3Answers, SignalSent, vars

\* A signal that was noticed keeps the loop from yielding again.
LEMMA SignalStep == TypeOK /\ SignalKept /\ [Next]_vars => SignalKept'
<1> SUFFICES ASSUME TypeOK, SignalKept, [Next]_vars PROVE SignalKept'
    OBVIOUS
<1> USE TimingAssumption DEF SignalKept, NoSignal
<1>1. CASE Yield
    <2>1. ~noticed /\ busy' = 0 /\ signal' = signal /\ busy \in 0 .. MaxBusy
        BY <1>1 DEF Yield, TypeOK
    <2>2. signal \in Nat \cup {-1} /\ signal <= busy
        BY <2>1 DEF TypeOK
    <2>3. noticed' <=> signal # -1
        BY <1>1 DEF Yield
    <2> QED
        BY <2>1, <2>2, <2>3
<1>2. CASE SignalSent
    BY <1>2 DEF SignalSent, TypeOK
<1>3. CASE Elapse
    BY <1>3 DEF Elapse, TypeOK
<1>4. CASE UNCHANGED <<busy, signal, noticed>>
    BY <1>4
<1> QED
    BY <1>1, <1>2, <1>3, <1>4
    DEF Next, EventLoop, UploadTick, BeginAttempt, EndBackoff, UploadCompletion,
        CommitTick, ProcessRecord, ShutdownSignal, S3Answers, vars

\* No sleep drawn before an attempt is longer than the failures before it allow.
LEMMA BackoffBound ==
    ASSUME NEW n \in Nat, n > 0, NEW jitter \in 0 .. Backoff(n)
    PROVE  jitter \in Nat /\ jitter <= LongestWait(n)
<1>1. CASE n <= 5
    BY <1>1 DEF Backoff, LongestWait, Least
<1>2. CASE n > 5
    BY <1>2 DEF Backoff, LongestWait, Least
<1> QED
    BY <1>1, <1>2

LEMMA LongestWaitType == \A n \in Nat : LongestWait(n) \in Int
BY DEF LongestWait

\* One upload's share of RetryKept.
RetryOf(u, spell) ==
    /\ u.failures + u.retries = MaxUploadsRetry
    /\ u.phase = "pushed" => u.idle <= spell
    /\ u.phase = "backoff" =>
          /\ u.failures > 0
          /\ u.wait + spell > - MaxBusy
          /\ u.wait + u.idle <= LongestWait(u.failures) + MaxBusy

\* What the pool's slots become keeps RetryKept if each of them does.
LEMMA RetryBySlot ==
    ASSUME \A i \in Slots : pool'[i] # NoUpload => RetryOf(pool'[i], busy')
    PROVE  RetryKept'
BY DEF RetryKept, RetryOf

\* An upload that is pushed, polled, wakes or is answered keeps its share.
LEMMA RetryUpdates ==
    ASSUME TypeOK, NEW u \in Upload, RetryOf(u, busy)
    PROVE  /\ RetryOf(NewUpload, busy)
           /\ u.phase = "pushed" /\ Attempt(u) > 0 =>
                 \A jitter \in 0 .. Backoff(Attempt(u)) : RetryOf(Asleep(u, jitter), busy)
           /\ RetryOf(Sending(u), busy)
           /\ u.retries > 0 => RetryOf(Retried(u), busy)
           /\ \A answer \in {"stored", "failed"} :
                 RetryOf([u EXCEPT !.phase = answer], busy)
<1> USE TimingAssumption DEF RetryOf, TypeOK
<1>1. RetryOf(NewUpload, busy)
    BY DEF NewUpload
<1>2. ASSUME u.phase = "pushed", Attempt(u) > 0,
             NEW jitter \in 0 .. Backoff(Attempt(u))
      PROVE  RetryOf(Asleep(u, jitter), busy)
    <2>1. Attempt(u) = u.failures /\ u.failures \in Nat
        BY DEF Attempt, Upload
    <2>2. jitter \in Nat /\ jitter <= LongestWait(u.failures)
        BY <1>2, <2>1, BackoffBound
    <2>3. LongestWait(u.failures) \in Int
        BY <2>1, LongestWaitType
    <2>4. u.idle \in Nat /\ u.idle <= busy /\ busy \in 0 .. MaxBusy
        BY <1>2 DEF Upload
    <2>5. LET v == Asleep(u, jitter)
          IN  /\ v.phase = "backoff" /\ v.wait = jitter
              /\ v.retries = u.retries /\ v.failures = u.failures /\ v.idle = u.idle
        BY DEF Asleep, Upload
    <2> QED
        BY <1>2, <2>1, <2>2, <2>3, <2>4, <2>5
<1>3. RetryOf(Sending(u), busy)
    BY DEF Sending
<1>4. u.retries > 0 => RetryOf(Retried(u), busy)
    BY DEF Retried, Upload
<1>5. \A answer \in {"stored", "failed"} : RetryOf([u EXCEPT !.phase = answer], busy)
    BY DEF Upload
<1> QED
    BY <1>1, <1>2, <1>3, <1>4, <1>5

\* Time goes by for it as for the spell; at a yield none waits to be polled or
\* has slept enough.
LEMMA RetryAges ==
    ASSUME TypeOK, NEW u \in Upload, RetryOf(u, busy)
    PROVE  /\ RetryOf(Later(u), busy + Step)
           /\ ~Wakes(u) => RetryOf(u, 0)
<1> USE TimingAssumption DEF RetryOf, TypeOK
<1>1. RetryOf(Later(u), busy + Step)
    <2>1. CASE u.phase = "pushed"
        BY <2>1 DEF Later, Upload
    <2>2. CASE u.phase = "backoff"
        <3>1. Later(u) = [phase |-> u.phase, retries |-> u.retries,
                          failures |-> u.failures, wait |-> u.wait - Step,
                          idle |-> u.idle + Step]
            BY <2>2 DEF Upload, Later
        <3>2. LongestWait(u.failures) \in Int
            BY LongestWaitType DEF Upload
        <3> QED
            BY <2>2, <3>1, <3>2 DEF Upload
    <2>3. CASE u.phase \notin {"pushed", "backoff"}
        BY <2>3 DEF Later
    <2> QED
        BY <2>1, <2>2, <2>3
<1>2. ~Wakes(u) => RetryOf(u, 0)
    BY DEF Wakes, SleepOver, Upload
<1> QED
    BY <1>1, <1>2

\* No turn, answer or spell makes an attempt of an upload late or miscounted.
LEMMA RetryStep == TypeOK /\ RetryKept /\ [Next]_vars => RetryKept'
<1> SUFFICES ASSUME TypeOK, RetryKept, [Next]_vars PROVE RetryKept'
    OBVIOUS
<1>1. \A i \in Slots : pool[i] # NoUpload => pool[i] \in Upload /\ RetryOf(pool[i], busy)
    BY DEF TypeOK, RetryKept, RetryOf
<1>2. RetryOf(NewUpload, busy)
    BY TimingAssumption DEF RetryOf, NewUpload, TypeOK
<1>3. ASSUME busy' = busy, NEW i \in Slots, pool[i].phase \in Phases,
             NEW u, RetryOf(u, busy), pool' = [pool EXCEPT ![i] = u]
      PROVE  RetryKept'
    BY <1>1, <1>3, RetryBySlot DEF TypeOK
<1>4. ASSUME NEW S, NEW I \in SUBSET Free, Seal(S, I), busy' = busy PROVE RetryKept'
    BY <1>1, <1>2, <1>4, RetryBySlot DEF Seal
<1>5. CASE UploadTick
    BY <1>4, <1>5 DEF UploadTick
<1>6. ASSUME NEW i \in Slots, BeginAttempt(i) PROVE RetryKept'
    <2>1. pool[i] \in Upload /\ RetryOf(pool[i], busy) /\ pool[i].phase \in Phases
        BY <1>1, <1>6, PhaseIsUpload DEF BeginAttempt, Phases, NoUpload
    <2>2. \E u : RetryOf(u, busy) /\ pool' = [pool EXCEPT ![i] = u]
        BY <1>6, <2>1, RetryUpdates DEF BeginAttempt
    <2> QED
        BY <1>3, <1>6, <2>1, <2>2 DEF BeginAttempt
<1>7. ASSUME NEW i \in Slots, EndBackoff(i) PROVE RetryKept'
    <2>1. pool[i] \in Upload /\ RetryOf(pool[i], busy) /\ pool[i].phase \in Phases
        BY <1>1, <1>7, PhaseIsUpload DEF EndBackoff, SleepOver, Phases, NoUpload
    <2> QED
        BY <1>3, <1>7, <2>1, RetryUpdates DEF EndBackoff
<1>8. ASSUME NEW i \in Slots, UploadCompletion(i) PROVE RetryKept'
    <2>1. pool[i] \in Upload /\ RetryOf(pool[i], busy) /\ pool[i].phase \in Phases
        BY <1>1, <1>8, PhaseIsUpload DEF UploadCompletion, Phases, NoUpload
    <2>2. CASE pool' = [pool EXCEPT ![i] = NoUpload]
        BY <1>1, <1>8, <2>2, RetryBySlot DEF UploadCompletion, TypeOK
    <2>3. CASE pool[i].retries > 0 /\ pool' = [pool EXCEPT ![i] = Retried(@)]
        BY <1>3, <1>8, <2>1, <2>3, RetryUpdates DEF UploadCompletion
    <2>4. CASE UNCHANGED pool
        BY <1>8, <2>4 DEF UploadCompletion, RetryKept
    <2> QED
        BY <1>8, <2>2, <2>3, <2>4 DEF UploadCompletion
<1>9. ASSUME NEW s \in Streams, ProcessRecord(s) PROVE RetryKept'
    <2>1. CASE UNCHANGED pool
        BY <1>9, <2>1 DEF ProcessRecord, RetryKept
    <2>2. ASSUME NEW i \in Free, Seal({s}, {i}) PROVE RetryKept'
        BY <1>4, <1>9, <2>2 DEF ProcessRecord
    <2> QED
        BY <1>9, <2>1, <2>2 DEF ProcessRecord
<1>10. CASE Yield
    <2>1. \A i \in Slots : ~Wakes(pool[i])
        BY <1>10 DEF Yield, Branch5, Branch4, Branch3
    <2> QED
        BY <1>1, <1>10, <2>1, RetryAges, RetryBySlot DEF Yield
<1>11. ASSUME NEW i \in Slots, S3Answers(i) PROVE RetryKept'
    <2>1. pool[i] \in Upload /\ RetryOf(pool[i], busy) /\ pool[i].phase \in Phases
        BY <1>1, <1>11, PhaseIsUpload DEF S3Answers, Phases, NoUpload
    <2>2. PICK answer \in {"stored", "failed"} :
              pool' = [pool EXCEPT ![i] = [pool[i] EXCEPT !.phase = answer]]
        BY <1>11 DEF S3Answers
    <2>3. RetryOf([pool[i] EXCEPT !.phase = answer], busy)
        BY <2>1, RetryUpdates
    <2> QED
        BY <1>3, <1>11, <2>1, <2>2, <2>3 DEF S3Answers
<1>12. CASE Elapse
    <2>1. ASSUME NEW i \in Slots, pool'[i] # NoUpload
          PROVE  RetryOf(pool'[i], busy')
        <3>1. pool'[i] = Later(pool[i]) /\ busy' = busy + Step
            BY <1>12 DEF Elapse
        <3>2. pool[i] # NoUpload
            BY <2>1, <3>1 DEF Later, NoUpload
        <3> QED
            BY <1>1, <3>1, <3>2, RetryAges
    <2> QED
        BY <2>1, RetryBySlot
<1>13. CASE UNCHANGED <<pool, busy>>
    BY <1>13 DEF RetryKept
<1> QED
    BY <1>5, <1>6, <1>7, <1>8, <1>9, <1>10, <1>11, <1>12, <1>13
    DEF Next, EventLoop, CommitTick, ShutdownSignal, SignalSent, vars

LEMMA InvBounds == TimingInv => SealedInTime /\ SignalInTime /\ RetryInTime
<1> SUFFICES ASSUME TimingInv PROVE SealedInTime /\ SignalInTime /\ RetryInTime
    OBVIOUS
<1> USE TimingAssumption, PeriodsPositive DEF TimingInv
<1>1. ASSUME ~crowded, NEW s \in Streams PROVE open[s] <= SealLimit
    <2>1. CASE open[s] = Closed
        BY <2>1 DEF Closed
    <2>2. CASE open[s] # Closed
        <3>1. open[s] \in Nat /\ due["upload"] \in Int /\ busy \in 0 .. MaxBusy
            BY <2>2 DEF TypeOK, Timers
        <3>2. due["upload"] > - 2 * MaxBusy
            BY <2>2, <3>1 DEF DeadlinesKept, Timers
        <3>3. open[s] + due["upload"] < ActiveFileTimeout + UploadPeriod
            BY <1>1, <2>2 DEF AgesKept
        <3> QED
            BY <3>1, <3>2, <3>3 DEF SealLimit, UploadPeriod
    <2> QED
        BY <2>1, <2>2
<1>2. SignalInTime
    BY DEF SignalInTime, SignalKept, TypeOK
<1>3. ASSUME NEW i \in Slots, pool[i] # NoUpload
      PROVE  /\ pool[i].failures + pool[i].retries = MaxUploadsRetry
             /\ pool[i].phase = "pushed" => pool[i].idle <= MaxBusy
             /\ pool[i].phase = "backoff" =>
                   /\ pool[i].failures > 0
                   /\ pool[i].idle <= LongestWait(pool[i].failures) + 3 * MaxBusy
    <2>1. pool[i] \in Upload /\ busy \in 0 .. MaxBusy
        BY <1>3 DEF TypeOK
    <2>2. pool[i].wait \in Int /\ pool[i].idle \in Nat /\ LongestWait(pool[i].failures) \in Int
        BY <2>1, LongestWaitType DEF Upload
    <2> QED
        BY <1>3, <2>1, <2>2 DEF RetryKept
<1> QED
    BY <1>1, <1>2, <1>3 DEF SealedInTime, RetryInTime

\* The invariant the bounds follow from.
LEMMA TimingInductive == Spec => []TimingInv
<1>1. TimingInv /\ [Next]_vars => TimingInv'
    BY TypeStep, DeadlinesStep, AgesStep, SignalStep, RetryStep DEF TimingInv
<1> QED
    BY InitTiming, <1>1, PTL DEF Spec

\* Every variable keeps its type; retry counters stay between zero and the
\* limit, so the attempt number, an unsigned difference, never wraps.
THEOREM TypeCorrect == Spec => []TypeOK
BY TimingInductive, PTL DEF TimingInv

\* No file stays open for more than the timeout, a tenth of it, and twice the
\* longest busy spell, while ticks find room in the pool: for all periods,
\* limits and loads.
THEOREM SealedInTimeHolds == Spec => []SealedInTime
BY TimingInductive, InvBounds, PTL

\* A shutdown signal is acted upon within two busy spells, for all loads.
THEOREM SignalInTimeHolds == Spec => []SignalInTime
BY TimingInductive, InvBounds, PTL

\* The attempt number counts the failures, and no attempt waits longer than its
\* backoff and three busy spells, for all limits of retries and loads.
THEOREM RetryInTimeHolds == Spec => []RetryInTime
BY TimingInductive, InvBounds, PTL
=============================================================================
