------------------------------- MODULE Timing -------------------------------
(***************************************************************************)
(* The time of the event loop: the biased select! of Sink::start           *)
(* (src/src/sink.rs), the two tokio intervals (timer_interrupts.rs), the   *)
(* age of open files (state_machine.rs) and the backoff of uploads         *)
(* (uploader/s3_uploader.rs).  Module Sink lets every branch be ready in   *)
(* any turn; here a branch runs only when the ones above it are pending,   *)
(* and time is measured, in milliseconds.                                  *)
(*                                                                         *)
(* main builds a current_thread runtime and the loop is its main future.   *)
(* Deadlines, signals and answers from the network are noticed only when   *)
(* the loop yields to the runtime, which it does when all its branches are *)
(* pending.  `busy` is the time since it last did; a deadline d from now   *)
(* had passed then exactly if d + busy <= 0.  Nothing in the code bounds   *)
(* busy: with records always ready recv is never pending.  MaxBusy is the  *)
(* assumption on the load under which the bounds below hold.               *)
(***************************************************************************)
EXTENDS Integers, FiniteSets

CONSTANTS
    Streams,                \* the streams (StreamId) records go to
    ActiveFileTimeout,      \* config.uploads.max_active_file_timeout_ms
    CommitPeriod,           \* config.timers.commit_tick_ms
    MaxConcurrentUploads,   \* config.uploads.max_concurrent_uploads
    MaxUploadsRetry,        \* config.uploads.max_uploads_retry
    MaxBusy,                \* bound: the longest time without a yield
    MaxStart,               \* bound: the longest time the consumer takes to start
    Step                    \* bound: the grain of time

ASSUME TimingAssumption ==
    /\ IsFiniteSet(Streams)
    /\ ActiveFileTimeout \in Nat /\ ActiveFileTimeout >= 10
    /\ CommitPeriod \in Nat \ {0}
    /\ MaxConcurrentUploads \in Nat
    /\ MaxUploadsRetry \in Nat
    /\ MaxBusy \in Nat \ {0}
    /\ MaxStart \in Nat
    /\ Step \in Nat \ {0}

VARIABLES
    status,     \* of the event loop; "killed" is a signal nobody listens to
    busy,       \* time since the loop yielded
    due,        \* time left to the next deadline of each interval
    open,       \* the age of each stream's state (created_at), or Closed
    crowded,    \* the last upload tick left dormant files behind
    pool,       \* upload_pool, by slot
    signal,     \* the age of the shutdown signal, or NoSignal
    noticed,    \* the runtime has woken the shutdown future
    listening   \* the signal handlers are installed: shutdown was polled

vars == <<status, busy, due, open, crowded, pool, signal, noticed, listening>>

Timers   == {"upload", "commit"}
Slots    == 1 .. MaxConcurrentUploads
Closed   == -1
NoSignal == -1

\* An upload is pushed to the pool, sleeps when polled if it is a retry, sends,
\* and has its answer.  `failures` is history; `idle` is the time since it was
\* pushed, until it sends.
Phases == {"pushed", "backoff", "sending", "stored", "failed"}
Upload == [phase : Phases, retries : 0 .. MaxUploadsRetry, failures : Nat,
           wait : Int, idle : Nat]
NoUpload == [phase |-> "none"]

UploadPeriodUndivided == ActiveFileTimeout  \* Mutant of UploadPeriod

\* "wait at most 10% more time than the timeout"
UploadPeriod == ActiveFileTimeout \div 10

\* How long an open file may get at the most; older ages are not told apart.
SealLimit == ActiveFileTimeout + ActiveFileTimeout \div 10 + 2 * MaxBusy

TypeOK ==
    /\ status \in {"running", "draining", "failed", "killed"}
    /\ busy \in 0 .. MaxBusy
    /\ due \in [Timers -> Int]
    /\ open \in [Streams -> Nat \cup {Closed}]
    /\ crowded \in BOOLEAN
    /\ pool \in [Slots -> Upload \cup {NoUpload}]
    /\ signal \in Nat \cup {NoSignal}
    /\ noticed \in BOOLEAN
    /\ listening \in BOOLEAN

\* The first tick of an interval is due when it is made, and the loop begins
\* only once init_kafka_consumer has returned: ticks may have been missed.
Init ==
    /\ status = "running"
    /\ busy = 0
    /\ \E late \in {n \in 0 .. MaxStart : n % Step = 0} :
          due = [t \in Timers |-> - late]
    /\ open = [s \in Streams |-> Closed]
    /\ crowded = FALSE
    /\ pool = [i \in Slots |-> NoUpload]
    /\ signal = NoSignal
    /\ noticed = FALSE
    /\ listening = FALSE

Running == status = "running"

-----------------------------------------------------------------------------
(* Which branch of select! is polled: a branch needs those above it pending. *)

TimerReady(t) == due[t] + busy <= 0

SleepOver(u) == u.phase = "backoff" /\ u.wait + busy <= 0
Answered(u)  == u.phase \in {"stored", "failed"}
Wakes(u)     == u.phase = "pushed" \/ SleepOver(u) \/ Answered(u)

Branch1 == Running
Branch2 == Branch1 /\ ~TimerReady("upload")
Branch3 == Branch2 /\ \A i \in Slots : ~Wakes(pool[i])
Branch4 == Branch3 /\ ~TimerReady("commit")
Branch5 == Branch4      \* and no record, which is the consumer's doing

-----------------------------------------------------------------------------
Free     == {i \in Slots : pool[i] = NoUpload}
Dormant  == {s \in Streams : open[s] # Closed /\ open[s] >= ActiveFileTimeout}
NewUpload == [phase |-> "pushed", retries |-> MaxUploadsRetry, failures |-> 0,
              wait |-> 0, idle |-> 0]

\* The streams S are sealed and pushed to the free slots I.
Seal(S, I) ==
    /\ open' = [s \in Streams |-> IF s \in S THEN Closed ELSE open[s]]
    /\ pool' = [i \in Slots |-> IF i \in I THEN NewUpload ELSE pool[i]]

\* Interval::tick: the next deadline is a period after this one, however late
\* the tick is (MissedTickBehavior::Burst, the default).
TickOf(timer, period) == due' = [due EXCEPT ![timer] = @ + period]

UploadTick ==
    /\ Branch1 /\ TimerReady("upload")
    /\ TickOf("upload", UploadPeriod)
    /\ \E S \in SUBSET Dormant, I \in SUBSET Free :
          /\ Cardinality(S) = Cardinality(I)
          /\ S = Dormant \/ I = Free
          /\ Seal(S, I)
          /\ crowded' = (S # Dormant)
    /\ UNCHANGED <<status, busy, signal, noticed, listening>>

AttemptBackwards(u) == u.retries    \* Mutant of Attempt

\* max_uploads_retry - to_upload.retries(), unsigned
Attempt(u) == MaxUploadsRetry - u.retries

Least(m, n) == IF m <= n THEN m ELSE n
Backoff(attempt) == Least(100 * 2 ^ Least(attempt, 6), 5000)

Asleep(u, time) == [u EXCEPT !.phase = "backoff", !.wait = time]
Sending(u) == [phase |-> "sending", retries |-> u.retries, failures |-> u.failures,
               wait |-> 0, idle |-> 0]

\* The first poll of an upload: a retry draws its sleep, up to the backoff.
BeginAttempt(i) ==
    /\ Branch2
    /\ pool[i].phase = "pushed"
    /\ IF Attempt(pool[i]) > 0
       THEN \E jitter \in {j \in 0 .. Backoff(Attempt(pool[i])) : j % Step = 0} :
              pool' = [pool EXCEPT ![i] = Asleep(@, jitter)]
       ELSE pool' = [pool EXCEPT ![i] = Sending(@)]
    /\ UNCHANGED <<status, busy, due, open, crowded, signal, noticed, listening>>

EndBackoff(i) ==
    /\ Branch2
    /\ SleepOver(pool[i])
    /\ pool' = [pool EXCEPT ![i] = Sending(@)]
    /\ UNCHANGED <<status, busy, due, open, crowded, signal, noticed, listening>>

\* S3 answers; the transfer runs on the same thread, when the loop yields.
S3Answers(i) ==
    /\ Running /\ busy = 0
    /\ pool[i].phase = "sending"
    /\ \E answer \in {"stored", "failed"} : pool' = [pool EXCEPT ![i].phase = answer]
    /\ UNCHANGED <<status, busy, due, open, crowded, signal, noticed, listening>>

Retried(u) == [phase |-> "pushed", retries |-> u.retries - 1,
               failures |-> u.failures + 1, wait |-> 0, idle |-> 0]

\* Mutant of UploadCompletion: the retry counter is not looked at.
UploadCompletionUnchecked(i) ==
    /\ Branch2
    /\ Answered(pool[i])
    /\ pool' = [pool EXCEPT ![i] = IF @.phase = "stored" THEN NoUpload ELSE Retried(@)]
    /\ UNCHANGED <<status, busy, due, open, crowded, signal, noticed, listening>>

UploadCompletion(i) ==
    /\ Branch2
    /\ \/ /\ pool[i].phase = "stored"
          /\ pool' = [pool EXCEPT ![i] = NoUpload]
          /\ UNCHANGED status
       \/ /\ pool[i].phase = "failed" /\ pool[i].retries > 0
          /\ pool' = [pool EXCEPT ![i] = Retried(@)]
          /\ UNCHANGED status
       \/ /\ pool[i].phase = "failed" /\ pool[i].retries = 0
          /\ status' = "failed"
          /\ UNCHANGED pool
    /\ UNCHANGED <<busy, due, open, crowded, signal, noticed, listening>>

\* Mutant of CommitTick: the deadline stays where it is.
CommitTickStays ==
    /\ Branch3 /\ TimerReady("commit")
    /\ UNCHANGED vars

CommitTick ==
    /\ Branch3 /\ TimerReady("commit")
    /\ TickOf("commit", CommitPeriod)
    /\ UNCHANGED <<status, busy, open, crowded, pool, signal, noticed, listening>>

\* A record opens its stream, or reaches the target size with room in the pool
\* and seals it, or is appended.
ProcessRecord(s) ==
    /\ Branch4
    /\ \/ /\ open[s] = Closed
          /\ open' = [open EXCEPT ![s] = 0]
          /\ UNCHANGED pool
       \/ \E i \in Free : Seal({s}, {i})
    /\ UNCHANGED <<status, busy, due, crowded, signal, noticed, listening>>

ShutdownSignal ==
    /\ Branch5
    /\ noticed
    /\ status' = "draining"
    /\ UNCHANGED <<busy, due, open, crowded, pool, signal, noticed, listening>>

\* Mutant of Yield: the shutdown future is made anew in every turn of the loop,
\* and with it the registration of the signal handlers.
YieldUnpinned ==
    /\ Branch5
    /\ busy' = 0
    /\ listening' = TRUE
    /\ noticed' = FALSE
    /\ UNCHANGED <<status, due, open, crowded, pool, signal>>

\* All branches are pending: the runtime sees which deadlines have passed and
\* whether a signal came.  The first time, shutdown_signal was polled for the
\* first time, and its handlers are in place from then on.
Yield ==
    /\ Branch5
    /\ ~noticed
    /\ busy' = 0
    /\ listening' = TRUE
    /\ noticed' = (signal # NoSignal)
    /\ UNCHANGED <<status, due, open, crowded, pool, signal>>

-----------------------------------------------------------------------------
\* SIGTERM.  Without a handler it ends the process on the spot.
SignalSent ==
    /\ Running
    /\ signal = NoSignal
    /\ IF listening THEN signal' = 0 /\ UNCHANGED status
                    ELSE status' = "killed" /\ UNCHANGED signal
    /\ UNCHANGED <<busy, due, open, crowded, pool, noticed, listening>>

Later(u) ==
    CASE u.phase = "pushed"  -> [u EXCEPT !.idle = @ + Step]
      [] u.phase = "backoff" -> [u EXCEPT !.wait = @ - Step, !.idle = @ + Step]
      [] OTHER               -> u

\* Time goes by, in a handler or while the loop sleeps, for at most MaxBusy
\* between two yields.
Elapse ==
    /\ Running
    /\ busy + Step <= MaxBusy
    /\ busy' = busy + Step
    /\ due' = [t \in Timers |-> due[t] - Step]
    /\ open' = [s \in Streams |-> IF open[s] = Closed THEN Closed
                                  ELSE Least(open[s] + Step, SealLimit + 1)]
    /\ pool' = [i \in Slots |-> Later(pool[i])]
    /\ signal' = IF signal = NoSignal THEN NoSignal ELSE signal + Step
    /\ UNCHANGED <<status, crowded, noticed, listening>>

EventLoop ==
    \/ UploadTick
    \/ \E i \in Slots : BeginAttempt(i) \/ EndBackoff(i) \/ UploadCompletion(i)
    \/ CommitTick
    \/ \E s \in Streams : ProcessRecord(s)
    \/ ShutdownSignal
    \/ Yield

Next ==
    \/ EventLoop
    \/ \E i \in Slots : S3Answers(i)
    \/ SignalSent
    \/ Elapse

Spec == Init /\ [][Next]_vars

-----------------------------------------------------------------------------
\* "upload dormant files, wait at most 10% more time than the timeout"
\* (timer_interrupts.rs): no file stays open longer, however ticks are missed
\* and caught up with, and whatever records and completions come between, but
\* for what the load adds, and unless the pool had no room at the last tick.
SealedInTime ==
    Running /\ ~crowded => \A s \in Streams : open[s] <= SealLimit

\* A shutdown signal the process listens to is acted upon although its branch
\* is the last one of a biased select! and is cancelled in every turn: not
\* later than the loop needs to yield and to come to rest again.
SignalInTime == Running => signal <= 2 * MaxBusy

LongestWait(failures) ==
    CASE failures = 0         -> 0
      [] failures \in 1 .. 5  -> 100 * 2 ^ failures
      [] OTHER                -> 5000

\* The sleep before an attempt is that of the failures there were: the attempt
\* number, an unsigned difference of a configured limit and a counter that
\* goes down elsewhere, counts them; the first attempt does not sleep, and no
\* later one longer than it should for the ticks it shares the thread with.
RetryInTime ==
    Running =>
        \A i \in Slots :
            pool[i] # NoUpload =>
                /\ pool[i].failures + pool[i].retries = MaxUploadsRetry
                /\ pool[i].phase = "pushed" => pool[i].idle <= MaxBusy
                /\ pool[i].phase = "backoff" =>
                      /\ pool[i].failures > 0
                      /\ pool[i].idle <= LongestWait(pool[i].failures) + 3 * MaxBusy

\* The loop handles what is ready; the consumer's queue runs dry.
Fairness ==
    /\ WF_vars(UploadTick)
    /\ WF_vars(\E i \in Slots : BeginAttempt(i) \/ EndBackoff(i) \/ UploadCompletion(i))
    /\ WF_vars(CommitTick)
    /\ WF_vars(ShutdownSignal)
    /\ WF_vars(Yield)

FairSpec == Spec /\ Fairness

\* Ticks that were missed are caught up with in a burst, and each may push
\* uploads that are polled before anything else: the loop comes to rest again
\* all the same, so that signals and answers get noticed.
ComesToRest == (busy > 0 /\ Running) ~> (busy = 0 \/ ~Running)
=============================================================================
