----------------------------- MODULE ThreadPool -----------------------------
(***************************************************************************)
(* The thread pool of src/lib/openjp2/thread.c over pthread mutexes and    *)
(* condition variables: one client thread (the codec that owns the pool)   *)
(* and up to MaxThreads workers.                                           *)
(*                                                                         *)
(* Grain.  An action is a critical section: everything from taking         *)
(* tp->mutex to releasing it, or to the point inside it where the thread   *)
(* must take a second lock.  The two hand-over-hand sections, which take   *)
(* worker_thread->mutex while they hold tp->mutex, are therefore two       *)
(* actions each, and tp_mutex and wmutex show who holds what in between.   *)
(* opj_cond_wait releases its mutex and sleeps in one step and may return  *)
(* unsignalled (thread.h says so); opj_cond_signal wakes a sleeper if      *)
(* there is one and is forgotten if there is none.                         *)
(***************************************************************************)
EXTENDS Integers, Sequences, FiniteSets

CONSTANTS
    MaxThreads,     \* largest num_threads given to opj_thread_pool_create
    MaxJobs,        \* bound: calls of opj_thread_pool_submit_job
    MaxWaits,       \* bound: calls of opj_thread_pool_wait_completion
    WaitArgs,       \* the max_remaining_jobs the client may pass
    QueueFactor,    \* 100 in the code: signaling_threshold per worker
    MaxSpurious,    \* bound: condition waits that return unsignalled
    MaxAllocFails,  \* bound: opj_malloc calls that fail once threads exist
    SpawnMayFail    \* whether creating a worker may fail

ASSUME ThreadPoolAssumption ==
    /\ MaxThreads \in Nat /\ MaxJobs \in Nat /\ MaxWaits \in Nat
    /\ WaitArgs \subseteq Int
    /\ QueueFactor \in Nat
    /\ MaxSpurious \in Nat /\ MaxAllocFails \in Nat
    /\ SpawnMayFail \in BOOLEAN

Workers == 1..MaxThreads     \* worker_threads[i] is worker i + 1
Jobs    == 1..MaxJobs        \* job j is the one of the j-th submit call
Client  == 0                 \* the thread that owns the pool
Nobody  == -1                \* the holder of a free mutex

VARIABLES
    (* opj_thread_pool_t *)
    num_threads,          \* the argument of opj_thread_pool_create
    worker_threads_count,
    tp_mutex,             \* the holder of tp->mutex
    state,                \* "OK", "STOP" or "ERROR" (OPJWTS_*)
    job_queue,            \* the jobs not taken, next one first
    pending_jobs_count,
    waiting_list,         \* waiting_worker_thread_list
    waiting_count,        \* waiting_worker_thread_count
    signaling_threshold,
    (* opj_worker_thread_t, and the locals of the thread that runs it *)
    wpc,                  \* where the worker is
    marked_as_waiting,
    wmutex,               \* the holder of worker_thread->mutex
    finished,             \* its job_finished / signal_job_finished flag
    cur,                  \* the job it holds, 0 for none
    (* the client *)
    cpc,                  \* where the client is
    asleep,               \* the client sleeps on tp->cond
    limit,                \* max_remaining_jobs of the wait in progress
    at,                   \* the worker being spawned, signalled or joined
    (* history and the budgets of the environment *)
    submitted,            \* number of submit calls made
    done,                 \* the jobs whose job_fn has returned
    waits, spurious, allocfails

poolVars   == <<state, job_queue, pending_jobs_count, waiting_list,
                waiting_count, signaling_threshold>>

fixedVars  == <<num_threads, worker_threads_count>>
workerVars == <<wpc, marked_as_waiting, wmutex, finished, cur>>
clientVars == <<cpc, limit, at>>
histVars   == <<submitted, done, waits, spurious, allocfails>>
vars == <<poolVars, fixedVars, tp_mutex, workerVars, clientVars, asleep,
          histVars>>
-----------------------------------------------------------------------------
(* A worker that is looking, or will look again, at the job queue before   *)
(* it can sleep.                                                           *)
Awake == {w \in Workers : wpc[w] \in {"lock", "run", "wake"}}

(* A worker between the last look it took at the queue and its next        *)
(* wake-up.                                                                *)
Drowsy == {w \in Workers : wpc[w] \in {"lockw", "bwait", "waiting"}}

(* A worker whose job is not yet accounted for in pending_jobs_count.      *)
Busy == {w \in Workers : wpc[w] = "run" \/ finished[w]}

Elements(s) == {s[i] : i \in DOMAIN s}
Distinct(s) == \A i, k \in DOMAIN s : s[i] = s[k] => i = k

Listed == Elements(waiting_list)

(* The jobs whose job_fn is being run.                                     *)
Running == {cur[w] : w \in {v \in Workers : wpc[v] = "run"}}

Marked == {w \in Workers : marked_as_waiting[w]}

(* The worker the client has taken off the list and has yet to signal.     *)
Signalling(w) == cpc \in {"sublockw", "subsignal"} /\ at = w

Init ==
    /\ num_threads \in 0..MaxThreads
    /\ worker_threads_count = num_threads
    /\ tp_mutex = Nobody
    /\ state = "OK"
    /\ job_queue = <<>> /\ pending_jobs_count = 0
    /\ waiting_list = <<>> /\ waiting_count = 0
    /\ signaling_threshold = 0
    /\ wpc = [w \in Workers |-> "none"]
    /\ marked_as_waiting = [w \in Workers |-> FALSE]
    /\ wmutex = [w \in Workers |-> Nobody]
    /\ finished = [w \in Workers |-> FALSE]
    /\ cur = [w \in Workers |-> 0]
    /\ cpc = IF num_threads = 0 THEN "idle" ELSE "spawn"
    /\ asleep = FALSE
    /\ limit = 0 /\ at = 1
    /\ submitted = 0 /\ done = {}
    /\ waits = 0 /\ spurious = 0 /\ allocfails = 0
-----------------------------------------------------------------------------
(* opj_worker_thread_function and opj_thread_pool_get_next_job.            *)

MutCountsEveryPass(w) == pending_jobs_count - 1  \* mutant: the flag is ignored

(* The start of every pass through get_next_job: the job just finished, if *)
(* there is one, leaves the count.                                         *)
PendingAfter(w) ==
    IF finished[w] THEN pending_jobs_count - 1 ELSE pending_jobs_count

(* opj_cond_signal(tp->cond): only the client ever waits on it.            *)
SignalClient(when) == asleep' = (asleep /\ ~when)

EnterGetNextJob(w) ==
    /\ wpc[w] = "lock"
    /\ tp_mutex = Nobody
    /\ finished' = [finished EXCEPT ![w] = FALSE]
    /\ pending_jobs_count' = PendingAfter(w)

(* Mutant: reaching the threshold is not enough.                           *)
MutSignalsBelow(w) == finished[w] /\ PendingAfter(w) < signaling_threshold

JobDoneSignal(w) == finished[w] /\ PendingAfter(w) <= signaling_threshold

WorkerStops(w) ==
    /\ EnterGetNextJob(w)
    /\ state = "STOP"
    /\ SignalClient(JobDoneSignal(w))
    /\ wpc' = [wpc EXCEPT ![w] = "exited"]
    /\ UNCHANGED <<state, job_queue, waiting_list, waiting_count,
                   signaling_threshold, fixedVars, tp_mutex,
                   marked_as_waiting, wmutex, cur, clientVars, histVars>>

MutPeeksJob == UNCHANGED job_queue  \* mutant: the job taken stays queued

PopJob == job_queue' = Tail(job_queue)

WorkerTakesJob(w) ==
    /\ EnterGetNextJob(w)
    /\ state # "STOP" /\ job_queue # <<>>
    /\ SignalClient(JobDoneSignal(w))
    /\ PopJob
    /\ cur' = [cur EXCEPT ![w] = Head(job_queue)]
    /\ wpc' = [wpc EXCEPT ![w] = "run"]
    /\ UNCHANGED <<state, waiting_list, waiting_count, signaling_threshold,
                   fixedVars, tp_mutex, marked_as_waiting, wmutex,
                   clientVars, histVars>>

MutListsAgain(w) == TRUE  \* mutant: the mark is ignored

NotListedYet(w) == ~marked_as_waiting[w]

(* No memory for the list item: the worker thread ends, and of the pool    *)
(* only state remembers it.                                                *)
WorkerAllocFails(w) ==
    /\ EnterGetNextJob(w)
    /\ state # "STOP" /\ job_queue = <<>> /\ NotListedYet(w)
    /\ allocfails < MaxAllocFails
    /\ allocfails' = allocfails + 1
    /\ marked_as_waiting' = [marked_as_waiting EXCEPT ![w] = TRUE]
    /\ waiting_count' = waiting_count + 1
    /\ state' = "ERROR"
    /\ SignalClient(TRUE)
    /\ wpc' = [wpc EXCEPT ![w] = "exited"]
    /\ UNCHANGED <<job_queue, waiting_list, signaling_threshold, fixedVars,
                   tp_mutex, wmutex, cur, clientVars, submitted, done,
                   waits, spurious>>

(* Mutant: tp->mutex is released before the worker has its own.            *)
MutDropsPoolMutex(w) == UNCHANGED tp_mutex

KeepsPoolMutex(w) == tp_mutex' = w

(* Nothing to do: get on the list unless still there from before a         *)
(* spurious wake-up, and go for the worker's own mutex.                    *)
WorkerIdles(w) ==
    /\ EnterGetNextJob(w)
    /\ state # "STOP" /\ job_queue = <<>>
    /\ IF NotListedYet(w)
       THEN /\ marked_as_waiting' = [marked_as_waiting EXCEPT ![w] = TRUE]
            /\ waiting_count' = waiting_count + 1
            /\ waiting_list' = <<w>> \o waiting_list
       ELSE UNCHANGED <<marked_as_waiting, waiting_list, waiting_count>>
    /\ SignalClient(TRUE)
    /\ KeepsPoolMutex(w)
    /\ wpc' = [wpc EXCEPT ![w] = "lockw"]
    /\ UNCHANGED <<state, job_queue, signaling_threshold, fixedVars, wmutex,
                   cur, clientVars, histVars>>

(* It takes its own mutex before it gives up tp->mutex ...                 *)
WorkerLocksOwn(w) ==
    /\ wpc[w] = "lockw"
    /\ wmutex[w] = Nobody
    /\ wmutex' = [wmutex EXCEPT ![w] = w]
    /\ tp_mutex' = Nobody
    /\ wpc' = [wpc EXCEPT ![w] = "bwait"]
    /\ UNCHANGED <<poolVars, fixedVars, marked_as_waiting, finished, cur,
                   clientVars, asleep, histVars>>

(* ... and gives that one up only in opj_cond_wait.                        *)
WorkerSleeps(w) ==
    /\ wpc[w] = "bwait"
    /\ wmutex' = [wmutex EXCEPT ![w] = Nobody]
    /\ wpc' = [wpc EXCEPT ![w] = "waiting"]
    /\ UNCHANGED <<poolVars, fixedVars, tp_mutex, marked_as_waiting,
                   finished, cur, clientVars, asleep, histVars>>

WorkerWakesUnsignalled(w) ==
    /\ wpc[w] = "waiting"
    /\ spurious < MaxSpurious
    /\ spurious' = spurious + 1
    /\ wpc' = [wpc EXCEPT ![w] = "wake"]
    /\ UNCHANGED <<poolVars, fixedVars, tp_mutex, marked_as_waiting, wmutex,
                   finished, cur, clientVars, asleep, submitted, done,
                   waits, allocfails>>

(* opj_cond_wait returns once it has its mutex again; the mutex is then    *)
(* released at once.                                                       *)
WorkerResumes(w) ==
    /\ wpc[w] = "wake"
    /\ wmutex[w] = Nobody
    /\ wpc' = [wpc EXCEPT ![w] = "lock"]
    /\ UNCHANGED <<poolVars, fixedVars, tp_mutex, marked_as_waiting, wmutex,
                   finished, cur, clientVars, asleep, histVars>>

WorkerRuns(w) ==
    /\ wpc[w] = "run"
    /\ done' = done \cup {cur[w]}
    /\ cur' = [cur EXCEPT ![w] = 0]
    /\ finished' = [finished EXCEPT ![w] = TRUE]
    /\ wpc' = [wpc EXCEPT ![w] = "lock"]
    /\ UNCHANGED <<poolVars, fixedVars, tp_mutex, marked_as_waiting, wmutex,
                   clientVars, asleep, submitted, waits, spurious,
                   allocfails>>
-----------------------------------------------------------------------------
(* The client in opj_thread_pool_create and opj_thread_pool_setup.         *)

SpawnWorker ==
    /\ cpc = "spawn"
    /\ wpc' = [wpc EXCEPT ![at] = "lock"]
    /\ IF at < num_threads THEN at' = at + 1 /\ UNCHANGED cpc
                           ELSE cpc' = "setup" /\ UNCHANGED at
    /\ UNCHANGED <<poolVars, fixedVars, tp_mutex, marked_as_waiting, wmutex,
                   finished, cur, limit, asleep, histVars>>

(* No mutex, condition or thread for worker at: the loop stops, the count  *)
(* is what has been started (written without the mutex: until the client   *)
(* itself reads it, only an assertion of the workers does).                *)
SpawnFails ==
    /\ cpc = "spawn"
    /\ SpawnMayFail
    /\ worker_threads_count' = at - 1
    /\ cpc' = "setup"
    /\ UNCHANGED <<poolVars, num_threads, tp_mutex, workerVars, limit, at,
                   asleep, histVars>>

(* The client has tp->mutex for a look at the condition of a wait loop on  *)
(* tp->cond: it goes to sleep, or it goes on.                              *)
ClientHoldsPool == ~asleep /\ tp_mutex = Nobody

SetupSleeps ==
    /\ cpc = "setup" /\ ClientHoldsPool
    /\ waiting_count < worker_threads_count
    /\ asleep' = TRUE
    /\ UNCHANGED <<poolVars, fixedVars, tp_mutex, workerVars, clientVars,
                   histVars>>

SetupAllWaiting ==
    /\ cpc = "setup" /\ ClientHoldsPool
    /\ waiting_count >= worker_threads_count
    /\ cpc' = "setupcheck"
    /\ UNCHANGED <<poolVars, fixedVars, tp_mutex, workerVars, limit, at,
                   asleep, histVars>>

(* A failed setup makes opj_thread_pool_create destroy the pool.           *)
SetupFailed == state = "ERROR" \/ worker_threads_count < num_threads

SetupReturns ==
    /\ cpc = "setupcheck"
    /\ cpc' = IF SetupFailed THEN "drain" ELSE "idle"
    /\ limit' = 0
    /\ UNCHANGED <<poolVars, fixedVars, tp_mutex, workerVars, at, asleep,
                   histVars>>
-----------------------------------------------------------------------------
(* opj_thread_pool_submit_job.                                             *)

(* No mutex: the pool of opj_thread_pool_create(0) runs the job here.      *)
SubmitRunsInline ==
    /\ cpc = "idle" /\ num_threads = 0
    /\ submitted < MaxJobs
    /\ submitted' = submitted + 1
    /\ done' = done \cup {submitted'}
    /\ UNCHANGED <<poolVars, fixedVars, tp_mutex, workerVars, clientVars,
                   asleep, waits, spurious, allocfails>>

(* No memory for the job: FALSE is returned and the pool is as before.     *)
SubmitFails ==
    /\ cpc = "idle" /\ num_threads > 0
    /\ submitted < MaxJobs
    /\ allocfails < MaxAllocFails
    /\ allocfails' = allocfails + 1
    /\ UNCHANGED <<poolVars, fixedVars, tp_mutex, workerVars, clientVars,
                   asleep, submitted, done, waits, spurious>>

SubmitCall ==
    /\ cpc = "idle" /\ num_threads > 0
    /\ submitted < MaxJobs
    /\ submitted' = submitted + 1
    /\ cpc' = "submit"
    /\ UNCHANGED <<poolVars, fixedVars, tp_mutex, workerVars, limit, at,
                   asleep, done, waits, spurious, allocfails>>

QueueLimit == QueueFactor * worker_threads_count

SubmitSleeps ==
    /\ cpc = "submit" /\ ClientHoldsPool
    /\ signaling_threshold' = QueueLimit
    /\ pending_jobs_count > QueueLimit
    /\ asleep' = TRUE
    /\ UNCHANGED <<state, job_queue, pending_jobs_count, waiting_list,
                   waiting_count, fixedVars, tp_mutex, workerVars,
                   clientVars, histVars>>

(* The new job goes in front of the others.                                *)
SubmitPushes ==
    /\ cpc = "submit" /\ ClientHoldsPool
    /\ signaling_threshold' = QueueLimit
    /\ pending_jobs_count <= QueueLimit
    /\ job_queue' = <<submitted>> \o job_queue
    /\ pending_jobs_count' = pending_jobs_count + 1

SubmitWakesNobody ==
    /\ SubmitPushes
    /\ waiting_list = <<>>
    /\ cpc' = "idle"
    /\ UNCHANGED <<state, waiting_list, waiting_count, fixedVars, tp_mutex,
                   workerVars, limit, at, asleep, histVars>>

(* The first worker on the list leaves it; the client keeps tp->mutex      *)
(* until it has that worker's mutex ...                                    *)
SubmitTakesWaiter ==
    /\ SubmitPushes
    /\ waiting_list # <<>>
    /\ at' = Head(waiting_list)
    /\ waiting_list' = Tail(waiting_list)
    /\ waiting_count' = waiting_count - 1
    /\ marked_as_waiting' = [marked_as_waiting EXCEPT ![at'] = FALSE]
    /\ tp_mutex' = Client
    /\ cpc' = "sublockw"
    /\ UNCHANGED <<state, fixedVars, wpc, wmutex, finished, cur, limit,
                   asleep, histVars>>

SubmitLocksWorker ==
    /\ cpc = "sublockw"
    /\ wmutex[at] = Nobody
    /\ wmutex' = [wmutex EXCEPT ![at] = Client]
    /\ tp_mutex' = Nobody
    /\ cpc' = "subsignal"
    /\ UNCHANGED <<poolVars, fixedVars, wpc, marked_as_waiting, finished,
                   cur, limit, at, asleep, histVars>>

(* ... and signals it, if it sleeps.                                       *)
MutForgetsSignal(w) == UNCHANGED wpc  \* mutant: no signal is sent

SignalWorker(w) ==
    wpc' = IF wpc[w] = "waiting" THEN [wpc EXCEPT ![w] = "wake"] ELSE wpc

SubmitSignalsWorker ==
    /\ cpc = "subsignal"
    /\ SignalWorker(at)
    /\ wmutex' = [wmutex EXCEPT ![at] = Nobody]
    /\ cpc' = "idle"
    /\ UNCHANGED <<poolVars, fixedVars, tp_mutex, marked_as_waiting,
                   finished, cur, limit, at, asleep, histVars>>
-----------------------------------------------------------------------------
(* opj_thread_pool_wait_completion, called by the client ("wait") and by   *)
(* opj_thread_pool_destroy ("drain").                                      *)
MutNoClamp(k) == k  \* mutant: the argument is used as it is

AtLeastZero(k) == IF k < 0 THEN 0 ELSE k

WaitCall(k) ==
    /\ cpc = "idle" /\ num_threads > 0
    /\ waits < MaxWaits
    /\ waits' = waits + 1
    /\ limit' = AtLeastZero(k)
    /\ cpc' = "wait"
    /\ UNCHANGED <<poolVars, fixedVars, tp_mutex, workerVars, at, asleep,
                   submitted, done, spurious, allocfails>>

(* Mutant: the jobs being run are not waited for.                          *)
MutCountsQueueOnly == Len(job_queue) <= limit

WaitOver == pending_jobs_count <= limit

WaitSleeps ==
    /\ cpc \in {"wait", "drain"} /\ ClientHoldsPool
    /\ signaling_threshold' = limit
    /\ ~WaitOver
    /\ asleep' = TRUE
    /\ UNCHANGED <<state, job_queue, pending_jobs_count, waiting_list,
                   waiting_count, fixedVars, tp_mutex, workerVars,
                   clientVars, histVars>>

WaitReturns ==
    /\ cpc \in {"wait", "drain"} /\ ClientHoldsPool
    /\ signaling_threshold' = limit
    /\ WaitOver
    /\ cpc' = IF cpc = "wait" THEN "idle" ELSE "stop"
    /\ UNCHANGED <<state, job_queue, pending_jobs_count, waiting_list,
                   waiting_count, fixedVars, tp_mutex, workerVars, limit,
                   at, asleep, histVars>>
-----------------------------------------------------------------------------
(* opj_thread_pool_destroy.                                                *)

DestroyDummy ==
    /\ cpc = "idle" /\ num_threads = 0
    /\ cpc' = "freed"
    /\ UNCHANGED <<poolVars, fixedVars, tp_mutex, workerVars, limit, at,
                   asleep, histVars>>

DestroyCall ==
    /\ cpc = "idle" /\ num_threads > 0
    /\ limit' = 0
    /\ cpc' = "drain"
    /\ UNCHANGED <<poolVars, fixedVars, tp_mutex, workerVars, at, asleep,
                   histVars>>

JoinLoop(i) == IF i <= worker_threads_count THEN "signal" ELSE "freed"

DestroyStops ==
    /\ cpc = "stop" /\ ClientHoldsPool
    /\ state' = "STOP"
    /\ at' = 1
    /\ cpc' = JoinLoop(1)
    /\ UNCHANGED <<job_queue, pending_jobs_count, waiting_list,
                   waiting_count, signaling_threshold, fixedVars, tp_mutex,
                   workerVars, limit, asleep, histVars>>

(* The client holds the worker's mutex only within this step.              *)
DestroySignals ==
    /\ cpc = "signal"
    /\ wmutex[at] = Nobody
    /\ SignalWorker(at)
    /\ cpc' = "join"
    /\ UNCHANGED <<poolVars, fixedVars, tp_mutex, marked_as_waiting, wmutex,
                   finished, cur, limit, at, asleep, histVars>>

MutJoinsAtOnce == TRUE  \* mutant: the thread is not waited for

ThreadEnded == wpc[at] = "exited"

DestroyJoins ==
    /\ cpc = "join"
    /\ ThreadEnded
    /\ at' = at + 1
    /\ cpc' = JoinLoop(at + 1)
    /\ UNCHANGED <<poolVars, fixedVars, tp_mutex, workerVars, limit, asleep,
                   histVars>>
-----------------------------------------------------------------------------
ClientWakesUnsignalled ==
    /\ asleep
    /\ spurious < MaxSpurious
    /\ spurious' = spurious + 1
    /\ asleep' = FALSE
    /\ UNCHANGED <<poolVars, fixedVars, tp_mutex, workerVars, clientVars,
                   submitted, done, waits, allocfails>>

(* What worker w does by itself, once the scheduler lets it.               *)
WorkerStep(w) ==
    \/ WorkerStops(w) \/ WorkerTakesJob(w) \/ WorkerIdles(w)
    \/ WorkerLocksOwn(w) \/ WorkerSleeps(w) \/ WorkerResumes(w)
    \/ WorkerRuns(w)

(* What the client does inside a call of the pool's API.                   *)
ClientStep ==
    \/ SpawnWorker \/ SetupSleeps \/ SetupAllWaiting \/ SetupReturns
    \/ SubmitSleeps \/ SubmitWakesNobody \/ SubmitTakesWaiter
    \/ SubmitLocksWorker \/ SubmitSignalsWorker
    \/ WaitSleeps \/ WaitReturns
    \/ DestroyStops \/ DestroySignals \/ DestroyJoins

(* The calls it chooses to make.                                           *)
ClientCall ==
    \/ SubmitRunsInline \/ SubmitCall
    \/ \E k \in WaitArgs : WaitCall(k)
    \/ DestroyDummy \/ DestroyCall

Environment ==
    \/ SpawnFails \/ SubmitFails \/ ClientWakesUnsignalled
    \/ \E w \in Workers : WorkerAllocFails(w) \/ WorkerWakesUnsignalled(w)

(* The pool is gone: the one way the system is meant to stop.              *)
Terminated == cpc = "freed" /\ UNCHANGED vars

Next ==
    \/ \E w \in Workers : WorkerStep(w)
    \/ ClientStep
    \/ ClientCall
    \/ Environment
    \/ Terminated

(* A thread that can go on goes on: the scheduler starves nobody, a job    *)
(* returns, a mutex that is free is given to whoever asks.  (The budgets   *)
(* make every behaviour finite up to stuttering, so weak fairness is all a *)
(* fair mutex gives.)  The client need never make another call.            *)
Fairness ==
    /\ \A w \in Workers : WF_vars(WorkerStep(w))
    /\ WF_vars(ClientStep)

Spec == Init /\ [][Next]_vars
FairSpec == Spec /\ Fairness
-----------------------------------------------------------------------------
WorkerPCs == {"none", "lock", "run", "lockw", "bwait", "waiting", "wake",
              "exited"}

ClientPCs == {"spawn", "setup", "setupcheck", "idle", "submit", "sublockw",
              "subsignal", "wait", "drain", "stop", "signal", "join",
              "freed"}

(* The values the variables range over.                                    *)
TypeOK ==
    /\ num_threads \in 0..MaxThreads
    /\ worker_threads_count \in 0..num_threads
    /\ tp_mutex \in Workers \cup {Client, Nobody}
    /\ state \in {"OK", "STOP", "ERROR"}
    /\ job_queue \in Seq(Jobs)
    /\ pending_jobs_count \in Int
    /\ waiting_list \in Seq(Workers)
    /\ waiting_count \in Int
    /\ signaling_threshold \in Nat
    /\ wpc \in [Workers -> WorkerPCs]
    /\ marked_as_waiting \in [Workers -> BOOLEAN]
    /\ wmutex \in [Workers -> Workers \cup {Client, Nobody}]
    /\ finished \in [Workers -> BOOLEAN]
    /\ cur \in [Workers -> Jobs \cup {0}]
    /\ cpc \in ClientPCs
    /\ asleep \in BOOLEAN
    /\ limit \in Nat
    /\ at \in 1..(MaxThreads + 1)
    /\ submitted \in 0..MaxJobs
    /\ done \subseteq Jobs
    /\ waits \in 0..MaxWaits
    /\ spurious \in 0..MaxSpurious
    /\ allocfails \in 0..MaxAllocFails

(* pending_jobs_count, incremented by the client (line 864) and            *)
(* decremented by each worker at its next pass (line 769), is at every     *)
(* moment the jobs in the queue plus those a worker has taken and not      *)
(* reported: neither is counted twice or forgotten.                        *)
PendingAccounting ==
    pending_jobs_count = Len(job_queue) + Cardinality(Busy)

(* A job in the queue is never left to workers that all sleep: while one   *)
(* is queued and a worker lives, some worker will look at the queue        *)
(* unaided or is about to be signalled (lines 816-822 against 881-884).    *)
NoLostWakeup ==
    (job_queue # <<>> /\ \E w \in Workers : wpc[w] \notin {"none", "exited"})
        => \/ Awake # {}
           \/ \E w \in Drowsy : Signalling(w)

(* The client sleeps on tp->cond only while the condition of its loop      *)
(* (lines 738, 856, 907) holds: the worker that makes it false signals it  *)
(* in the same critical section, whatever signaling_threshold was before.  *)
ClientSleepsForCause ==
    asleep =>
        \/ cpc = "setup" /\ waiting_count < worker_threads_count
        \/ cpc = "submit" /\ pending_jobs_count > QueueLimit
        \/ cpc \in {"wait", "drain"} /\ pending_jobs_count > limit

(* The assertions of lines 797 and 873: no more workers are counted as     *)
(* waiting than there are, and the worker at the head of the list is       *)
(* marked, spurious wake-ups and failed set-ups included.                  *)
AssertionsHold ==
    /\ waiting_count <= worker_threads_count
    /\ waiting_list # <<>> => marked_as_waiting[Head(waiting_list)]

(* The jobs submitted by a call that has got as far as the queue.          *)
Accepted == 1..(IF cpc = "submit" THEN submitted - 1 ELSE submitted)

(* An accepted job is queued, with one worker, or done, and only one of    *)
(* these: the list manipulations of lines 782-788 and 862-864 lose no job  *)
(* and hand none out twice.                                                *)
OnceEach ==
    /\ Elements(job_queue) \cup Running \cup done = Accepted
    /\ Elements(job_queue) \cap Running = {}
    /\ (Elements(job_queue) \cup Running) \cap done = {}
    /\ Distinct(job_queue)
    /\ \A v, w \in Workers :
          wpc[v] = "run" /\ wpc[w] = "run" /\ cur[v] = cur[w] => v = w

(* ------ What the proofs of ThreadPoolProofs strengthen these with ------ *)

(* Where the client is says what its locals, and the pool, look like.      *)
ClientState ==
    /\ cpc = "spawn" => /\ at <= num_threads
                        /\ worker_threads_count = num_threads
                        /\ \A w \in Workers : w >= at => wpc[w] = "none"
    /\ cpc = "submit" => submitted >= 1
    /\ cpc \in {"sublockw", "subsignal"} => at \in Workers
    /\ cpc \in {"signal", "join"} => at <= worker_threads_count
    /\ cpc \notin {"idle", "freed"} => num_threads > 0
    /\ state = "STOP" <=> num_threads > 0 /\ cpc \in {"signal", "join", "freed"}
    /\ (num_threads = 0 \/ cpc \in {"stop", "signal", "join", "freed"})
          => job_queue = <<>>
    /\ cpc = "drain" => limit = 0
    /\ asleep => cpc \in {"setup", "submit", "wait", "drain"}
    /\ \A w \in Workers : wpc[w] = "run" => cur[w] # 0
    /\ \A w \in Workers : finished[w] => wpc[w] = "lock"
    /\ \A w \in Workers : wpc[w] # "none" => w <= worker_threads_count

(* Who holds which mutex: in particular a worker that holds tp->mutex and  *)
(* goes for its own has found the queue empty, and it still is.            *)
LockDiscipline ==
    /\ \A w \in Workers : tp_mutex = w <=> wpc[w] = "lockw"
    /\ tp_mutex = Client <=> cpc = "sublockw"
    /\ \A w, v \in Workers : wmutex[w] = v <=> v = w /\ wpc[w] = "bwait"
    /\ \A w \in Workers : wmutex[w] = Client <=> cpc = "subsignal" /\ at = w
    /\ \A w \in Workers : wpc[w] = "lockw" => job_queue = <<>>

(* Every worker that sleeps, or is on its way, can be found: it is on the  *)
(* list, or the client has just taken it off to signal it.  A worker is on *)
(* the list once, alive, and marked.                                       *)
ListDiscipline ==
    /\ \A w \in Drowsy : w \in Listed \/ Signalling(w)
    /\ \A w \in Workers : wpc[w] = "lockw" => w \in Listed
    /\ \A w \in Listed : /\ marked_as_waiting[w]
                         /\ wpc[w] # "none"
                         /\ wpc[w] = "exited" => state = "STOP"
    /\ \A w \in Workers :
          marked_as_waiting[w] => w \in Listed \/ wpc[w] = "exited"
    /\ Distinct(waiting_list)

(* waiting_count counts the marks.                                         *)
WaitersCounted == waiting_count = Cardinality(Marked)

(* Destroying waits for the jobs, then ends the workers in turn.           *)
DestroyState ==
    /\ (num_threads = 0 \/ cpc \in {"stop", "signal", "join", "freed"})
          => \A w \in Workers : wpc[w] # "run" /\ ~finished[w]
    /\ cpc \in {"signal", "join"}
          => \A w \in Workers : w < at => wpc[w] = "exited"
    /\ cpc = "freed" => \A w \in Workers : wpc[w] \in {"none", "exited"}

(* While the client sleeps the workers compare with the bound it set.      *)
ThresholdSet ==
    asleep => /\ cpc = "submit" => signaling_threshold = QueueLimit
              /\ cpc \in {"wait", "drain"} => signaling_threshold = limit

(* The inductive invariant.                                                *)
IInv ==
    /\ TypeOK /\ ClientState /\ LockDiscipline
    /\ ListDiscipline /\ WaitersCounted /\ NoLostWakeup
    /\ PendingAccounting /\ OnceEach /\ DestroyState
    /\ ThresholdSet /\ ClientSleepsForCause

(* opj_thread_pool_wait_completion(tp, k) returns only when at most k of   *)
(* the jobs ever submitted have not been run to the end (thread.h:228).    *)
WaitPost ==
    [][(cpc \in {"wait", "drain"} /\ cpc' # cpc)
          => Cardinality(Accepted \ done) <= limit]_vars

(* When opj_thread_pool_destroy frees the pool every job has been run and  *)
(* every thread has ended: none is left to touch the freed memory.         *)
DestroyDrains ==
    cpc = "freed" => /\ Accepted \subseteq done
                     /\ \A w \in Workers : wpc[w] \in {"none", "exited"}

(* A submitted job is run (thread.h:217).                                  *)
EveryJobRuns == \A j \in Jobs : (submitted >= j) ~> (j \in done)

(* An allocation has failed, and no worker is left (thread.c:799).         *)
OutOfWorkers == allocfails > 0 /\ \A w \in Workers : wpc[w] \in {"none", "exited"}

(* Every call returns, setup and destroy included, and a pool whose        *)
(* set-up fails is freed, unless the workers ran out of memory one by one. *)
EveryCallReturns == (cpc # "idle") ~> (cpc \in {"idle", "freed"} \/ OutOfWorkers)

(* A submitted job is run (thread.h:217), spurious wake-ups and failed     *)
(* allocations or not, as long as a worker is left.                        *)
JobRunsWhileWorkersLive ==
    \A j \in Jobs : (submitted >= j) ~> (j \in done \/ OutOfWorkers)

(* To its client the pool is a JobPool: each job is started once and       *)
(* finished once, and waits return when they may.                          *)
Abstract == INSTANCE JobPool WITH
    Jobs     <- Jobs,
    Limits   <- {AtLeastZero(k) : k \in WaitArgs},
    queued   <- Elements(job_queue),
    running  <- Running,
    finished <- done,
    waiting  <- IF cpc = "wait" THEN <<limit>> ELSE <<>>,
    open     <- cpc # "freed"

ImplementsJobPool == Abstract!Spec
=============================================================================
