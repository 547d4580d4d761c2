------------------------------ MODULE JobPool ------------------------------
(***************************************************************************)
(* What src/lib/openjp2/thread.h promises of a thread pool, with no thread *)
(* in sight.  A job handed to opj_thread_pool_submit_job is queued, then   *)
(* started by somebody, then finished, each exactly once; a call of        *)
(* opj_thread_pool_wait_completion(tp, k) returns only while at most k     *)
(* jobs are unfinished; opj_thread_pool_destroy returns only when none is. *)
(* ThreadPool is shown to implement this module.                           *)
(***************************************************************************)
EXTENDS Naturals, FiniteSets

CONSTANTS Jobs,     \* the identities of the jobs a client may submit
          Limits    \* the numbers of unfinished jobs it may wait for

VARIABLES queued,    \* submitted, not started
          running,   \* started, not finished
          finished,  \* finished
          waiting,   \* the bound of the wait call in progress, or NotWaiting
          open       \* FALSE once opj_thread_pool_destroy has returned

vars == <<queued, running, finished, waiting, open>>

NotWaiting == <<>>    \* a call waiting for at most k jobs is <<k>>

Unfinished == queued \cup running

Init ==
    /\ queued = {} /\ running = {} /\ finished = {}
    /\ waiting = NotWaiting
    /\ open = TRUE

Submit(j) ==
    /\ open /\ waiting = NotWaiting
    /\ j \notin Unfinished \cup finished
    /\ queued' = queued \cup {j}
    /\ UNCHANGED <<running, finished, waiting, open>>

Start(j) ==
    /\ j \in queued
    /\ queued' = queued \ {j}
    /\ running' = running \cup {j}
    /\ UNCHANGED <<finished, waiting, open>>

Finish(j) ==
    /\ j \in running
    /\ running' = running \ {j}
    /\ finished' = finished \cup {j}
    /\ UNCHANGED <<queued, waiting, open>>

(* The dummy pool of opj_thread_pool_create(0) runs a job inside Submit.   *)
SubmitAndRun(j) ==
    /\ open /\ waiting = NotWaiting
    /\ j \notin Unfinished \cup finished
    /\ finished' = finished \cup {j}
    /\ UNCHANGED <<queued, running, waiting, open>>

WaitCall(k) ==
    /\ open /\ waiting = NotWaiting
    /\ waiting' = <<k>>
    /\ UNCHANGED <<queued, running, finished, open>>

WaitReturn ==
    /\ waiting # NotWaiting
    /\ Cardinality(Unfinished) <= waiting[1]
    /\ waiting' = NotWaiting
    /\ UNCHANGED <<queued, running, finished, open>>

Destroy ==
    /\ open /\ waiting = NotWaiting
    /\ Unfinished = {}
    /\ open' = FALSE
    /\ UNCHANGED <<queued, running, finished, waiting>>

Next ==
    \/ \E j \in Jobs : Submit(j) \/ Start(j) \/ Finish(j) \/ SubmitAndRun(j)
    \/ \E k \in Limits : WaitCall(k)
    \/ WaitReturn
    \/ Destroy

Spec == Init /\ [][Next]_vars
=============================================================================
