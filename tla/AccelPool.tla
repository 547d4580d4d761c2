----------------------------- MODULE AccelPool ------------------------------
(***************************************************************************)
(* The device workers of src/lib/openjp2/opencl_backend.c and              *)
(* cuda_backend.c: threads that code tiles lease a worker, its buffers     *)
(* come out of the budget both backends share (accel_budget.c), and a      *)
(* caller that gets no worker codes its tile on the CPU.                   *)
(*                                                                         *)
(* Grain.  An action is what runs under one hold of the backend's lock, up *)
(* to the next call of opj_accel_reserve: while OpenCL grows a worker      *)
(* buffer by buffer, CUDA may take the memory in between, and the other    *)
(* way round.  The lock of a backend is held exactly while some thread is  *)
(* fitting a worker.                                                       *)
(*                                                                         *)
(* Abstracted.  Both runtimes are initialised.  What release_buffers gives *)
(* back it gives back in one step.  A buffer that cannot be created takes  *)
(* no memory from the budget, not even for a moment.                       *)
(***************************************************************************)
EXTENDS Integers, FiniteSets, FiniteSetsExt, Functions

CONSTANTS
    Threads,    \* the threads that code tiles
    NumCl,      \* OpenCL workers (at most MAX_WORKERS, 8)
    NumCu,      \* CUDA workers (at most MAX_WORKERS, 8)
    Kinds,      \* the buffers of a worker, numbered (8)
    Unstaged,   \* the buffer CUDA fills on the device: no staging (number 3)
    Budget,     \* 64 MiB, of device memory and of pinned memory
    Demands,    \* the buffer sizes a tile may need
    MaxCalls,   \* bound: calls
    MaxFaults   \* bound: OpenCL or CUDA calls, or waits, that fail

ClSlots == 1..NumCl
CuSlots == (NumCl + 1)..(NumCl + NumCu)
Slots   == ClSlots \cup CuSlots
None    == 0                       \* no worker

Total(d) == SumFunction(d)

(* The callers check that a tile fits an empty budget before they ask.     *)
ASSUME AccelPoolAssumption ==
    /\ NumCl \in Nat /\ NumCu \in Nat /\ Budget \in Nat
    /\ MaxCalls \in Nat /\ MaxFaults \in Nat
    /\ Kinds \subseteq Nat /\ IsFiniteSet(Kinds)
    /\ Demands \subseteq [Kinds -> Nat]
    /\ \A d \in Demands : Total(d) <= Budget

VARIABLES
    used,       \* used[0] of accel_budget.c: bytes of device memory
    pinned,     \* used[1]: bytes of pinned host memory
    busy,       \* the workers whose busy flag is set
    cap,        \* cap[<<s, k>>] is capacities[k] of worker s, 0 for no buffer
    staging,    \* host_capacity of a CUDA worker
    poisoned,   \* CUDA is off for the rest of the process
    dma,        \* CUDA workers with a transfer that has not completed
    pc,         \* where each thread is
    need,       \* the buffer sizes of its tile
    patient,    \* its wait_for_slot
    slot,       \* the worker it is fitting or has leased
    calls, faults

memory  == <<used, pinned, cap, staging>>
request == <<need, patient, calls>>
vars == <<memory, busy, poisoned, dma, pc, slot, request, faults>>

NoDemand == [k \in Kinds |-> 0]
-----------------------------------------------------------------------------
Bytes(S)  == SumFunctionOnSet(cap, S \X Kinds)
Pinned(S) == SumFunctionOnSet(staging, S)
Idle(P)   == P \ busy

(* Workers and buffers are looked through by number, the first one is      *)
(* taken.                                                                  *)
First(x, S) == x \in S /\ \A y \in S : x <= y

(* Mutant: admission is not serialised.                                    *)
MutNoLock == Threads # {}

ClUnlocked == \A t \in Threads : pc[t] # "cl_fit"

CuUnlocked == \A t \in Threads : pc[t] \notin {"cu_fit", "cu_retry"}

(* n calls of a runtime, or waits, fail.                                   *)
Faults(n) == faults + n <= MaxFaults /\ faults' = faults + n
Fault     == Faults(1)

(* Thread t goes on at l, and if it signals, the threads that sleep on     *)
(* cl_available take their lock again.                                     *)
Goes(t, l) == pc' = [pc EXCEPT ![t] = l]

MutNoSignal(t, l) == Goes(t, l)  \* mutant: the sleepers are not woken

Wakes(t, l) ==
    pc' = [u \in Threads |->
             IF u = t THEN l
             ELSE IF pc[u] = "cl_wait" THEN "cl_lock" ELSE pc[u]]

(* The call of t is over, the tile coded or left to the CPU.               *)
Leaves(t) ==
    /\ need' = [need EXCEPT ![t] = NoDemand]
    /\ patient' = [patient EXCEPT ![t] = FALSE]
    /\ slot' = [slot EXCEPT ![t] = None]
    /\ calls' = calls

Freed(Q) == [x \in Slots \X Kinds |-> IF x \in Q THEN 0 ELSE cap[x]]

(* The buffers Q give their memory back.                                   *)
FreesBuffers(Q) == cap' = Freed(Q) /\ used' = used - SumFunctionOnSet(cap, Q)

(* release_buffers of OpenCL on the workers S.                             *)
ReleaseBuffers(S) == FreesBuffers(S \X Kinds)

(* The buffers of the worker of t that are too small.                      *)
Short(t) == {k \in Kinds : cap[<<slot[t], k>>] < need[t][k]}

MutNeverRefuses(n) == FALSE  \* mutant: the allowance is not checked

Refused(n) == n > Budget - used

(* The next such buffer gives its memory back, and gets what it needs.     *)
FreesNext(t) ==
    \E k \in Short(t) :
        /\ First(k, Short(t)) /\ cap[<<slot[t], k>>] > 0
        /\ used' = used - cap[<<slot[t], k>>]
        /\ cap' = [cap EXCEPT ![<<slot[t], k>>] = 0]

ReservesNext(t) ==
    \E k \in Short(t) :
        /\ First(k, Short(t)) /\ cap[<<slot[t], k>>] = 0
        /\ ~Refused(need[t][k])
        /\ used' = used + need[t][k]
        /\ cap' = [cap EXCEPT ![<<slot[t], k>>] = need[t][k]]

AtReserve(t) ==
    \E k \in Short(t) : First(k, Short(t)) /\ cap[<<slot[t], k>>] = 0
RefusedNext(t) ==
    \E k \in Short(t) :
        First(k, Short(t)) /\ cap[<<slot[t], k>>] = 0 /\ Refused(need[t][k])
-----------------------------------------------------------------------------
(* OpenCL.  Admission counts the OpenCL buffers only: a tile is admitted   *)
(* to an idle worker if it fits beside the busy ones, and the idle buffers *)
(* are given up when it does not fit beside them too.                      *)
FitsBesideAll(d) ==
    \E w \in Idle(ClSlots) :
        /\ First(w, Idle(ClSlots))
        /\ Bytes(ClSlots) + SumFunction([k \in Kinds |->
               Max({0, d[k] - cap[<<w, k>>]})]) <= Budget

(* Mutant: the buffers of idle workers count as taken.                     *)
MutIdleStays(d) == FitsBesideAll(d)

Admissible(d) ==
    Idle(ClSlots) # {} /\ Bytes(ClSlots \cap busy) + Total(d) <= Budget

Reclaims(d) ==
    IF Idle(ClSlots) # {} /\ ~FitsBesideAll(d)
    THEN ReleaseBuffers(Idle(ClSlots))
    ELSE UNCHANGED <<cap, used>>

ClCall(t) ==
    /\ pc[t] = "idle" /\ calls < MaxCalls
    /\ \E d \in Demands : need' = [need EXCEPT ![t] = d]
    /\ \E wait_for_slot \in BOOLEAN :
          patient' = [patient EXCEPT ![t] = wait_for_slot]
    /\ calls' = calls + 1
    /\ Goes(t, "cl_lock")
    /\ UNCHANGED <<memory, busy, poisoned, dma, slot, faults>>

ClAdmits(t) ==
    /\ pc[t] = "cl_lock" /\ ClUnlocked /\ Admissible(need[t])
    /\ Reclaims(need[t])
    /\ \E w \in Idle(ClSlots) :
          First(w, Idle(ClSlots)) /\ slot' = [slot EXCEPT ![t] = w]
    /\ Goes(t, "cl_fit")
    /\ UNCHANGED <<pinned, staging, busy, poisoned, dma, request, faults>>

ClWaits(t) ==
    /\ pc[t] = "cl_lock" /\ ClUnlocked /\ ~Admissible(need[t])
    /\ patient[t]
    /\ Reclaims(need[t])
    /\ Goes(t, "cl_wait")
    /\ UNCHANGED <<pinned, staging, busy, poisoned, dma, slot, request, faults>>

(* The caller does not wait, or the wait itself fails.                     *)
ClDeclines(t) ==
    /\ pc[t] = "cl_lock" /\ ClUnlocked /\ ~Admissible(need[t])
    /\ IF patient[t] THEN Fault ELSE UNCHANGED faults
    /\ Reclaims(need[t])
    /\ Wakes(t, "idle")
    /\ Leaves(t)
    /\ UNCHANGED <<pinned, staging, busy, poisoned, dma>>

ClGrows(t) ==
    /\ pc[t] = "cl_fit"
    /\ FreesNext(t) \/ ReservesNext(t)
    /\ UNCHANGED <<pinned, staging, busy, poisoned, dma, pc, slot, request,
                   faults>>

(* The shared budget refuses, or the queue, a kernel or a buffer cannot be *)
(* created: destroy_worker.                                                *)
ClFails(t) ==
    /\ pc[t] = "cl_fit" /\ AtReserve(t)
    /\ \/ RefusedNext(t) /\ UNCHANGED faults
       \/ Fault
    /\ ReleaseBuffers({slot[t]})
    /\ Wakes(t, "idle")
    /\ Leaves(t)
    /\ UNCHANGED <<pinned, staging, busy, poisoned, dma>>

ClLeases(t) ==
    /\ pc[t] = "cl_fit" /\ Short(t) = {}
    /\ busy' = busy \cup {slot[t]}
    /\ Goes(t, "cl_run")
    /\ UNCHANGED <<memory, poisoned, dma, slot, request, faults>>

(* release_worker, after fnFinish has drained the queue.                   *)
ClReturns(t, success) ==
    /\ pc[t] = "cl_run" /\ ClUnlocked
    /\ IF success THEN UNCHANGED <<cap, used>> ELSE ReleaseBuffers({slot[t]})
    /\ busy' = busy \ {slot[t]}
    /\ Wakes(t, "idle")
    /\ Leaves(t)
    /\ UNCHANGED <<pinned, staging, poisoned, dma, faults>>

ClWakesUnsignalled(t) ==
    /\ pc[t] = "cl_wait"
    /\ Goes(t, "cl_lock")
    /\ UNCHANGED <<memory, busy, poisoned, dma, slot, request, faults>>
-----------------------------------------------------------------------------
(* CUDA.  release_buffers goes on past a buffer the driver does not free:  *)
(* what it kept stays with the worker and in the budget, and poisons the   *)
(* runtime.                                                                *)
Owned(S)  == {x \in S \X Kinds : cap[x] > 0}
Staged(S) == {s \in S : staging[s] > 0}

Poisons(some) == poisoned' = (poisoned \/ some)

(* Mutant: the budget forgets a buffer that could not be freed.            *)
MutForgetsKept(S, kept) ==
    /\ cap' = Freed((S \X Kinds) \ kept) /\ used' = used - Bytes(S)
    /\ Poisons(kept # {})

FreesBut(S, kept) == FreesBuffers((S \X Kinds) \ kept) /\ Poisons(kept # {})

CuReleaseBuffers(S) ==
    \E kept \in SUBSET Owned(S) : FreesBut(S, kept) /\ Faults(Cardinality(kept))

(* release_host on the workers S.                                          *)
ReleaseHost(S) ==
    /\ staging' = [s \in CuSlots |-> IF s \in S THEN 0 ELSE staging[s]]
    /\ pinned' = pinned - Pinned(S)

CuCall(t) ==
    /\ pc[t] = "idle" /\ calls < MaxCalls
    /\ \E d \in Demands : need' = [need EXCEPT ![t] = d]
    /\ calls' = calls + 1
    /\ Goes(t, "cu_lock")
    /\ UNCHANGED <<memory, busy, poisoned, dma, patient, slot, faults>>

MutIgnoresPoison == TRUE  \* mutant: an abandoned runtime is used again

CudaOn == ~poisoned

CuDeclines(t) ==
    /\ pc[t] = "cu_lock" /\ CuUnlocked
    /\ ~CudaOn \/ Idle(CuSlots) = {}
    /\ Goes(t, "idle")
    /\ Leaves(t)
    /\ UNCHANGED <<memory, busy, poisoned, dma, faults>>

CuEnters(t) ==
    /\ pc[t] = "cu_lock" /\ CuUnlocked
    /\ CudaOn
    /\ \E w \in Idle(CuSlots) :
          First(w, Idle(CuSlots)) /\ slot' = [slot EXCEPT ![t] = w]
    /\ Goes(t, "cu_fit")
    /\ UNCHANGED <<memory, busy, poisoned, dma, request, faults>>

CuGrows(t) ==
    /\ \/ pc[t] = "cu_fit" /\ FreesNext(t)
       \/ pc[t] \in {"cu_fit", "cu_retry"} /\ ReservesNext(t)
    /\ Goes(t, "cu_fit")
    /\ UNCHANGED <<pinned, staging, busy, poisoned, dma, slot, request, faults>>

(* The budget refuses: the other idle workers give theirs up, once.  If    *)
(* one of their buffers, or a too small one, cannot be freed, the runtime  *)
(* is poisoned and the worker keeps what it has.                           *)
CuReclaims(t) ==
    /\ pc[t] = "cu_fit" /\ RefusedNext(t)
    /\ CuReleaseBuffers(Idle(CuSlots) \ {slot[t]})
    /\ IF poisoned' THEN Goes(t, "idle") /\ Leaves(t)
                    ELSE Goes(t, "cu_retry") /\ UNCHANGED <<slot, request>>
    /\ UNCHANGED <<pinned, staging, busy, dma>>

CuCannotFree(t) ==
    /\ pc[t] = "cu_fit" /\ Short(t) # {} /\ ~AtReserve(t)
    /\ Fault
    /\ poisoned' = TRUE
    /\ Goes(t, "idle")
    /\ Leaves(t)
    /\ UNCHANGED <<memory, busy, dma>>

(* The budget refuses again, or the stream or a buffer cannot be created.  *)
CuFails(t) ==
    /\ pc[t] \in {"cu_fit", "cu_retry"} /\ AtReserve(t)
    /\ \/ /\ pc[t] = "cu_retry" /\ RefusedNext(t)
          /\ CuReleaseBuffers({slot[t]})
       \/ \E kept \in SUBSET Owned({slot[t]}) :
             FreesBut({slot[t]}, kept) /\ Faults(1 + Cardinality(kept))
    /\ Goes(t, "idle")
    /\ Leaves(t)
    /\ UNCHANGED <<pinned, staging, busy, dma>>

CuLeases(t) ==
    /\ pc[t] = "cu_fit" /\ Short(t) = {}
    /\ busy' = busy \cup {slot[t]}
    /\ Goes(t, "cu_stage")
    /\ UNCHANGED <<memory, poisoned, dma, slot, request, faults>>

(* acquire_host: pinned memory, all of it under the lock.  The staging     *)
(* buffer of the worker goes first, then those of the idle workers, unless *)
(* the first is not freed.                                                 *)
HostNeed(t) == Total([k \in Kinds |-> IF k = Unstaged THEN 0 ELSE need[t][k]])

GivesUp(t) ==
    IF HostNeed(t) <= Budget - (pinned - staging[slot[t]])
    THEN {slot[t]} ELSE {slot[t]} \cup Idle(CuSlots)

Restaged(t, n) ==
    /\ staging' = [s \in CuSlots |->
                     IF s = slot[t] THEN n
                     ELSE IF s \in GivesUp(t) THEN 0 ELSE staging[s]]
    /\ pinned' = pinned - Pinned(GivesUp(t)) + n

StagingShort(t) == staging[slot[t]] < HostNeed(t)
StagingFits(t)  == HostNeed(t) <= Budget - (pinned - Pinned(GivesUp(t)))

(* With its staging buffer the thread prepares the tile and queues the     *)
(* transfers and the kernels.                                              *)
CuStarts(t) ==
    /\ pc[t] = "cu_stage" /\ CuUnlocked /\ ~poisoned
    /\ IF StagingShort(t)
       THEN StagingFits(t) /\ Restaged(t, HostNeed(t))
       ELSE UNCHANGED <<pinned, staging>>
    /\ dma' = dma \cup {slot[t]}
    /\ Goes(t, "cu_dma")
    /\ UNCHANGED <<used, cap, busy, poisoned, slot, request, faults>>

CuCannotStart(t) ==
    /\ pc[t] = "cu_stage" /\ CuUnlocked
    /\ \/ poisoned /\ UNCHANGED <<pinned, staging, poisoned, faults>>
       \/ /\ ~poisoned /\ StagingShort(t)
          /\ \/ ~StagingFits(t) /\ UNCHANGED faults
             \/ Fault
          /\ Restaged(t, 0)
          /\ UNCHANGED poisoned
       \/ /\ ~poisoned /\ StagingShort(t)
          /\ \E kept \in SUBSET Staged(GivesUp(t)) :
                /\ kept # {} /\ Poisons(TRUE) /\ Faults(Cardinality(kept))
                /\ slot[t] \in kept => kept = {slot[t]}
                /\ ReleaseHost(IF slot[t] \in kept THEN {}
                               ELSE GivesUp(t) \ kept)
    /\ Goes(t, "cu_fail")
    /\ UNCHANGED <<used, cap, busy, dma, slot, request>>

(* The clean-up of opj_cuda_decode_tile once the stream has drained: after *)
(* a failure the worker gives up its buffers, those the driver frees.      *)
DropsAll(t) ==
    \E kept \in SUBSET Owned({slot[t]}), stuck \in SUBSET Staged({slot[t]}) :
        /\ FreesBuffers(({slot[t]} \X Kinds) \ kept)
        /\ ReleaseHost({slot[t]} \ stuck)
        /\ Poisons(kept # {} \/ stuck # {})
        /\ Faults(Cardinality(kept) + Cardinality(stuck))

CuReturns(t, success) ==
    /\ CuUnlocked
    /\ \/ pc[t] = "cu_dma" /\ success /\ UNCHANGED <<memory, poisoned, faults>>
       \/ pc[t] \in {"cu_dma", "cu_fail"} /\ ~success /\ DropsAll(t)
    /\ dma' = dma \ {slot[t]}
    /\ busy' = busy \ {slot[t]}
    /\ Goes(t, "idle")
    /\ Leaves(t)

(* The stream cannot be drained: the transfer may still be running, so the *)
(* worker keeps its buffers and CUDA is over.                              *)
CuQuarantines(t) ==
    /\ pc[t] = "cu_dma" /\ CuUnlocked
    /\ Fault
    /\ poisoned' = TRUE
    /\ busy' = busy \ {slot[t]}
    /\ Goes(t, "idle")
    /\ Leaves(t)
    /\ UNCHANGED <<memory, dma>>
-----------------------------------------------------------------------------
Init ==
    /\ used = 0 /\ pinned = 0
    /\ busy = {} /\ dma = {} /\ poisoned = FALSE
    /\ cap = [x \in Slots \X Kinds |-> 0]
    /\ staging = [s \in CuSlots |-> 0]
    /\ pc = [t \in Threads |-> "idle"]
    /\ need = [t \in Threads |-> NoDemand]
    /\ patient = [t \in Threads |-> FALSE]
    /\ slot = [t \in Threads |-> None]
    /\ calls = 0 /\ faults = 0

(* A call from acquire_worker to release_worker: opj_opencl_decode_tile,   *)
(* or a stage of the encoder (encode_tier1, encode_transform).             *)
ClStep(t) ==
    \/ ClAdmits(t) \/ ClWaits(t) \/ ClDeclines(t)
    \/ ClGrows(t) \/ ClFails(t) \/ ClLeases(t)
    \/ \E success \in BOOLEAN : ClReturns(t, success)

CuStep(t) ==
    \/ CuDeclines(t) \/ CuEnters(t) \/ CuGrows(t) \/ CuReclaims(t)
    \/ CuCannotFree(t) \/ CuFails(t) \/ CuLeases(t)
    \/ CuStarts(t) \/ CuCannotStart(t) \/ CuQuarantines(t)
    \/ \E success \in BOOLEAN : CuReturns(t, success)

Step(t) == ClStep(t) \/ CuStep(t)

(* Nothing is left to do; only the bound on calls makes this a last state. *)
Finished ==
    /\ calls = MaxCalls /\ \A t \in Threads : pc[t] = "idle"
    /\ UNCHANGED vars

Next ==
    \/ \E t \in Threads : \/ ClCall(t) \/ CuCall(t)
                          \/ Step(t)
                          \/ ClWakesUnsignalled(t)
    \/ Finished

Spec == Init /\ [][Next]_vars

(* A thread inside a call runs on: it is scheduled, device work ends and   *)
(* the locks are fair enough to be taken when they stay free.              *)
Fairness == \A t \in Threads : WF_vars(Step(t))
FairSpec == Spec /\ Fairness
-----------------------------------------------------------------------------
Labels == {"idle", "cl_lock", "cl_wait", "cl_fit", "cl_run", "cu_lock",
           "cu_fit", "cu_retry", "cu_stage", "cu_dma", "cu_fail"}
Leased == {"cl_run", "cu_stage", "cu_dma", "cu_fail"}

Ranges ==
    /\ busy \subseteq Slots /\ dma \subseteq CuSlots
    /\ cap \in [Slots \X Kinds -> Nat]
    /\ staging = [s \in CuSlots |-> staging[s]]
    /\ poisoned \in BOOLEAN
    /\ pc \in [Threads -> Labels]
    /\ need \in [Threads -> Demands \cup {NoDemand}]
    /\ patient \in [Threads -> BOOLEAN]
    /\ slot \in [Threads -> Slots \cup {None}]

(* Types; neither allowance is ever exceeded, nor released below nothing.  *)
TypeOK ==
    /\ Ranges /\ staging \in [CuSlots -> Nat]
    /\ used \in 0..Budget /\ pinned \in 0..Budget
    /\ calls \in 0..MaxCalls /\ faults \in 0..MaxFaults

(* Both allowances count exactly the buffers the workers hold, whichever   *)
(* path of acquire_worker, acquire or the clean-ups gave up half way: no   *)
(* memory leaks from the budget and none is given back twice.              *)
BudgetExact == used = Bytes(Slots) /\ pinned = Pinned(CuSlots)

(* A worker is busy exactly while one call has leased it, and the buffers  *)
(* of that call are as large as it asked for.                              *)
LeaseExclusive ==
    /\ \A t, u \in Threads :
          slot[t] # None /\ slot[t] = slot[u] => t = u
    /\ busy = {slot[t] : t \in {u \in Threads : pc[u] \in Leased}}
    /\ \A t \in Threads : pc[t] \in Leased => Short(t) = {}

(* A caller sleeps on cl_available only while it could not be admitted: no *)
(* release or failure forgets to wake it, not even while another caller is *)
(* fitting a worker under the lock.                                        *)
WakeupOwed ==
    \A t \in Threads : pc[t] = "cl_wait" => ~Admissible(need[t])

(* The buffers a device may be reading or writing stay where they are:     *)
(* those of the workers running a job, and those of a worker whose stream  *)
(* could not be drained.                                                   *)
InUse == dma \cup {slot[t] : t \in {u \in Threads : pc[u] = "cl_run"}}
ActiveUntouched ==
    [][\A s \in InUse \cap InUse' :
          /\ \A k \in Kinds : cap'[<<s, k>>] = cap[<<s, k>>]
          /\ s \in CuSlots => staging'[s] = staging[s]]_vars

(* No call is left waiting: as only so many calls come, time and again     *)
(* every thread is back from its call, with its tile coded by a worker or  *)
(* left to the CPU.                                                        *)
EveryCallAnswered == []<>(\A t \in Threads : pc[t] = "idle")

(* A thread has a worker from admission to its return, one of its backend, *)
(* that nobody has leased while the thread fits it under the lock.         *)
ClHeld == {"cl_fit", "cl_run"}
CuHeld == {"cu_fit", "cu_retry", "cu_stage", "cu_dma", "cu_fail"}
Fitting(t) == pc[t] \in {"cl_fit", "cu_fit", "cu_retry"}

Placed ==
    \A t \in Threads :
        /\ pc[t] \in ClHeld => slot[t] \in ClSlots
        /\ pc[t] \in CuHeld => slot[t] \in CuSlots
        /\ pc[t] \notin ClHeld \cup CuHeld => slot[t] = None
        /\ Fitting(t) => slot[t] \notin busy
        /\ \A u \in Threads : Fitting(t) /\ Fitting(u) /\ t # u =>
               (pc[t] = "cl_fit") # (pc[u] = "cl_fit")

(* A worker whose transfer nobody waits for any more is never leased or    *)
(* fitted again: CUDA is off, and who was inside has left.                 *)
Quarantined ==
    /\ \A s \in dma : s \notin busy => poisoned
    /\ \A t \in Threads : slot[t] \in dma => pc[t] = "cu_dma"
    /\ poisoned => CuUnlocked

IInv == Ranges /\ Placed /\ LeaseExclusive /\ Quarantined

(* experimental/opencl/README.md:134: a caller that may wait is parked     *)
(* while the budget is busy, and goes to the CPU only on an error.         *)
ContentionParks ==
    [][\A t \in Threads :
          patient[t] /\ pc[t] \in {"cl_lock", "cl_fit"} /\ pc'[t] = "idle"
          => faults' > faults]_vars
=============================================================================
