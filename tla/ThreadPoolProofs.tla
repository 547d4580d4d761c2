-------------------------- MODULE ThreadPoolProofs --------------------------
(* What holds of ThreadPool for every number of threads, jobs, waits and   *)
(* failures.                                                               *)
EXTENDS ThreadPool, TLAPS, SequenceTheorems, FiniteSetTheorems

USE ThreadPoolAssumption

(* A set of workers is finite, and so has a size.                          *)
LEMMA WorkerSets ==
  ASSUME NEW S \in SUBSET Workers
  PROVE  IsFiniteSet(S) /\ Cardinality(S) \in Nat
<1>1. IsFiniteSet(Workers)
  BY FS_Interval DEF Workers
<1>2. QED BY <1>1, FS_Subset, FS_CardinalityType

(* Every step keeps the variables in their ranges.                         *)
LEMMA TypeStep == TypeOK /\ ClientState /\ [Next]_vars => TypeOK'
<1> SUFFICES ASSUME TypeOK, ClientState, [Next]_vars PROVE TypeOK'
  OBVIOUS
<1> USE DEF TypeOK, ClientState, Workers, Jobs, Client, Nobody, WorkerPCs,
    ClientPCs, vars, poolVars, fixedVars, workerVars, clientVars, histVars
<1>1. ASSUME NEW w \in Workers, WorkerStops(w) PROVE TypeOK'
  <2>1. asleep' \in BOOLEAN BY ZenonT(20), <1>1 DEF WorkerStops,
      EnterGetNextJob, PendingAfter, SignalClient, JobDoneSignal
  <2>2. pending_jobs_count' \in Int /\ finished' \in [Workers -> BOOLEAN]
    BY <1>1 DEF WorkerStops, EnterGetNextJob, PendingAfter
  <2>3. wpc' \in [Workers -> WorkerPCs]
    BY <1>1 DEF WorkerStops
  <2>4. QED BY <1>1, <2>1, <2>2, <2>3 DEF WorkerStops
<1>2. ASSUME NEW w \in Workers, WorkerTakesJob(w) PROVE TypeOK'
  BY SMTT(40), <1>2 DEF WorkerTakesJob, EnterGetNextJob, PendingAfter, SignalClient,
      JobDoneSignal, PopJob
<1>3. ASSUME NEW w \in Workers, WorkerAllocFails(w) PROVE TypeOK'
  BY <1>3 DEF WorkerAllocFails, EnterGetNextJob, PendingAfter, SignalClient,
      NotListedYet
<1>4. ASSUME NEW w \in Workers, WorkerIdles(w) PROVE TypeOK'
  <2>1. asleep' \in BOOLEAN BY ZenonT(20), <1>4 DEF WorkerIdles,
      EnterGetNextJob, PendingAfter, SignalClient, NotListedYet,
      KeepsPoolMutex
  <2>2. pending_jobs_count' \in Int /\ finished' \in [Workers -> BOOLEAN]
    BY <1>4 DEF WorkerIdles, EnterGetNextJob, PendingAfter
  <2>3. wpc' \in [Workers -> WorkerPCs]
    BY <1>4 DEF WorkerIdles
  <2>4. /\ marked_as_waiting' \in [Workers -> BOOLEAN]
        /\ waiting_count' \in Int
        /\ waiting_list' \in Seq(Workers)
    <3>1. <<w>> \o waiting_list \in Seq(Workers)
      OBVIOUS
    <3>2. CASE marked_as_waiting[w]
      BY <3>2, <1>4 DEF WorkerIdles, NotListedYet
    <3>3. CASE ~marked_as_waiting[w]
      <4>1. /\ marked_as_waiting' = [marked_as_waiting EXCEPT ![w] = TRUE]
            /\ waiting_count' = waiting_count + 1
            /\ waiting_list' = <<w>> \o waiting_list
        BY <3>3, <1>4 DEF WorkerIdles, NotListedYet
      <4>2. QED BY <3>1, <4>1
    <3>4. QED BY <3>2, <3>3
  <2>5. QED BY <1>4, <2>1, <2>2, <2>3, <2>4 DEF WorkerIdles, KeepsPoolMutex
<1>5. ASSUME NEW w \in Workers, WorkerLocksOwn(w) PROVE TypeOK'
  BY <1>5 DEF WorkerLocksOwn
<1>6. ASSUME NEW w \in Workers, WorkerSleeps(w) PROVE TypeOK'
  BY <1>6 DEF WorkerSleeps
<1>7. ASSUME NEW w \in Workers, WorkerWakesUnsignalled(w) PROVE TypeOK'
  BY <1>7 DEF WorkerWakesUnsignalled
<1>8. ASSUME NEW w \in Workers, WorkerResumes(w) PROVE TypeOK'
  BY <1>8 DEF WorkerResumes
<1>9. ASSUME NEW w \in Workers, WorkerRuns(w) PROVE TypeOK'
  BY <1>9 DEF WorkerRuns
<1>10. ASSUME NEW k \in WaitArgs, WaitCall(k) PROVE TypeOK'
  BY <1>10 DEF WaitCall, AtLeastZero
<1>11. CASE SpawnWorker
  BY <1>11 DEF SpawnWorker
<1>12. CASE SpawnFails
  BY <1>12 DEF SpawnFails
<1>13. CASE SetupSleeps
  BY <1>13 DEF SetupSleeps
<1>14. CASE SetupAllWaiting
  BY <1>14 DEF SetupAllWaiting
<1>15. CASE SetupReturns
  BY <1>15 DEF SetupReturns
<1>16. CASE SubmitRunsInline
  BY <1>16 DEF SubmitRunsInline
<1>17. CASE SubmitFails
  BY <1>17 DEF SubmitFails
<1>18. CASE SubmitCall
  BY <1>18 DEF SubmitCall
<1>19. CASE SubmitSleeps
  BY <1>19 DEF SubmitSleeps, ClientHoldsPool, QueueLimit
<1>20. CASE SubmitWakesNobody
  BY <1>20 DEF SubmitWakesNobody, SubmitPushes, ClientHoldsPool, QueueLimit
<1>21. CASE SubmitTakesWaiter
  BY SMTT(40), <1>21 DEF SubmitTakesWaiter, SubmitPushes, ClientHoldsPool, QueueLimit
<1>22. CASE SubmitLocksWorker
  BY <1>22 DEF SubmitLocksWorker
<1>23. CASE SubmitSignalsWorker
  BY <1>23 DEF SubmitSignalsWorker, SignalWorker
<1>24. CASE WaitSleeps
  BY <1>24 DEF WaitSleeps
<1>25. CASE WaitReturns
  BY <1>25 DEF WaitReturns
<1>26. CASE DestroyDummy
  BY <1>26 DEF DestroyDummy
<1>27. CASE DestroyCall
  BY <1>27 DEF DestroyCall
<1>28. CASE DestroyStops
  BY <1>28 DEF DestroyStops, JoinLoop
<1>29. CASE DestroySignals
  BY <1>29 DEF DestroySignals, SignalWorker
<1>30. CASE DestroyJoins
  BY <1>30 DEF DestroyJoins, JoinLoop
<1>31. CASE ClientWakesUnsignalled
  <2>1. asleep' \in BOOLEAN BY ZenonT(20), <1>31 DEF ClientWakesUnsignalled
  <2>2. QED BY <1>31, <2>1 DEF ClientWakesUnsignalled
<1>32. CASE UNCHANGED vars
  BY <1>32
<1> QED BY <1>1, <1>2, <1>3, <1>4, <1>5, <1>6, <1>7, <1>8, <1>9, <1>10,
    <1>11, <1>12, <1>13, <1>14, <1>15, <1>16, <1>17, <1>18, <1>19, <1>20,
    <1>21, <1>22, <1>23, <1>24, <1>25, <1>26, <1>27, <1>28, <1>29, <1>30,
    <1>31, <1>32 DEF Next, WorkerStep, ClientStep, ClientCall, Environment,
    Terminated

(* Every step keeps the ownership of the mutexes as LockDiscipline says.   *)
LEMMA LockStep ==
  TypeOK /\ LockDiscipline /\ ClientState /\ [Next]_vars => LockDiscipline'
<1> SUFFICES ASSUME TypeOK, LockDiscipline, ClientState, [Next]_vars
    PROVE LockDiscipline'
  OBVIOUS
<1> USE DEF TypeOK, LockDiscipline, Workers, Client, Nobody, vars, poolVars,
    fixedVars, workerVars, clientVars, histVars
<1>1. ASSUME NEW w \in Workers, WorkerStops(w) PROVE LockDiscipline'
  BY SMTT(40), <1>1 DEF WorkerStops, EnterGetNextJob
<1>2. ASSUME NEW w \in Workers, WorkerTakesJob(w) PROVE LockDiscipline'
  BY <1>2 DEF WorkerTakesJob, EnterGetNextJob, PopJob
<1>3. ASSUME NEW w \in Workers, WorkerAllocFails(w) PROVE LockDiscipline'
  BY <1>3 DEF WorkerAllocFails, EnterGetNextJob, NotListedYet
<1>4. ASSUME NEW w \in Workers, WorkerIdles(w) PROVE LockDiscipline'
  BY <1>4 DEF WorkerIdles, EnterGetNextJob, NotListedYet, KeepsPoolMutex
<1>5. ASSUME NEW w \in Workers, WorkerLocksOwn(w) PROVE LockDiscipline'
  <2>1. tp_mutex = w /\ \A v \in Workers : v # w => wpc[v] # "lockw"
    BY <1>5 DEF WorkerLocksOwn
  <2>2. /\ wpc' = [wpc EXCEPT ![w] = "bwait"]
        /\ wmutex' = [wmutex EXCEPT ![w] = w] /\ tp_mutex' = Nobody
    BY <1>5 DEF WorkerLocksOwn
  <2>3. \A u, v \in Workers : wmutex'[u] = v <=> v = u /\ wpc'[u] = "bwait"
    BY <2>2
  <2>4. \A u \in Workers : tp_mutex' = u <=> wpc'[u] = "lockw"
    BY SMTT(40), <2>1, <2>2
  <2>5. \A u \in Workers : wmutex'[u] = Client <=> cpc' = "subsignal" /\ at' = u
    <3>1. wmutex[w] # Client /\ w # Client /\ cpc' = cpc /\ at' = at
      BY <1>5 DEF WorkerLocksOwn
    <3>2. \A u \in Workers : wmutex[u] = Client <=> cpc = "subsignal" /\ at = u
      OBVIOUS
    <3>3. wmutex'[w] = w /\ \A u \in Workers : u # w => wmutex'[u] = wmutex[u]
      BY <2>2
    <3> HIDE DEF LockDiscipline, Workers, Client
    <3>4. QED BY <3>1, <3>2, <3>3
  <2>6. tp_mutex' = Client <=> cpc' = "sublockw"
    BY <1>5, <2>1, <2>2 DEF WorkerLocksOwn
  <2>7. \A u \in Workers : wpc'[u] = "lockw" => job_queue' = <<>>
    BY <1>5, <2>2 DEF WorkerLocksOwn
  <2>8. QED BY <2>3, <2>4, <2>5, <2>6, <2>7
<1>6. ASSUME NEW w \in Workers, WorkerSleeps(w) PROVE LockDiscipline'
  BY <1>6 DEF WorkerSleeps
<1>7. ASSUME NEW w \in Workers, WorkerWakesUnsignalled(w) PROVE LockDiscipline'
  BY <1>7 DEF WorkerWakesUnsignalled
<1>8. ASSUME NEW w \in Workers, WorkerResumes(w) PROVE LockDiscipline'
  BY <1>8 DEF WorkerResumes
<1>9. ASSUME NEW w \in Workers, WorkerRuns(w) PROVE LockDiscipline'
  BY <1>9 DEF WorkerRuns
<1>10. ASSUME NEW k \in WaitArgs, WaitCall(k) PROVE LockDiscipline'
  BY <1>10 DEF WaitCall, AtLeastZero
<1>11. CASE SpawnWorker
  BY <1>11 DEF SpawnWorker, ClientState
<1>12. CASE SpawnFails
  BY <1>12 DEF SpawnFails
<1>13. CASE SetupSleeps
  BY <1>13 DEF SetupSleeps, ClientHoldsPool
<1>14. CASE SetupAllWaiting
  BY <1>14 DEF SetupAllWaiting, ClientHoldsPool
<1>15. CASE SetupReturns
  BY <1>15 DEF SetupReturns, SetupFailed
<1>16. CASE SubmitRunsInline
  BY <1>16 DEF SubmitRunsInline
<1>17. CASE SubmitFails
  BY <1>17 DEF SubmitFails
<1>18. CASE SubmitCall
  BY <1>18 DEF SubmitCall
<1>19. CASE SubmitSleeps
  BY <1>19 DEF SubmitSleeps, ClientHoldsPool, QueueLimit
<1>20. CASE SubmitWakesNobody
  BY <1>20 DEF SubmitWakesNobody, SubmitPushes, ClientHoldsPool
<1>21. CASE SubmitTakesWaiter
  BY <1>21 DEF SubmitTakesWaiter, SubmitPushes, ClientHoldsPool
<1>22. CASE SubmitLocksWorker
  BY <1>22 DEF SubmitLocksWorker
<1>23. CASE SubmitSignalsWorker
  BY SMTT(40), <1>23 DEF SubmitSignalsWorker, SignalWorker, ClientState
<1>24. CASE WaitSleeps
  BY <1>24 DEF WaitSleeps, ClientHoldsPool, WaitOver
<1>25. CASE WaitReturns
  BY <1>25 DEF WaitReturns, ClientHoldsPool, WaitOver
<1>26. CASE DestroyDummy
  BY <1>26 DEF DestroyDummy
<1>27. CASE DestroyCall
  BY <1>27 DEF DestroyCall
<1>28. CASE DestroyStops
  BY <1>28 DEF DestroyStops, JoinLoop, ClientHoldsPool
<1>29. CASE DestroySignals
  BY SMTT(40), <1>29 DEF DestroySignals, SignalWorker
<1>30. CASE DestroyJoins
  BY <1>30 DEF DestroyJoins, JoinLoop, ThreadEnded
<1>31. CASE ClientWakesUnsignalled
  BY <1>31 DEF ClientWakesUnsignalled
<1>32. CASE UNCHANGED vars
  BY <1>32
<1> QED BY <1>1, <1>2, <1>3, <1>4, <1>5, <1>6, <1>7, <1>8, <1>9, <1>10,
    <1>11, <1>12, <1>13, <1>14, <1>15, <1>16, <1>17, <1>18, <1>19, <1>20,
    <1>21, <1>22, <1>23, <1>24, <1>25, <1>26, <1>27, <1>28, <1>29, <1>30,
    <1>31, <1>32 DEF Next, WorkerStep, ClientStep, ClientCall, Environment,
    Terminated

(* Every step leaves the client, and what depends on where it is, as       *)
(* ClientState says; draining leaves the queue empty because the count of  *)
(* pending jobs is exact.                                                  *)
LEMMA ClientStateStep ==
  TypeOK /\ LockDiscipline /\ ClientState /\ TypeOK' /\ PendingAccounting /\ [Next]_vars => ClientState'
<1> SUFFICES ASSUME TypeOK, LockDiscipline, ClientState, TypeOK',
    PendingAccounting, [Next]_vars PROVE ClientState'
  OBVIOUS
<1> USE DEF TypeOK, ClientState, Workers, Jobs, Client, Nobody, vars,
    poolVars, fixedVars, workerVars, clientVars, histVars
<1>1. ASSUME NEW w \in Workers, WorkerStops(w) PROVE ClientState'
  <2>1. \A v \in Workers : finished'[v] => wpc'[v] = "lock"
    BY <1>1 DEF WorkerStops, EnterGetNextJob
  <2>2. \A v \in Workers : wpc'[v] = "run" => cur'[v] # 0
    BY <1>1 DEF WorkerStops, EnterGetNextJob
  <2>3. \A v \in Workers : wpc'[v] = "none" <=> wpc[v] = "none"
    BY <1>1 DEF WorkerStops, EnterGetNextJob
  <2>4. asleep' => asleep
    BY ZenonT(20), <1>1 DEF WorkerStops, SignalClient
  <2>5. QED BY <1>1, <2>1, <2>2, <2>3, <2>4 DEF WorkerStops
<1>2. ASSUME NEW w \in Workers, WorkerTakesJob(w) PROVE ClientState'
  <2>1. \A v \in Workers : finished'[v] => wpc'[v] = "lock"
    BY <1>2 DEF WorkerTakesJob, EnterGetNextJob
  <2>2. \A v \in Workers : wpc'[v] = "run" => cur'[v] # 0
    BY <1>2 DEF WorkerTakesJob, EnterGetNextJob
  <2>3. \A v \in Workers : wpc'[v] = "none" <=> wpc[v] = "none"
    BY <1>2 DEF WorkerTakesJob, EnterGetNextJob
  <2>4. asleep' => asleep
    BY ZenonT(20), <1>2 DEF WorkerTakesJob, SignalClient
  <2>5. QED BY <1>2, <2>1, <2>2, <2>3, <2>4 DEF WorkerTakesJob, PopJob
<1>3. ASSUME NEW w \in Workers, WorkerAllocFails(w) PROVE ClientState'
  <2>1. \A v \in Workers : finished'[v] => wpc'[v] = "lock"
    BY <1>3 DEF WorkerAllocFails, EnterGetNextJob
  <2>2. \A v \in Workers : wpc'[v] = "run" => cur'[v] # 0
    BY <1>3 DEF WorkerAllocFails, EnterGetNextJob
  <2>3. \A v \in Workers : wpc'[v] = "none" <=> wpc[v] = "none"
    BY <1>3 DEF WorkerAllocFails, EnterGetNextJob
  <2>4. asleep' => asleep
    BY ZenonT(20), <1>3 DEF WorkerAllocFails, SignalClient
  <2>5. QED BY <1>3, <2>1, <2>2, <2>3, <2>4 DEF WorkerAllocFails
<1>4. ASSUME NEW w \in Workers, WorkerIdles(w) PROVE ClientState'
  <2>1. \A v \in Workers : finished'[v] => wpc'[v] = "lock"
    BY <1>4 DEF WorkerIdles, EnterGetNextJob
  <2>2. \A v \in Workers : wpc'[v] = "run" => cur'[v] # 0
    BY <1>4 DEF WorkerIdles, EnterGetNextJob
  <2>3. \A v \in Workers : wpc'[v] = "none" <=> wpc[v] = "none"
    BY <1>4 DEF WorkerIdles, EnterGetNextJob
  <2>4. asleep' => asleep
    BY ZenonT(20), <1>4 DEF WorkerIdles, SignalClient
  <2>5. QED BY <1>4, <2>1, <2>2, <2>3, <2>4 DEF WorkerIdles
<1>5. ASSUME NEW w \in Workers, WorkerLocksOwn(w) PROVE ClientState'
  BY <1>5 DEF WorkerLocksOwn
<1>6. ASSUME NEW w \in Workers, WorkerSleeps(w) PROVE ClientState'
  BY <1>6 DEF WorkerSleeps
<1>7. ASSUME NEW w \in Workers, WorkerWakesUnsignalled(w) PROVE ClientState'
  BY <1>7 DEF WorkerWakesUnsignalled
<1>8. ASSUME NEW w \in Workers, WorkerResumes(w) PROVE ClientState'
  BY <1>8 DEF WorkerResumes
<1>9. ASSUME NEW w \in Workers, WorkerRuns(w) PROVE ClientState'
  BY <1>9 DEF WorkerRuns
<1>10. ASSUME NEW k \in WaitArgs, WaitCall(k) PROVE ClientState'
  BY <1>10 DEF WaitCall, AtLeastZero
<1>11. CASE SpawnWorker
  BY <1>11 DEF SpawnWorker
<1>12. CASE SpawnFails
  BY <1>12 DEF SpawnFails
<1>13. CASE SetupSleeps
  BY <1>13 DEF SetupSleeps, ClientHoldsPool
<1>14. CASE SetupAllWaiting
  BY <1>14 DEF SetupAllWaiting, ClientHoldsPool
<1>15. CASE SetupReturns
  BY <1>15 DEF SetupReturns, SetupFailed
<1>16. CASE SubmitRunsInline
  BY <1>16 DEF SubmitRunsInline
<1>17. CASE SubmitFails
  BY <1>17 DEF SubmitFails
<1>18. CASE SubmitCall
  BY <1>18 DEF SubmitCall
<1>19. CASE SubmitSleeps
  BY <1>19 DEF SubmitSleeps, ClientHoldsPool, QueueLimit
<1>20. CASE SubmitWakesNobody
  BY <1>20 DEF SubmitWakesNobody, SubmitPushes, ClientHoldsPool
<1>21. CASE SubmitTakesWaiter
  BY <1>21 DEF SubmitTakesWaiter, SubmitPushes, ClientHoldsPool
<1>22. CASE SubmitLocksWorker
  BY <1>22 DEF SubmitLocksWorker
<1>23. CASE SubmitSignalsWorker
  BY <1>23 DEF SubmitSignalsWorker, SignalWorker
<1>24. CASE WaitSleeps
  BY <1>24 DEF WaitSleeps, ClientHoldsPool, WaitOver
<1>25. CASE WaitReturns
  <2>1. Cardinality(Busy) \in Nat
    BY WorkerSets DEF Busy
  <2>2. cpc = "drain" => job_queue = <<>>
    BY <1>25, <2>1 DEF WaitReturns, WaitOver, PendingAccounting
  <2>3. QED BY <1>25, <2>2 DEF WaitReturns, ClientHoldsPool
<1>26. CASE DestroyDummy
  BY <1>26 DEF DestroyDummy
<1>27. CASE DestroyCall
  BY <1>27 DEF DestroyCall
<1>28. CASE DestroyStops
  BY <1>28 DEF DestroyStops, JoinLoop, ClientHoldsPool
<1>29. CASE DestroySignals
  BY <1>29 DEF DestroySignals, SignalWorker
<1>30. CASE DestroyJoins
  BY <1>30 DEF DestroyJoins, JoinLoop, ThreadEnded
<1>31. CASE ClientWakesUnsignalled
  BY <1>31 DEF ClientWakesUnsignalled
<1>32. CASE UNCHANGED vars
  BY <1>32
<1> QED BY <1>1, <1>2, <1>3, <1>4, <1>5, <1>6, <1>7, <1>8, <1>9, <1>10,
    <1>11, <1>12, <1>13, <1>14, <1>15, <1>16, <1>17, <1>18, <1>19, <1>20,
    <1>21, <1>22, <1>23, <1>24, <1>25, <1>26, <1>27, <1>28, <1>29, <1>30,
    <1>31, <1>32 DEF Next, WorkerStep, ClientStep, ClientCall, Environment,
    Terminated

(* A list with a new element in front.                                     *)
LEMMA Prepended ==
  ASSUME NEW S, NEW s \in Seq(S), NEW x \in S
  PROVE  /\ <<x>> \o s \in Seq(S)
         /\ Len(<<x>> \o s) = Len(s) + 1
         /\ Elements(<<x>> \o s) = {x} \cup Elements(s)
         /\ x \notin Elements(s) /\ Distinct(s) => Distinct(<<x>> \o s)
<1> DEFINE t == <<x>> \o s
<1>1. /\ t \in Seq(S) /\ Len(t) = Len(s) + 1
      /\ DOMAIN t = 1..(Len(s) + 1) /\ DOMAIN s = 1..Len(s)
      /\ t[1] = x /\ \A i \in 1..Len(s) : t[i + 1] = s[i]
  OBVIOUS
<1>2. \A i \in DOMAIN t : i = 1 \/ (i - 1 \in DOMAIN s /\ t[i] = s[i - 1])
  BY <1>1
<1> HIDE DEF t
<1>3. Elements(t) = {x} \cup Elements(s)
  <2>1. 1 \in DOMAIN t /\ \A i \in DOMAIN s : i + 1 \in DOMAIN t /\ t[i + 1] = s[i]
    BY <1>1
  <2>2. ASSUME NEW y PROVE y \in Elements(t) <=> y = x \/ y \in Elements(s)
    BY SMTT(40), <1>1, <1>2, <2>1 DEF Elements
  <2>3. QED BY <2>2
<1>4. ASSUME x \notin Elements(s), Distinct(s) PROVE Distinct(t)
  BY <1>1, <1>2, <1>4 DEF Elements, Distinct
<1>5. QED BY <1>1, <1>3, <1>4 DEF t

(* A list without its first element.                                       *)
LEMMA Popped ==
  ASSUME NEW S, NEW s \in Seq(S), s # <<>>
  PROVE  /\ Head(s) \in S /\ Tail(s) \in Seq(S)
         /\ Len(Tail(s)) = Len(s) - 1
         /\ Head(s) \in Elements(s)
         /\ Elements(s) = {Head(s)} \cup Elements(Tail(s))
         /\ Distinct(s) => Distinct(Tail(s)) /\ Head(s) \notin Elements(Tail(s))
<1> DEFINE t == Tail(s)
<1>1. /\ Head(s) \in S /\ t \in Seq(S) /\ Len(t) = Len(s) - 1
      /\ DOMAIN s = 1..Len(s) /\ DOMAIN t = 1..(Len(s) - 1) /\ Len(s) \in Nat \ {0}
      /\ Head(s) = s[1] /\ \A i \in 1..(Len(s) - 1) : t[i] = s[i + 1]
  OBVIOUS
<1>2. \A i \in DOMAIN s : i = 1 \/ (i - 1 \in DOMAIN t /\ s[i] = t[i - 1])
  BY <1>1
<1> HIDE DEF t
<1>3. 1 \in DOMAIN s /\ \A i \in DOMAIN t : i + 1 \in DOMAIN s /\ i + 1 # 1 /\ t[i] = s[i + 1]
  BY <1>1
<1>4. Elements(s) = {Head(s)} \cup Elements(t) /\ Head(s) \in Elements(s)
  <2>1. ASSUME NEW y
      PROVE y \in Elements(s) <=> y = Head(s) \/ y \in Elements(t)
    BY SMTT(40), <1>1, <1>2, <1>3 DEF Elements
  <2>2. QED BY <2>1
<1>5. ASSUME Distinct(s) PROVE Distinct(t) /\ Head(s) \notin Elements(t)
  BY <1>1, <1>3, <1>5 DEF Elements, Distinct
<1>6. QED BY <1>1, <1>4, <1>5 DEF t

(* No step loses a sleeper or lists a worker twice: this is where the      *)
(* hand-over-hand locking is used.                                         *)
LEMMA ListStep ==
  TypeOK /\ LockDiscipline /\ ClientState /\ ListDiscipline /\ [Next]_vars => ListDiscipline'
<1> SUFFICES ASSUME TypeOK, LockDiscipline, ClientState, ListDiscipline,
    [Next]_vars PROVE ListDiscipline'
  OBVIOUS
<1>0. Elements(waiting_list) \subseteq Workers
  <2>1. waiting_list \in Seq(Workers)
    BY DEF TypeOK
  <2>2. QED BY <2>1 DEF Elements
<1> USE DEF TypeOK, ListDiscipline, Listed, Drowsy, Signalling, vars,
    poolVars, fixedVars, workerVars, clientVars, histVars
<1>1. ASSUME NEW w \in Workers, WorkerStops(w) PROVE ListDiscipline'
  <2>1. /\ wpc[w] = "lock" /\ wpc'[w] = "exited"
        /\ \A v \in Workers : v # w => wpc'[v] = wpc[v]
    BY <1>1 DEF WorkerStops, EnterGetNextJob
  <2>2. state' = "STOP" /\ UNCHANGED <<waiting_list, marked_as_waiting, cpc, at>>
    BY <1>1 DEF WorkerStops
  <2>3. QED BY <1>0, <2>1, <2>2
<1>2. ASSUME NEW w \in Workers, WorkerTakesJob(w) PROVE ListDiscipline'
  BY <1>2 DEF WorkerTakesJob, EnterGetNextJob, PopJob
<1>3. ASSUME NEW w \in Workers, WorkerAllocFails(w) PROVE ListDiscipline'
  BY <1>3 DEF WorkerAllocFails, EnterGetNextJob, NotListedYet
<1>4. ASSUME NEW w \in Workers, WorkerIdles(w) PROVE ListDiscipline'
  <2>1. /\ wpc[w] = "lock" /\ wpc'[w] = "lockw"
        /\ \A v \in Workers : v # w => wpc'[v] = wpc[v]
    BY <1>4 DEF WorkerIdles, EnterGetNextJob
  <2>2. UNCHANGED <<state, cpc, at>>
    BY <1>4 DEF WorkerIdles
  <2>3. /\ w \in Elements(waiting_list') /\ Distinct(waiting_list')
        /\ marked_as_waiting'[w]
        /\ Elements(waiting_list) \subseteq Elements(waiting_list')
        /\ Elements(waiting_list') \subseteq {w} \cup Elements(waiting_list)
        /\ \A v \in Workers : v # w => marked_as_waiting'[v] = marked_as_waiting[v]
    <3>1. CASE marked_as_waiting[w]
      <4>1. UNCHANGED <<waiting_list, marked_as_waiting>>
        BY <1>4, <3>1 DEF WorkerIdles, NotListedYet
      <4>2. w \in Elements(waiting_list)
        BY <3>1, <2>1
      <4>3. QED BY <3>1, <4>1, <4>2
    <3>2. CASE ~marked_as_waiting[w]
      <4>1. /\ marked_as_waiting' = [marked_as_waiting EXCEPT ![w] = TRUE]
            /\ waiting_list' = <<w>> \o waiting_list
        BY <1>4, <3>2 DEF WorkerIdles, NotListedYet
      <4>2. w \notin Elements(waiting_list)
        BY <3>2
      <4>3. QED BY <4>1, <4>2, Prepended
    <3>3. QED BY <3>1, <3>2
  <2>4. QED BY <1>0, <2>1, <2>2, <2>3
<1>5. ASSUME NEW w \in Workers, WorkerLocksOwn(w) PROVE ListDiscipline'
  BY <1>5 DEF WorkerLocksOwn
<1>6. ASSUME NEW w \in Workers, WorkerSleeps(w) PROVE ListDiscipline'
  BY <1>6 DEF WorkerSleeps
<1>7. ASSUME NEW w \in Workers, WorkerWakesUnsignalled(w) PROVE ListDiscipline'
  BY <1>7 DEF WorkerWakesUnsignalled
<1>8. ASSUME NEW w \in Workers, WorkerResumes(w) PROVE ListDiscipline'
  BY <1>8 DEF WorkerResumes
<1>9. ASSUME NEW w \in Workers, WorkerRuns(w) PROVE ListDiscipline'
  BY <1>9 DEF WorkerRuns
<1>10. ASSUME NEW k \in WaitArgs, WaitCall(k) PROVE ListDiscipline'
  BY <1>10 DEF WaitCall, AtLeastZero
<1>11. CASE SpawnWorker
  BY <1>11 DEF SpawnWorker, ClientState, Workers
<1>12. CASE SpawnFails
  BY <1>12 DEF SpawnFails
<1>13. CASE SetupSleeps
  BY <1>13 DEF SetupSleeps, ClientHoldsPool
<1>14. CASE SetupAllWaiting
  BY <1>14 DEF SetupAllWaiting, ClientHoldsPool
<1>15. CASE SetupReturns
  BY <1>15 DEF SetupReturns, SetupFailed
<1>16. CASE SubmitRunsInline
  BY <1>16 DEF SubmitRunsInline
<1>17. CASE SubmitFails
  BY <1>17 DEF SubmitFails
<1>18. CASE SubmitCall
  BY <1>18 DEF SubmitCall
<1>19. CASE SubmitSleeps
  BY <1>19 DEF SubmitSleeps, ClientHoldsPool, QueueLimit
<1>20. CASE SubmitWakesNobody
  BY <1>20 DEF SubmitWakesNobody, SubmitPushes, ClientHoldsPool
<1>21. CASE SubmitTakesWaiter
  <2> DEFINE h == Head(waiting_list)
  <2>1. /\ h \in Workers /\ Distinct(waiting_list') /\ h \notin Elements(waiting_list')
        /\ Elements(waiting_list) = {h} \cup Elements(waiting_list')
    BY <1>21, Popped DEF SubmitTakesWaiter
  <2>2. /\ UNCHANGED <<state, wpc>> /\ at' = h /\ cpc = "submit" /\ cpc' = "sublockw"
        /\ marked_as_waiting' = [marked_as_waiting EXCEPT ![h] = FALSE]
    BY <1>21 DEF SubmitTakesWaiter, SubmitPushes
  <2> HIDE DEF h
  <2>3. \A v \in Workers : wpc[v] # "lockw"
    BY <1>21 DEF SubmitTakesWaiter, SubmitPushes, ClientHoldsPool,
        LockDiscipline, Workers, Nobody
  <2>4. QED BY <1>0, <2>1, <2>2, <2>3
<1>22. CASE SubmitLocksWorker
  BY <1>22 DEF SubmitLocksWorker
<1>23. CASE SubmitSignalsWorker
  <2>1. at \in Workers /\ wpc[at] # "bwait"
    BY <1>23 DEF SubmitSignalsWorker, ClientState, LockDiscipline, Workers,
        Client
  <2>2. /\ UNCHANGED <<state, marked_as_waiting, waiting_list, at>>
        /\ cpc' = "idle"
        /\ \A v \in Workers : wpc'[v] = IF v = at /\ wpc[v] = "waiting" THEN "wake" ELSE wpc[v]
    BY <1>23 DEF SubmitSignalsWorker, SignalWorker
  <2>3. ASSUME NEW v \in Workers, wpc'[v] \in {"lockw", "bwait", "waiting"}
        PROVE  v \in Elements(waiting_list)
    <3>1. CASE v = at
      BY <2>1, <2>2, <2>3, <3>1
    <3>2. CASE v # at
      BY <1>23, <2>2, <2>3, <3>2 DEF SubmitSignalsWorker
    <3>3. QED BY <3>1, <3>2
  <2>4. \A v \in Workers : /\ wpc'[v] = "none" <=> wpc[v] = "none"
                           /\ wpc'[v] = "exited" <=> wpc[v] = "exited"
                           /\ wpc'[v] = "lockw" <=> wpc[v] = "lockw"
    BY <2>2
  <2>5. QED BY <1>0, <2>2, <2>3, <2>4
<1>24. CASE WaitSleeps
  BY <1>24 DEF WaitSleeps, ClientHoldsPool, WaitOver
<1>25. CASE WaitReturns
  BY <1>25 DEF WaitReturns, ClientHoldsPool, WaitOver
<1>26. CASE DestroyDummy
  BY <1>26 DEF DestroyDummy
<1>27. CASE DestroyCall
  BY <1>27 DEF DestroyCall
<1>28. CASE DestroyStops
  BY <1>28 DEF DestroyStops, JoinLoop, ClientHoldsPool
<1>29. CASE DestroySignals
  BY <1>29 DEF DestroySignals, SignalWorker
<1>30. CASE DestroyJoins
  BY <1>30 DEF DestroyJoins, JoinLoop, ThreadEnded
<1>31. CASE ClientWakesUnsignalled
  BY <1>31 DEF ClientWakesUnsignalled
<1>32. CASE UNCHANGED vars
  BY <1>32
<1> QED BY <1>1, <1>2, <1>3, <1>4, <1>5, <1>6, <1>7, <1>8, <1>9, <1>10,
    <1>11, <1>12, <1>13, <1>14, <1>15, <1>16, <1>17, <1>18, <1>19, <1>20,
    <1>21, <1>22, <1>23, <1>24, <1>25, <1>26, <1>27, <1>28, <1>29, <1>30,
    <1>31, <1>32 DEF Next, WorkerStep, ClientStep, ClientCall, Environment,
    Terminated

(* No step leaves a queued job to sleepers only.                           *)
LEMMA WakeupStep ==
  TypeOK /\ LockDiscipline /\ ClientState /\ ListDiscipline /\ NoLostWakeup /\ [Next]_vars => NoLostWakeup'
<1> SUFFICES ASSUME TypeOK, LockDiscipline, ClientState, ListDiscipline,
    NoLostWakeup, [Next]_vars PROVE NoLostWakeup'
  OBVIOUS
<1> USE DEF TypeOK, NoLostWakeup, Awake, Drowsy, Signalling, vars, poolVars,
    fixedVars, workerVars, clientVars, histVars
<1>1. ASSUME NEW w \in Workers, WorkerStops(w) PROVE NoLostWakeup'
  BY <1>1 DEF WorkerStops, EnterGetNextJob, ClientState
<1>2. ASSUME NEW w \in Workers, WorkerTakesJob(w) PROVE NoLostWakeup'
  BY <1>2 DEF WorkerTakesJob, EnterGetNextJob, PopJob
<1>3. ASSUME NEW w \in Workers, WorkerAllocFails(w) PROVE NoLostWakeup'
  BY <1>3 DEF WorkerAllocFails, EnterGetNextJob, NotListedYet
<1>4. ASSUME NEW w \in Workers, WorkerIdles(w) PROVE NoLostWakeup'
  BY <1>4 DEF WorkerIdles, EnterGetNextJob, NotListedYet, KeepsPoolMutex
<1>5. ASSUME NEW w \in Workers, WorkerLocksOwn(w) PROVE NoLostWakeup'
  BY <1>5 DEF WorkerLocksOwn
<1>6. ASSUME NEW w \in Workers, WorkerSleeps(w) PROVE NoLostWakeup'
  BY <1>6 DEF WorkerSleeps
<1>7. ASSUME NEW w \in Workers, WorkerWakesUnsignalled(w) PROVE NoLostWakeup'
  BY <1>7 DEF WorkerWakesUnsignalled
<1>8. ASSUME NEW w \in Workers, WorkerResumes(w) PROVE NoLostWakeup'
  BY <1>8 DEF WorkerResumes
<1>9. ASSUME NEW w \in Workers, WorkerRuns(w) PROVE NoLostWakeup'
  BY <1>9 DEF WorkerRuns
<1>10. ASSUME NEW k \in WaitArgs, WaitCall(k) PROVE NoLostWakeup'
  BY <1>10 DEF WaitCall, AtLeastZero
<1>11. CASE SpawnWorker
  BY <1>11 DEF SpawnWorker
<1>12. CASE SpawnFails
  BY <1>12 DEF SpawnFails
<1>13. CASE SetupSleeps
  BY <1>13 DEF SetupSleeps, ClientHoldsPool
<1>14. CASE SetupAllWaiting
  BY <1>14 DEF SetupAllWaiting, ClientHoldsPool
<1>15. CASE SetupReturns
  BY <1>15 DEF SetupReturns, SetupFailed
<1>16. CASE SubmitRunsInline
  BY <1>16 DEF SubmitRunsInline
<1>17. CASE SubmitFails
  BY <1>17 DEF SubmitFails
<1>18. CASE SubmitCall
  BY <1>18 DEF SubmitCall
<1>19. CASE SubmitSleeps
  BY <1>19 DEF SubmitSleeps, ClientHoldsPool, QueueLimit
<1>20. CASE SubmitWakesNobody
  <2>1. waiting_list = <<>> /\ cpc = "submit" /\ UNCHANGED wpc
    BY <1>20 DEF SubmitWakesNobody, SubmitPushes
  <2>2. \A w \in Workers : wpc[w] \notin {"lockw", "bwait", "waiting"}
    BY <2>1 DEF ListDiscipline, Listed, Elements
  <2>3. QED BY <2>1, <2>2 DEF WorkerPCs
<1>21. CASE SubmitTakesWaiter
  <2> DEFINE h == Head(waiting_list)
  <2>1. h \in Workers /\ h \in Listed
    BY <1>21, Popped DEF SubmitTakesWaiter, Listed
  <2>2. at' = h /\ cpc = "submit" /\ cpc' = "sublockw" /\ UNCHANGED wpc
    BY <1>21 DEF SubmitTakesWaiter, SubmitPushes
  <2> HIDE DEF h
  <2>3. wpc[h] \notin {"none", "exited"}
    BY <2>1, <2>2 DEF ListDiscipline, ClientState
  <2>4. QED BY <2>1, <2>2, <2>3 DEF WorkerPCs
<1>22. CASE SubmitLocksWorker
  BY <1>22 DEF SubmitLocksWorker
<1>23. CASE SubmitSignalsWorker
  <2>1. at \in Workers /\ wpc[at] # "bwait"
    BY <1>23 DEF SubmitSignalsWorker, ClientState, LockDiscipline, Workers,
        Client
  <2>2. wpc[at] = "lockw" => job_queue = <<>>
    BY <2>1 DEF LockDiscipline
  <2>3. /\ job_queue' = job_queue
        /\ \A v \in Workers : wpc'[v] = IF v = at /\ wpc[v] = "waiting" THEN "wake" ELSE wpc[v]
    BY <1>23 DEF SubmitSignalsWorker, SignalWorker
  <2>4. CASE wpc[at] = "waiting"
    BY <2>1, <2>3, <2>4
  <2>5. CASE wpc[at] # "waiting" /\ job_queue # <<>>
    <3>1. ASSUME \E w \in Workers : wpc'[w] \notin {"none", "exited"}
          PROVE  Awake # {}
      BY <2>1, <2>2, <2>3, <2>5, <3>1
    <3>2. \A v \in Workers : wpc'[v] = wpc[v]
      BY <2>3, <2>5
    <3>3. QED BY <3>1, <3>2
  <2>6. QED BY <2>3, <2>4, <2>5
<1>24. CASE WaitSleeps
  BY <1>24 DEF WaitSleeps, ClientHoldsPool, WaitOver
<1>25. CASE WaitReturns
  BY <1>25 DEF WaitReturns, ClientHoldsPool, WaitOver
<1>26. CASE DestroyDummy
  BY <1>26 DEF DestroyDummy
<1>27. CASE DestroyCall
  BY <1>27 DEF DestroyCall
<1>28. CASE DestroyStops
  BY <1>28 DEF DestroyStops, JoinLoop, ClientHoldsPool
<1>29. CASE DestroySignals
  BY <1>29 DEF DestroySignals, SignalWorker
<1>30. CASE DestroyJoins
  BY <1>30 DEF DestroyJoins, JoinLoop, ThreadEnded
<1>31. CASE ClientWakesUnsignalled
  BY <1>31 DEF ClientWakesUnsignalled
<1>32. CASE UNCHANGED vars
  BY <1>32
<1> QED BY <1>1, <1>2, <1>3, <1>4, <1>5, <1>6, <1>7, <1>8, <1>9, <1>10,
    <1>11, <1>12, <1>13, <1>14, <1>15, <1>16, <1>17, <1>18, <1>19, <1>20,
    <1>21, <1>22, <1>23, <1>24, <1>25, <1>26, <1>27, <1>28, <1>29, <1>30,
    <1>31, <1>32 DEF Next, WorkerStep, ClientStep, ClientCall, Environment,
    Terminated

(* No step makes the condition the client waits for false and leaves the   *)
(* client asleep.                                                          *)
LEMMA SleepStep ==
  TypeOK /\ ClientState /\ ThresholdSet /\ ClientSleepsForCause /\ [Next]_vars => (ThresholdSet /\ ClientSleepsForCause)'
<1> SUFFICES ASSUME TypeOK, ClientState, ThresholdSet, ClientSleepsForCause,
    [Next]_vars PROVE (ThresholdSet /\ ClientSleepsForCause)'
  OBVIOUS
<1> USE DEF TypeOK, ThresholdSet, ClientSleepsForCause, QueueLimit, vars,
    poolVars, fixedVars, workerVars, clientVars, histVars
<1>1. ASSUME NEW w \in Workers, WorkerStops(w)
    PROVE (ThresholdSet /\ ClientSleepsForCause)'
  <2>1. asleep' => asleep /\ ~JobDoneSignal(w)
    BY ZenonT(20), <1>1 DEF WorkerStops, SignalClient
  <2>2. /\ pending_jobs_count' = PendingAfter(w)
        /\ UNCHANGED <<cpc, limit, signaling_threshold, waiting_count,
            worker_threads_count>>
    BY <1>1 DEF WorkerStops, EnterGetNextJob
  <2>3. finished[w] /\ asleep' => pending_jobs_count' > signaling_threshold
    BY <2>1, <2>2 DEF JobDoneSignal, PendingAfter
  <2>4. ~finished[w] => pending_jobs_count' = pending_jobs_count
    BY <2>2 DEF PendingAfter
  <2>5. QED BY <2>1, <2>2, <2>3, <2>4
<1>2. ASSUME NEW w \in Workers, WorkerTakesJob(w)
    PROVE (ThresholdSet /\ ClientSleepsForCause)'
  <2>1. asleep' => asleep /\ ~JobDoneSignal(w)
    BY ZenonT(20), <1>2 DEF WorkerTakesJob, SignalClient
  <2>2. /\ pending_jobs_count' = PendingAfter(w)
        /\ UNCHANGED <<cpc, limit, signaling_threshold, waiting_count,
            worker_threads_count>>
    BY <1>2 DEF WorkerTakesJob, EnterGetNextJob
  <2>3. finished[w] /\ asleep' => pending_jobs_count' > signaling_threshold
    BY <2>1, <2>2 DEF JobDoneSignal, PendingAfter
  <2>4. ~finished[w] => pending_jobs_count' = pending_jobs_count
    BY <2>2 DEF PendingAfter
  <2>5. QED BY <2>1, <2>2, <2>3, <2>4
<1>3. ASSUME NEW w \in Workers, WorkerAllocFails(w)
    PROVE (ThresholdSet /\ ClientSleepsForCause)'
  <2>1. ~asleep'
    BY ZenonT(20), <1>3 DEF WorkerAllocFails, SignalClient
  <2>2. QED BY <2>1
<1>4. ASSUME NEW w \in Workers, WorkerIdles(w)
    PROVE (ThresholdSet /\ ClientSleepsForCause)'
  <2>1. ~asleep'
    BY ZenonT(20), <1>4 DEF WorkerIdles, SignalClient
  <2>2. QED BY <2>1
<1>5. ASSUME NEW w \in Workers, WorkerLocksOwn(w)
    PROVE (ThresholdSet /\ ClientSleepsForCause)'
  BY <1>5 DEF WorkerLocksOwn
<1>6. ASSUME NEW w \in Workers, WorkerSleeps(w)
    PROVE (ThresholdSet /\ ClientSleepsForCause)'
  BY <1>6 DEF WorkerSleeps
<1>7. ASSUME NEW w \in Workers, WorkerWakesUnsignalled(w)
    PROVE (ThresholdSet /\ ClientSleepsForCause)'
  BY <1>7 DEF WorkerWakesUnsignalled
<1>8. ASSUME NEW w \in Workers, WorkerResumes(w)
    PROVE (ThresholdSet /\ ClientSleepsForCause)'
  BY <1>8 DEF WorkerResumes
<1>9. ASSUME NEW w \in Workers, WorkerRuns(w)
    PROVE (ThresholdSet /\ ClientSleepsForCause)'
  BY <1>9 DEF WorkerRuns
<1>10. ASSUME NEW k \in WaitArgs, WaitCall(k)
    PROVE (ThresholdSet /\ ClientSleepsForCause)'
  BY <1>10 DEF WaitCall, AtLeastZero
<1>11. CASE SpawnWorker
  BY <1>11 DEF SpawnWorker
<1>12. CASE SpawnFails
  BY <1>12 DEF SpawnFails
<1>13. CASE SetupSleeps
  BY <1>13 DEF SetupSleeps, ClientHoldsPool
<1>14. CASE SetupAllWaiting
  BY <1>14 DEF SetupAllWaiting, ClientHoldsPool
<1>15. CASE SetupReturns
  BY <1>15 DEF SetupReturns, SetupFailed
<1>16. CASE SubmitRunsInline
  BY <1>16 DEF SubmitRunsInline
<1>17. CASE SubmitFails
  BY <1>17 DEF SubmitFails
<1>18. CASE SubmitCall
  BY <1>18 DEF SubmitCall
<1>19. CASE SubmitSleeps
  BY <1>19 DEF SubmitSleeps, ClientHoldsPool, QueueLimit
<1>20. CASE SubmitWakesNobody
  BY <1>20 DEF SubmitWakesNobody, SubmitPushes, ClientHoldsPool
<1>21. CASE SubmitTakesWaiter
  BY <1>21 DEF SubmitTakesWaiter, SubmitPushes, ClientHoldsPool
<1>22. CASE SubmitLocksWorker
  BY <1>22 DEF SubmitLocksWorker
<1>23. CASE SubmitSignalsWorker
  BY <1>23 DEF SubmitSignalsWorker, SignalWorker
<1>24. CASE WaitSleeps
  BY <1>24 DEF WaitSleeps, ClientHoldsPool, WaitOver
<1>25. CASE WaitReturns
  BY <1>25 DEF WaitReturns, ClientHoldsPool, WaitOver
<1>26. CASE DestroyDummy
  BY <1>26 DEF DestroyDummy
<1>27. CASE DestroyCall
  BY <1>27 DEF DestroyCall
<1>28. CASE DestroyStops
  BY <1>28 DEF DestroyStops, JoinLoop, ClientHoldsPool
<1>29. CASE DestroySignals
  BY <1>29 DEF DestroySignals, SignalWorker
<1>30. CASE DestroyJoins
  BY <1>30 DEF DestroyJoins, JoinLoop, ThreadEnded
<1>31. CASE ClientWakesUnsignalled
  BY <1>31 DEF ClientWakesUnsignalled
<1>32. CASE UNCHANGED vars
  BY <1>32
<1> QED BY <1>1, <1>2, <1>3, <1>4, <1>5, <1>6, <1>7, <1>8, <1>9, <1>10,
    <1>11, <1>12, <1>13, <1>14, <1>15, <1>16, <1>17, <1>18, <1>19, <1>20,
    <1>21, <1>22, <1>23, <1>24, <1>25, <1>26, <1>27, <1>28, <1>29, <1>30,
    <1>31, <1>32 DEF Next, WorkerStep, ClientStep, ClientCall, Environment,
    Terminated

(* Every step changes pending_jobs_count as it changes the queue and the   *)
(* workers that have a job to report.                                      *)
LEMMA AccountingStep ==
  TypeOK /\ ClientState /\ PendingAccounting /\ [Next]_vars => PendingAccounting'
<1> SUFFICES ASSUME TypeOK, ClientState, PendingAccounting, [Next]_vars
    PROVE PendingAccounting'
  OBVIOUS
<1> USE DEF TypeOK, PendingAccounting, vars, poolVars, fixedVars,
    workerVars, clientVars, histVars
<1>0. /\ IsFiniteSet(Busy) /\ Cardinality(Busy) \in Nat
      /\ \A w \in Workers :
            /\ w \in Busy => Cardinality(Busy \ {w}) = Cardinality(Busy) - 1
            /\ w \notin Busy => Cardinality(Busy \cup {w}) = Cardinality(Busy) + 1
  <2>1. IsFiniteSet(Busy) /\ Cardinality(Busy) \in Nat
    BY WorkerSets DEF Busy
  <2>2. QED BY <2>1, FS_AddElement, FS_RemoveElement
<1>1. ASSUME NEW w \in Workers, WorkerStops(w) PROVE PendingAccounting'
  <2>1. wpc[w] = "lock" /\ Busy' = Busy \ {w}
    BY <1>1 DEF WorkerStops, EnterGetNextJob, Busy
  <2>2. w \in Busy <=> finished[w]
    BY <2>1 DEF Busy
  <2>3. pending_jobs_count' = PendingAfter(w) /\ UNCHANGED job_queue
    BY <1>1 DEF WorkerStops, EnterGetNextJob
  <2>4. CASE finished[w]
    <3>1. w \in Busy /\ pending_jobs_count' = pending_jobs_count - 1
      BY <2>2, <2>3, <2>4 DEF PendingAfter
    <3>2. QED BY <1>0, <2>1, <2>3, <3>1
  <2>5. CASE ~finished[w]
    <3>1. w \notin Busy /\ pending_jobs_count' = pending_jobs_count
      BY <2>2, <2>3, <2>5 DEF PendingAfter
    <3>2. QED BY <1>0, <2>1, <2>3, <3>1
  <2>6. QED BY <2>4, <2>5
<1>2. ASSUME NEW w \in Workers, WorkerTakesJob(w) PROVE PendingAccounting'
  <2>1. wpc[w] = "lock" /\ Busy' = Busy \cup {w}
    BY <1>2 DEF WorkerTakesJob, EnterGetNextJob, Busy
  <2>2. w \in Busy <=> finished[w]
    BY <2>1 DEF Busy
  <2>3. /\ pending_jobs_count' = PendingAfter(w)
        /\ Len(job_queue') = Len(job_queue) - 1 /\ Len(job_queue) \in Nat
    BY <1>2, Popped DEF WorkerTakesJob, EnterGetNextJob, PopJob
  <2>4. CASE finished[w]
    <3>1. w \in Busy /\ pending_jobs_count' = pending_jobs_count - 1
      BY <2>2, <2>3, <2>4 DEF PendingAfter
    <3>2. Busy' = Busy
      BY <2>1, <3>1
    <3>3. QED BY <1>0, <2>3, <3>1, <3>2
  <2>5. CASE ~finished[w]
    <3>1. w \notin Busy /\ pending_jobs_count' = pending_jobs_count
      BY <2>2, <2>3, <2>5 DEF PendingAfter
    <3>2. QED BY SMTT(40), <1>0, <2>1, <2>3, <3>1
  <2>6. QED BY <2>4, <2>5
<1>3. ASSUME NEW w \in Workers, WorkerAllocFails(w) PROVE PendingAccounting'
  <2>1. wpc[w] = "lock" /\ Busy' = Busy \ {w}
    BY <1>3 DEF WorkerAllocFails, EnterGetNextJob, Busy
  <2>2. w \in Busy <=> finished[w]
    BY <2>1 DEF Busy
  <2>3. pending_jobs_count' = PendingAfter(w) /\ UNCHANGED job_queue
    BY <1>3 DEF WorkerAllocFails, EnterGetNextJob
  <2>4. CASE finished[w]
    <3>1. w \in Busy /\ pending_jobs_count' = pending_jobs_count - 1
      BY <2>2, <2>3, <2>4 DEF PendingAfter
    <3>2. QED BY <1>0, <2>1, <2>3, <3>1
  <2>5. CASE ~finished[w]
    <3>1. w \notin Busy /\ pending_jobs_count' = pending_jobs_count
      BY <2>2, <2>3, <2>5 DEF PendingAfter
    <3>2. QED BY <1>0, <2>1, <2>3, <3>1
  <2>6. QED BY <2>4, <2>5
<1>4. ASSUME NEW w \in Workers, WorkerIdles(w) PROVE PendingAccounting'
  <2>1. wpc[w] = "lock" /\ Busy' = Busy \ {w}
    BY <1>4 DEF WorkerIdles, EnterGetNextJob, Busy
  <2>2. w \in Busy <=> finished[w]
    BY <2>1 DEF Busy
  <2>3. pending_jobs_count' = PendingAfter(w) /\ UNCHANGED job_queue
    BY <1>4 DEF WorkerIdles, EnterGetNextJob
  <2>4. CASE finished[w]
    <3>1. w \in Busy /\ pending_jobs_count' = pending_jobs_count - 1
      BY <2>2, <2>3, <2>4 DEF PendingAfter
    <3>2. QED BY <1>0, <2>1, <2>3, <3>1
  <2>5. CASE ~finished[w]
    <3>1. w \notin Busy /\ pending_jobs_count' = pending_jobs_count
      BY <2>2, <2>3, <2>5 DEF PendingAfter
    <3>2. QED BY <1>0, <2>1, <2>3, <3>1
  <2>6. QED BY <2>4, <2>5
<1>5. ASSUME NEW w \in Workers, WorkerLocksOwn(w) PROVE PendingAccounting'
  <2>1. Busy' = Busy
    BY <1>5 DEF WorkerLocksOwn, Busy, ClientState
  <2>2. QED BY <1>5, <2>1 DEF WorkerLocksOwn
<1>6. ASSUME NEW w \in Workers, WorkerSleeps(w) PROVE PendingAccounting'
  <2>1. Busy' = Busy
    BY <1>6 DEF WorkerSleeps, Busy, ClientState
  <2>2. QED BY <1>6, <2>1 DEF WorkerSleeps
<1>7. ASSUME NEW w \in Workers, WorkerWakesUnsignalled(w)
    PROVE PendingAccounting'
  <2>1. Busy' = Busy
    BY <1>7 DEF WorkerWakesUnsignalled, Busy, ClientState
  <2>2. QED BY <1>7, <2>1 DEF WorkerWakesUnsignalled
<1>8. ASSUME NEW w \in Workers, WorkerResumes(w) PROVE PendingAccounting'
  <2>1. Busy' = Busy
    BY <1>8 DEF WorkerResumes, Busy, ClientState
  <2>2. QED BY <1>8, <2>1 DEF WorkerResumes
<1>9. ASSUME NEW w \in Workers, WorkerRuns(w) PROVE PendingAccounting'
  <2>1. Busy' = Busy
    BY <1>9 DEF WorkerRuns, Busy, ClientState
  <2>2. QED BY <1>9, <2>1 DEF WorkerRuns
<1>10. ASSUME NEW k \in WaitArgs, WaitCall(k) PROVE PendingAccounting'
  BY <1>10 DEF WaitCall, AtLeastZero, Busy
<1>11. CASE SpawnWorker
  <2>1. Busy' = Busy
    BY <1>11 DEF SpawnWorker, Busy, ClientState
  <2>2. QED BY <1>11, <2>1 DEF SpawnWorker
<1>12. CASE SpawnFails
  BY <1>12 DEF SpawnFails, Busy
<1>13. CASE SetupSleeps
  BY <1>13 DEF SetupSleeps, ClientHoldsPool, Busy
<1>14. CASE SetupAllWaiting
  BY <1>14 DEF SetupAllWaiting, ClientHoldsPool, Busy
<1>15. CASE SetupReturns
  BY <1>15 DEF SetupReturns, SetupFailed, Busy
<1>16. CASE SubmitRunsInline
  BY <1>16 DEF SubmitRunsInline, Busy
<1>17. CASE SubmitFails
  BY <1>17 DEF SubmitFails, Busy
<1>18. CASE SubmitCall
  BY <1>18 DEF SubmitCall, Busy
<1>19. CASE SubmitSleeps
  BY <1>19 DEF SubmitSleeps, ClientHoldsPool, QueueLimit, Busy
<1>20. CASE SubmitWakesNobody
  <2>1. Busy' = Busy
    BY <1>20 DEF SubmitWakesNobody, SubmitTakesWaiter, SubmitPushes, Busy
  <2>2. /\ submitted \in Jobs /\ job_queue' = <<submitted>> \o job_queue
        /\ pending_jobs_count' = pending_jobs_count + 1
    BY <1>20 DEF SubmitWakesNobody, SubmitTakesWaiter, SubmitPushes,
        ClientState, Jobs
  <2>3. QED BY <1>0, <2>1, <2>2, Prepended
<1>21. CASE SubmitTakesWaiter
  <2>1. Busy' = Busy
    BY <1>21 DEF SubmitWakesNobody, SubmitTakesWaiter, SubmitPushes, Busy
  <2>2. /\ submitted \in Jobs /\ job_queue' = <<submitted>> \o job_queue
        /\ pending_jobs_count' = pending_jobs_count + 1
    BY <1>21 DEF SubmitWakesNobody, SubmitTakesWaiter, SubmitPushes,
        ClientState, Jobs
  <2>3. QED BY <1>0, <2>1, <2>2, Prepended
<1>22. CASE SubmitLocksWorker
  BY <1>22 DEF SubmitLocksWorker, Busy
<1>23. CASE SubmitSignalsWorker
  <2>1. Busy' = Busy
    BY <1>23 DEF SubmitSignalsWorker, SignalWorker, Busy, ClientState
  <2>2. QED BY <1>23, <2>1 DEF SubmitSignalsWorker, SignalWorker
<1>24. CASE WaitSleeps
  BY <1>24 DEF WaitSleeps, ClientHoldsPool, WaitOver, Busy
<1>25. CASE WaitReturns
  BY <1>25 DEF WaitReturns, ClientHoldsPool, WaitOver, Busy
<1>26. CASE DestroyDummy
  BY <1>26 DEF DestroyDummy, Busy
<1>27. CASE DestroyCall
  BY <1>27 DEF DestroyCall, Busy
<1>28. CASE DestroyStops
  BY <1>28 DEF DestroyStops, JoinLoop, ClientHoldsPool, Busy
<1>29. CASE DestroySignals
  <2>1. Busy' = Busy
    BY <1>29 DEF DestroySignals, SignalWorker, Busy, ClientState
  <2>2. QED BY <1>29, <2>1 DEF DestroySignals, SignalWorker
<1>30. CASE DestroyJoins
  BY <1>30 DEF DestroyJoins, JoinLoop, ThreadEnded, Busy
<1>31. CASE ClientWakesUnsignalled
  BY <1>31 DEF ClientWakesUnsignalled, Busy
<1>32. CASE UNCHANGED vars
  BY <1>32 DEF Busy
<1> QED BY <1>1, <1>2, <1>3, <1>4, <1>5, <1>6, <1>7, <1>8, <1>9, <1>10,
    <1>11, <1>12, <1>13, <1>14, <1>15, <1>16, <1>17, <1>18, <1>19, <1>20,
    <1>21, <1>22, <1>23, <1>24, <1>25, <1>26, <1>27, <1>28, <1>29, <1>30,
    <1>31, <1>32 DEF Next, WorkerStep, ClientStep, ClientCall, Environment,
    Terminated

(* Every step changes waiting_count as it marks and unmarks workers.       *)
LEMMA CountStep ==
  TypeOK /\ LockDiscipline /\ ClientState /\ ListDiscipline /\ WaitersCounted /\ [Next]_vars => WaitersCounted'
<1> SUFFICES ASSUME TypeOK, LockDiscipline, ClientState, ListDiscipline,
    WaitersCounted, [Next]_vars PROVE WaitersCounted'
  OBVIOUS
<1> USE DEF TypeOK, WaitersCounted, Marked, vars, poolVars, fixedVars,
    workerVars, clientVars, histVars
<1>0. /\ Cardinality(Marked) \in Nat
      /\ \A w \in Workers :
            /\ w \notin Marked => Cardinality(Marked \cup {w}) = Cardinality(Marked) + 1
            /\ w \in Marked => Cardinality(Marked \ {w}) = Cardinality(Marked) - 1
  BY ZenonT(60), WorkerSets, FS_AddElement, FS_RemoveElement
<1>1. ASSUME NEW w \in Workers, WorkerStops(w) PROVE WaitersCounted'
  BY <1>1 DEF WorkerStops, EnterGetNextJob
<1>2. ASSUME NEW w \in Workers, WorkerTakesJob(w) PROVE WaitersCounted'
  BY <1>2 DEF WorkerTakesJob, EnterGetNextJob, PopJob
<1>3. ASSUME NEW w \in Workers, WorkerAllocFails(w) PROVE WaitersCounted'
  <2>1. w \notin Marked /\ Marked' = Marked \cup {w}
    BY <1>3 DEF WorkerAllocFails, NotListedYet
  <2>2. QED BY <1>0, <1>3, <2>1 DEF WorkerAllocFails
<1>4. ASSUME NEW w \in Workers, WorkerIdles(w) PROVE WaitersCounted'
  <2>1. CASE marked_as_waiting[w]
    BY <1>4, <2>1 DEF WorkerIdles, NotListedYet
  <2>2. CASE ~marked_as_waiting[w]
    <3>1. w \notin Marked /\ Marked' = Marked \cup {w} /\ waiting_count' = waiting_count + 1
      BY <1>4, <2>2 DEF WorkerIdles, NotListedYet
    <3>2. QED BY <1>0, <3>1
  <2>3. QED BY <2>1, <2>2
<1>5. ASSUME NEW w \in Workers, WorkerLocksOwn(w) PROVE WaitersCounted'
  BY <1>5 DEF WorkerLocksOwn
<1>6. ASSUME NEW w \in Workers, WorkerSleeps(w) PROVE WaitersCounted'
  BY <1>6 DEF WorkerSleeps
<1>7. ASSUME NEW w \in Workers, WorkerWakesUnsignalled(w) PROVE WaitersCounted'
  BY <1>7 DEF WorkerWakesUnsignalled
<1>8. ASSUME NEW w \in Workers, WorkerResumes(w) PROVE WaitersCounted'
  BY <1>8 DEF WorkerResumes
<1>9. ASSUME NEW w \in Workers, WorkerRuns(w) PROVE WaitersCounted'
  BY <1>9 DEF WorkerRuns
<1>10. ASSUME NEW k \in WaitArgs, WaitCall(k) PROVE WaitersCounted'
  BY <1>10 DEF WaitCall, AtLeastZero
<1>11. CASE SpawnWorker
  BY <1>11 DEF SpawnWorker
<1>12. CASE SpawnFails
  BY <1>12 DEF SpawnFails
<1>13. CASE SetupSleeps
  BY <1>13 DEF SetupSleeps, ClientHoldsPool
<1>14. CASE SetupAllWaiting
  BY <1>14 DEF SetupAllWaiting, ClientHoldsPool
<1>15. CASE SetupReturns
  BY <1>15 DEF SetupReturns, SetupFailed
<1>16. CASE SubmitRunsInline
  BY <1>16 DEF SubmitRunsInline
<1>17. CASE SubmitFails
  BY <1>17 DEF SubmitFails
<1>18. CASE SubmitCall
  BY <1>18 DEF SubmitCall
<1>19. CASE SubmitSleeps
  BY <1>19 DEF SubmitSleeps, ClientHoldsPool, QueueLimit
<1>20. CASE SubmitWakesNobody
  BY <1>20 DEF SubmitWakesNobody, SubmitPushes, ClientHoldsPool
<1>21. CASE SubmitTakesWaiter
  <2> DEFINE h == Head(waiting_list)
  <2>1. h \in Workers /\ h \in Marked
    BY <1>21, Popped DEF SubmitTakesWaiter, ListDiscipline, Listed
  <2>2. Marked' = Marked \ {h} /\ waiting_count' = waiting_count - 1
    BY <1>21 DEF SubmitTakesWaiter
  <2> HIDE DEF h
  <2>3. QED BY <1>0, <2>1, <2>2
<1>22. CASE SubmitLocksWorker
  BY <1>22 DEF SubmitLocksWorker
<1>23. CASE SubmitSignalsWorker
  BY <1>23 DEF SubmitSignalsWorker, SignalWorker
<1>24. CASE WaitSleeps
  BY <1>24 DEF WaitSleeps, ClientHoldsPool, WaitOver
<1>25. CASE WaitReturns
  BY <1>25 DEF WaitReturns, ClientHoldsPool, WaitOver
<1>26. CASE DestroyDummy
  BY <1>26 DEF DestroyDummy
<1>27. CASE DestroyCall
  BY <1>27 DEF DestroyCall
<1>28. CASE DestroyStops
  BY <1>28 DEF DestroyStops, JoinLoop, ClientHoldsPool
<1>29. CASE DestroySignals
  BY <1>29 DEF DestroySignals, SignalWorker
<1>30. CASE DestroyJoins
  BY <1>30 DEF DestroyJoins, JoinLoop, ThreadEnded
<1>31. CASE ClientWakesUnsignalled
  BY <1>31 DEF ClientWakesUnsignalled
<1>32. CASE UNCHANGED vars
  BY <1>32
<1> QED BY <1>1, <1>2, <1>3, <1>4, <1>5, <1>6, <1>7, <1>8, <1>9, <1>10,
    <1>11, <1>12, <1>13, <1>14, <1>15, <1>16, <1>17, <1>18, <1>19, <1>20,
    <1>21, <1>22, <1>23, <1>24, <1>25, <1>26, <1>27, <1>28, <1>29, <1>30,
    <1>31, <1>32 DEF Next, WorkerStep, ClientStep, ClientCall, Environment,
    Terminated

(* The size of 1..n.                                                       *)
LEMMA IntervalSize ==
  ASSUME NEW n \in Nat
  PROVE  IsFiniteSet(1..n) /\ Cardinality(1..n) = n
BY FS_Interval

(* What n + 1 adds to 1..n.                                                *)
LEMMA IntervalGrows ==
  ASSUME NEW n \in Nat
  PROVE  1..(n + 1) = (1..n) \cup {n + 1} /\ n + 1 \notin 1..n
OBVIOUS

(* Every step moves a job along from the queue to a worker to done, and    *)
(* leaves every other job where it is.                                     *)
LEMMA OnceStep ==
  TypeOK /\ ClientState /\ OnceEach /\ [Next]_vars => OnceEach'
<1> SUFFICES ASSUME TypeOK, ClientState, OnceEach, [Next]_vars PROVE OnceEach'
  OBVIOUS
<1> USE DEF TypeOK, OnceEach, Running, vars, poolVars, fixedVars,
    workerVars, clientVars, histVars
<1>0. ASSUME UNCHANGED <<job_queue, done, cur>>, Accepted' = Accepted,
             \A v \in Workers : wpc'[v] = "run" <=> wpc[v] = "run"
      PROVE  OnceEach'
  <2>1. Running' = Running
    BY <1>0
  <2>2. \A u, v \in Workers :
          wpc'[u] = "run" /\ wpc'[v] = "run" /\ cur'[u] = cur'[v] => u = v
    BY <1>0
  <2> HIDE DEF Running
  <2>3. QED BY <1>0, <2>1, <2>2
<1>1. ASSUME NEW w \in Workers, WorkerStops(w) PROVE OnceEach'
  <2>1. \A v \in Workers : wpc'[v] = "run" <=> wpc[v] = "run"
    BY <1>1 DEF WorkerStops, EnterGetNextJob, ClientState
  <2>2. UNCHANGED <<job_queue, done, cur>> /\ Accepted' = Accepted
    BY <1>1 DEF WorkerStops, Accepted
  <2>3. QED BY <1>0, <2>1, <2>2
<1>2. ASSUME NEW w \in Workers, WorkerTakesJob(w) PROVE OnceEach'
  <2> DEFINE j == Head(job_queue)
  <2>1. /\ j \in Elements(job_queue) /\ j \notin Elements(job_queue')
        /\ Elements(job_queue) = {j} \cup Elements(job_queue')
        /\ Distinct(job_queue')
    BY <1>2, Popped DEF WorkerTakesJob, PopJob
  <2>2. /\ wpc[w] = "lock" /\ UNCHANGED <<cpc, submitted, done>>
        /\ wpc' = [wpc EXCEPT ![w] = "run"] /\ cur' = [cur EXCEPT ![w] = j]
    BY <1>2 DEF WorkerTakesJob, EnterGetNextJob
  <2> HIDE DEF j
  <2>3. Running' = Running \cup {j}
    BY <2>2
  <2>4. j \notin Running
    BY <2>1
  <2>5. \A u, v \in Workers :
          wpc'[u] = "run" /\ wpc'[v] = "run" /\ cur'[u] = cur'[v] => u = v
    BY <2>2, <2>4
  <2> HIDE DEF Running
  <2>6. QED BY <2>1, <2>2, <2>3, <2>4, <2>5 DEF Accepted
<1>3. ASSUME NEW w \in Workers, WorkerAllocFails(w) PROVE OnceEach'
  <2>1. \A v \in Workers : wpc'[v] = "run" <=> wpc[v] = "run"
    BY <1>3 DEF WorkerAllocFails, EnterGetNextJob, NotListedYet, ClientState
  <2>2. UNCHANGED <<job_queue, done, cur>> /\ Accepted' = Accepted
    BY <1>3 DEF WorkerAllocFails, Accepted
  <2>3. QED BY <1>0, <2>1, <2>2
<1>4. ASSUME NEW w \in Workers, WorkerIdles(w) PROVE OnceEach'
  <2>1. \A v \in Workers : wpc'[v] = "run" <=> wpc[v] = "run"
    BY <1>4 DEF WorkerIdles, EnterGetNextJob, NotListedYet, KeepsPoolMutex,
        ClientState
  <2>2. UNCHANGED <<job_queue, done, cur>> /\ Accepted' = Accepted
    BY <1>4 DEF WorkerIdles, KeepsPoolMutex, Accepted
  <2>3. QED BY <1>0, <2>1, <2>2
<1>5. ASSUME NEW w \in Workers, WorkerLocksOwn(w) PROVE OnceEach'
  <2>1. \A v \in Workers : wpc'[v] = "run" <=> wpc[v] = "run"
    BY <1>5 DEF WorkerLocksOwn, ClientState
  <2>2. UNCHANGED <<job_queue, done, cur>> /\ Accepted' = Accepted
    BY <1>5 DEF WorkerLocksOwn, Accepted
  <2>3. QED BY <1>0, <2>1, <2>2
<1>6. ASSUME NEW w \in Workers, WorkerSleeps(w) PROVE OnceEach'
  <2>1. \A v \in Workers : wpc'[v] = "run" <=> wpc[v] = "run"
    BY <1>6 DEF WorkerSleeps, ClientState
  <2>2. UNCHANGED <<job_queue, done, cur>> /\ Accepted' = Accepted
    BY <1>6 DEF WorkerSleeps, Accepted
  <2>3. QED BY <1>0, <2>1, <2>2
<1>7. ASSUME NEW w \in Workers, WorkerWakesUnsignalled(w) PROVE OnceEach'
  <2>1. \A v \in Workers : wpc'[v] = "run" <=> wpc[v] = "run"
    BY <1>7 DEF WorkerWakesUnsignalled, ClientState
  <2>2. UNCHANGED <<job_queue, done, cur>> /\ Accepted' = Accepted
    BY <1>7 DEF WorkerWakesUnsignalled, Accepted
  <2>3. QED BY <1>0, <2>1, <2>2
<1>8. ASSUME NEW w \in Workers, WorkerResumes(w) PROVE OnceEach'
  <2>1. \A v \in Workers : wpc'[v] = "run" <=> wpc[v] = "run"
    BY <1>8 DEF WorkerResumes, ClientState
  <2>2. UNCHANGED <<job_queue, done, cur>> /\ Accepted' = Accepted
    BY <1>8 DEF WorkerResumes, Accepted
  <2>3. QED BY <1>0, <2>1, <2>2
<1>9. ASSUME NEW w \in Workers, WorkerRuns(w) PROVE OnceEach'
  <2>1. /\ wpc[w] = "run" /\ done' = done \cup {cur[w]}
        /\ UNCHANGED <<cpc, submitted, job_queue>>
        /\ wpc' = [wpc EXCEPT ![w] = "lock"] /\ cur' = [cur EXCEPT ![w] = 0]
    BY <1>9 DEF WorkerRuns
  <2>2. cur[w] \in Running
    BY <2>1
  <2>3. Running' = Running \ {cur[w]}
    BY SMTT(40), <2>1
  <2>4. \A u, v \in Workers :
          wpc'[u] = "run" /\ wpc'[v] = "run" /\ cur'[u] = cur'[v] => u = v
    BY <2>1
  <2> HIDE DEF Running
  <2>5. QED BY <2>1, <2>2, <2>3, <2>4 DEF Accepted
<1>10. ASSUME NEW k \in WaitArgs, WaitCall(k) PROVE OnceEach'
  <2>1. \A v \in Workers : wpc'[v] = "run" <=> wpc[v] = "run"
    BY <1>10 DEF WaitCall, AtLeastZero, ClientState
  <2>2. UNCHANGED <<job_queue, done, cur>> /\ Accepted' = Accepted
    BY <1>10 DEF WaitCall, AtLeastZero, Accepted
  <2>3. QED BY <1>0, <2>1, <2>2
<1>11. CASE SpawnWorker
  <2>1. \A v \in Workers : wpc'[v] = "run" <=> wpc[v] = "run"
    <3>1. at \in Workers
      BY <1>11 DEF SpawnWorker, ClientState, Workers
    <3>2. wpc[at] = "none"
      BY <1>11, <3>1 DEF SpawnWorker, ClientState, Workers
    <3>3. wpc' = [wpc EXCEPT ![at] = "lock"]
      BY <1>11 DEF SpawnWorker
    <3>4. QED BY <3>1, <3>2, <3>3
  <2>2. UNCHANGED <<job_queue, done, cur>> /\ Accepted' = Accepted
    BY <1>11 DEF SpawnWorker, Accepted
  <2>3. QED BY <1>0, <2>1, <2>2
<1>12. CASE SpawnFails
  <2>1. \A v \in Workers : wpc'[v] = "run" <=> wpc[v] = "run"
    BY <1>12 DEF SpawnFails, ClientState
  <2>2. UNCHANGED <<job_queue, done, cur>> /\ Accepted' = Accepted
    BY <1>12 DEF SpawnFails, Accepted
  <2>3. QED BY <1>0, <2>1, <2>2
<1>13. CASE SetupSleeps
  <2>1. \A v \in Workers : wpc'[v] = "run" <=> wpc[v] = "run"
    BY <1>13 DEF SetupSleeps, ClientHoldsPool, ClientState
  <2>2. UNCHANGED <<job_queue, done, cur>> /\ Accepted' = Accepted
    BY <1>13 DEF SetupSleeps, ClientHoldsPool, Accepted
  <2>3. QED BY <1>0, <2>1, <2>2
<1>14. CASE SetupAllWaiting
  <2>1. \A v \in Workers : wpc'[v] = "run" <=> wpc[v] = "run"
    BY <1>14 DEF SetupAllWaiting, ClientHoldsPool, ClientState
  <2>2. UNCHANGED <<job_queue, done, cur>> /\ Accepted' = Accepted
    BY <1>14 DEF SetupAllWaiting, ClientHoldsPool, Accepted
  <2>3. QED BY <1>0, <2>1, <2>2
<1>15. CASE SetupReturns
  <2>1. \A v \in Workers : wpc'[v] = "run" <=> wpc[v] = "run"
    BY <1>15 DEF SetupReturns, SetupFailed, ClientState
  <2>2. UNCHANGED <<job_queue, done, cur>> /\ Accepted' = Accepted
    BY <1>15 DEF SetupReturns, SetupFailed, Accepted
  <2>3. QED BY <1>0, <2>1, <2>2
<1>16. CASE SubmitRunsInline
  <2>1. /\ cpc = "idle" /\ job_queue = <<>> /\ UNCHANGED <<cpc, job_queue, wpc, cur>>
        /\ submitted' = submitted + 1 /\ submitted + 1 \in Jobs
        /\ done' = done \cup {submitted + 1}
    BY <1>16 DEF SubmitRunsInline, ClientState, Jobs
  <2>2. Running' = Running
    BY <2>1
  <2>3. Accepted' = Accepted \cup {submitted + 1} /\ submitted + 1 \notin Accepted
    <3>1. Accepted = 1..submitted /\ Accepted' = 1..(submitted + 1) /\ submitted \in Nat
      BY <2>1 DEF Accepted
    <3>2. QED BY <3>1, IntervalGrows
  <2> HIDE DEF Running
  <2>4. QED BY <2>1, <2>2, <2>3
<1>17. CASE SubmitFails
  <2>1. \A v \in Workers : wpc'[v] = "run" <=> wpc[v] = "run"
    BY <1>17 DEF SubmitFails, ClientState
  <2>2. UNCHANGED <<job_queue, done, cur>> /\ Accepted' = Accepted
    BY <1>17 DEF SubmitFails, Accepted
  <2>3. QED BY <1>0, <2>1, <2>2
<1>18. CASE SubmitCall
  <2>1. \A v \in Workers : wpc'[v] = "run" <=> wpc[v] = "run"
    BY <1>18 DEF SubmitCall, ClientState
  <2>2. UNCHANGED <<job_queue, done, cur>> /\ Accepted' = Accepted
    BY <1>18 DEF SubmitCall, Accepted
  <2>3. QED BY <1>0, <2>1, <2>2
<1>19. CASE SubmitSleeps
  <2>1. \A v \in Workers : wpc'[v] = "run" <=> wpc[v] = "run"
    BY <1>19 DEF SubmitSleeps, ClientHoldsPool, QueueLimit, ClientState
  <2>2. UNCHANGED <<job_queue, done, cur>> /\ Accepted' = Accepted
    BY <1>19 DEF SubmitSleeps, ClientHoldsPool, QueueLimit, Accepted
  <2>3. QED BY <1>0, <2>1, <2>2
<1>20. CASE SubmitWakesNobody
  <2>1. /\ cpc = "submit" /\ cpc' # "submit" /\ submitted >= 1
        /\ job_queue' = <<submitted>> \o job_queue
        /\ UNCHANGED <<submitted, done, wpc, cur>>
    BY <1>20 DEF SubmitWakesNobody, SubmitTakesWaiter, SubmitPushes,
        ClientState
  <2>2. Running' = Running
    BY <2>1
  <2>3. submitted \in Jobs /\ submitted \notin Accepted /\ Accepted' = Accepted \cup {submitted}
    BY <2>1 DEF Jobs, Accepted
  <2> HIDE DEF Running
  <2>4. /\ Elements(job_queue') = {submitted} \cup Elements(job_queue)
        /\ Distinct(job_queue')
    BY <2>1, <2>3, Prepended
  <2>5. QED BY <2>1, <2>2, <2>3, <2>4
<1>21. CASE SubmitTakesWaiter
  <2>1. /\ cpc = "submit" /\ cpc' # "submit" /\ submitted >= 1
        /\ job_queue' = <<submitted>> \o job_queue
        /\ UNCHANGED <<submitted, done, wpc, cur>>
    BY <1>21 DEF SubmitWakesNobody, SubmitTakesWaiter, SubmitPushes,
        ClientState
  <2>2. Running' = Running
    BY <2>1
  <2>3. submitted \in Jobs /\ submitted \notin Accepted /\ Accepted' = Accepted \cup {submitted}
    BY <2>1 DEF Jobs, Accepted
  <2> HIDE DEF Running
  <2>4. /\ Elements(job_queue') = {submitted} \cup Elements(job_queue)
        /\ Distinct(job_queue')
    BY <2>1, <2>3, Prepended
  <2>5. QED BY <2>1, <2>2, <2>3, <2>4
<1>22. CASE SubmitLocksWorker
  <2>1. \A v \in Workers : wpc'[v] = "run" <=> wpc[v] = "run"
    BY <1>22 DEF SubmitLocksWorker, ClientState
  <2>2. UNCHANGED <<job_queue, done, cur>> /\ Accepted' = Accepted
    BY <1>22 DEF SubmitLocksWorker, Accepted
  <2>3. QED BY <1>0, <2>1, <2>2
<1>23. CASE SubmitSignalsWorker
  <2>1. \A v \in Workers : wpc'[v] = "run" <=> wpc[v] = "run"
    BY <1>23 DEF SubmitSignalsWorker, SignalWorker, ClientState
  <2>2. UNCHANGED <<job_queue, done, cur>> /\ Accepted' = Accepted
    BY <1>23 DEF SubmitSignalsWorker, SignalWorker, Accepted
  <2>3. QED BY <1>0, <2>1, <2>2
<1>24. CASE WaitSleeps
  <2>1. \A v \in Workers : wpc'[v] = "run" <=> wpc[v] = "run"
    BY <1>24 DEF WaitSleeps, ClientHoldsPool, WaitOver, ClientState
  <2>2. UNCHANGED <<job_queue, done, cur>> /\ Accepted' = Accepted
    BY <1>24 DEF WaitSleeps, ClientHoldsPool, WaitOver, Accepted
  <2>3. QED BY <1>0, <2>1, <2>2
<1>25. CASE WaitReturns
  <2>1. \A v \in Workers : wpc'[v] = "run" <=> wpc[v] = "run"
    BY <1>25 DEF WaitReturns, ClientHoldsPool, WaitOver, ClientState
  <2>2. UNCHANGED <<job_queue, done, cur>> /\ Accepted' = Accepted
    BY <1>25 DEF WaitReturns, ClientHoldsPool, WaitOver, Accepted
  <2>3. QED BY <1>0, <2>1, <2>2
<1>26. CASE DestroyDummy
  <2>1. \A v \in Workers : wpc'[v] = "run" <=> wpc[v] = "run"
    BY <1>26 DEF DestroyDummy, ClientState
  <2>2. UNCHANGED <<job_queue, done, cur>> /\ Accepted' = Accepted
    BY <1>26 DEF DestroyDummy, Accepted
  <2>3. QED BY <1>0, <2>1, <2>2
<1>27. CASE DestroyCall
  <2>1. \A v \in Workers : wpc'[v] = "run" <=> wpc[v] = "run"
    BY <1>27 DEF DestroyCall, ClientState
  <2>2. UNCHANGED <<job_queue, done, cur>> /\ Accepted' = Accepted
    BY <1>27 DEF DestroyCall, Accepted
  <2>3. QED BY <1>0, <2>1, <2>2
<1>28. CASE DestroyStops
  <2>1. \A v \in Workers : wpc'[v] = "run" <=> wpc[v] = "run"
    BY <1>28 DEF DestroyStops, JoinLoop, ClientHoldsPool, ClientState
  <2>2. UNCHANGED <<job_queue, done, cur>> /\ Accepted' = Accepted
    BY <1>28 DEF DestroyStops, JoinLoop, ClientHoldsPool, Accepted
  <2>3. QED BY <1>0, <2>1, <2>2
<1>29. CASE DestroySignals
  <2>1. \A v \in Workers : wpc'[v] = "run" <=> wpc[v] = "run"
    BY <1>29 DEF DestroySignals, SignalWorker, ClientState
  <2>2. UNCHANGED <<job_queue, done, cur>> /\ Accepted' = Accepted
    BY <1>29 DEF DestroySignals, SignalWorker, Accepted
  <2>3. QED BY <1>0, <2>1, <2>2
<1>30. CASE DestroyJoins
  <2>1. \A v \in Workers : wpc'[v] = "run" <=> wpc[v] = "run"
    BY <1>30 DEF DestroyJoins, JoinLoop, ThreadEnded, ClientState
  <2>2. UNCHANGED <<job_queue, done, cur>> /\ Accepted' = Accepted
    BY <1>30 DEF DestroyJoins, JoinLoop, ThreadEnded, Accepted
  <2>3. QED BY <1>0, <2>1, <2>2
<1>31. CASE ClientWakesUnsignalled
  <2>1. \A v \in Workers : wpc'[v] = "run" <=> wpc[v] = "run"
    BY <1>31 DEF ClientWakesUnsignalled, ClientState
  <2>2. UNCHANGED <<job_queue, done, cur>> /\ Accepted' = Accepted
    BY <1>31 DEF ClientWakesUnsignalled, Accepted
  <2>3. QED BY <1>0, <2>1, <2>2
<1>32. CASE UNCHANGED vars
  BY <1>0, <1>32 DEF Accepted
<1> QED BY <1>1, <1>2, <1>3, <1>4, <1>5, <1>6, <1>7, <1>8, <1>9, <1>10,
    <1>11, <1>12, <1>13, <1>14, <1>15, <1>16, <1>17, <1>18, <1>19, <1>20,
    <1>21, <1>22, <1>23, <1>24, <1>25, <1>26, <1>27, <1>28, <1>29, <1>30,
    <1>31, <1>32 DEF Next, WorkerStep, ClientStep, ClientCall, Environment,
    Terminated

(* Draining ends with no job in a worker's hands, and the workers end one  *)
(* by one in the order they are joined.                                    *)
LEMMA DestroyStep ==
  TypeOK /\ ClientState /\ PendingAccounting /\ DestroyState /\ [Next]_vars => DestroyState'
<1> SUFFICES ASSUME TypeOK, ClientState, PendingAccounting, DestroyState,
    [Next]_vars PROVE DestroyState'
  OBVIOUS
<1> USE DEF TypeOK, DestroyState, vars, poolVars, fixedVars, workerVars,
    clientVars, histVars
<1>1. ASSUME NEW w \in Workers, WorkerStops(w) PROVE DestroyState'
  BY <1>1 DEF WorkerStops, EnterGetNextJob
<1>2. ASSUME NEW w \in Workers, WorkerTakesJob(w) PROVE DestroyState'
  BY <1>2 DEF WorkerTakesJob, EnterGetNextJob, ClientState
<1>3. ASSUME NEW w \in Workers, WorkerAllocFails(w) PROVE DestroyState'
  BY <1>3 DEF WorkerAllocFails, EnterGetNextJob, NotListedYet
<1>4. ASSUME NEW w \in Workers, WorkerIdles(w) PROVE DestroyState'
  BY <1>4 DEF WorkerIdles, EnterGetNextJob, NotListedYet, KeepsPoolMutex
<1>5. ASSUME NEW w \in Workers, WorkerLocksOwn(w) PROVE DestroyState'
  BY <1>5 DEF WorkerLocksOwn
<1>6. ASSUME NEW w \in Workers, WorkerSleeps(w) PROVE DestroyState'
  BY <1>6 DEF WorkerSleeps
<1>7. ASSUME NEW w \in Workers, WorkerWakesUnsignalled(w) PROVE DestroyState'
  BY <1>7 DEF WorkerWakesUnsignalled
<1>8. ASSUME NEW w \in Workers, WorkerResumes(w) PROVE DestroyState'
  BY <1>8 DEF WorkerResumes
<1>9. ASSUME NEW w \in Workers, WorkerRuns(w) PROVE DestroyState'
  BY <1>9 DEF WorkerRuns
<1>10. ASSUME NEW k \in WaitArgs, WaitCall(k) PROVE DestroyState'
  BY <1>10 DEF WaitCall, AtLeastZero
<1>11. CASE SpawnWorker
  BY <1>11 DEF SpawnWorker, ClientState
<1>12. CASE SpawnFails
  BY <1>12 DEF SpawnFails
<1>13. CASE SetupSleeps
  BY <1>13 DEF SetupSleeps, ClientHoldsPool
<1>14. CASE SetupAllWaiting
  BY <1>14 DEF SetupAllWaiting, ClientHoldsPool
<1>15. CASE SetupReturns
  BY <1>15 DEF SetupReturns, SetupFailed
<1>16. CASE SubmitRunsInline
  BY <1>16 DEF SubmitRunsInline
<1>17. CASE SubmitFails
  BY <1>17 DEF SubmitFails
<1>18. CASE SubmitCall
  BY <1>18 DEF SubmitCall
<1>19. CASE SubmitSleeps
  BY <1>19 DEF SubmitSleeps, ClientHoldsPool, QueueLimit
<1>20. CASE SubmitWakesNobody
  BY <1>20 DEF SubmitWakesNobody, SubmitPushes, ClientHoldsPool
<1>21. CASE SubmitTakesWaiter
  BY <1>21 DEF SubmitTakesWaiter, SubmitPushes, ClientHoldsPool
<1>22. CASE SubmitLocksWorker
  BY <1>22 DEF SubmitLocksWorker
<1>23. CASE SubmitSignalsWorker
  BY <1>23 DEF SubmitSignalsWorker, SignalWorker
<1>24. CASE WaitSleeps
  BY <1>24 DEF WaitSleeps, ClientHoldsPool, WaitOver
<1>25. CASE WaitReturns
  <2>1. CASE cpc = "drain"
    <3>1. IsFiniteSet(Busy) /\ Cardinality(Busy) \in Nat
      BY WorkerSets DEF Busy
    <3>2. Cardinality(Busy) = 0
      BY <1>25, <2>1, <3>1 DEF WaitReturns, WaitOver, PendingAccounting,
          ClientState
    <3>3. Busy = {}
      BY <3>1, <3>2, FS_EmptySet
    <3>4. QED BY <1>25, <3>3 DEF WaitReturns, Busy
  <2>2. CASE cpc = "wait"
    BY <1>25, <2>2 DEF WaitReturns, ClientState
  <2>3. QED BY <1>25, <2>1, <2>2 DEF WaitReturns
<1>26. CASE DestroyDummy
  BY <1>26 DEF DestroyDummy, ClientState, WorkerPCs, Workers
<1>27. CASE DestroyCall
  BY <1>27 DEF DestroyCall
<1>28. CASE DestroyStops
  BY <1>28 DEF DestroyStops, JoinLoop, ClientState, WorkerPCs, Workers
<1>29. CASE DestroySignals
  BY <1>29 DEF DestroySignals, SignalWorker
<1>30. CASE DestroyJoins
  BY <1>30 DEF DestroyJoins, ThreadEnded, JoinLoop, ClientState, WorkerPCs,
      Workers
<1>31. CASE ClientWakesUnsignalled
  BY <1>31 DEF ClientWakesUnsignalled
<1>32. CASE UNCHANGED vars
  BY <1>32
<1> QED BY <1>1, <1>2, <1>3, <1>4, <1>5, <1>6, <1>7, <1>8, <1>9, <1>10,
    <1>11, <1>12, <1>13, <1>14, <1>15, <1>16, <1>17, <1>18, <1>19, <1>20,
    <1>21, <1>22, <1>23, <1>24, <1>25, <1>26, <1>27, <1>28, <1>29, <1>30,
    <1>31, <1>32 DEF Next, WorkerStep, ClientStep, ClientCall, Environment,
    Terminated

(* The invariant holds at the start ...                                    *)
LEMMA InitIInv == Init => IInv
<1> SUFFICES ASSUME Init PROVE IInv
  OBVIOUS
<1> USE DEF Init, Workers, Client, Nobody
<1>1. TypeOK
  <2>1. /\ num_threads \in 0..MaxThreads /\ worker_threads_count \in 0..num_threads
        /\ job_queue \in Seq(Jobs) /\ waiting_list \in Seq(Workers)
        /\ done \subseteq Jobs /\ at \in 1..(MaxThreads + 1)
    OBVIOUS
  <2>2. /\ wpc \in [Workers -> WorkerPCs]
        /\ marked_as_waiting \in [Workers -> BOOLEAN]
        /\ wmutex \in [Workers -> Workers \cup {Client, Nobody}]
        /\ finished \in [Workers -> BOOLEAN]
        /\ cur \in [Workers -> Jobs \cup {0}]
        /\ cpc \in ClientPCs
    BY DEF WorkerPCs, ClientPCs
  <2>3. asleep \in BOOLEAN
    OBVIOUS
  <2>4. QED BY <2>1, <2>2, <2>3 DEF TypeOK
<1>2. ClientState /\ LockDiscipline /\ DestroyState
  BY DEF ClientState, LockDiscipline, DestroyState
<1>3. ListDiscipline /\ NoLostWakeup
  BY DEF ListDiscipline, NoLostWakeup, Drowsy, Listed, Elements, Distinct
<1>4. WaitersCounted
  <2>1. Marked = {}
    BY DEF Marked
  <2>2. QED BY <2>1, FS_EmptySet DEF WaitersCounted
<1>5. PendingAccounting
  <2>1. Busy = {}
    BY DEF Busy
  <2>2. QED BY <2>1, FS_EmptySet DEF PendingAccounting
<1>6. OnceEach
  <2>1. Running = {} /\ Elements(job_queue) = {} /\ Accepted = {}
    BY DEF Running, Elements, Accepted
  <2>2. QED BY <2>1 DEF OnceEach, Distinct
<1>7. ThresholdSet /\ ClientSleepsForCause
  BY DEF ThresholdSet, ClientSleepsForCause
<1>8. QED BY <1>1, <1>2, <1>3, <1>4, <1>5, <1>6, <1>7 DEF IInv

(* ... and after every step.                                               *)
LEMMA StepIInv == IInv /\ [Next]_vars => IInv'
BY TypeStep, LockStep, ClientStateStep, ListStep, WakeupStep, SleepStep,
   AccountingStep, CountStep, OnceStep, DestroyStep DEF IInv

(* The inductive invariant of the pool.                                    *)
THEOREM InductiveInvariant == Spec => []IInv
BY InitIInv, StepIInv, PTL DEF Spec

(* Type correctness, for every bound.                                      *)
THEOREM TypeCorrect == Spec => []TypeOK
<1>1. IInv => TypeOK
  BY DEF IInv
<1>2. QED BY <1>1, InductiveInvariant, PTL

(* A queued job is never left to workers that all sleep.                   *)
THEOREM NoWakeupIsLost == Spec => []NoLostWakeup
<1>1. IInv => NoLostWakeup
  BY DEF IInv
<1>2. QED BY <1>1, InductiveInvariant, PTL

(* The client never sleeps through the event it waits for.                 *)
THEOREM ClientIsWoken == Spec => []ClientSleepsForCause
<1>1. IInv => ClientSleepsForCause
  BY DEF IInv
<1>2. QED BY <1>1, InductiveInvariant, PTL

(* pending_jobs_count counts the queued and the unreported jobs.           *)
THEOREM PendingIsAccurate == Spec => []PendingAccounting
<1>1. IInv => PendingAccounting
  BY DEF IInv
<1>2. QED BY <1>1, InductiveInvariant, PTL

(* Each accepted job is queued, running or done, and only one of these.    *)
THEOREM JobsRunOnce == Spec => []OnceEach
<1>1. IInv => OnceEach
  BY DEF IInv
<1>2. QED BY <1>1, InductiveInvariant, PTL

(* The two assertions of thread.c cannot fail.                             *)
THEOREM CodeAssertions == Spec => []AssertionsHold
<1>1. IInv => AssertionsHold
  <2> SUFFICES ASSUME IInv PROVE AssertionsHold
    OBVIOUS
  <2>1. waiting_list # <<>> => marked_as_waiting[Head(waiting_list)]
    BY Popped DEF IInv, TypeOK, ListDiscipline, Listed
  <2>2. Marked \in SUBSET (1..worker_threads_count)
    <3>1. ASSUME NEW w \in Workers, marked_as_waiting[w]
          PROVE  w \in 1..worker_threads_count
      <4>1. wpc[w] # "none"
        BY <3>1 DEF IInv, ListDiscipline
      <4>2. w <= worker_threads_count
        BY <4>1 DEF IInv, ClientState
      <4>3. QED BY <4>2 DEF IInv, TypeOK, Workers
    <3>2. QED BY <3>1 DEF Marked
  <2>3. worker_threads_count \in Nat
    BY DEF IInv, TypeOK
  <2>4. /\ IsFiniteSet(1..worker_threads_count)
        /\ Cardinality(1..worker_threads_count) = worker_threads_count
    BY <2>3, IntervalSize
  <2>5. Cardinality(Marked) <= worker_threads_count
    BY <2>2, <2>4, FS_Subset
  <2>6. QED BY <2>1, <2>5 DEF IInv, WaitersCounted, AssertionsHold
<1>2. QED BY <1>1, InductiveInvariant, PTL

(* A destroyed pool leaves no job undone and no thread behind.             *)
THEOREM DestroyIsComplete == Spec => []DestroyDrains
<1>1. IInv => DestroyDrains
  <2> SUFFICES ASSUME IInv, cpc = "freed" PROVE DestroyDrains
    BY DEF DestroyDrains
  <2>1. Running = {} /\ Elements(job_queue) = {}
    BY DEF IInv, DestroyState, ClientState, Running, Elements
  <2>2. QED BY <2>1 DEF IInv, DestroyState, OnceEach, DestroyDrains
<1>2. QED BY <1>1, InductiveInvariant, PTL

(* The jobs in the queue and in the workers' hands are no more than        *)
(* pending_jobs_count says.                                                *)
LEMMA UnfinishedBounded ==
  ASSUME IInv
  PROVE  /\ IsFiniteSet(Elements(job_queue) \cup Running)
         /\ Cardinality(Elements(job_queue) \cup Running) <= pending_jobs_count
<1> DEFINE R == {w \in Workers : wpc[w] = "run"}
           Q == Elements(job_queue)
<1>1. IsFiniteSet(Q) /\ Cardinality(Q) \in Nat /\ Cardinality(Q) <= Len(job_queue)
  <2>1. job_queue \in Seq(Jobs) /\ Len(job_queue) \in Nat /\ DOMAIN job_queue = 1..Len(job_queue)
    BY DEF IInv, TypeOK
  <2>2. job_queue \in Surjection(1..Len(job_queue), Q)
    BY <2>1 DEF Elements, Surjection
  <2>3. /\ IsFiniteSet(1..Len(job_queue))
        /\ Cardinality(1..Len(job_queue)) = Len(job_queue)
    BY <2>1, IntervalSize
  <2>4. IsFiniteSet(Q) /\ Cardinality(Q) <= Cardinality(1..Len(job_queue))
    BY <2>2, <2>3, FS_Surjection
  <2>5. QED BY <2>3, <2>4, FS_CardinalityType
<1>2. IsFiniteSet(Running) /\ Cardinality(Running) \in Nat /\ Cardinality(Running) <= Cardinality(R)
  <2> DEFINE f == [w \in R |-> cur[w]]
  <2>1. f \in Surjection(R, Running)
    BY DEF Running, Surjection
  <2>2. IsFiniteSet(R)
    BY WorkerSets
  <2>3. QED BY <2>1, <2>2, FS_Surjection, FS_CardinalityType
<1>3. Cardinality(R) \in Nat /\ Cardinality(Busy) \in Nat /\ Cardinality(R) <= Cardinality(Busy)
  <2>1. R \in SUBSET Busy /\ Busy \in SUBSET Workers /\ R \in SUBSET Workers
    BY DEF Busy
  <2>2. QED BY <2>1, WorkerSets, FS_Subset
<1>4. /\ IsFiniteSet(Q \cup Running)
      /\ Cardinality(Q \cup Running) = Cardinality(Q) + Cardinality(Running) - Cardinality(Q \cap Running)
  BY <1>1, <1>2, FS_Union
<1>5. Cardinality(Q \cap Running) \in Nat
  BY <1>1, FS_Intersection, FS_CardinalityType
<1>6. pending_jobs_count = Len(job_queue) + Cardinality(Busy) /\ Len(job_queue) \in Nat
  BY DEF IInv, PendingAccounting, TypeOK
<1> HIDE DEF R, Q
<1>7. Cardinality(Q \cup Running) <= pending_jobs_count
  BY <1>1, <1>2, <1>3, <1>4, <1>5, <1>6
<1>8. QED BY <1>4, <1>7 DEF Q

(* A wait for at most limit jobs that returns has waited long enough.      *)
LEMMA WaitIsOver ==
  ASSUME IInv, WaitReturns
  PROVE  IsFiniteSet(Elements(job_queue) \cup Running)
         /\ Cardinality(Elements(job_queue) \cup Running) <= limit
<1>1. pending_jobs_count <= limit
  BY DEF WaitReturns, WaitOver
<1>2. pending_jobs_count \in Int /\ limit \in Nat
  BY DEF IInv, TypeOK
<1>3. /\ IsFiniteSet(Elements(job_queue) \cup Running)
      /\ Cardinality(Elements(job_queue) \cup Running) <= pending_jobs_count
  BY UnfinishedBounded
<1>4. Cardinality(Elements(job_queue) \cup Running) \in Nat
  BY <1>3, FS_CardinalityType
<1>5. QED BY <1>1, <1>2, <1>3, <1>4

(* A wait returns only when at most limit accepted jobs are not done.      *)
THEOREM WaitIsHonest == Spec => WaitPost
<1> DEFINE A == cpc \in {"wait", "drain"} /\ cpc' # cpc
                  => Cardinality(Accepted \ done) <= limit
<1>1. IInv /\ [Next]_vars => [A]_vars
  <2> SUFFICES ASSUME IInv, Next, cpc \in {"wait", "drain"}, cpc' # cpc
               PROVE  Cardinality(Accepted \ done) <= limit
    OBVIOUS
  <2>1. WaitReturns
    BY DEF Next, WorkerStep, ClientStep, ClientCall, Environment, Terminated,
       WorkerStops, WorkerTakesJob, WorkerAllocFails, WorkerIdles,
       WorkerLocksOwn, WorkerSleeps, WorkerWakesUnsignalled, WorkerResumes,
       WorkerRuns, SpawnWorker, SpawnFails, SetupSleeps, SetupAllWaiting,
       SetupReturns, SubmitRunsInline, SubmitFails, SubmitCall, SubmitSleeps,
       SubmitWakesNobody, SubmitPushes, SubmitTakesWaiter, SubmitLocksWorker,
       SubmitSignalsWorker, WaitCall, WaitSleeps, DestroyDummy, DestroyCall,
       DestroyStops, DestroySignals, DestroyJoins, ClientWakesUnsignalled,
       clientVars, vars
  <2>2. Accepted \ done = Elements(job_queue) \cup Running
    BY DEF IInv, OnceEach
  <2>3. QED BY <2>1, <2>2, WaitIsOver
<1>2. QED BY <1>1, InductiveInvariant, PTL DEF Spec, WaitPost

(* A step that moves no job between queue, workers and history, and does   *)
(* not enter or leave a wait or free the pool, is a stutter of JobPool.    *)
LEMMA Stutters ==
  ASSUME UNCHANGED <<job_queue, done, cur>>,
         \A v \in Workers : wpc'[v] = "run" <=> wpc[v] = "run",
         (cpc' = cpc /\ limit' = limit) \/ (cpc # "wait" /\ cpc' # "wait"),
         cpc # "freed" /\ cpc' # "freed"
  PROVE  UNCHANGED Abstract!vars
<1>1. Running' = Running
  BY DEF Running
<1>2. Elements(job_queue)' = Elements(job_queue)
  OBVIOUS
<1>3. (IF cpc = "wait" THEN <<limit>> ELSE <<>>)' = (IF cpc = "wait" THEN <<limit>> ELSE <<>>)
  OBVIOUS
<1>4. (cpc # "freed")' = (cpc # "freed")
  OBVIOUS
<1>5. QED BY <1>1, <1>2, <1>3, <1>4 DEF Abstract!vars

(* Every step of the pool is one of JobPool's, or none.                    *)
LEMMA RefineStep ==
  IInv /\ IInv' /\ [Next]_vars => Abstract!Next \/ UNCHANGED Abstract!vars
<1> SUFFICES ASSUME IInv, IInv', [Next]_vars
             PROVE  Abstract!Next \/ UNCHANGED Abstract!vars
  OBVIOUS
<1> USE DEF vars, poolVars, fixedVars, workerVars, clientVars, histVars
<1>0. TypeOK /\ ClientState /\ OnceEach /\ DestroyState
  BY DEF IInv
<1>1. ASSUME NEW w \in Workers, WorkerStops(w) PROVE UNCHANGED Abstract!vars
  <2>1. /\ \A v \in Workers : wpc'[v] = "run" <=> wpc[v] = "run"
        /\ cpc # "freed"
    BY <1>0, <1>1 DEF WorkerStops, EnterGetNextJob, TypeOK, DestroyState
  <2>2. QED BY <1>1, <2>1, Stutters DEF WorkerStops
<1>2. ASSUME NEW w \in Workers, WorkerAllocFails(w)
    PROVE UNCHANGED Abstract!vars
  <2>1. /\ \A v \in Workers : wpc'[v] = "run" <=> wpc[v] = "run"
        /\ cpc # "freed"
    BY <1>0, <1>2 DEF WorkerAllocFails, EnterGetNextJob, TypeOK, DestroyState
  <2>2. QED BY <1>2, <2>1, Stutters DEF WorkerAllocFails
<1>3. ASSUME NEW w \in Workers, WorkerIdles(w) PROVE UNCHANGED Abstract!vars
  <2>1. /\ \A v \in Workers : wpc'[v] = "run" <=> wpc[v] = "run"
        /\ cpc # "freed"
    BY <1>0, <1>3 DEF WorkerIdles, EnterGetNextJob, TypeOK, DestroyState
  <2>2. QED BY <1>3, <2>1, Stutters DEF WorkerIdles
<1>4. ASSUME NEW w \in Workers, WorkerLocksOwn(w) PROVE UNCHANGED Abstract!vars
  <2>1. /\ \A v \in Workers : wpc'[v] = "run" <=> wpc[v] = "run"
        /\ cpc # "freed"
    BY <1>0, <1>4 DEF WorkerLocksOwn, EnterGetNextJob, TypeOK, DestroyState
  <2>2. QED BY <1>4, <2>1, Stutters DEF WorkerLocksOwn
<1>5. ASSUME NEW w \in Workers, WorkerSleeps(w) PROVE UNCHANGED Abstract!vars
  <2>1. /\ \A v \in Workers : wpc'[v] = "run" <=> wpc[v] = "run"
        /\ cpc # "freed"
    BY <1>0, <1>5 DEF WorkerSleeps, EnterGetNextJob, TypeOK, DestroyState
  <2>2. QED BY <1>5, <2>1, Stutters DEF WorkerSleeps
<1>6. ASSUME NEW w \in Workers, WorkerWakesUnsignalled(w)
    PROVE UNCHANGED Abstract!vars
  <2>1. /\ \A v \in Workers : wpc'[v] = "run" <=> wpc[v] = "run"
        /\ cpc # "freed"
    BY <1>0, <1>6 DEF WorkerWakesUnsignalled, EnterGetNextJob, TypeOK,
        DestroyState
  <2>2. QED BY <1>6, <2>1, Stutters DEF WorkerWakesUnsignalled
<1>7. ASSUME NEW w \in Workers, WorkerResumes(w) PROVE UNCHANGED Abstract!vars
  <2>1. /\ \A v \in Workers : wpc'[v] = "run" <=> wpc[v] = "run"
        /\ cpc # "freed"
    BY <1>0, <1>7 DEF WorkerResumes, EnterGetNextJob, TypeOK, DestroyState
  <2>2. QED BY <1>7, <2>1, Stutters DEF WorkerResumes
<1>8. ASSUME SpawnWorker PROVE UNCHANGED Abstract!vars
  <2>1. \A v \in Workers : wpc'[v] = "run" <=> wpc[v] = "run"
    BY <1>0, <1>8 DEF SpawnWorker, TypeOK, ClientState, Workers
  <2>2. /\ cpc # "freed" /\ cpc' # "freed"
        /\ (cpc' = cpc /\ limit' = limit) \/ (cpc # "wait" /\ cpc' # "wait")
    BY <1>0, <1>8 DEF SpawnWorker, ClientState
  <2>3. QED BY <1>8, <2>1, <2>2, Stutters DEF SpawnWorker
<1>9. ASSUME SpawnFails PROVE UNCHANGED Abstract!vars
  <2>1. \A v \in Workers : wpc'[v] = "run" <=> wpc[v] = "run"
    BY <1>0, <1>9 DEF SpawnFails, TypeOK, ClientState, Workers
  <2>2. /\ cpc # "freed" /\ cpc' # "freed"
        /\ (cpc' = cpc /\ limit' = limit) \/ (cpc # "wait" /\ cpc' # "wait")
    BY <1>0, <1>9 DEF SpawnFails, ClientState
  <2>3. QED BY <1>9, <2>1, <2>2, Stutters DEF SpawnFails
<1>10. ASSUME SetupSleeps PROVE UNCHANGED Abstract!vars
  <2>1. \A v \in Workers : wpc'[v] = "run" <=> wpc[v] = "run"
    BY <1>0, <1>10 DEF SetupSleeps, TypeOK, ClientState, Workers
  <2>2. /\ cpc # "freed" /\ cpc' # "freed"
        /\ (cpc' = cpc /\ limit' = limit) \/ (cpc # "wait" /\ cpc' # "wait")
    BY <1>0, <1>10 DEF SetupSleeps, ClientState
  <2>3. QED BY <1>10, <2>1, <2>2, Stutters DEF SetupSleeps
<1>11. ASSUME SetupAllWaiting PROVE UNCHANGED Abstract!vars
  <2>1. \A v \in Workers : wpc'[v] = "run" <=> wpc[v] = "run"
    BY <1>0, <1>11 DEF SetupAllWaiting, TypeOK, ClientState, Workers
  <2>2. /\ cpc # "freed" /\ cpc' # "freed"
        /\ (cpc' = cpc /\ limit' = limit) \/ (cpc # "wait" /\ cpc' # "wait")
    BY <1>0, <1>11 DEF SetupAllWaiting, ClientState
  <2>3. QED BY <1>11, <2>1, <2>2, Stutters DEF SetupAllWaiting
<1>12. ASSUME SetupReturns PROVE UNCHANGED Abstract!vars
  <2>1. \A v \in Workers : wpc'[v] = "run" <=> wpc[v] = "run"
    BY <1>0, <1>12 DEF SetupReturns, TypeOK, ClientState, Workers
  <2>2. /\ cpc # "freed" /\ cpc' # "freed"
        /\ (cpc' = cpc /\ limit' = limit) \/ (cpc # "wait" /\ cpc' # "wait")
    BY <1>0, <1>12 DEF SetupReturns, ClientState
  <2>3. QED BY <1>12, <2>1, <2>2, Stutters DEF SetupReturns
<1>13. ASSUME SubmitFails PROVE UNCHANGED Abstract!vars
  <2>1. \A v \in Workers : wpc'[v] = "run" <=> wpc[v] = "run"
    BY <1>0, <1>13 DEF SubmitFails, TypeOK, ClientState, Workers
  <2>2. /\ cpc # "freed" /\ cpc' # "freed"
        /\ (cpc' = cpc /\ limit' = limit) \/ (cpc # "wait" /\ cpc' # "wait")
    BY <1>0, <1>13 DEF SubmitFails, ClientState
  <2>3. QED BY <1>13, <2>1, <2>2, Stutters DEF SubmitFails
<1>14. ASSUME SubmitCall PROVE UNCHANGED Abstract!vars
  <2>1. \A v \in Workers : wpc'[v] = "run" <=> wpc[v] = "run"
    BY <1>0, <1>14 DEF SubmitCall, TypeOK, ClientState, Workers
  <2>2. /\ cpc # "freed" /\ cpc' # "freed"
        /\ (cpc' = cpc /\ limit' = limit) \/ (cpc # "wait" /\ cpc' # "wait")
    BY <1>0, <1>14 DEF SubmitCall, ClientState
  <2>3. QED BY <1>14, <2>1, <2>2, Stutters DEF SubmitCall
<1>15. ASSUME SubmitSleeps PROVE UNCHANGED Abstract!vars
  <2>1. \A v \in Workers : wpc'[v] = "run" <=> wpc[v] = "run"
    BY <1>0, <1>15 DEF SubmitSleeps, TypeOK, ClientState, Workers
  <2>2. /\ cpc # "freed" /\ cpc' # "freed"
        /\ (cpc' = cpc /\ limit' = limit) \/ (cpc # "wait" /\ cpc' # "wait")
    BY <1>0, <1>15 DEF SubmitSleeps, ClientState
  <2>3. QED BY <1>15, <2>1, <2>2, Stutters DEF SubmitSleeps
<1>16. ASSUME SubmitLocksWorker PROVE UNCHANGED Abstract!vars
  <2>1. \A v \in Workers : wpc'[v] = "run" <=> wpc[v] = "run"
    BY <1>0, <1>16 DEF SubmitLocksWorker, TypeOK, ClientState, Workers
  <2>2. /\ cpc # "freed" /\ cpc' # "freed"
        /\ (cpc' = cpc /\ limit' = limit) \/ (cpc # "wait" /\ cpc' # "wait")
    BY <1>0, <1>16 DEF SubmitLocksWorker, ClientState
  <2>3. QED BY <1>16, <2>1, <2>2, Stutters DEF SubmitLocksWorker
<1>17. ASSUME SubmitSignalsWorker PROVE UNCHANGED Abstract!vars
  <2>1. \A v \in Workers : wpc'[v] = "run" <=> wpc[v] = "run"
    BY <1>0, <1>17 DEF SubmitSignalsWorker, SignalWorker, TypeOK,
        ClientState, Workers
  <2>2. /\ cpc # "freed" /\ cpc' # "freed"
        /\ (cpc' = cpc /\ limit' = limit) \/ (cpc # "wait" /\ cpc' # "wait")
    BY <1>0, <1>17 DEF SubmitSignalsWorker, ClientState
  <2>3. QED BY <1>17, <2>1, <2>2, Stutters DEF SubmitSignalsWorker
<1>18. ASSUME WaitSleeps PROVE UNCHANGED Abstract!vars
  <2>1. \A v \in Workers : wpc'[v] = "run" <=> wpc[v] = "run"
    BY <1>0, <1>18 DEF WaitSleeps, TypeOK, ClientState, Workers
  <2>2. /\ cpc # "freed" /\ cpc' # "freed"
        /\ (cpc' = cpc /\ limit' = limit) \/ (cpc # "wait" /\ cpc' # "wait")
    BY <1>0, <1>18 DEF WaitSleeps, ClientState
  <2>3. QED BY <1>18, <2>1, <2>2, Stutters DEF WaitSleeps
<1>19. ASSUME DestroyCall PROVE UNCHANGED Abstract!vars
  <2>1. \A v \in Workers : wpc'[v] = "run" <=> wpc[v] = "run"
    BY <1>0, <1>19 DEF DestroyCall, TypeOK, ClientState, Workers
  <2>2. /\ cpc # "freed" /\ cpc' # "freed"
        /\ (cpc' = cpc /\ limit' = limit) \/ (cpc # "wait" /\ cpc' # "wait")
    BY <1>0, <1>19 DEF DestroyCall, ClientState
  <2>3. QED BY <1>19, <2>1, <2>2, Stutters DEF DestroyCall
<1>20. ASSUME DestroySignals PROVE UNCHANGED Abstract!vars
  <2>1. \A v \in Workers : wpc'[v] = "run" <=> wpc[v] = "run"
    BY <1>0, <1>20 DEF DestroySignals, SignalWorker, TypeOK, ClientState,
        Workers
  <2>2. /\ cpc # "freed" /\ cpc' # "freed"
        /\ (cpc' = cpc /\ limit' = limit) \/ (cpc # "wait" /\ cpc' # "wait")
    BY <1>0, <1>20 DEF DestroySignals, ClientState
  <2>3. QED BY <1>20, <2>1, <2>2, Stutters DEF DestroySignals
<1>21. ASSUME ClientWakesUnsignalled PROVE UNCHANGED Abstract!vars
  <2>1. \A v \in Workers : wpc'[v] = "run" <=> wpc[v] = "run"
    BY <1>0, <1>21 DEF ClientWakesUnsignalled, TypeOK, ClientState, Workers
  <2>2. /\ cpc # "freed" /\ cpc' # "freed"
        /\ (cpc' = cpc /\ limit' = limit) \/ (cpc # "wait" /\ cpc' # "wait")
    BY <1>0, <1>21 DEF ClientWakesUnsignalled, ClientState
  <2>3. QED BY <1>21, <2>1, <2>2, Stutters DEF ClientWakesUnsignalled
<1>22. ASSUME NEW w \in Workers, WorkerTakesJob(w) PROVE Abstract!Next
  <2> DEFINE j == Head(job_queue)
  <2>1. /\ j \in Jobs /\ j \in Elements(job_queue)
        /\ Elements(job_queue') = Elements(job_queue) \ {j}
    <3>1. /\ j \in Jobs /\ j \in Elements(job_queue)
          /\ j \notin Elements(Tail(job_queue))
          /\ Elements(job_queue) = {j} \cup Elements(Tail(job_queue))
      BY <1>0, <1>22, Popped DEF WorkerTakesJob, TypeOK, OnceEach
    <3>2. QED BY <1>22, <3>1 DEF WorkerTakesJob, PopJob
  <2>2. /\ wpc[w] = "lock" /\ UNCHANGED <<cpc, limit, done>>
        /\ wpc' = [wpc EXCEPT ![w] = "run"] /\ cur' = [cur EXCEPT ![w] = j]
    BY <1>22 DEF WorkerTakesJob, EnterGetNextJob
  <2> HIDE DEF j
  <2>3. Running' = Running \cup {j}
    BY <1>0, <2>2 DEF Running, TypeOK
  <2>4. Abstract!Start(j)
    BY <2>1, <2>2, <2>3 DEF Abstract!Start
  <2>5. QED BY <2>1, <2>4 DEF Abstract!Next
<1>23. ASSUME NEW w \in Workers, WorkerRuns(w) PROVE Abstract!Next
  <2>1. /\ wpc[w] = "run" /\ done' = done \cup {cur[w]}
        /\ UNCHANGED <<cpc, limit, job_queue>>
        /\ wpc' = [wpc EXCEPT ![w] = "lock"] /\ cur' = [cur EXCEPT ![w] = 0]
    BY <1>23 DEF WorkerRuns
  <2>2. cur[w] \in Running /\ cur[w] \in Jobs
    BY <1>0, <2>1 DEF Running, TypeOK, ClientState
  <2>3. Running' = Running \ {cur[w]}
    BY SMTT(40), <1>0, <2>1 DEF Running, TypeOK, OnceEach
  <2>4. Abstract!Finish(cur[w])
    BY <2>1, <2>2, <2>3 DEF Abstract!Finish
  <2>5. QED BY <2>2, <2>4 DEF Abstract!Next
<1>24. ASSUME SubmitWakesNobody \/ SubmitTakesWaiter PROVE Abstract!Next
  <2>1. /\ cpc = "submit" /\ cpc' \in {"idle", "sublockw"} /\ submitted >= 1
        /\ job_queue' = <<submitted>> \o job_queue
        /\ UNCHANGED <<submitted, done, wpc, cur>>
    BY <1>0, <1>24 DEF SubmitWakesNobody, SubmitTakesWaiter, SubmitPushes,
        ClientState
  <2>2. Running' = Running
    BY <2>1 DEF Running
  <2>3. submitted \in Jobs /\ submitted \notin Accepted
    BY <1>0, <2>1 DEF Jobs, Accepted, TypeOK
  <2>4. Elements(job_queue') = Elements(job_queue) \cup {submitted}
    BY <1>0, <2>1, <2>3, Prepended DEF TypeOK
  <2>5. submitted \notin (Elements(job_queue) \cup Running) \cup done
    BY <1>0, <2>3 DEF OnceEach
  <2>6. Abstract!Submit(submitted)
    BY <2>1, <2>2, <2>4, <2>5 DEF Abstract!Submit, Abstract!NotWaiting,
        Abstract!Unfinished
  <2>7. QED BY <2>3, <2>6 DEF Abstract!Next
<1>25. ASSUME SubmitRunsInline PROVE Abstract!Next
  <2>1. /\ cpc = "idle" /\ UNCHANGED <<cpc, limit, job_queue, wpc, cur>>
        /\ submitted + 1 \in Jobs /\ done' = done \cup {submitted + 1}
    BY <1>0, <1>25 DEF SubmitRunsInline, Jobs, TypeOK
  <2>2. Running' = Running
    BY <2>1 DEF Running
  <2>3. submitted + 1 \notin (Elements(job_queue) \cup Running) \cup done
    <3>1. submitted + 1 \notin Accepted
      BY <1>0, <2>1 DEF Accepted, TypeOK
    <3>2. QED BY <1>0, <3>1 DEF OnceEach
  <2>4. Abstract!SubmitAndRun(submitted + 1)
    BY <2>1, <2>2, <2>3 DEF Abstract!SubmitAndRun, Abstract!NotWaiting,
        Abstract!Unfinished
  <2>5. QED BY <2>1, <2>4 DEF Abstract!Next
<1>26. ASSUME NEW k \in WaitArgs, WaitCall(k) PROVE Abstract!Next
  <2>1. /\ cpc = "idle" /\ cpc' = "wait" /\ limit' = AtLeastZero(k)
        /\ UNCHANGED <<job_queue, done, wpc, cur>>
    BY <1>26 DEF WaitCall
  <2>2. Running' = Running
    BY <2>1 DEF Running
  <2>3. Abstract!WaitCall(AtLeastZero(k))
    BY <2>1, <2>2 DEF Abstract!WaitCall, Abstract!NotWaiting
  <2>4. QED BY <2>3 DEF Abstract!Next
<1>27. ASSUME WaitReturns PROVE Abstract!Next \/ UNCHANGED Abstract!vars
  <2>1. /\ cpc \in {"wait", "drain"} /\ cpc' = IF cpc = "wait" THEN "idle" ELSE "stop"
        /\ UNCHANGED <<job_queue, done, wpc, cur, limit>>
    BY <1>27 DEF WaitReturns
  <2>2. Running' = Running
    BY <2>1 DEF Running
  <2>3. CASE cpc = "wait"
    <3>1. Cardinality(Elements(job_queue) \cup Running) <= limit
      BY <1>27, WaitIsOver
    <3>2. <<limit>> # <<>> /\ <<limit>>[1] = limit
      OBVIOUS
    <3>3. /\ (IF cpc = "wait" THEN <<limit>> ELSE <<>>) = <<limit>>
          /\ (IF cpc = "wait" THEN <<limit>> ELSE <<>>)' = <<>>
          /\ (cpc # "freed")' = (cpc # "freed")
          /\ Elements(job_queue)' = Elements(job_queue)
      BY <2>1, <2>3
    <3> DEFINE U == Elements(job_queue) \cup Running
    <3>4. Abstract!Cardinality(U) = Cardinality(U)
      BY DEF Abstract!Cardinality, Cardinality
    <3>5. Abstract!WaitReturn
      BY <2>1, <2>2, <3>1, <3>4, <3>2, <3>3 DEF Abstract!WaitReturn,
          Abstract!NotWaiting, Abstract!Unfinished
    <3>6. QED BY <3>5 DEF Abstract!Next
  <2>4. CASE cpc = "drain"
    BY <2>1, <2>4, Stutters
  <2>5. QED BY <2>1, <2>3, <2>4
<1>28. ASSUME cpc \in {"idle", "stop", "join"}, cpc' = "freed",
              UNCHANGED <<job_queue, done, wpc, cur>>
       PROVE  Abstract!Next
  <2>1. Running = {} /\ Elements(job_queue) = {} /\ Running' = {}
    <3>1. job_queue' = <<>> /\ \A w \in Workers : wpc'[w] # "run"
      BY <1>28 DEF IInv, DestroyState, ClientState
    <3>2. job_queue = <<>> /\ \A w \in Workers : wpc[w] # "run"
      BY <1>28, <3>1
    <3>3. QED BY <3>1, <3>2 DEF Running, Elements
  <2>2. Abstract!Destroy
    BY <1>28, <2>1 DEF Abstract!Destroy, Abstract!NotWaiting,
        Abstract!Unfinished
  <2>3. QED BY <2>2 DEF Abstract!Next
<1>29. ASSUME DestroyDummy PROVE Abstract!Next
  BY <1>28, <1>29 DEF DestroyDummy
<1>30. ASSUME DestroyStops \/ DestroyJoins
    PROVE Abstract!Next \/ UNCHANGED Abstract!vars
  <2>1. /\ cpc \in {"stop", "join"} /\ cpc' \in {"signal", "freed"}
        /\ UNCHANGED <<job_queue, done, wpc, cur>>
    BY <1>30 DEF DestroyStops, DestroyJoins, JoinLoop
  <2>2. QED BY <1>28, <2>1, Stutters
<1>31. ASSUME UNCHANGED vars PROVE UNCHANGED Abstract!vars
  <2>1. Running' = Running
    BY <1>31 DEF Running
  <2>2. QED BY <1>31, <2>1 DEF Abstract!vars
<1>32. QED
  BY <1>1, <1>2, <1>3, <1>4, <1>5, <1>6, <1>7, <1>8, <1>9, <1>10, <1>11,
      <1>12, <1>13, <1>14, <1>15, <1>16, <1>17, <1>18, <1>19, <1>20, <1>21,
      <1>22, <1>23, <1>24, <1>25, <1>26, <1>27, <1>29, <1>30, <1>31
  DEF Next, WorkerStep, ClientStep, ClientCall, Environment, Terminated

(* ThreadPool implements JobPool: the queue, the locks and the sleepers    *)
(* lose no job, run none twice, and let no wait return early.              *)
THEOREM Refinement == Spec => ImplementsJobPool
<1>1. Init => Abstract!Init
  <2> SUFFICES ASSUME Init PROVE Abstract!Init
    OBVIOUS
  <2>1. Running = {} /\ Elements(job_queue) = {}
    BY DEF Init, Running, Elements
  <2>2. QED BY <2>1 DEF Init, Abstract!Init, Abstract!NotWaiting
<1>2. IInv /\ IInv' /\ [Next]_vars => [Abstract!Next]_Abstract!vars
  BY RefineStep
<1>3. QED
  BY <1>1, <1>2, InductiveInvariant, PTL DEF Spec, ImplementsJobPool,
      Abstract!Spec

=============================================================================
