-------------------------- MODULE AccelPoolProofs ---------------------------
(* What holds of AccelPool for any number of threads, workers and buffers, *)
(* any budget and any faults.                                              *)
EXTENDS AccelPool, FoldTheorems

(* What is used of the assumption on the constants.                        *)
LEMMA Sizes ==
  /\ NumCl \in Nat /\ NumCu \in Nat
  /\ Demands \cup {NoDemand} \subseteq [Kinds -> Nat]
BY AccelPoolAssumption DEF AccelPoolAssumption, NoDemand

(* The workers of the two backends are different ones, and None is none.   *)
LEMMA Disjoint == ClSlots \cap CuSlots = {} /\ None \notin Slots
BY Sizes DEF ClSlots, CuSlots, Slots, None

(* Growing writes one capacity of the worker being fitted.                 *)
LEMMA Growth ==
  ASSUME Ranges, NEW t \in Threads, slot[t] \in Slots,
         FreesNext(t) \/ ReservesNext(t)
  PROVE  /\ cap' \in [Slots \X Kinds -> Nat]
         /\ \A s \in Slots, k \in Kinds :
               s # slot[t] => cap'[<<s, k>>] = cap[<<s, k>>]
<1>1. \A k \in Kinds : need[t][k] \in Nat
  BY Sizes DEF Ranges
<1>2. \E k \in Kinds, n \in Nat :
         cap' = [cap EXCEPT ![<<slot[t], k>>] = n]
  BY <1>1 DEF FreesNext, ReservesNext, Short
<1>3. QED BY <1>2 DEF Ranges

(* Some buffers of the workers S may be gone, whichever the driver freed.   *)
Thins(S) == \E Q \in SUBSET (S \X Kinds) : cap' = Freed(Q)

(* Freeing buffers of some workers leaves the other workers as they are.   *)
LEMMA Thinning ==
  ASSUME Ranges, NEW S, Thins(S)
  PROVE  /\ cap' \in [Slots \X Kinds -> Nat]
         /\ \A s \in Slots, k \in Kinds :
               s \notin S => cap'[<<s, k>>] = cap[<<s, k>>]
<1>1. PICK Q \in SUBSET (S \X Kinds) : cap' = Freed(Q)
  BY DEF Thins
<1>2. \A s \in Slots, k \in Kinds : s \notin S => <<s, k>> \notin Q
  OBVIOUS
<1>3. QED BY <1>1, <1>2 DEF Ranges, Freed

(* OpenCL's release_buffers frees all of them.                             *)
LEMMA Releasing ==
  ASSUME NEW S, ReleaseBuffers(S)
  PROVE  Thins(S)
BY DEF ReleaseBuffers, FreesBuffers, Thins

(* CUDA's release_buffers frees some, and poisons the runtime if it keeps  *)
(* any.                                                                    *)
LEMMA FreeingSome ==
  ASSUME Ranges, NEW S, NEW kept, FreesBut(S, kept)
  PROVE  Thins(S) /\ (poisoned' = poisoned \/ poisoned' = TRUE)
<1>1. (S \X Kinds) \ kept \in SUBSET (S \X Kinds)
  OBVIOUS
<1>2. Thins(S)
  BY <1>1 DEF FreesBut, FreesBuffers, Thins
<1>3. QED BY <1>2 DEF FreesBut, Poisons, Ranges

LEMMA CuReleasing ==
  ASSUME Ranges, NEW S, CuReleaseBuffers(S)
  PROVE  Thins(S) /\ (poisoned' = poisoned \/ poisoned' = TRUE)
BY FreeingSome DEF CuReleaseBuffers

(* A fitting that fails gives up what the worker of the thread can free.   *)
LEMMA Failing ==
  ASSUME Ranges, NEW t \in Threads, CuFails(t)
  PROVE  Thins({slot[t]}) /\ (poisoned' = poisoned \/ poisoned' = TRUE)
BY CuReleasing, FreeingSome DEF CuFails

(* So does the clean-up, which gives up the staging buffer too.            *)
LEMMA Dropping ==
  ASSUME Ranges, NEW t \in Threads, DropsAll(t)
  PROVE  /\ Thins({slot[t]})
         /\ poisoned' = poisoned \/ poisoned' = TRUE
         /\ staging' = [s \in CuSlots |-> staging'[s]]
         /\ \A s \in CuSlots : s # slot[t] => staging'[s] = staging[s]
<1>1. PICK kept \in SUBSET Owned({slot[t]}), stuck \in SUBSET Staged({slot[t]}) :
         /\ FreesBuffers(({slot[t]} \X Kinds) \ kept)
         /\ ReleaseHost({slot[t]} \ stuck)
         /\ Poisons(kept # {} \/ stuck # {})
  BY DEF DropsAll
<1>2. ({slot[t]} \X Kinds) \ kept \in SUBSET ({slot[t]} \X Kinds)
  OBVIOUS
<1>3. Thins({slot[t]})
  BY <1>1, <1>2 DEF FreesBuffers, Thins
<1>4. poisoned' = poisoned \/ poisoned' = TRUE
  BY <1>1 DEF Poisons, Ranges
<1>5. /\ staging' = [s \in CuSlots |-> staging'[s]]
      /\ \A s \in CuSlots : s # slot[t] => staging'[s] = staging[s]
  BY <1>1 DEF ReleaseHost
<1>6. QED BY <1>3, <1>4, <1>5

(* A new staging buffer may cost the idle workers theirs, not the others.  *)
LEMMA Restaging ==
  ASSUME NEW t \in Threads, NEW n, Restaged(t, n)
  PROVE  /\ staging' = [s \in CuSlots |-> staging'[s]]
         /\ \A s \in CuSlots :
               s # slot[t] /\ s \in busy => staging'[s] = staging[s]
BY DEF Restaged, GivesUp, Idle

(* acquire_host that fails has freed at most the thread's own staging      *)
(* buffer and those of idle workers.                                       *)
LEMMA NotStarting ==
  ASSUME Ranges, NEW t \in Threads, CuCannotStart(t)
  PROVE  /\ staging' = [s \in CuSlots |-> staging'[s]]
         /\ \A s \in CuSlots :
               s # slot[t] /\ s \in busy => staging'[s] = staging[s]
         /\ poisoned' = poisoned \/ poisoned' = TRUE
<1>1. \/ UNCHANGED <<staging, poisoned>>
      \/ Restaged(t, 0) /\ poisoned' = poisoned
      \/ \E S \in SUBSET GivesUp(t) : ReleaseHost(S) /\ Poisons(TRUE)
  <2>1. \A kept : (IF slot[t] \in kept THEN {} ELSE GivesUp(t) \ kept)
                     \in SUBSET GivesUp(t)
    OBVIOUS
  <2>2. QED BY <2>1 DEF CuCannotStart
<1>2. CASE UNCHANGED <<staging, poisoned>>
  BY <1>2 DEF Ranges
<1>3. CASE Restaged(t, 0) /\ poisoned' = poisoned
  BY <1>3, Restaging
<1>4. ASSUME NEW S \in SUBSET GivesUp(t), ReleaseHost(S), Poisons(TRUE)
      PROVE  /\ staging' = [s \in CuSlots |-> staging'[s]]
             /\ \A s \in CuSlots :
                   s # slot[t] /\ s \in busy => staging'[s] = staging[s]
             /\ poisoned' = poisoned \/ poisoned' = TRUE
  BY <1>4 DEF ReleaseHost, GivesUp, Idle, Poisons
<1>5. QED BY <1>1, <1>2, <1>3, <1>4

CapKept ==
    /\ cap' \in [Slots \X Kinds -> Nat]
    /\ \A s \in Slots, k \in Kinds :
          (s \in busy /\ s \in busy') \/ (s \in dma /\ s \in dma')
          => cap'[<<s, k>>] = cap[<<s, k>>]

(* Freeing buffers of workers that are neither leased nor transferring is  *)
(* harmless.                                                               *)
LEMMA ThinningKeeps ==
  ASSUME Ranges, NEW S, Thins(S),
         \A s \in Slots : s \in S =>
            (s \notin busy \/ s \notin busy') /\ (s \notin dma \/ s \notin dma')
  PROVE  CapKept
BY Thinning DEF CapKept

(* Where the worker of a thread stands.                                    *)
LEMMA Held ==
  ASSUME IInv, NEW t \in Threads
  PROVE  /\ pc[t] \in ClHeld =>
               slot[t] \in ClSlots /\ slot[t] \in Slots /\ slot[t] \notin dma
         /\ pc[t] \in CuHeld => slot[t] \in CuSlots /\ slot[t] \in Slots
         /\ Fitting(t) => slot[t] \notin busy
         /\ pc[t] \in {"cu_fit", "cu_retry"} =>
               ~poisoned /\ slot[t] \notin dma
         /\ pc[t] \in Leased => slot[t] \in busy
         /\ slot[t] \in dma => pc[t] = "cu_dma"
BY Disjoint DEF IInv, Ranges, Placed, Quarantined, LeaseExclusive, ClHeld,
   CuHeld, Fitting, Slots, CuUnlocked

(* Without poison every transfer belongs to a busy worker.                  *)
LEMMA Quarantine == IInv /\ ~poisoned => dma \subseteq busy
BY DEF IInv, Quarantined

(* A step keeps the buffers of a worker that stays leased, and of one whose *)
(* transfer stays open.                                                    *)
LEMMA CapStep == IInv /\ [Next]_vars => CapKept
<1> SUFFICES ASSUME IInv, [Next]_vars PROVE CapKept
  OBVIOUS
<1> USE DEF IInv, Ranges, Goes, memory, request, ClHeld, CuHeld, Fitting,
    Leased, CapKept
<1>1. ASSUME NEW t \in Threads, ClCall(t) PROVE CapKept
  BY <1>1 DEF ClCall
<1>2. ASSUME NEW t \in Threads, ClAdmits(t) PROVE CapKept
  <2>1. cap' = cap \/ Thins(Idle(ClSlots))
    BY <1>2, Releasing DEF ClAdmits, Reclaims
  <2>2. CASE Thins(Idle(ClSlots))
    <3>1. \A s \in Slots : s \in busy \/ s \in dma => s \notin Idle(ClSlots)
      BY Disjoint DEF Idle
    <3>2. QED BY <2>2, <3>1, ThinningKeeps
  <2>3. QED BY <2>1, <2>2
<1>3. ASSUME NEW t \in Threads, ClWaits(t) PROVE CapKept
  <2>1. cap' = cap \/ Thins(Idle(ClSlots))
    BY <1>3, Releasing DEF ClWaits, Reclaims
  <2>2. CASE Thins(Idle(ClSlots))
    <3>1. \A s \in Slots : s \in busy \/ s \in dma => s \notin Idle(ClSlots)
      BY Disjoint DEF Idle
    <3>2. QED BY <2>2, <3>1, ThinningKeeps
  <2>3. QED BY <2>1, <2>2
<1>4. ASSUME NEW t \in Threads, ClDeclines(t) PROVE CapKept
  <2>1. cap' = cap \/ Thins(Idle(ClSlots))
    BY <1>4, Releasing DEF ClDeclines, Reclaims
  <2>2. CASE Thins(Idle(ClSlots))
    <3>1. \A s \in Slots : s \in busy \/ s \in dma => s \notin Idle(ClSlots)
      BY Disjoint DEF Idle
    <3>2. QED BY <2>2, <3>1, ThinningKeeps
  <2>3. QED BY <2>1, <2>2
<1>5. ASSUME NEW t \in Threads, ClGrows(t) PROVE CapKept
  BY <1>5, Growth, Held DEF ClGrows
<1>6. ASSUME NEW t \in Threads, ClFails(t) PROVE CapKept
  <2>1. Thins({slot[t]})
    BY <1>6, Releasing DEF ClFails
  <2>2. slot[t] \notin busy /\ slot[t] \notin dma
    BY <1>6, Held DEF ClFails
  <2>3. \A s \in Slots : s \in {slot[t]} => s \notin busy /\ s \notin dma
    BY <2>2
  <2>4. Ranges
    OBVIOUS
  <2> HIDE DEF IInv, Ranges, CapKept
  <2>5. QED BY <2>1, <2>3, <2>4, ThinningKeeps
<1>7. ASSUME NEW t \in Threads, ClLeases(t) PROVE CapKept
  BY <1>7 DEF ClLeases
<1>8. ASSUME NEW t \in Threads, NEW success \in BOOLEAN, ClReturns(t, success)
      PROVE CapKept
  <2>1. cap' = cap \/ Thins({slot[t]})
    BY <1>8, Releasing DEF ClReturns
  <2>2. slot[t] \notin busy' /\ slot[t] \notin dma
    BY <1>8, Held DEF ClReturns
  <2>3. CASE cap' = cap BY <2>3
  <2>4. CASE Thins({slot[t]})
    <3>1. \A s \in Slots : s \in {slot[t]} => s \notin busy' /\ s \notin dma
      BY <2>2
    <3>2. Ranges
      OBVIOUS
    <3> HIDE DEF IInv, Ranges, CapKept
    <3>3. QED BY <2>4, <3>1, <3>2, ThinningKeeps
  <2>5. QED BY <2>1, <2>3, <2>4
<1>9. ASSUME NEW t \in Threads, ClWakesUnsignalled(t) PROVE CapKept
  BY <1>9 DEF ClWakesUnsignalled
<1>10. ASSUME NEW t \in Threads, CuCall(t) PROVE CapKept
  BY <1>10 DEF CuCall
<1>11. ASSUME NEW t \in Threads, CuDeclines(t) PROVE CapKept
  BY <1>11 DEF CuDeclines
<1>12. ASSUME NEW t \in Threads, CuEnters(t) PROVE CapKept
  BY <1>12 DEF CuEnters
<1>13. ASSUME NEW t \in Threads, CuGrows(t) PROVE CapKept
  BY <1>13, Growth, Held DEF CuGrows
<1>14. ASSUME NEW t \in Threads, CuReclaims(t) PROVE CapKept
  <2>1. Thins(Idle(CuSlots) \ {slot[t]})
    BY <1>14, CuReleasing DEF CuReclaims
  <2>2. ~poisoned
    BY <1>14, Held DEF CuReclaims
  <2>3. \A s \in Slots :
           s \in busy \/ s \in dma => s \notin Idle(CuSlots) \ {slot[t]}
    BY <2>2, Quarantine DEF Idle
  <2>4. QED BY <2>1, <2>3, ThinningKeeps
<1>15. ASSUME NEW t \in Threads, CuCannotFree(t) PROVE CapKept
  BY <1>15 DEF CuCannotFree
<1>16. ASSUME NEW t \in Threads, CuFails(t) PROVE CapKept
  <2>1. Thins({slot[t]})
    BY <1>16, Failing
  <2>2. slot[t] \notin busy /\ slot[t] \notin dma
    BY <1>16, Held DEF CuFails
  <2>3. \A s \in Slots : s \in {slot[t]} => s \notin busy /\ s \notin dma
    BY <2>2
  <2>4. Ranges
    OBVIOUS
  <2> HIDE DEF IInv, Ranges, CapKept
  <2>5. QED BY <2>1, <2>3, <2>4, ThinningKeeps
<1>17. ASSUME NEW t \in Threads, CuLeases(t) PROVE CapKept
  BY <1>17 DEF CuLeases
<1>18. ASSUME NEW t \in Threads, CuStarts(t) PROVE CapKept
  BY <1>18 DEF CuStarts
<1>19. ASSUME NEW t \in Threads, CuCannotStart(t) PROVE CapKept
  BY <1>19 DEF CuCannotStart
<1>20. ASSUME NEW t \in Threads, NEW success \in BOOLEAN, CuReturns(t, success)
      PROVE CapKept
  <2>1. cap' = cap \/ Thins({slot[t]})
    BY <1>20, Dropping DEF CuReturns
  <2>2. slot[t] \notin busy' /\ slot[t] \notin dma'
    BY <1>20 DEF CuReturns
  <2>3. CASE cap' = cap BY <2>3
  <2>4. CASE Thins({slot[t]})
    <3>1. \A s \in Slots :
             s \in {slot[t]} => s \notin busy' /\ s \notin dma'
      BY <2>2
    <3>2. Ranges
      OBVIOUS
    <3> HIDE DEF IInv, Ranges, CapKept
    <3>3. QED BY <2>4, <3>1, <3>2, ThinningKeeps
  <2>5. QED BY <2>1, <2>3, <2>4
<1>21. ASSUME NEW t \in Threads, CuQuarantines(t) PROVE CapKept
  BY <1>21 DEF CuQuarantines
<1>22. CASE UNCHANGED vars
  BY <1>22 DEF vars
<1> HIDE DEF IInv, Ranges, Goes, memory, request, ClHeld, CuHeld, Fitting,
    Leased, CapKept
<1>23. QED
  BY <1>1, <1>2, <1>3, <1>4, <1>5, <1>6, <1>7, <1>8, <1>9, <1>10, <1>11,
      <1>12, <1>13, <1>14, <1>15, <1>16, <1>17, <1>18, <1>19, <1>20, <1>21,
      <1>22 DEF Next, Step, ClStep, CuStep, Finished

(* The variables keep their ranges.                                        *)
LEMMA RangesStep == IInv /\ [Next]_vars => Ranges'
<1> SUFFICES ASSUME IInv, [Next]_vars PROVE Ranges'
  OBVIOUS
<1> USE DEF IInv, Ranges, Goes, memory, request, Labels, ClHeld, CuHeld,
    Fitting, Leased, CapKept
<1>1. ASSUME NEW t \in Threads, ClCall(t) PROVE Ranges'
  BY <1>1, CapStep, Held DEF ClCall
<1>2. ASSUME NEW t \in Threads, ClAdmits(t) PROVE Ranges'
  BY <1>2, CapStep, Held DEF ClAdmits, Idle, Slots
<1>3. ASSUME NEW t \in Threads, ClWaits(t) PROVE Ranges'
  BY <1>3, CapStep, Held DEF ClWaits
<1>4. ASSUME NEW t \in Threads, ClDeclines(t) PROVE Ranges'
  BY <1>4, CapStep, Held DEF ClDeclines, Wakes, Leaves, NoDemand
<1>5. ASSUME NEW t \in Threads, ClGrows(t) PROVE Ranges'
  BY <1>5, CapStep, Held DEF ClGrows
<1>6. ASSUME NEW t \in Threads, ClFails(t) PROVE Ranges'
  BY <1>6, CapStep, Held DEF ClFails, Wakes, Leaves, NoDemand
<1>7. ASSUME NEW t \in Threads, ClLeases(t) PROVE Ranges'
  BY <1>7, CapStep, Held DEF ClLeases
<1>8. ASSUME NEW t \in Threads, NEW success \in BOOLEAN, ClReturns(t, success)
      PROVE Ranges'
  BY <1>8, CapStep, Held DEF ClReturns, Wakes, Leaves, NoDemand
<1>9. ASSUME NEW t \in Threads, ClWakesUnsignalled(t) PROVE Ranges'
  BY <1>9, CapStep, Held DEF ClWakesUnsignalled
<1>10. ASSUME NEW t \in Threads, CuCall(t) PROVE Ranges'
  BY <1>10, CapStep, Held DEF CuCall
<1>11. ASSUME NEW t \in Threads, CuDeclines(t) PROVE Ranges'
  BY <1>11, CapStep, Held DEF CuDeclines, Leaves, NoDemand
<1>12. ASSUME NEW t \in Threads, CuEnters(t) PROVE Ranges'
  BY <1>12, CapStep, Held DEF CuEnters, Idle, Slots
<1>13. ASSUME NEW t \in Threads, CuGrows(t) PROVE Ranges'
  BY <1>13, CapStep, Held DEF CuGrows
<1>14. ASSUME NEW t \in Threads, CuReclaims(t) PROVE Ranges'
  BY <1>14, CapStep, Held, CuReleasing DEF CuReclaims, Leaves, NoDemand
<1>15. ASSUME NEW t \in Threads, CuCannotFree(t) PROVE Ranges'
  BY <1>15, CapStep, Held DEF CuCannotFree, Leaves, NoDemand
<1>16. ASSUME NEW t \in Threads, CuFails(t) PROVE Ranges'
  BY <1>16, CapStep, Held, Failing DEF CuFails, Leaves, NoDemand
<1>17. ASSUME NEW t \in Threads, CuLeases(t) PROVE Ranges'
  BY <1>17, CapStep, Held DEF CuLeases
<1>18. ASSUME NEW t \in Threads, CuStarts(t) PROVE Ranges'
  BY <1>18, CapStep, Held, Restaging DEF CuStarts
<1>19. ASSUME NEW t \in Threads, CuCannotStart(t) PROVE Ranges'
  BY <1>19, CapStep, Held, NotStarting DEF CuCannotStart
<1>20. ASSUME NEW t \in Threads, NEW success \in BOOLEAN, CuReturns(t, success)
      PROVE Ranges'
  BY <1>20, CapStep, Held, Dropping DEF CuReturns, Leaves, NoDemand
<1>21. ASSUME NEW t \in Threads, CuQuarantines(t) PROVE Ranges'
  BY <1>21, CapStep, Held DEF CuQuarantines, Leaves, NoDemand
<1>22. CASE UNCHANGED vars
  BY <1>22 DEF vars
<1> HIDE DEF IInv, Ranges, Goes, memory, request, Labels, ClHeld, CuHeld,
    Fitting, Leased, CapKept
<1>23. QED
  BY <1>1, <1>2, <1>3, <1>4, <1>5, <1>6, <1>7, <1>8, <1>9, <1>10, <1>11,
      <1>12, <1>13, <1>14, <1>15, <1>16, <1>17, <1>18, <1>19, <1>20, <1>21,
      <1>22 DEF Next, Step, ClStep, CuStep, Finished

(* Who has a worker, and which.                                            *)
LEMMA PlacedStep == IInv /\ [Next]_vars => Placed'
<1> SUFFICES ASSUME IInv, [Next]_vars PROVE Placed'
  OBVIOUS
<1> USE DEF IInv, Ranges, Goes, memory, request, Placed, Slots, ClHeld,
    CuHeld, Fitting, Leased
<1>1. ASSUME NEW t \in Threads, ClCall(t) PROVE Placed'
  BY <1>1, Disjoint, Held DEF ClCall
<1>2. ASSUME NEW t \in Threads, ClAdmits(t) PROVE Placed'
  BY <1>2, Disjoint, Held DEF ClAdmits, Idle, ClUnlocked
<1>3. ASSUME NEW t \in Threads, ClWaits(t) PROVE Placed'
  BY <1>3, Disjoint, Held DEF ClWaits
<1>4. ASSUME NEW t \in Threads, ClDeclines(t) PROVE Placed'
  BY <1>4, Disjoint, Held DEF ClDeclines, Wakes, Leaves
<1>5. ASSUME NEW t \in Threads, ClGrows(t) PROVE Placed'
  BY <1>5, Disjoint, Held DEF ClGrows
<1>6. ASSUME NEW t \in Threads, ClFails(t) PROVE Placed'
  BY <1>6, Disjoint, Held DEF ClFails, Wakes, Leaves
<1>7. ASSUME NEW t \in Threads, ClLeases(t) PROVE Placed'
  BY <1>7, Disjoint, Held DEF ClLeases
<1>8. ASSUME NEW t \in Threads, NEW success \in BOOLEAN, ClReturns(t, success)
      PROVE Placed'
  BY <1>8, Disjoint, Held DEF ClReturns, Wakes, Leaves
<1>9. ASSUME NEW t \in Threads, ClWakesUnsignalled(t) PROVE Placed'
  BY <1>9, Disjoint, Held DEF ClWakesUnsignalled
<1>10. ASSUME NEW t \in Threads, CuCall(t) PROVE Placed'
  BY <1>10, Disjoint, Held DEF CuCall
<1>11. ASSUME NEW t \in Threads, CuDeclines(t) PROVE Placed'
  BY <1>11, Disjoint, Held DEF CuDeclines, Leaves
<1>12. ASSUME NEW t \in Threads, CuEnters(t) PROVE Placed'
  BY <1>12, Disjoint, Held DEF CuEnters, Idle, CuUnlocked, CudaOn
<1>13. ASSUME NEW t \in Threads, CuGrows(t) PROVE Placed'
  BY <1>13, Disjoint, Held DEF CuGrows
<1>14. ASSUME NEW t \in Threads, CuReclaims(t) PROVE Placed'
  BY <1>14, Disjoint, Held DEF CuReclaims, Leaves
<1>15. ASSUME NEW t \in Threads, CuCannotFree(t) PROVE Placed'
  BY <1>15, Disjoint, Held DEF CuCannotFree, Leaves
<1>16. ASSUME NEW t \in Threads, CuFails(t) PROVE Placed'
  BY <1>16, Disjoint, Held DEF CuFails, Leaves
<1>17. ASSUME NEW t \in Threads, CuLeases(t) PROVE Placed'
  BY <1>17, Disjoint, Held DEF CuLeases
<1>18. ASSUME NEW t \in Threads, CuStarts(t) PROVE Placed'
  BY <1>18, Disjoint, Held DEF CuStarts
<1>19. ASSUME NEW t \in Threads, CuCannotStart(t) PROVE Placed'
  BY <1>19, Disjoint, Held DEF CuCannotStart
<1>20. ASSUME NEW t \in Threads, NEW success \in BOOLEAN, CuReturns(t, success)
      PROVE Placed'
  BY <1>20, Disjoint, Held DEF CuReturns, Leaves
<1>21. ASSUME NEW t \in Threads, CuQuarantines(t) PROVE Placed'
  BY <1>21, Disjoint, Held DEF CuQuarantines, Leaves
<1>22. CASE UNCHANGED vars
  BY <1>22 DEF vars
<1> HIDE DEF IInv, Ranges, Goes, memory, request, Placed, Slots, ClHeld,
    CuHeld, Fitting, Leased
<1>23. QED
  BY <1>1, <1>2, <1>3, <1>4, <1>5, <1>6, <1>7, <1>8, <1>9, <1>10, <1>11,
      <1>12, <1>13, <1>14, <1>15, <1>16, <1>17, <1>18, <1>19, <1>20, <1>21,
      <1>22 DEF Next, Step, ClStep, CuStep, Finished

(* The worker of a transfer nobody waits for stays out of use.             *)
LEMMA QuarantineStep == IInv /\ [Next]_vars => Quarantined'
<1> SUFFICES ASSUME IInv, [Next]_vars PROVE Quarantined'
  OBVIOUS
<1> USE DEF IInv, Ranges, Goes, memory, request, Placed, Quarantined,
    LeaseExclusive, CuUnlocked, ClHeld, CuHeld, Fitting, Leased
<1>1. ASSUME NEW t \in Threads, ClCall(t) PROVE Quarantined'
  BY <1>1, Disjoint, Held DEF ClCall
<1>2. ASSUME NEW t \in Threads, ClAdmits(t) PROVE Quarantined'
  BY <1>2, Disjoint, Held DEF ClAdmits, Idle, ClUnlocked
<1>3. ASSUME NEW t \in Threads, ClWaits(t) PROVE Quarantined'
  BY <1>3, Disjoint, Held DEF ClWaits
<1>4. ASSUME NEW t \in Threads, ClDeclines(t) PROVE Quarantined'
  BY <1>4, Disjoint, Held DEF ClDeclines, Wakes, Leaves
<1>5. ASSUME NEW t \in Threads, ClGrows(t) PROVE Quarantined'
  BY <1>5, Disjoint, Held DEF ClGrows
<1>6. ASSUME NEW t \in Threads, ClFails(t) PROVE Quarantined'
  <2>1. \A s \in dma' : s \notin busy' => poisoned'
    BY <1>6, Disjoint, Held DEF ClFails, Wakes, Leaves
  <2>2. ASSUME NEW u \in Threads, slot'[u] \in dma' PROVE pc'[u] = "cu_dma"
    <3>1. u # t
      BY <1>6, <2>2, Disjoint, Quarantine DEF ClFails, Slots, Leaves
    <3>2. slot'[u] = slot[u] /\ dma' = dma
      BY <1>6, <3>1 DEF ClFails, Leaves
    <3>3. pc[u] = "cu_dma"
      BY <2>2, <3>2
    <3>4. QED BY <1>6, <3>1, <3>3 DEF ClFails, Wakes
  <2>3. poisoned' => CuUnlocked'
    BY <1>6, Disjoint, Held DEF ClFails, Wakes, Leaves
  <2>4. QED BY <2>1, <2>2, <2>3
<1>7. ASSUME NEW t \in Threads, ClLeases(t) PROVE Quarantined'
  BY <1>7, Disjoint, Held DEF ClLeases
<1>8. ASSUME NEW t \in Threads, NEW success \in BOOLEAN, ClReturns(t, success)
      PROVE Quarantined'
  <2>1. \A s \in dma' : s \notin busy' => poisoned'
    BY <1>8, Disjoint, Held DEF ClReturns, Wakes, Leaves
  <2>2. ASSUME NEW u \in Threads, slot'[u] \in dma' PROVE pc'[u] = "cu_dma"
    <3>1. u # t
      BY <1>8, <2>2, Disjoint, Quarantine DEF ClReturns, Slots, Leaves
    <3>2. slot'[u] = slot[u] /\ dma' = dma
      BY <1>8, <3>1 DEF ClReturns, Leaves
    <3>3. pc[u] = "cu_dma"
      BY <2>2, <3>2
    <3>4. QED BY <1>8, <3>1, <3>3 DEF ClReturns, Wakes
  <2>3. poisoned' => CuUnlocked'
    BY <1>8, Disjoint, Held DEF ClReturns, Wakes, Leaves
  <2>4. QED BY <2>1, <2>2, <2>3
<1>9. ASSUME NEW t \in Threads, ClWakesUnsignalled(t) PROVE Quarantined'
  BY <1>9, Disjoint, Held DEF ClWakesUnsignalled
<1>10. ASSUME NEW t \in Threads, CuCall(t) PROVE Quarantined'
  BY <1>10, Disjoint, Held DEF CuCall
<1>11. ASSUME NEW t \in Threads, CuDeclines(t) PROVE Quarantined'
  BY <1>11, Disjoint, Held DEF CuDeclines, Leaves
<1>12. ASSUME NEW t \in Threads, CuEnters(t) PROVE Quarantined'
  <2>1. \A s \in dma' : s \notin busy' => poisoned'
    BY <1>12, Disjoint, Held DEF CuEnters, Idle, CuUnlocked, CudaOn
  <2>2. ASSUME NEW u \in Threads, slot'[u] \in dma' PROVE pc'[u] = "cu_dma"
    <3>1. u # t
      BY <1>12, <2>2, Disjoint, Quarantine DEF CuEnters, Slots, Idle, CuUnlocked, CudaOn
    <3>2. slot'[u] = slot[u] /\ dma' = dma
      BY <1>12, <3>1 DEF CuEnters
    <3>3. pc[u] = "cu_dma"
      BY <2>2, <3>2
    <3>4. QED BY <1>12, <3>1, <3>3 DEF CuEnters
  <2>3. poisoned' => CuUnlocked'
    BY <1>12, Disjoint, Held DEF CuEnters, Idle, CuUnlocked, CudaOn
  <2>4. QED BY <2>1, <2>2, <2>3
<1>13. ASSUME NEW t \in Threads, CuGrows(t) PROVE Quarantined'
  BY <1>13, Disjoint, Held DEF CuGrows
<1>14. ASSUME NEW t \in Threads, CuReclaims(t) PROVE Quarantined'
  BY <1>14, Disjoint, Held, CuReleasing DEF CuReclaims, Leaves
<1>15. ASSUME NEW t \in Threads, CuCannotFree(t) PROVE Quarantined'
  BY <1>15, Disjoint, Held DEF CuCannotFree, Leaves
<1>16. ASSUME NEW t \in Threads, CuFails(t) PROVE Quarantined'
  BY <1>16, Disjoint, Held, Failing DEF CuFails, Leaves
<1>17. ASSUME NEW t \in Threads, CuLeases(t) PROVE Quarantined'
  BY <1>17, Disjoint, Held DEF CuLeases
<1>18. ASSUME NEW t \in Threads, CuStarts(t) PROVE Quarantined'
  BY <1>18, Disjoint, Held DEF CuStarts
<1>19. ASSUME NEW t \in Threads, CuCannotStart(t) PROVE Quarantined'
  <2>1. /\ dma' = dma /\ busy' = busy /\ slot' = slot
        /\ pc' = [pc EXCEPT ![t] = "cu_fail"] /\ pc[t] = "cu_stage"
        /\ CuUnlocked
    BY <1>19 DEF CuCannotStart
  <2>2. poisoned' = poisoned \/ poisoned' = TRUE
    BY <1>19, NotStarting
  <2>3. QED BY <2>1, <2>2, Held
<1>20. ASSUME NEW t \in Threads, NEW success \in BOOLEAN, CuReturns(t, success)
      PROVE Quarantined'
  <2>1. \A s \in dma' : s \notin busy' => poisoned'
    BY <1>20, Disjoint, Held, Dropping DEF CuReturns, Leaves
  <2>2. ASSUME NEW u \in Threads, slot'[u] \in dma' PROVE pc'[u] = "cu_dma"
    <3>1. u # t
      BY <1>20, <2>2, Disjoint, Quarantine DEF CuReturns, Slots, Leaves
    <3>2. slot'[u] = slot[u] /\ dma' \subseteq dma
      BY <1>20, <3>1 DEF CuReturns, Leaves
    <3>3. pc[u] = "cu_dma"
      BY <2>2, <3>2
    <3>4. QED BY <1>20, <3>1, <3>3 DEF CuReturns
  <2>3. poisoned' => CuUnlocked'
    BY <1>20, Disjoint, Held, Dropping DEF CuReturns, Leaves
  <2>4. QED BY <2>1, <2>2, <2>3
<1>21. ASSUME NEW t \in Threads, CuQuarantines(t) PROVE Quarantined'
  <2>1. \A s \in dma' : s \notin busy' => poisoned'
    BY <1>21, Disjoint, Held DEF CuQuarantines, Leaves
  <2>2. ASSUME NEW u \in Threads, slot'[u] \in dma' PROVE pc'[u] = "cu_dma"
    <3>1. u # t
      BY <1>21, <2>2, Disjoint, Quarantine DEF CuQuarantines, Slots, Leaves
    <3>2. slot'[u] = slot[u] /\ dma' = dma
      BY <1>21, <3>1 DEF CuQuarantines, Leaves
    <3>3. pc[u] = "cu_dma"
      BY <2>2, <3>2
    <3>4. QED BY <1>21, <3>1, <3>3 DEF CuQuarantines
  <2>3. poisoned' => CuUnlocked'
    BY <1>21, Disjoint, Held DEF CuQuarantines, Leaves
  <2>4. QED BY <2>1, <2>2, <2>3
<1>22. CASE UNCHANGED vars
  BY <1>22 DEF vars
<1> HIDE DEF IInv, Ranges, Goes, memory, request, Placed, Quarantined,
    LeaseExclusive, CuUnlocked, ClHeld, CuHeld, Fitting, Leased
<1>23. QED
  BY <1>1, <1>2, <1>3, <1>4, <1>5, <1>6, <1>7, <1>8, <1>9, <1>10, <1>11,
      <1>12, <1>13, <1>14, <1>15, <1>16, <1>17, <1>18, <1>19, <1>20, <1>21,
      <1>22 DEF Next, Step, ClStep, CuStep, Finished

Apart == \A u, v \in Threads : slot[u] # None /\ slot[u] = slot[v] => u = v
Taken == \A s \in Slots :
            s \in busy <=> \E u \in Threads : pc[u] \in Leased /\ slot[u] = s
Fitted == \A u \in Threads : pc[u] \in Leased => Short(u) = {}

(* The parts of LeaseExclusive.                                            *)
LEMMA Parts == Ranges /\ Placed => (LeaseExclusive <=> Apart /\ Taken /\ Fitted)
<1> SUFFICES ASSUME Ranges, Placed
             PROVE  LeaseExclusive <=> Apart /\ Taken /\ Fitted
  OBVIOUS
<1>1. \A u \in Threads : pc[u] \in Leased => slot[u] \in Slots
  BY DEF Placed, Leased, ClHeld, CuHeld, Slots
<1>2. Taken <=> busy = {slot[u] : u \in {v \in Threads : pc[v] \in Leased}}
  BY <1>1 DEF Taken, Ranges
<1>3. QED BY <1>2 DEF LeaseExclusive, Apart, Fitted

(* No two threads have the same worker.                                    *)
LEMMA ApartStep == IInv /\ [Next]_vars => Apart'
<1> SUFFICES ASSUME IInv, [Next]_vars PROVE Apart'
  OBVIOUS
<1> USE DEF IInv, Ranges, Goes, memory, request, Placed, LeaseExclusive,
    Apart, ClHeld, CuHeld, Fitting, Leased
<1>1. ASSUME NEW t \in Threads, ClCall(t) PROVE Apart'
  BY <1>1, Disjoint, Held DEF ClCall
<1>2. ASSUME NEW t \in Threads, ClAdmits(t) PROVE Apart'
  BY <1>2, Disjoint, Held DEF ClAdmits, Idle, ClUnlocked
<1>3. ASSUME NEW t \in Threads, ClWaits(t) PROVE Apart'
  BY <1>3, Disjoint, Held DEF ClWaits
<1>4. ASSUME NEW t \in Threads, ClDeclines(t) PROVE Apart'
  BY <1>4, Disjoint, Held DEF ClDeclines, Wakes, Leaves
<1>5. ASSUME NEW t \in Threads, ClGrows(t) PROVE Apart'
  BY <1>5, Disjoint, Held DEF ClGrows
<1>6. ASSUME NEW t \in Threads, ClFails(t) PROVE Apart'
  BY <1>6, Disjoint, Held DEF ClFails, Wakes, Leaves
<1>7. ASSUME NEW t \in Threads, ClLeases(t) PROVE Apart'
  BY <1>7, Disjoint, Held DEF ClLeases
<1>8. ASSUME NEW t \in Threads, NEW success \in BOOLEAN, ClReturns(t, success)
      PROVE Apart'
  BY <1>8, Disjoint, Held DEF ClReturns, Wakes, Leaves
<1>9. ASSUME NEW t \in Threads, ClWakesUnsignalled(t) PROVE Apart'
  BY <1>9, Disjoint, Held DEF ClWakesUnsignalled
<1>10. ASSUME NEW t \in Threads, CuCall(t) PROVE Apart'
  BY <1>10, Disjoint, Held DEF CuCall
<1>11. ASSUME NEW t \in Threads, CuDeclines(t) PROVE Apart'
  BY <1>11, Disjoint, Held DEF CuDeclines, Leaves
<1>12. ASSUME NEW t \in Threads, CuEnters(t) PROVE Apart'
  BY <1>12, Disjoint, Held DEF CuEnters, Idle, CuUnlocked, CudaOn
<1>13. ASSUME NEW t \in Threads, CuGrows(t) PROVE Apart'
  BY <1>13, Disjoint, Held DEF CuGrows
<1>14. ASSUME NEW t \in Threads, CuReclaims(t) PROVE Apart'
  BY <1>14, Disjoint, Held DEF CuReclaims, Leaves
<1>15. ASSUME NEW t \in Threads, CuCannotFree(t) PROVE Apart'
  BY <1>15, Disjoint, Held DEF CuCannotFree, Leaves
<1>16. ASSUME NEW t \in Threads, CuFails(t) PROVE Apart'
  BY <1>16, Disjoint, Held DEF CuFails, Leaves
<1>17. ASSUME NEW t \in Threads, CuLeases(t) PROVE Apart'
  BY <1>17, Disjoint, Held DEF CuLeases
<1>18. ASSUME NEW t \in Threads, CuStarts(t) PROVE Apart'
  BY <1>18, Disjoint, Held DEF CuStarts
<1>19. ASSUME NEW t \in Threads, CuCannotStart(t) PROVE Apart'
  BY <1>19, Disjoint, Held DEF CuCannotStart
<1>20. ASSUME NEW t \in Threads, NEW success \in BOOLEAN, CuReturns(t, success)
      PROVE Apart'
  BY <1>20, Disjoint, Held DEF CuReturns, Leaves
<1>21. ASSUME NEW t \in Threads, CuQuarantines(t) PROVE Apart'
  BY <1>21, Disjoint, Held DEF CuQuarantines, Leaves
<1>22. CASE UNCHANGED vars
  BY <1>22 DEF vars
<1> HIDE DEF IInv, Ranges, Goes, memory, request, Placed, LeaseExclusive,
    Apart, ClHeld, CuHeld, Fitting, Leased
<1>23. QED
  BY <1>1, <1>2, <1>3, <1>4, <1>5, <1>6, <1>7, <1>8, <1>9, <1>10, <1>11,
      <1>12, <1>13, <1>14, <1>15, <1>16, <1>17, <1>18, <1>19, <1>20, <1>21,
      <1>22 DEF Next, Step, ClStep, CuStep, Finished

(* The busy workers are the leased ones.                                   *)
LEMMA TakenStep == IInv /\ [Next]_vars => Taken'
<1> SUFFICES ASSUME IInv, [Next]_vars PROVE Taken'
  OBVIOUS
<1> USE DEF IInv, Ranges, Goes, memory, request, Placed, Taken, ClHeld,
    CuHeld, Fitting, Leased
<1>1. ASSUME NEW t \in Threads, ClCall(t) PROVE Taken'
  BY <1>1, Disjoint, Held, Parts DEF ClCall
<1>2. ASSUME NEW t \in Threads, ClAdmits(t) PROVE Taken'
  BY <1>2, Disjoint, Held, Parts DEF ClAdmits, Idle, ClUnlocked
<1>3. ASSUME NEW t \in Threads, ClWaits(t) PROVE Taken'
  BY <1>3, Disjoint, Held, Parts DEF ClWaits
<1>4. ASSUME NEW t \in Threads, ClDeclines(t) PROVE Taken'
  BY <1>4, Disjoint, Held, Parts DEF ClDeclines, Wakes, Leaves
<1>5. ASSUME NEW t \in Threads, ClGrows(t) PROVE Taken'
  BY <1>5, Disjoint, Held, Parts DEF ClGrows
<1>6. ASSUME NEW t \in Threads, ClFails(t) PROVE Taken'
  BY <1>6, Disjoint, Held, Parts DEF ClFails, Wakes, Leaves
<1>7. ASSUME NEW t \in Threads, ClLeases(t) PROVE Taken'
  BY <1>7, Disjoint, Held, Parts DEF ClLeases
<1>8. ASSUME NEW t \in Threads, NEW success \in BOOLEAN, ClReturns(t, success)
      PROVE Taken'
  <2>1. busy' = busy \ {slot[t]} /\ slot[t] # None
    BY <1>8, Disjoint, Held DEF ClReturns
  <2>2. pc[t] \in Leased /\ pc'[t] \notin Leased
    BY <1>8 DEF ClReturns, Wakes
  <2>3. \A u \in Threads : u # t =>
           slot'[u] = slot[u] /\ (pc'[u] \in Leased <=> pc[u] \in Leased)
    BY <1>8 DEF ClReturns, Wakes, Leaves
  <2>4. Apart /\ Taken
    BY Parts
  <2>5. QED BY <2>1, <2>2, <2>3, <2>4 DEF Apart
<1>9. ASSUME NEW t \in Threads, ClWakesUnsignalled(t) PROVE Taken'
  BY <1>9, Disjoint, Held, Parts DEF ClWakesUnsignalled
<1>10. ASSUME NEW t \in Threads, CuCall(t) PROVE Taken'
  BY <1>10, Disjoint, Held, Parts DEF CuCall
<1>11. ASSUME NEW t \in Threads, CuDeclines(t) PROVE Taken'
  BY <1>11, Disjoint, Held, Parts DEF CuDeclines, Leaves
<1>12. ASSUME NEW t \in Threads, CuEnters(t) PROVE Taken'
  BY <1>12, Disjoint, Held, Parts DEF CuEnters, Idle, CuUnlocked, CudaOn
<1>13. ASSUME NEW t \in Threads, CuGrows(t) PROVE Taken'
  BY <1>13, Disjoint, Held, Parts DEF CuGrows
<1>14. ASSUME NEW t \in Threads, CuReclaims(t) PROVE Taken'
  BY <1>14, Disjoint, Held, Parts DEF CuReclaims, Leaves
<1>15. ASSUME NEW t \in Threads, CuCannotFree(t) PROVE Taken'
  BY <1>15, Disjoint, Held, Parts DEF CuCannotFree, Leaves
<1>16. ASSUME NEW t \in Threads, CuFails(t) PROVE Taken'
  BY <1>16, Disjoint, Held, Parts DEF CuFails, Leaves
<1>17. ASSUME NEW t \in Threads, CuLeases(t) PROVE Taken'
  BY <1>17, Disjoint, Held, Parts DEF CuLeases
<1>18. ASSUME NEW t \in Threads, CuStarts(t) PROVE Taken'
  BY <1>18, Disjoint, Held, Parts DEF CuStarts
<1>19. ASSUME NEW t \in Threads, CuCannotStart(t) PROVE Taken'
  BY <1>19, Disjoint, Held, Parts DEF CuCannotStart
<1>20. ASSUME NEW t \in Threads, NEW success \in BOOLEAN, CuReturns(t, success)
      PROVE Taken'
  BY <1>20, Disjoint, Held, Parts DEF CuReturns, Leaves, Apart
<1>21. ASSUME NEW t \in Threads, CuQuarantines(t) PROVE Taken'
  BY <1>21, Disjoint, Held, Parts DEF CuQuarantines, Leaves, Apart
<1>22. CASE UNCHANGED vars
  BY <1>22, Parts DEF vars
<1> HIDE DEF IInv, Ranges, Goes, memory, request, Placed, Taken, ClHeld,
    CuHeld, Fitting, Leased
<1>23. QED
  BY <1>1, <1>2, <1>3, <1>4, <1>5, <1>6, <1>7, <1>8, <1>9, <1>10, <1>11,
      <1>12, <1>13, <1>14, <1>15, <1>16, <1>17, <1>18, <1>19, <1>20, <1>21,
      <1>22 DEF Next, Step, ClStep, CuStep, Finished

(* A leased worker that keeps its buffers keeps fitting its tile.           *)
LEMMA StillFits ==
  ASSUME IInv, CapKept, NEW u \in Threads, pc[u] \in Leased,
         slot'[u] = slot[u], need'[u] = need[u], slot[u] \in busy'
  PROVE  Short(u)' = {}
<1>1. Short(u) = {} /\ slot[u] \in busy /\ slot[u] \in Slots
  BY Held DEF IInv, LeaseExclusive, Leased, ClHeld, CuHeld
<1>2. \A k \in Kinds : cap'[<<slot[u], k>>] = cap[<<slot[u], k>>]
  BY <1>1 DEF CapKept
<1>3. QED BY <1>1, <1>2 DEF Short

(* A thread with a lease had it before, or its worker fitted when it took   *)
(* it.                                                                     *)
Stays ==
    \A u \in Threads : pc'[u] \in Leased =>
        \/ pc[u] \in Leased /\ slot'[u] = slot[u] /\ need'[u] = need[u]
        \/ Short(u) = {} /\ cap' = cap /\ slot' = slot /\ need' = need

LEMMA StaysStep == IInv /\ [Next]_vars => Stays
<1> SUFFICES ASSUME IInv, [Next]_vars PROVE Stays
  OBVIOUS
<1> USE DEF Ranges, Goes, memory, request, Stays, Leased, IInv
<1>1. ASSUME NEW t \in Threads, ClCall(t) PROVE Stays
  BY <1>1 DEF ClCall
<1>2. ASSUME NEW t \in Threads, ClAdmits(t) PROVE Stays
  BY <1>2 DEF ClAdmits
<1>3. ASSUME NEW t \in Threads, ClWaits(t) PROVE Stays
  BY <1>3 DEF ClWaits
<1>4. ASSUME NEW t \in Threads, ClDeclines(t) PROVE Stays
  BY <1>4 DEF ClDeclines, Wakes, Leaves
<1>5. ASSUME NEW t \in Threads, ClGrows(t) PROVE Stays
  BY <1>5 DEF ClGrows
<1>6. ASSUME NEW t \in Threads, ClFails(t) PROVE Stays
  BY <1>6 DEF ClFails, Wakes, Leaves
<1>7. ASSUME NEW t \in Threads, ClLeases(t) PROVE Stays
  BY <1>7 DEF ClLeases
<1>8. ASSUME NEW t \in Threads, NEW success \in BOOLEAN, ClReturns(t, success)
      PROVE Stays
  BY <1>8 DEF ClReturns, Wakes, Leaves
<1>9. ASSUME NEW t \in Threads, ClWakesUnsignalled(t) PROVE Stays
  BY <1>9 DEF ClWakesUnsignalled
<1>10. ASSUME NEW t \in Threads, CuCall(t) PROVE Stays
  BY <1>10 DEF CuCall
<1>11. ASSUME NEW t \in Threads, CuDeclines(t) PROVE Stays
  BY <1>11 DEF CuDeclines, Leaves
<1>12. ASSUME NEW t \in Threads, CuEnters(t) PROVE Stays
  BY <1>12 DEF CuEnters
<1>13. ASSUME NEW t \in Threads, CuGrows(t) PROVE Stays
  BY <1>13 DEF CuGrows
<1>14. ASSUME NEW t \in Threads, CuReclaims(t) PROVE Stays
  BY <1>14 DEF CuReclaims, Leaves
<1>15. ASSUME NEW t \in Threads, CuCannotFree(t) PROVE Stays
  BY <1>15 DEF CuCannotFree, Leaves
<1>16. ASSUME NEW t \in Threads, CuFails(t) PROVE Stays
  BY <1>16 DEF CuFails, Leaves
<1>17. ASSUME NEW t \in Threads, CuLeases(t) PROVE Stays
  BY <1>17 DEF CuLeases
<1>18. ASSUME NEW t \in Threads, CuStarts(t) PROVE Stays
  BY <1>18 DEF CuStarts
<1>19. ASSUME NEW t \in Threads, CuCannotStart(t) PROVE Stays
  BY <1>19 DEF CuCannotStart
<1>20. ASSUME NEW t \in Threads, NEW success \in BOOLEAN, CuReturns(t, success)
      PROVE Stays
  BY <1>20 DEF CuReturns, Leaves
<1>21. ASSUME NEW t \in Threads, CuQuarantines(t) PROVE Stays
  BY <1>21 DEF CuQuarantines, Leaves
<1>22. CASE UNCHANGED vars
  BY <1>22 DEF vars
<1> HIDE DEF Ranges, Goes, memory, request, Stays, Leased, IInv
<1>23. QED
  BY <1>1, <1>2, <1>3, <1>4, <1>5, <1>6, <1>7, <1>8, <1>9, <1>10, <1>11,
      <1>12, <1>13, <1>14, <1>15, <1>16, <1>17, <1>18, <1>19, <1>20, <1>21,
      <1>22 DEF Next, Step, ClStep, CuStep, Finished

LEMMA FittedStep == IInv /\ [Next]_vars => Fitted'
<1> SUFFICES ASSUME IInv, [Next]_vars, NEW u \in Threads, pc'[u] \in Leased
             PROVE  Short(u)' = {}
  BY DEF Fitted
<1>1. CASE Short(u) = {} /\ cap' = cap /\ slot' = slot /\ need' = need
  BY <1>1 DEF Short
<1>2. CASE pc[u] \in Leased /\ slot'[u] = slot[u] /\ need'[u] = need[u]
  <2>1. slot[u] \in Slots
    BY <1>2, Held DEF Leased, ClHeld, CuHeld
  <2>2. slot[u] \in busy'
    BY <1>2, <2>1, TakenStep DEF Taken
  <2>3. QED BY <1>2, <2>2, CapStep, StillFits
<1>3. QED BY <1>1, <1>2, StaysStep DEF Stays

LEMMA LeaseStep == IInv /\ [Next]_vars => LeaseExclusive'
<1>1. Ranges' /\ Placed' => (LeaseExclusive' <=> Apart' /\ Taken' /\ Fitted')
  BY Parts, PTL
<1>2. QED BY <1>1, RangesStep, PlacedStep, ApartStep, TakenStep, FittedStep

LEMMA Initially == Init => IInv
BY Sizes DEF Init, IInv, Ranges, Placed, LeaseExclusive, Quarantined, Labels,
   Leased, ClHeld, CuHeld, Fitting, CuUnlocked, NoDemand, None, Slots, CuSlots

(* A step keeps the staging buffer of a transfer that stays open.          *)
StagingKept ==
    \A s \in CuSlots : s \in dma /\ s \in dma' => staging'[s] = staging[s]

LEMMA StagingStep == IInv /\ [Next]_vars => StagingKept
<1> SUFFICES ASSUME IInv, [Next]_vars PROVE StagingKept
  OBVIOUS
<1> USE DEF Ranges, memory, StagingKept, IInv, CuHeld
<1>1. ASSUME NEW t \in Threads, ClCall(t) PROVE StagingKept
  BY <1>1 DEF ClCall
<1>2. ASSUME NEW t \in Threads, ClAdmits(t) PROVE StagingKept
  BY <1>2 DEF ClAdmits
<1>3. ASSUME NEW t \in Threads, ClWaits(t) PROVE StagingKept
  BY <1>3 DEF ClWaits
<1>4. ASSUME NEW t \in Threads, ClDeclines(t) PROVE StagingKept
  BY <1>4 DEF ClDeclines
<1>5. ASSUME NEW t \in Threads, ClGrows(t) PROVE StagingKept
  BY <1>5 DEF ClGrows
<1>6. ASSUME NEW t \in Threads, ClFails(t) PROVE StagingKept
  BY <1>6 DEF ClFails
<1>7. ASSUME NEW t \in Threads, ClLeases(t) PROVE StagingKept
  BY <1>7 DEF ClLeases
<1>8. ASSUME NEW t \in Threads, NEW success \in BOOLEAN, ClReturns(t, success)
      PROVE StagingKept
  BY <1>8 DEF ClReturns
<1>9. ASSUME NEW t \in Threads, ClWakesUnsignalled(t) PROVE StagingKept
  BY <1>9 DEF ClWakesUnsignalled
<1>10. ASSUME NEW t \in Threads, CuCall(t) PROVE StagingKept
  BY <1>10 DEF CuCall
<1>11. ASSUME NEW t \in Threads, CuDeclines(t) PROVE StagingKept
  BY <1>11 DEF CuDeclines
<1>12. ASSUME NEW t \in Threads, CuEnters(t) PROVE StagingKept
  BY <1>12 DEF CuEnters
<1>13. ASSUME NEW t \in Threads, CuGrows(t) PROVE StagingKept
  BY <1>13 DEF CuGrows
<1>14. ASSUME NEW t \in Threads, CuReclaims(t) PROVE StagingKept
  BY <1>14 DEF CuReclaims
<1>15. ASSUME NEW t \in Threads, CuCannotFree(t) PROVE StagingKept
  BY <1>15 DEF CuCannotFree
<1>16. ASSUME NEW t \in Threads, CuFails(t) PROVE StagingKept
  BY <1>16 DEF CuFails
<1>17. ASSUME NEW t \in Threads, CuLeases(t) PROVE StagingKept
  BY <1>17 DEF CuLeases
<1>18. ASSUME NEW t \in Threads, CuStarts(t) PROVE StagingKept
  BY <1>18, Held, Quarantine, Restaging DEF CuStarts
<1>19. ASSUME NEW t \in Threads, CuCannotStart(t) PROVE StagingKept
  BY <1>19, Held, Quarantine, NotStarting DEF CuCannotStart
<1>20. ASSUME NEW t \in Threads, NEW success \in BOOLEAN, CuReturns(t, success)
      PROVE StagingKept
  BY <1>20, Dropping DEF CuReturns
<1>21. ASSUME NEW t \in Threads, CuQuarantines(t) PROVE StagingKept
  BY <1>21 DEF CuQuarantines
<1>22. CASE UNCHANGED vars
  BY <1>22 DEF vars
<1> HIDE DEF Ranges, memory, StagingKept, IInv, CuHeld
<1>23. QED
  BY <1>1, <1>2, <1>3, <1>4, <1>5, <1>6, <1>7, <1>8, <1>9, <1>10, <1>11,
      <1>12, <1>13, <1>14, <1>15, <1>16, <1>17, <1>18, <1>19, <1>20, <1>21,
      <1>22 DEF Next, Step, ClStep, CuStep, Finished

(* Every reachable state satisfies the inductive invariant of AccelPool:   *)
(* the ranges of the variables, where each thread's worker stands, that a  *)
(* lease is exclusive and that the worker of an abandoned transfer is out  *)
(* of use.  It is what acquire_worker, acquire and the clean-ups keep.     *)
THEOREM InductiveInvariant == Spec => []IInv
<1>1. IInv /\ [Next]_vars => IInv'
  BY RangesStep, PlacedStep, LeaseStep, QuarantineStep DEF IInv
<1>2. QED BY Initially, <1>1, PTL DEF Spec

(* acquire_worker and acquire lease a worker to one call at a time, and    *)
(* its buffers are large enough for the tile of that call until the worker *)
(* is returned.                                                            *)
THEOREM LeasesAreExclusive == Spec => []LeaseExclusive
<1>1. IInv => LeaseExclusive
  BY DEF IInv
<1>2. QED BY InductiveInvariant, <1>1, PTL

(* No call, on whichever path, frees or resizes a buffer that a device may *)
(* still be reading or writing: those of a worker running a job, and those *)
(* of a worker quarantined by opj_cuda_decode_tile.                        *)
THEOREM BuffersStay == Spec => ActiveUntouched
<1> DEFINE Kept == \A s \in InUse \cap InUse' :
                     /\ \A k \in Kinds : cap'[<<s, k>>] = cap[<<s, k>>]
                     /\ s \in CuSlots => staging'[s] = staging[s]
<1>1. IInv /\ IInv' /\ [Next]_vars => Kept
  <2> SUFFICES ASSUME IInv, IInv', [Next]_vars,
                      NEW s \in InUse, s \in InUse'
               PROVE  /\ \A k \in Kinds : cap'[<<s, k>>] = cap[<<s, k>>]
                      /\ s \in CuSlots => staging'[s] = staging[s]
    OBVIOUS
  <2>1. s \in dma \/ (s \in ClSlots /\ s \in busy)
    BY Held DEF InUse, ClHeld, Leased
  <2>2. s \in dma' \/ (s \in ClSlots /\ s \in busy')
    BY DEF InUse, IInv, Placed, LeaseExclusive, ClHeld, Leased
  <2>3. dma \subseteq CuSlots /\ dma' \subseteq CuSlots
    BY DEF IInv, Ranges
  <2>4. (s \in dma /\ s \in dma') \/ (s \in ClSlots /\ s \in busy /\ s \in busy')
    BY <2>1, <2>2, <2>3, Disjoint
  <2>5. s \in Slots
    BY <2>3, <2>4 DEF Slots
  <2>6. QED BY <2>3, <2>4, <2>5, CapStep, StagingStep, Disjoint
            DEF CapKept, StagingKept
<1>2. QED BY <1>1, InductiveInvariant, PTL DEF Spec, ActiveUntouched

-----------------------------------------------------------------------------
(* The allowance.  The capacities and the staging buffers are finitely     *)
(* many, so that their sums can be taken apart.                            *)
LEMMA Finite ==
  /\ IsFiniteSet(ClSlots) /\ IsFiniteSet(CuSlots) /\ IsFiniteSet(Slots)
  /\ IsFiniteSet(Kinds)
  /\ \A S \in SUBSET Slots : IsFiniteSet(S) /\ IsFiniteSet(S \X Kinds)
<1>1. IsFiniteSet(ClSlots) /\ IsFiniteSet(CuSlots)
  BY Sizes, FS_Interval DEF ClSlots, CuSlots
<1>2. IsFiniteSet(Slots)
  BY <1>1, FS_Union DEF Slots
<1>3. IsFiniteSet(Kinds)
  BY AccelPoolAssumption DEF AccelPoolAssumption
<1>4. QED BY <1>1, <1>2, <1>3, FS_Subset, FS_Product

(* The bytes of some workers, and those of the others.                     *)
LEMMA BytesApart ==
  ASSUME NEW c \in [Slots \X Kinds -> Nat], NEW R \in SUBSET Slots,
         NEW S \in SUBSET R
  PROVE  /\ SumFunctionOnSet(c, S \X Kinds) \in Nat
         /\ SumFunctionOnSet(c, (R \ S) \X Kinds) \in Nat
         /\ SumFunctionOnSet(c, R \X Kinds) =
               SumFunctionOnSet(c, S \X Kinds)
               + SumFunctionOnSet(c, (R \ S) \X Kinds)
<1> DEFINE A == R \X Kinds
           B == S \X Kinds
<1>1. IsFiniteSet(A) /\ A \in SUBSET (Slots \X Kinds) /\ B \in SUBSET A
  BY Finite
<1>2. A \ B = (R \ S) \X Kinds
  OBVIOUS
<1> HIDE DEF A, B
<1>3. SplitsAt(c, A, B)
  BY <1>1, SumSplit
<1>4. QED BY <1>2, <1>3, Zenon DEF SplitsAt, A, B

Exact == used = Bytes(Slots) /\ used <= Budget

(* used is a number of bytes.                                              *)
LEMMA UsedType == Ranges => Bytes(Slots) \in Nat
BY BytesApart DEF Ranges, Bytes

(* Freeing buffers gives back what they held, no more and no less, and the *)
(* others still count.                                                     *)
LEMMA ReleaseExact ==
  ASSUME Ranges, Exact, NEW Q \in SUBSET (Slots \X Kinds), FreesBuffers(Q)
  PROVE  Exact'
<1> DEFINE D == Slots \X Kinds
<1>1. /\ cap \in [D -> Nat] /\ cap' \in [D -> Nat]
      /\ \A x \in Q : cap'[x] = 0
      /\ \A x \in D \ Q : cap'[x] = cap[x]
  BY DEF Ranges, FreesBuffers, Freed
<1>2. IsFiniteSet(D) /\ IsFiniteSet(Q) /\ IsFiniteSet(D \ Q)
  BY Finite, FS_Subset
<1> HIDE DEF D
<1>3. SplitsAt(cap, D, Q) /\ SplitsAt(cap', D, Q)
  BY <1>1, <1>2, SumSplit DEF D
<1>4. /\ SumFunctionOnSet(cap, Q) \in Nat /\ SumFunctionOnSet(cap, D \ Q) \in Nat
      /\ SumFunctionOnSet(cap, D) =
            SumFunctionOnSet(cap, Q) + SumFunctionOnSet(cap, D \ Q)
  BY <1>3, Zenon DEF SplitsAt
<1>5. SumFunctionOnSet(cap', D) =
         SumFunctionOnSet(cap', Q) + SumFunctionOnSet(cap', D \ Q)
  BY <1>3, Zenon DEF SplitsAt
<1>6. SumFunctionOnSet(cap', Q) = 0
  BY <1>1, <1>2, SumOfNothing
<1>7. SumFunctionOnSet(cap', D \ Q) = SumFunctionOnSet(cap, D \ Q)
  BY <1>1, <1>2, SumAgree
<1>8. /\ used = SumFunctionOnSet(cap, D) /\ used <= Budget
      /\ used' = used - SumFunctionOnSet(cap, Q)
  BY DEF Exact, Bytes, FreesBuffers, D
<1>9. Budget \in Nat
  BY AccelPoolAssumption DEF AccelPoolAssumption
<1>10. used' = SumFunctionOnSet(cap', D) /\ used' <= Budget
  BY <1>4, <1>5, <1>6, <1>7, <1>8, <1>9
<1>11. QED BY <1>10 DEF Exact, Bytes, D

(* A buffer that is freed or created counts with its size, and is created  *)
(* only within the allowance.                                              *)
LEMMA GrowthExact ==
  ASSUME Ranges, Exact, NEW t \in Threads, slot[t] \in Slots,
         FreesNext(t) \/ ReservesNext(t)
  PROVE  Exact'
<1>1. \A k \in Kinds : need[t][k] \in Nat
  BY Sizes DEF Ranges
<1>2. PICK k \in Kinds, n \in Nat :
         /\ cap' = [cap EXCEPT ![<<slot[t], k>>] = n]
         /\ \/ used' = used - cap[<<slot[t], k>>] /\ n = 0
            \/ cap[<<slot[t], k>>] = 0 /\ used' = used + n /\ ~Refused(n)
  BY <1>1 DEF FreesNext, ReservesNext, Short
<1> DEFINE x == <<slot[t], k>>
<1>3. /\ x \in Slots \X Kinds
      /\ cap \in [Slots \X Kinds -> Nat] /\ cap' \in [Slots \X Kinds -> Nat]
      /\ cap'[x] = n /\ \A y \in (Slots \X Kinds) \ {x} : cap[y] = cap'[y]
  BY <1>2 DEF Ranges
<1>4. IsFiniteSet(Slots \X Kinds)
  BY Finite
<1>5. \A y \in Slots \X Kinds : cap[y] \in Int /\ cap'[y] \in Int
  BY <1>3
<1>6. Bytes(Slots)' = Bytes(Slots) - cap[x] + n
  BY <1>3, <1>4, <1>5, SumExcept DEF Bytes
<1>7. Budget \in Nat /\ Bytes(Slots) \in Nat /\ cap[x] \in Nat
  BY <1>3, UsedType, AccelPoolAssumption DEF AccelPoolAssumption
<1> HIDE DEF x
<1>8. /\ \/ used' = used - cap[x] /\ n = 0
         \/ cap[x] = 0 /\ used' = used + n /\ ~Refused(n)
  BY <1>2 DEF x
<1>9. QED BY <1>6, <1>7, <1>8 DEF Exact, Refused

(* What a step may do to the device memory: nothing, free some buffers, or *)
(* grow the worker a thread is fitting.                                    *)
DeviceMemory ==
    \/ UNCHANGED <<used, cap>>
    \/ \E Q \in SUBSET (Slots \X Kinds) : FreesBuffers(Q)
    \/ \E t \in Threads :
          slot[t] \in Slots /\ (FreesNext(t) \/ ReservesNext(t))

LEMMA ClDevice ==
  ASSUME NEW S \in SUBSET Slots, ReleaseBuffers(S)
  PROVE  DeviceMemory
<1>1. S \X Kinds \in SUBSET (Slots \X Kinds)
  OBVIOUS
<1>2. QED BY <1>1 DEF ReleaseBuffers, DeviceMemory

LEMMA CuDevice ==
  ASSUME NEW S \in SUBSET Slots, NEW kept,
         FreesBuffers((S \X Kinds) \ kept)
  PROVE  DeviceMemory
<1>1. (S \X Kinds) \ kept \in SUBSET (Slots \X Kinds)
  OBVIOUS
<1>2. QED BY <1>1 DEF DeviceMemory

(* Every step is one of these.                                             *)
LEMMA DeviceMemoryStep == IInv /\ [Next]_vars => DeviceMemory
<1> SUFFICES ASSUME IInv, [Next]_vars PROVE DeviceMemory
  OBVIOUS
<1>1. /\ Idle(ClSlots) \in SUBSET Slots
      /\ \A t \in Threads : Idle(CuSlots) \ {slot[t]} \in SUBSET Slots
  BY DEF Idle, Slots
<1>2. \A t \in Threads : pc[t] \in ClHeld \cup CuHeld =>
         slot[t] \in Slots /\ {slot[t]} \in SUBSET Slots
  BY Held
<1>3. ASSUME NEW t \in Threads, ClCall(t) \/ CuCall(t) \/ ClWakesUnsignalled(t)
      PROVE DeviceMemory
  BY <1>3 DEF ClCall, CuCall, ClWakesUnsignalled, DeviceMemory, memory
<1>4. ASSUME NEW t \in Threads, ClStep(t) PROVE DeviceMemory
  <2>1. CASE ClAdmits(t) \/ ClWaits(t) \/ ClDeclines(t)
    <3>1. UNCHANGED <<cap, used>> \/ ReleaseBuffers(Idle(ClSlots))
      BY <2>1 DEF ClAdmits, ClWaits, ClDeclines, Reclaims
    <3>2. QED BY <1>1, <3>1, ClDevice DEF DeviceMemory
  <2>2. CASE ClGrows(t)
    BY <1>2, <2>2 DEF ClGrows, DeviceMemory, ClHeld
  <2>3. CASE ClFails(t)
    BY <1>2, <2>3, ClDevice DEF ClFails, ClHeld
  <2>4. CASE ClLeases(t)
    BY <2>4 DEF ClLeases, DeviceMemory, memory
  <2>5. ASSUME NEW success \in BOOLEAN, ClReturns(t, success)
        PROVE DeviceMemory
    BY <1>2, <2>5, ClDevice DEF ClReturns, DeviceMemory, ClHeld
  <2>6. QED BY <1>4, <2>1, <2>2, <2>3, <2>4, <2>5 DEF ClStep
<1>5. ASSUME NEW t \in Threads, CuStep(t) PROVE DeviceMemory
  <2>1. CASE CuDeclines(t) \/ CuEnters(t) \/ CuCannotFree(t) \/ CuLeases(t)
             \/ CuQuarantines(t)
    BY <2>1 DEF CuDeclines, CuEnters, CuCannotFree, CuLeases, CuQuarantines,
       DeviceMemory, memory
  <2>2. CASE CuStarts(t) \/ CuCannotStart(t)
    BY <2>2 DEF CuStarts, CuCannotStart, DeviceMemory
  <2>3. CASE CuGrows(t)
    BY <1>2, <2>3 DEF CuGrows, DeviceMemory, CuHeld
  <2>4. CASE CuReclaims(t)
    BY <1>1, <2>4, CuDevice DEF CuReclaims, CuReleaseBuffers, FreesBut
  <2>5. CASE CuFails(t)
    <3>1. {slot[t]} \in SUBSET Slots
      BY <1>2, <2>5 DEF CuFails, CuHeld
    <3>2. \E kept : FreesBuffers(({slot[t]} \X Kinds) \ kept)
      BY <2>5 DEF CuFails, CuReleaseBuffers, FreesBut
    <3>3. QED BY <3>1, <3>2, CuDevice
  <2>6. ASSUME NEW success \in BOOLEAN, CuReturns(t, success)
        PROVE DeviceMemory
    <3>1. {slot[t]} \in SUBSET Slots
      BY <1>2, <2>6 DEF CuReturns, CuHeld
    <3>2. \/ UNCHANGED <<used, cap>>
          \/ \E kept : FreesBuffers(({slot[t]} \X Kinds) \ kept)
      BY <2>6 DEF CuReturns, DropsAll, memory
    <3>3. QED BY <3>1, <3>2, CuDevice DEF DeviceMemory
  <2>7. QED BY <1>5, <2>1, <2>2, <2>3, <2>4, <2>5, <2>6 DEF CuStep
<1>6. CASE UNCHANGED vars
  BY <1>6 DEF vars, memory, DeviceMemory
<1>7. QED BY <1>3, <1>4, <1>5, <1>6 DEF Next, Step, Finished

(* The allowance of device memory counts the buffers.                      *)
LEMMA ExactStep == IInv /\ Exact /\ [Next]_vars => Exact'
<1> SUFFICES ASSUME IInv, Exact, [Next]_vars PROVE Exact'
  OBVIOUS
<1>1. Ranges
  BY DEF IInv
<1>2. CASE UNCHANGED <<used, cap>>
  BY <1>2 DEF Exact, Bytes
<1>3. QED BY <1>1, <1>2, DeviceMemoryStep, ReleaseExact, GrowthExact
          DEF DeviceMemory

(* The pinned memory, all of it staging buffers of CUDA workers.           *)
PinExact ==
    /\ staging \in [CuSlots -> Nat]
    /\ pinned = Pinned(CuSlots) /\ pinned <= Budget

LEMMA HostNeedType ==
  ASSUME Ranges, NEW t \in Threads
  PROVE  HostNeed(t) \in Nat
<1> DEFINE h == [k \in Kinds |-> IF k = Unstaged THEN 0 ELSE need[t][k]]
<1>1. \A k \in Kinds : need[t][k] \in Nat
  BY Sizes DEF Ranges
<1>2. DOMAIN h = Kinds /\ \A k \in Kinds : h[k] \in Nat
  BY <1>1
<1>3. HostNeed(t) = SumFunctionOnSet(h, DOMAIN h)
  BY DEF HostNeed, Total, SumFunction
<1> HIDE DEF h
<1>4. SumFunctionOnSet(h, Kinds) \in Nat
  BY <1>2, Finite, SumType
<1>5. QED BY <1>2, <1>3, <1>4

(* acquire_host: whoever gives up its staging buffer is counted down, the  *)
(* new one is counted, and it fits.                                        *)
LEMMA RestageExact ==
  ASSUME Ranges, PinExact, NEW t \in Threads, slot[t] \in CuSlots, NEW n \in Nat,
         Restaged(t, n), n = 0 \/ (n = HostNeed(t) /\ StagingFits(t))
  PROVE  PinExact'
<1> DEFINE G == GivesUp(t)
           H == CuSlots \ G
<1>1. G \in SUBSET CuSlots /\ slot[t] \in G
  BY DEF GivesUp, Idle
<1>2. IsFiniteSet(CuSlots) /\ IsFiniteSet(G) /\ IsFiniteSet(H)
  BY <1>1, Finite, FS_Subset
<1>3. /\ staging \in [CuSlots -> Nat] /\ staging' \in [CuSlots -> Nat]
      /\ staging'[slot[t]] = n
      /\ \A s \in G \ {slot[t]} : staging'[s] = 0
      /\ \A s \in H : staging'[s] = staging[s]
  BY <1>1 DEF Restaged, PinExact
<1>4. pinned' = pinned - Pinned(G) + n
  BY DEF Restaged
<1>5. n = 0 \/ n <= Budget - (pinned - Pinned(G))
  BY DEF StagingFits
<1> HIDE DEF G
<1>6. SplitsAt(staging, CuSlots, G) /\ SplitsAt(staging', CuSlots, G)
  BY <1>1, <1>2, <1>3, SumSplit
<1>7. /\ Pinned(CuSlots) = Pinned(G) + Pinned(H)
      /\ Pinned(G) \in Nat /\ Pinned(H) \in Nat
  BY <1>6, Zenon DEF SplitsAt, Pinned
<1>8. SumFunctionOnSet(staging', CuSlots) =
         SumFunctionOnSet(staging', G) + SumFunctionOnSet(staging', H)
  BY <1>6, Zenon DEF SplitsAt
<1>9. SumFunctionOnSet(staging', H) = Pinned(H)
  BY <1>2, <1>3, SumAgree DEF Pinned
<1>10. SumFunctionOnSet(staging', G) = n
  <2>1. IsFiniteSet(G \ {slot[t]}) /\ \A s \in G : staging'[s] \in Int
    BY <1>1, <1>2, <1>3, FS_Subset
  <2>2. SumFunctionOnSet(staging', G \ {slot[t]}) = 0
    BY <1>3, <2>1, SumOfNothing
  <2>3. SumFunctionOnSet(staging', G) = staging'[slot[t]]
           + SumFunctionOnSet(staging', G \ {slot[t]})
    BY <1>1, <1>2, <2>1, SumRemove
  <2>4. QED BY <1>3, <2>2, <2>3
<1>11. Pinned(CuSlots)' = n + Pinned(H)
  BY <1>8, <1>9, <1>10 DEF Pinned
<1>12. Budget \in Nat
  BY AccelPoolAssumption DEF AccelPoolAssumption
<1>13. QED BY <1>3, <1>4, <1>5, <1>7, <1>11, <1>12 DEF PinExact

(* The staging buffers that are freed are counted down, the others stay.   *)
LEMMA DropExact ==
  ASSUME PinExact, NEW S \in SUBSET CuSlots, ReleaseHost(S)
  PROVE  PinExact'
<1>1. /\ staging \in [CuSlots -> Nat] /\ staging' \in [CuSlots -> Nat]
      /\ \A s \in S : staging'[s] = 0
      /\ \A s \in CuSlots \ S : staging'[s] = staging[s]
  BY DEF PinExact, ReleaseHost
<1>2. IsFiniteSet(CuSlots) /\ IsFiniteSet(S) /\ IsFiniteSet(CuSlots \ S)
  BY Finite, FS_Subset
<1>3. SplitsAt(staging, CuSlots, S) /\ SplitsAt(staging', CuSlots, S)
  BY <1>1, <1>2, SumSplit
<1>4. /\ Pinned(CuSlots) = Pinned(S) + Pinned(CuSlots \ S)
      /\ Pinned(S) \in Nat /\ Pinned(CuSlots \ S) \in Nat
  BY <1>3, Zenon DEF SplitsAt, Pinned
<1>5. SumFunctionOnSet(staging', CuSlots) =
         SumFunctionOnSet(staging', S) + SumFunctionOnSet(staging', CuSlots \ S)
  BY <1>3, Zenon DEF SplitsAt
<1>6. SumFunctionOnSet(staging', S) = 0
  BY <1>1, <1>2, SumOfNothing
<1>7. SumFunctionOnSet(staging', CuSlots \ S) = Pinned(CuSlots \ S)
  BY <1>1, <1>2, SumAgree DEF Pinned
<1>8. Pinned(CuSlots)' = 0 + Pinned(CuSlots \ S)
  BY <1>5, <1>6, <1>7 DEF Pinned
<1>9. pinned' = pinned - Pinned(S) /\ Budget \in Nat
  BY AccelPoolAssumption DEF ReleaseHost, AccelPoolAssumption
<1>10. QED BY <1>1, <1>4, <1>8, <1>9 DEF PinExact

(* What a step may do to the pinned memory.                                *)
PinnedMemory ==
    \/ UNCHANGED <<pinned, staging>>
    \/ \E S \in SUBSET CuSlots : ReleaseHost(S)
    \/ \E t \in Threads :
          /\ slot[t] \in CuSlots
          /\ \/ Restaged(t, 0)
             \/ StagingFits(t) /\ Restaged(t, HostNeed(t))

LEMMA PinnedMemoryStep == IInv /\ [Next]_vars => PinnedMemory
<1> SUFFICES ASSUME IInv, [Next]_vars PROVE PinnedMemory
  OBVIOUS
<1> USE DEF PinnedMemory, memory
<1>1. \A t \in Threads : pc[t] \in CuHeld => slot[t] \in CuSlots
  BY Held
<1>2. ASSUME NEW t \in Threads, ClCall(t) \/ CuCall(t) \/ ClWakesUnsignalled(t)
      PROVE PinnedMemory
  BY <1>2 DEF ClCall, CuCall, ClWakesUnsignalled
<1>3. ASSUME NEW t \in Threads, ClStep(t) PROVE PinnedMemory
  BY <1>3 DEF ClStep, ClAdmits, ClWaits, ClDeclines, ClGrows, ClFails,
     ClLeases, ClReturns
<1>4. ASSUME NEW t \in Threads, CuStep(t) PROVE PinnedMemory
  <2>1. CASE CuStarts(t)
    BY <1>1, <2>1 DEF CuStarts, CuHeld
  <2>2. CASE CuCannotStart(t)
    <3>1. slot[t] \in CuSlots
      BY <1>1, <2>2 DEF CuCannotStart, CuHeld
    <3>2. \A kept : (IF slot[t] \in kept THEN {} ELSE GivesUp(t) \ kept)
                       \in SUBSET CuSlots
      BY <3>1 DEF GivesUp, Idle
    <3>3. QED BY <2>2, <3>1, <3>2 DEF CuCannotStart
  <2>3. ASSUME NEW success \in BOOLEAN, CuReturns(t, success)
        PROVE PinnedMemory
    <3>1. \A stuck : {slot[t]} \ stuck \in SUBSET CuSlots
      BY <1>1, <2>3 DEF CuReturns, CuHeld
    <3>2. QED BY <2>3, <3>1 DEF CuReturns, DropsAll
  <2>4. CASE CuDeclines(t) \/ CuEnters(t) \/ CuGrows(t) \/ CuReclaims(t)
             \/ CuCannotFree(t) \/ CuFails(t) \/ CuLeases(t) \/ CuQuarantines(t)
    BY <2>4 DEF CuDeclines, CuEnters, CuGrows, CuReclaims, CuCannotFree,
       CuFails, CuLeases, CuQuarantines
  <2>5. QED BY <1>4, <2>1, <2>2, <2>3, <2>4 DEF CuStep
<1>5. CASE UNCHANGED vars
  BY <1>5 DEF vars
<1>6. QED BY <1>2, <1>3, <1>4, <1>5 DEF Next, Step, Finished

(* The allowance of pinned memory counts the staging buffers.              *)
LEMMA PinExactStep == IInv /\ PinExact /\ [Next]_vars => PinExact'
<1> SUFFICES ASSUME IInv, PinExact, [Next]_vars PROVE PinExact'
  OBVIOUS
<1>1. Ranges
  BY DEF IInv
<1>2. CASE UNCHANGED <<pinned, staging>>
  BY <1>2 DEF PinExact, Pinned
<1>3. ASSUME NEW t \in Threads, slot[t] \in CuSlots, Restaged(t, 0)
      PROVE  PinExact'
  BY <1>1, <1>3, RestageExact
<1>4. ASSUME NEW t \in Threads, slot[t] \in CuSlots, StagingFits(t),
             Restaged(t, HostNeed(t))
      PROVE  PinExact'
  BY <1>1, <1>4, RestageExact, HostNeedType
<1>5. QED BY <1>2, <1>3, <1>4, PinnedMemoryStep, DropExact DEF PinnedMemory

(* What a driver keeps is a number of buffers.                             *)
LEMMA KeptCounts ==
  /\ \A S \in SUBSET Slots : \A kept \in SUBSET Owned(S) :
        Cardinality(kept) \in Nat
  /\ \A S \in SUBSET CuSlots : \A stuck \in SUBSET Staged(S) :
        Cardinality(stuck) \in Nat
<1>1. ASSUME NEW S \in SUBSET Slots, NEW kept \in SUBSET Owned(S)
      PROVE  Cardinality(kept) \in Nat
  <2>1. IsFiniteSet(S \X Kinds) /\ kept \in SUBSET (S \X Kinds)
    BY Finite DEF Owned
  <2>2. QED BY <2>1, FS_Subset, FS_CardinalityType
<1>2. ASSUME NEW S \in SUBSET CuSlots, NEW stuck \in SUBSET Staged(S)
      PROVE  Cardinality(stuck) \in Nat
  <2>1. IsFiniteSet(CuSlots) /\ stuck \in SUBSET CuSlots
    BY Finite DEF Staged
  <2>2. QED BY <2>1, FS_Subset, FS_CardinalityType
<1>3. QED BY <1>1, <1>2

(* Calls and faults are counted up to their bounds.                        *)
Counted == calls \in 0..MaxCalls /\ faults \in 0..MaxFaults

LEMMA CountedStep == IInv /\ Counted /\ [Next]_vars => Counted'
<1> SUFFICES ASSUME IInv, Counted, [Next]_vars PROVE Counted'
  OBVIOUS
<1>1. /\ MaxCalls \in Nat /\ MaxFaults \in Nat
      /\ calls \in 0..MaxCalls /\ faults \in 0..MaxFaults
  BY AccelPoolAssumption DEF AccelPoolAssumption, Counted
<1>2. SUFFICES /\ calls' = calls \/ (calls < MaxCalls /\ calls' = calls + 1)
               /\ faults' = faults \/ \E n \in Nat : Faults(n)
  BY <1>1 DEF Counted, Faults
<1> USE DEF request, Leaves
<1>3. ASSUME NEW t \in Threads, ClCall(t) \/ CuCall(t) \/ ClWakesUnsignalled(t)
      PROVE  /\ calls' = calls \/ (calls < MaxCalls /\ calls' = calls + 1)
             /\ faults' = faults
  BY <1>3 DEF ClCall, CuCall, ClWakesUnsignalled
<1>4. ASSUME NEW t \in Threads, ClStep(t)
      PROVE  calls' = calls /\ (faults' = faults \/ \E n \in Nat : Faults(n))
  BY <1>4 DEF ClStep, ClAdmits, ClWaits, ClDeclines, ClGrows, ClFails,
     ClLeases, ClReturns, Fault
<1>5. ASSUME NEW t \in Threads, CuStep(t)
      PROVE  calls' = calls /\ (faults' = faults \/ \E n \in Nat : Faults(n))
  <2>1. calls' = calls
    BY <1>5 DEF CuStep, CuDeclines, CuEnters, CuGrows, CuReclaims,
       CuCannotFree, CuFails, CuLeases, CuStarts, CuCannotStart, CuReturns,
       CuQuarantines
  <2>2. CASE CuReclaims(t)
    <3>1. PICK kept \in SUBSET Owned(Idle(CuSlots) \ {slot[t]}) :
             Faults(Cardinality(kept))
      BY <2>2 DEF CuReclaims, CuReleaseBuffers
    <3>2. Idle(CuSlots) \ {slot[t]} \in SUBSET Slots
      BY DEF Idle, Slots
    <3>3. QED BY <2>1, <3>1, <3>2, KeptCounts
  <2>3. CASE CuFails(t)
    <3>1. {slot[t]} \in SUBSET Slots
      BY <2>3, Held DEF CuFails, CuHeld
    <3>2. PICK kept \in SUBSET Owned({slot[t]}) :
             Faults(Cardinality(kept)) \/ Faults(1 + Cardinality(kept))
      BY <2>3 DEF CuFails, CuReleaseBuffers
    <3>3. Cardinality(kept) \in Nat
      BY <3>1, KeptCounts
    <3>4. QED BY <2>1, <3>2, <3>3
  <2>4. CASE CuCannotStart(t)
    <3>1. slot[t] \in CuSlots
      BY <2>4, Held DEF CuCannotStart, CuHeld
    <3>2. GivesUp(t) \in SUBSET CuSlots
      BY <3>1 DEF GivesUp, Idle
    <3>3. \/ faults' = faults \/ Fault
          \/ \E kept \in SUBSET Staged(GivesUp(t)) : Faults(Cardinality(kept))
      BY <2>4 DEF CuCannotStart
    <3>4. QED BY <2>1, <3>2, <3>3, KeptCounts DEF Fault
  <2>5. ASSUME NEW success \in BOOLEAN, CuReturns(t, success)
        PROVE  faults' = faults \/ \E n \in Nat : Faults(n)
    <3>1. {slot[t]} \in SUBSET Slots /\ {slot[t]} \in SUBSET CuSlots
      BY <2>5, Held DEF CuReturns, CuHeld
    <3>2. \/ faults' = faults
          \/ \E kept \in SUBSET Owned({slot[t]}), stuck \in SUBSET Staged({slot[t]}) :
                Faults(Cardinality(kept) + Cardinality(stuck))
      BY <2>5 DEF CuReturns, DropsAll
    <3>3. \A kept \in SUBSET Owned({slot[t]}), stuck \in SUBSET Staged({slot[t]}) :
             Cardinality(kept) + Cardinality(stuck) \in Nat
      BY <3>1, KeptCounts
    <3>4. QED BY <3>2, <3>3
  <2>6. CASE CuDeclines(t) \/ CuEnters(t) \/ CuGrows(t) \/ CuCannotFree(t)
             \/ CuLeases(t) \/ CuStarts(t) \/ CuQuarantines(t)
    BY <2>1, <2>6 DEF CuDeclines, CuEnters, CuGrows, CuCannotFree, CuLeases,
       CuStarts, CuQuarantines, Fault
  <2>7. QED BY <1>5, <2>1, <2>2, <2>3, <2>4, <2>5, <2>6 DEF CuStep
<1>6. CASE UNCHANGED vars
  BY <1>6 DEF vars
<1>7. QED BY <1>3, <1>4, <1>5, <1>6 DEF Next, Step, Finished
-----------------------------------------------------------------------------
(* Who sleeps.  While no OpenCL worker is given back, the busy ones hold   *)
(* no fewer bytes and no worker becomes idle: what did not fit still does  *)
(* not.                                                                    *)
LEMMA StillFull ==
  ASSUME IInv, Ranges', [Next]_vars, ClSlots \cap busy \subseteq busy',
         NEW d \in [Kinds -> Nat], Admissible(d)'
  PROVE  Admissible(d)
<1> DEFINE B == ClSlots \cap busy
           C == ClSlots \cap busy'
<1>1. /\ cap \in [Slots \X Kinds -> Nat] /\ cap' \in [Slots \X Kinds -> Nat]
      /\ B \in SUBSET Slots /\ C \in SUBSET Slots /\ B \in SUBSET C
  BY DEF IInv, Ranges, Slots
<1>2. \A x \in B \X Kinds : cap'[x] = cap[x]
  BY <1>1, CapStep DEF CapKept
<1>3. SumFunctionOnSet(cap', B \X Kinds) = SumFunctionOnSet(cap, B \X Kinds)
  BY <1>1, <1>2, Finite, SumAgree
<1>4. Idle(ClSlots)' # {} /\ SumFunctionOnSet(cap', C \X Kinds) + Total(d) <= Budget
  BY DEF Admissible, Bytes
<1>5. Idle(ClSlots) # {}
  BY <1>4 DEF Idle
<1> HIDE DEF B, C
<1>6. /\ SumFunctionOnSet(cap', C \X Kinds) = SumFunctionOnSet(cap', B \X Kinds)
            + SumFunctionOnSet(cap', (C \ B) \X Kinds)
  BY <1>1, BytesApart, Zenon
<1>7. /\ SumFunctionOnSet(cap', B \X Kinds) \in Nat
      /\ SumFunctionOnSet(cap', (C \ B) \X Kinds) \in Nat
  BY <1>1, BytesApart, Zenon
<1>8. Total(d) \in Nat
  <2>1. DOMAIN d = Kinds /\ \A k \in Kinds : d[k] \in Nat
    OBVIOUS
  <2>2. QED BY <2>1, Finite, SumType DEF Total, SumFunction
<1>9. Budget \in Nat
  BY AccelPoolAssumption DEF AccelPoolAssumption
<1>10. Bytes(B) + Total(d) <= Budget
  BY <1>3, <1>4, <1>6, <1>7, <1>8, <1>9 DEF Bytes
<1>11. QED BY <1>5, <1>10 DEF Admissible, B

(* A step wakes everybody, or gives no OpenCL worker back and lets nobody  *)
(* sleep who could be admitted.                                            *)
Sleepers ==
    \/ \A u \in Threads : pc'[u] # "cl_wait"
    \/ /\ ClSlots \cap busy \subseteq busy'
       /\ \A u \in Threads : pc'[u] = "cl_wait" =>
             need'[u] = need[u] /\ ~Admissible(need[u])

LEMMA SleepersStep == IInv /\ WakeupOwed /\ [Next]_vars => Sleepers
<1> SUFFICES ASSUME IInv, WakeupOwed, [Next]_vars PROVE Sleepers
  OBVIOUS
<1>1. pc \in [Threads -> Labels] /\ need \in [Threads -> Demands \cup {NoDemand}]
  BY DEF IInv, Ranges
<1>2. \A u \in Threads : pc[u] = "cl_wait" => ~Admissible(need[u])
  BY DEF WakeupOwed
<1>3. \A t \in Threads : pc[t] \in CuHeld => slot[t] \notin ClSlots
  BY Held, Disjoint
<1> USE DEF Goes, Leaves, request, Sleepers
<1>4. ASSUME NEW t \in Threads, ClCall(t) \/ CuCall(t) \/ ClWakesUnsignalled(t)
      PROVE Sleepers
  BY <1>1, <1>2, <1>4 DEF ClCall, CuCall, ClWakesUnsignalled
<1>5. ASSUME NEW t \in Threads, ClStep(t) PROVE Sleepers
  <2>1. CASE ClAdmits(t)
    BY <1>1, <1>2, <2>1 DEF ClAdmits
  <2>2. CASE ClWaits(t)
    BY <1>1, <1>2, <2>2 DEF ClWaits
  <2>3. CASE ClDeclines(t)
    BY <2>3 DEF ClDeclines, Wakes
  <2>4. CASE ClGrows(t) \/ ClLeases(t)
    BY <1>1, <1>2, <2>4 DEF ClGrows, ClLeases
  <2>5. CASE ClFails(t)
    BY <2>5 DEF ClFails, Wakes
  <2>6. ASSUME NEW success \in BOOLEAN, ClReturns(t, success) PROVE Sleepers
    BY <2>6 DEF ClReturns, Wakes
  <2>7. QED BY <1>5, <2>1, <2>2, <2>3, <2>4, <2>5, <2>6 DEF ClStep
<1>6. ASSUME NEW t \in Threads, CuStep(t) PROVE Sleepers
  <2>1. CASE CuDeclines(t) \/ CuEnters(t) \/ CuGrows(t) \/ CuLeases(t)
             \/ CuCannotFree(t) \/ CuStarts(t) \/ CuCannotStart(t)
    BY <1>1, <1>2, <2>1 DEF CuDeclines, CuEnters, CuGrows, CuLeases,
       CuCannotFree, CuStarts, CuCannotStart
  <2>2. CASE CuReclaims(t)
    BY <1>1, <1>2, <2>2 DEF CuReclaims
  <2>3. CASE CuFails(t)
    BY <1>1, <1>2, <2>3 DEF CuFails
  <2>4. CASE CuQuarantines(t)
    BY <1>1, <1>2, <1>3, <2>4 DEF CuQuarantines, CuHeld
  <2>5. ASSUME NEW success \in BOOLEAN, CuReturns(t, success) PROVE Sleepers
    BY <1>1, <1>2, <1>3, <2>5 DEF CuReturns, CuHeld
  <2>6. QED BY <1>6, <2>1, <2>2, <2>3, <2>4, <2>5 DEF CuStep
<1>7. CASE UNCHANGED vars
  BY <1>2, <1>7 DEF vars
<1>8. QED BY <1>4, <1>5, <1>6, <1>7 DEF Next, Step, Finished

(* Nobody sleeps who could be admitted.                                    *)
LEMMA WakeupStep == IInv /\ WakeupOwed /\ [Next]_vars => WakeupOwed'
<1> SUFFICES ASSUME IInv, WakeupOwed, [Next]_vars,
                    NEW u \in Threads, pc'[u] = "cl_wait",
                    Admissible(need[u])'
             PROVE  FALSE
  BY DEF WakeupOwed
<1>1. /\ ClSlots \cap busy \subseteq busy'
      /\ need'[u] = need[u] /\ ~Admissible(need[u])
  BY SleepersStep DEF Sleepers
<1>2. need[u] \in [Kinds -> Nat]
  BY Sizes DEF IInv, Ranges
<1>3. Ranges'
  BY RangesStep
<1>4. Admissible(need[u])
  <2>1. PICK d \in [Kinds -> Nat] : d = need[u] /\ d = need'[u]
    BY <1>1, <1>2
  <2>2. Admissible(d)'
    BY <2>1 DEF Admissible
  <2>3. Admissible(d)
    BY <1>1, <1>3, <2>2, StillFull
  <2>4. QED BY <2>1, <2>3
<1>5. QED BY <1>1, <1>4
-----------------------------------------------------------------------------
(* The inductive invariant with the two allowances and the sleepers.       *)
Accounted == IInv /\ Exact /\ PinExact /\ Counted /\ WakeupOwed

LEMMA AccountedInit == Init => Accounted
<1> SUFFICES ASSUME Init PROVE Accounted
  OBVIOUS
<1>1. Exact
  <2>1. IsFiniteSet(Slots \X Kinds) /\ \A x \in Slots \X Kinds : cap[x] = 0
    BY Finite DEF Init
  <2>2. SumFunctionOnSet(cap, Slots \X Kinds) = 0
    BY <2>1, SumOfNothing
  <2>3. QED BY <2>2, AccelPoolAssumption
            DEF Exact, Bytes, Init, AccelPoolAssumption
<1>2. PinExact
  <2>1. /\ IsFiniteSet(CuSlots) /\ \A s \in CuSlots : staging[s] = 0
        /\ staging \in [CuSlots -> Nat]
    BY Finite DEF Init
  <2>2. SumFunctionOnSet(staging, CuSlots) = 0
    BY <2>1, SumOfNothing
  <2>3. QED BY <2>1, <2>2, AccelPoolAssumption
            DEF PinExact, Pinned, Init, AccelPoolAssumption
<1>3. Counted /\ WakeupOwed
  BY AccelPoolAssumption DEF Counted, WakeupOwed, Init, AccelPoolAssumption
<1>4. QED BY <1>1, <1>2, <1>3, Initially DEF Accounted

(* Every reachable state satisfies Accounted: besides IInv, the counters   *)
(* of accel_budget.c are the sums of the capacities and of the staging     *)
(* buffers, both within the allowance, and who sleeps on cl_available does *)
(* not fit.                                                                *)
THEOREM AccountedInvariant == Spec => []Accounted
<1>1. IInv /\ [Next]_vars => IInv'
  BY RangesStep, PlacedStep, LeaseStep, QuarantineStep DEF IInv
<1>2. Accounted /\ [Next]_vars => Accounted'
  BY <1>1, ExactStep, PinExactStep, CountedStep, WakeupStep DEF Accounted
<1>3. QED BY AccountedInit, <1>2, PTL DEF Spec

(* The variables have their types, and neither allowance is ever exceeded  *)
(* nor falls below zero, whatever opj_accel_reserve and opj_accel_release  *)
(* are called with and in whatever order the backends call them.           *)
THEOREM TypesAndBudget == Spec => []TypeOK
<1>1. Accounted => TypeOK
  <2> SUFFICES ASSUME Accounted PROVE TypeOK
    OBVIOUS
  <2>1. Ranges /\ staging \in [CuSlots -> Nat]
    BY DEF Accounted, IInv, PinExact
  <2>2. Pinned(CuSlots) \in Nat
    BY <2>1, Finite, SumType DEF Pinned
  <2>3. used \in 0..Budget /\ pinned \in 0..Budget
    BY <2>1, <2>2, UsedType, AccelPoolAssumption
       DEF Accounted, Exact, PinExact, AccelPoolAssumption
  <2>4. QED BY <2>1, <2>3 DEF TypeOK, Accounted, Counted
<1>2. QED BY AccountedInvariant, <1>1, PTL

(* Both allowances count exactly the buffers the workers hold, whichever   *)
(* path of acquire_worker, acquire, acquire_host or the clean-ups gave up  *)
(* half way: no memory leaks from the budget, none is given back twice.    *)
THEOREM BudgetCountsBuffers == Spec => []BudgetExact
<1>1. Accounted => BudgetExact
  BY DEF Accounted, Exact, PinExact, BudgetExact
<1>2. QED BY AccountedInvariant, <1>1, PTL

(* No release_worker and no failing acquire_worker forgets to signal       *)
(* cl_available: a caller that sleeps on it could not be admitted now.     *)
THEOREM NoLostWakeup == Spec => []WakeupOwed
<1>1. Accounted => WakeupOwed
  BY DEF Accounted
<1>2. QED BY AccountedInvariant, <1>1, PTL
=============================================================================
