--------------------------- MODULE ShootRefinement ---------------------------
(***************************************************************************)
(* Proof that the shooting engine implements its abstract specification: *)
(* every step of Shoot is a step of ShootAbstract under the mapping       *)
(* out <- result, st <- status, for every number of threads and of draws. *)
(* The argument rests on the static split: the blocks Lo(t) .. Hi(t) - 1  *)
(* follow one another, so they are disjoint and together cover 0 .. N-1.  *)
(***************************************************************************)
EXTENDS ShootProofs

USE NumThreadsAssumption, NAssumption, SchedulesAssumption

(* The blocks of two different threads are disjoint. *)
LEMMA BlocksDisjoint ==
  ASSUME NEW t \in Threads, NEW u \in Threads, t # u, NEW i \in Nat,
         Lo(t) <= i, i < Hi(t), Lo(u) <= i, i < Hi(u)
  PROVE  FALSE
BY SplitDisjoint, ShootSplit DEF Threads

(* Every draw index lies in some thread's block: the static split leaves *)
(* no index out.                                                          *)
LEMMA BlocksCover ==
  ASSUME NEW i \in Draws
  PROVE  \E t \in Threads : Lo(t) <= i /\ i < Hi(t)
BY SplitCover, ShootSplit DEF Draws, Threads

-----------------------------------------------------------------------------
(* Index i has been handed out to a thread by the "omp for": under the  *)
(* static schedule it lies in a started thread's block before that        *)
(* thread's next index; under the dynamic one it is below the counter.   *)
Claimed(i) ==
  IF sched = "static"
    THEN \E t \in Threads : pc[t] # "init" /\ Lo(t) <= i /\ i < iter[t]
    ELSE i < next

(* The invariant the refinement rests on: a row is stored exactly when   *)
(* its index has been handed out, a started thread's position stays in   *)
(* its block, and a thread at the barrier has finished its iterations.   *)
RefInv ==
  /\ TypeOK
  /\ \A t \in Threads : pc[t] # "init" => Lo(t) <= iter[t] /\ iter[t] <= Hi(t)
  /\ \A t \in Threads : pc[t] = "done" =>
        /\ sched = "static" => iter[t] = Hi(t)
        /\ sched = "dynamic" => next = N
  /\ \A i \in Draws : result[i] # NoResult <=> Claimed(i)

(* The initial states satisfy RefInv and map to the abstract initial state. *)
LEMMA RefInit == Init => RefInv /\ Abstract!AInit
<1> SUFFICES ASSUME Init PROVE RefInv /\ Abstract!AInit
  OBVIOUS
<1>1. TypeOK
  BY InitType
<1>2. \A i \in Draws : ~Claimed(i)
  BY DEF Init, Claimed, Draws
<1>3. QED  BY <1>1, <1>2, NoResultAssumption
           DEF Init, RefInv, Abstract!AInit, Abstract!Indices, Draws

(* A step that stores no row, hands out no index and neither starts a   *)
(* thread nor sends one to the barrier keeps RefInv.                     *)
LEMMA QuietRef ==
  ASSUME RefInv, TypeOK',
         UNCHANGED <<result, sched, next, iter>>,
         \A t \in Threads : pc'[t] = "init" <=> pc[t] = "init",
         \A t \in Threads : pc'[t] = "done" => pc[t] = "done"
  PROVE  RefInv'
<1>1. \A i \in Draws : Claimed(i)' <=> Claimed(i)
  BY DEF Claimed
<1>2. QED  BY <1>1 DEF RefInv

(* An iteration stores the row of a free index, inside the thread's    *)
(* block or at the counter, and keeps RefInv.                           *)
LEMMA IterStep ==
  ASSUME RefInv, TypeOK', NEW t \in Threads, NEW i \in Draws,
         pc[t] = "loop", status = "running", Draw(t, i),
         UNCHANGED <<sched, status>>,
         \/ /\ sched = "static" /\ i = iter[t] /\ i < Hi(t)
            /\ iter' = [iter EXCEPT ![t] = i + 1] /\ next' = next
         \/ /\ sched = "dynamic" /\ i = next
            /\ next' = next + 1 /\ iter' = iter
  PROVE  RefInv' /\ Abstract!Compute(i)
<1>1. PICK cx \in EngineCalls, cy \in EngineCalls, d \in Durations :
        DrawWith(t, i, cx, cy, d)
  BY DEF Draw
<1> DEFINE r == [thread |-> t, seed |-> engine[t].seed,
                 from |-> engine[t].pos, to |-> engine[t].pos + cx + cy - 1,
                 slope |-> slopeDist[t]]
<1>2. /\ result' = [result EXCEPT ![i] = r]
      /\ pc' = [pc EXCEPT ![t] = "load"]
  BY <1>1 DEF DrawWith, Row
<1>3. r \in Traj /\ r # NoResult
  BY DrawType DEF RefInv
<1>4. result \in [Draws -> Traj \cup {NoResult}] /\ iter \in [Threads -> 0 .. N]
      /\ next \in 0 .. N /\ sched \in {"static", "dynamic"}
  BY DEF RefInv, TypeOK
<1>5. ~Claimed(i)
  <2>1. CASE sched = "static"
    <3> SUFFICES ASSUME NEW u \in Threads, pc[u] # "init", Lo(u) <= i, i < iter[u]
                 PROVE  FALSE
      BY <2>1 DEF Claimed
    <3>1. CASE u = t
      BY <2>1, <3>1, <1>4 DEF Draws
    <3>2. CASE u # t
      <4>1. iter[u] <= Hi(u) /\ Lo(t) <= iter[t]
        BY DEF RefInv
      <4>2. Hi(u) \in Nat /\ Lo(t) \in Nat
        BY BlockBounds
      <4>3. QED  BY <2>1, <3>2, <4>1, <4>2, <1>4, BlocksDisjoint DEF Draws
    <3>3. QED  BY <3>1, <3>2
  <2>2. CASE sched = "dynamic"
    BY <2>2, <1>4 DEF Claimed, Draws
  <2>3. QED  BY <2>1, <2>2, <1>4
<1>6. result[i] = NoResult
  BY <1>5 DEF RefInv
<1>7. Abstract!Compute(i)
  BY <1>2, <1>3, <1>4, <1>6 DEF Abstract!Compute
<1>8. \A j \in Draws : result'[j] # NoResult <=> Claimed(j)'
  <2> SUFFICES ASSUME NEW j \in Draws PROVE result'[j] # NoResult <=> Claimed(j)'
    OBVIOUS
  <2>1. CASE j = i
    <3>1. result'[j] # NoResult
      BY <1>2, <1>3, <1>4, <2>1
    <3>2. Claimed(j)'
      <4>1. CASE sched = "static"
        <5>1. i = iter[t] /\ iter'[t] = i + 1 /\ sched' = "static"
          BY <4>1, <1>4
        <5>2. Lo(t) <= i /\ i < i + 1 /\ pc'[t] # "init"
          BY <5>1, <1>2, <1>4 DEF RefInv, Draws
        <5>3. QED  BY <5>1, <5>2, <2>1 DEF Claimed
      <4>2. CASE sched = "dynamic"
        BY <4>2, <2>1, <1>4 DEF Claimed, Draws
      <4>3. QED  BY <4>1, <4>2, <1>4
    <3>3. QED  BY <3>1, <3>2
  <2>2. CASE j # i
    <3>1. result'[j] = result[j]
      BY <1>2, <1>4, <2>2
    <3>2. Claimed(j)' <=> Claimed(j)
      <4>1. CASE sched = "static"
        <5>1. \A u \in Threads : (pc'[u] # "init") = (pc[u] # "init")
          BY <1>2 DEF RefInv, TypeOK
        <5>2. \A u \in Threads \ {t} : iter'[u] = iter[u]
          BY <4>1, <1>4
        <5>3. (Lo(t) <= j /\ j < iter'[t]) <=> (Lo(t) <= j /\ j < iter[t])
          BY <4>1, <2>2, <1>4 DEF Draws
        <5>4. QED  BY <4>1, <5>1, <5>2, <5>3 DEF Claimed
      <4>2. CASE sched = "dynamic"
        BY <4>2, <2>2, <1>4 DEF Claimed, Draws
      <4>3. QED  BY <4>1, <4>2, <1>4
    <3>3. QED  BY <3>1, <3>2 DEF RefInv
  <2>3. QED  BY <2>1, <2>2
<1>9. \A u \in Threads : pc'[u] # "init" => Lo(u) <= iter'[u] /\ iter'[u] <= Hi(u)
  <2> SUFFICES ASSUME NEW u \in Threads, pc'[u] # "init"
               PROVE  Lo(u) <= iter'[u] /\ iter'[u] <= Hi(u)
    OBVIOUS
  <2>1. pc[u] # "init"
    BY <1>2 DEF RefInv, TypeOK
  <2>2. Lo(u) <= iter[u] /\ iter[u] <= Hi(u)
    BY <2>1 DEF RefInv
  <2>3. CASE sched = "static" /\ u = t
    BY <2>2, <2>3, <1>4, BlockBounds
  <2>4. QED  BY <2>2, <2>3, <1>4
<1>10. \A u \in Threads : pc'[u] = "done" =>
          /\ sched' = "static" => iter'[u] = Hi(u)
          /\ sched' = "dynamic" => next' = N
  <2> SUFFICES ASSUME NEW u \in Threads, pc'[u] = "done"
               PROVE  /\ sched = "static" => iter'[u] = Hi(u)
                      /\ sched = "dynamic" => next' = N
    OBVIOUS
  <2>1. u # t /\ pc[u] = "done"
    BY <1>2 DEF RefInv, TypeOK
  <2>2. sched = "dynamic" => next = N
    BY <2>1 DEF RefInv
  <2>3. sched = "dynamic" => i # next
    BY <2>2, <1>4 DEF Draws
  <2>4. QED  BY <2>1, <2>3, <1>4 DEF RefInv
<1>11. QED  BY <1>7, <1>8, <1>9, <1>10 DEF RefInv

(* When every thread is at the barrier, every row has been stored. *)
LEMMA AllStoredAtBarrier ==
  ASSUME RefInv, \A t \in Threads : pc[t] = "done"
  PROVE  \A i \in Draws : result[i] # NoResult
<1> SUFFICES ASSUME NEW i \in Draws PROVE Claimed(i)
  BY DEF RefInv
<1>1. sched \in {"static", "dynamic"} /\ next \in 0 .. N
  BY DEF RefInv, TypeOK
<1>2. CASE sched = "static"
  <2>1. PICK t \in Threads : Lo(t) <= i /\ i < Hi(t)
    BY BlocksCover
  <2>2. iter[t] = Hi(t) /\ pc[t] # "init"
    BY <1>2 DEF RefInv
  <2>3. QED  BY <1>2, <2>1, <2>2 DEF Claimed
<1>3. CASE sched = "dynamic"
  <2>1. 0 \in Threads
    BY DEF Threads
  <2>2. next = N
    BY <1>3, <2>1 DEF RefInv
  <2>3. QED  BY <1>3, <2>2 DEF Claimed, Draws
<1>4. QED  BY <1>1, <1>2, <1>3

(* Every step keeps RefInv and is a step of ShootAbstract or leaves the *)
(* result vector and the status unchanged.                               *)
LEMMA RefStep ==
  RefInv /\ [Next]_vars => RefInv' /\ [Abstract!ANext]_Abstract!avars
<1> SUFFICES ASSUME RefInv, [Next]_vars
             PROVE  RefInv' /\ [Abstract!ANext]_Abstract!avars
  OBVIOUS
<1>0. TypeOK /\ TypeOK'
  BY TypeStep DEF RefInv
<1>1. ASSUME NEW t \in Threads, Start(t)
      PROVE  RefInv' /\ [Abstract!ANext]_Abstract!avars
  <2>1. CASE slopeFile = "unreadable"
    <3>1. RefInv'
      BY <1>0, <1>1, <2>1, QuietRef DEF Start
    <3>2. Abstract!Fail
      BY <1>1, <2>1 DEF Start, Abstract!Fail
    <3>3. QED  BY <3>1, <3>2 DEF Abstract!ANext
  <2>2. CASE slopeFile # "unreadable"
    <3>1. /\ pc[t] = "init" /\ pc' = [pc EXCEPT ![t] = "loop"]
          /\ iter' = [iter EXCEPT ![t] = Lo(t)]
          /\ UNCHANGED <<sched, next, result, status>>
      BY <1>1, <2>2 DEF Start
    <3>2. iter \in [Threads -> 0 .. N] /\ pc \in [Threads -> {"init", "loop", "load", "store", "done"}]
      BY <1>0 DEF TypeOK
    <3>3. \A i \in Draws : Claimed(i)' <=> Claimed(i)
      <4> SUFFICES ASSUME NEW i \in Draws PROVE Claimed(i)' <=> Claimed(i)
        OBVIOUS
      <4>1. ~(Lo(t) <= i /\ i < Lo(t))
        BY BlockBounds DEF Draws
      <4>2. QED  BY <3>1, <3>2, <4>1 DEF Claimed
    <3>4. \A u \in Threads : pc'[u] # "init" => Lo(u) <= iter'[u] /\ iter'[u] <= Hi(u)
      BY <3>1, <3>2, BlockBounds DEF RefInv
    <3>5. \A u \in Threads : pc'[u] = "done" =>
             /\ sched' = "static" => iter'[u] = Hi(u)
             /\ sched' = "dynamic" => next' = N
      BY <3>1, <3>2 DEF RefInv
    <3>6. QED  BY <1>0, <3>1, <3>3, <3>4, <3>5 DEF RefInv, Abstract!avars
  <2>3. QED  BY <2>1, <2>2
<1>2. ASSUME NEW t \in Threads, IterStatic(t)
      PROVE  RefInv' /\ [Abstract!ANext]_Abstract!avars
  <2>1. iter[t] \in Draws
    BY <1>0, <1>2, BlockBounds DEF IterStatic, TypeOK, Draws
  <2>2. RefInv' /\ Abstract!Compute(iter[t])
    BY <1>0, <1>2, <2>1, IterStep DEF IterStatic
  <2>3. QED  BY <2>1, <2>2 DEF Abstract!ANext, Abstract!Indices, Draws
<1>3. ASSUME NEW t \in Threads, IterDynamic(t)
      PROVE  RefInv' /\ [Abstract!ANext]_Abstract!avars
  <2>1. next \in Draws
    BY <1>0, <1>3 DEF IterDynamic, TypeOK, Draws
  <2>2. RefInv' /\ Abstract!Compute(next)
    BY <1>0, <1>3, <2>1, IterStep DEF IterDynamic
  <2>3. QED  BY <2>1, <2>2 DEF Abstract!ANext, Abstract!Indices, Draws
<1>4. ASSUME NEW t \in Threads, LoopEnd(t)
      PROVE  RefInv' /\ [Abstract!ANext]_Abstract!avars
  <2>1. /\ pc[t] = "loop" /\ pc' = [pc EXCEPT ![t] = "done"]
        /\ UNCHANGED <<sched, next, iter, result, status>>
        /\ sched = "static" => iter[t] >= Hi(t)
        /\ sched = "dynamic" => next >= N
    BY <1>4 DEF LoopEnd
  <2>2. iter \in [Threads -> 0 .. N] /\ next \in 0 .. N
        /\ pc \in [Threads -> {"init", "loop", "load", "store", "done"}]
    BY <1>0 DEF TypeOK
  <2>3. \A i \in Draws : Claimed(i)' <=> Claimed(i)
    BY <2>1, <2>2 DEF Claimed
  <2>4. iter[t] <= Hi(t) /\ Hi(t) \in Nat
    BY <2>1, BlockBounds DEF RefInv
  <2>5. \A u \in Threads : pc'[u] = "done" =>
           /\ sched' = "static" => iter'[u] = Hi(u)
           /\ sched' = "dynamic" => next' = N
    BY <2>1, <2>2, <2>4 DEF RefInv
  <2>6. \A u \in Threads : pc'[u] # "init" => Lo(u) <= iter'[u] /\ iter'[u] <= Hi(u)
    BY <2>1, <2>2 DEF RefInv
  <2>7. QED  BY <1>0, <2>1, <2>3, <2>5, <2>6 DEF RefInv, Abstract!avars
<1>5. ASSUME NEW t \in Threads, Load(t) \/ Store(t)
      PROVE  RefInv' /\ [Abstract!ANext]_Abstract!avars
  <2>1. RefInv'
    BY <1>0, <1>5, QuietRef DEF Load, Store, TypeOK
  <2>2. QED  BY <1>5, <2>1 DEF Load, Store, Abstract!avars
<1>6. CASE Return
  <2>1. RefInv'
    BY <1>0, <1>6, QuietRef DEF Return, TypeOK
  <2>2. Abstract!Finish
    BY <1>6, AllStoredAtBarrier DEF Return, Abstract!Finish, Abstract!Indices, Draws
  <2>3. QED  BY <2>1, <2>2 DEF Abstract!ANext
<1>7. CASE Finished \/ UNCHANGED vars
  <2>1. RefInv'
    BY <1>0, <1>7, QuietRef DEF Finished, vars, TypeOK
  <2>2. QED  BY <1>7, <2>1 DEF Finished, vars, Abstract!avars
<1>8. QED  BY <1>1, <1>2, <1>3, <1>4, <1>5, <1>6, <1>7 DEF Next, Thread

(* shoot_vector implements its abstract specification, for every number *)
(* of threads and of draws and under either schedule: each row is stored *)
(* once and never replaced, and the call returns only with all N rows.   *)
THEOREM Refinement == Spec => Abstract!ASafety
<1>1. Init => RefInv /\ Abstract!AInit
  BY RefInit
<1>2. RefInv /\ [Next]_vars => RefInv' /\ [Abstract!ANext]_Abstract!avars
  BY RefStep
<1>3. QED  BY <1>1, <1>2, PTL DEF Spec, Abstract!ASafety

-----------------------------------------------------------------------------
(* RefInv holds in every reachable state. *)
LEMMA RefInvariant == Spec => []RefInv
<1>1. RefInv /\ [Next]_vars => RefInv'
  BY RefStep
<1>2. QED  BY <1>1, RefInit, PTL DEF Spec

(* A stored row of result is never overwritten, by another thread or by *)
(* a later iteration, under either schedule: every step is an abstract   *)
(* step, and an abstract step only fills an empty row.                   *)
THEOREM RowsWrittenOnce == Spec => WriteOnce
<1>1. RefInv /\ [Next]_vars =>
        [\A i \in Draws : result[i] # NoResult => result'[i] = result[i]]_vars
  <2> SUFFICES ASSUME RefInv, [Next]_vars, NEW i \in Draws, result[i] # NoResult
               PROVE  result'[i] = result[i]
    BY DEF vars
  <2>1. [Abstract!ANext]_Abstract!avars
    BY RefStep
  <2>2. result \in [Draws -> Traj \cup {NoResult}]
    BY DEF RefInv, TypeOK
  <2>3. ASSUME NEW j \in Draws, Abstract!Compute(j) PROVE result'[i] = result[i]
    <3>1. CASE j = i
      BY <2>3, <3>1 DEF Abstract!Compute
    <3>2. CASE j # i
      BY <2>2, <2>3, <3>2 DEF Abstract!Compute
    <3>3. QED  BY <3>1, <3>2
  <2>4. QED  BY <2>1, <2>3 DEF Abstract!ANext, Abstract!Finish, Abstract!Fail,
                               Abstract!avars, Abstract!Indices, Draws
<1>2. QED  BY <1>1, RefInvariant, PTL DEF Spec, WriteOnce

(* RefInv, and a returned call has every thread at the barrier. *)
CatInv == RefInv /\ (status = "returned" => \A t \in Threads : pc[t] = "done")

(* When shoot_vector returns, every one of the N rows has been stored,  *)
(* for every number of threads and of draws and under either schedule.  *)
THEOREM CatalogIsComplete == Spec => []CatalogComplete
<1>1. Init => CatInv
  BY RefInit DEF Init, CatInv
<1>2. CatInv /\ [Next]_vars => CatInv'
  <2> SUFFICES ASSUME CatInv, [Next]_vars PROVE CatInv'
    OBVIOUS
  <2>1. RefInv'
    BY RefStep DEF CatInv
  <2>2. status' = "returned" => \A t \in Threads : pc'[t] = "done"
    <3>1. CASE status = "returned"
      BY <3>1 DEF CatInv, Next, Thread, Start, IterStatic, IterDynamic, LoopEnd,
                  Load, Store, Return, Finished, vars
    <3>2. CASE status # "returned"
      BY <3>2 DEF Next, Thread, Start, IterStatic, IterDynamic, LoopEnd,
                  Load, Store, Return, Finished, vars
    <3>3. QED  BY <3>1, <3>2
  <2>3. QED  BY <2>1, <2>2 DEF CatInv
<1>3. CatInv => CatalogComplete
  BY AllStoredAtBarrier DEF CatInv, CatalogComplete, Written
<1>4. QED  BY <1>1, <1>2, <1>3, PTL DEF Spec

=============================================================================
