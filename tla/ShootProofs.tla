----------------------------- MODULE ShootProofs -----------------------------
(***************************************************************************)
(* Proofs about the shooting engine, for every number of threads and of   *)
(* draws: the type invariant, and that no two rows of the result were     *)
(* drawn from the same random numbers.                                    *)
(***************************************************************************)
EXTENDS Shoot, StaticSplit, Integers, TLAPS

USE NumThreadsAssumption, NAssumption, DurationsAssumption,
    EngineCallsAssumption, SchedulesAssumption, SlopeFilesAssumption

(* The seeds 123 + t of two different threads differ. *)
LEMMA SeedInjective ==
  ASSUME NEW t \in Threads, NEW u \in Threads, t # u
  PROVE  Seed(t) # Seed(u) /\ Seed(t) \in Nat
BY DEF Seed, Threads

(* Shoot's Lo and Hi are the static split of the N draws (StaticSplit). *)
LEMMA ShootSplit ==
  ASSUME NEW t
  PROVE  /\ Lo(t) = SplitLo(N, NumThreads, t)
         /\ Hi(t) = SplitHi(N, NumThreads, t)
BY DEF Lo, Hi, Chunk, SplitLo, SplitHi

(* Every static block lies within 0 .. N - 1. *)
LEMMA BlockBounds ==
  ASSUME NEW t \in Threads
  PROVE  Lo(t) \in Nat /\ Hi(t) \in Nat /\ Lo(t) <= Hi(t) /\ Hi(t) <= N
BY SplitBounds, ShootSplit DEF Threads

(* A stored row is a member of Traj, hence not NoResult. *)
LEMMA DrawType ==
  ASSUME TypeOK, NEW t \in Threads, NEW cx \in EngineCalls, NEW cy \in EngineCalls
  PROVE  LET r == [thread |-> t, seed |-> engine[t].seed,
                   from |-> engine[t].pos, to |-> engine[t].pos + cx + cy - 1,
                   slope |-> slopeDist[t]]
         IN  r \in Traj /\ r # NoResult
BY NoResultAssumption DEF TypeOK, Traj, Slope

-----------------------------------------------------------------------------
(* The initial states are well typed. *)
LEMMA InitType == Init => TypeOK
<1> SUFFICES ASSUME Init PROVE TypeOK
  OBVIOUS
<1>1. pc \in [Threads -> {"init", "loop", "load", "store", "done"}]
  BY DEF Init
<1>2. engine \in [Threads -> [seed : Nat, pos : Nat]]
  BY DEF Init
<1>3. slopeDist \in [Threads -> Slope]
  BY DEF Init, Slope
<1>4. result \in [Draws -> Traj \cup {NoResult}]
  BY DEF Init
<1>5. next \in 0 .. N /\ iter \in [Threads -> 0 .. N]
  BY DEF Init
<1>6. QED  BY <1>1, <1>2, <1>3, <1>4, <1>5 DEF Init, TypeOK

(* Every step keeps the state well typed. *)
LEMMA TypeStep == TypeOK /\ [Next]_vars => TypeOK'
<1> SUFFICES ASSUME TypeOK, [Next]_vars PROVE TypeOK'
  OBVIOUS
<1>1. ASSUME NEW t \in Threads, Start(t) PROVE TypeOK'
  <2>1. Seed(t) \in Nat /\ Lo(t) \in 0 .. N
    BY BlockBounds DEF Seed, Threads
  <2>2. [kind |-> "beta", pos |-> 0] \in Slope
    BY DEF Slope
  <2>3. CASE slopeFile \in {"unset", "readable"}
    <3>1. slopeFile # "unreadable"
      BY <2>3
    <3>2. /\ engine' = [engine EXCEPT ![t] = [seed |-> Seed(t), pos |-> 0]]
          /\ slopeDist' = [slopeDist EXCEPT ![t] = [kind |-> "beta", pos |-> 0]]
          /\ iter' = [iter EXCEPT ![t] = Lo(t)]
          /\ pc' = [pc EXCEPT ![t] = "loop"]
          /\ UNCHANGED <<status, sched, slopeFile, next, result, dt, tmp, total, spent>>
      BY <1>1, <3>1 DEF Start
    <3>3. QED  BY <3>2, <2>1, <2>2 DEF TypeOK
  <2>4. CASE slopeFile = "unreadable"
    BY <1>1, <2>4 DEF Start, TypeOK
  <2>5. QED  BY <2>3, <2>4, <1>1 DEF Start
<1>2. ASSUME NEW t \in Threads, NEW i \in Draws, Draw(t, i) PROVE
        /\ result' \in [Draws -> Traj \cup {NoResult}]
        /\ engine' \in [Threads -> [seed : Nat, pos : Nat]]
        /\ slopeDist' \in [Threads -> Slope]
        /\ dt' \in [Threads -> Nat]
        /\ spent' \in Nat
        /\ pc' \in [Threads -> {"init", "loop", "load", "store", "done"}]
  <2>1. PICK cx \in EngineCalls, cy \in EngineCalls, d \in Durations :
          DrawWith(t, i, cx, cy, d)
    BY <1>2 DEF Draw
  <2>2. result' \in [Draws -> Traj \cup {NoResult}]
    BY <2>1, DrawType DEF DrawWith, TypeOK, Row
  <2>3. engine' \in [Threads -> [seed : Nat, pos : Nat]]
    <3>1. cx \in Nat /\ cy \in Nat
      OBVIOUS
    <3>2. QED  BY <2>1, <3>1 DEF DrawWith, TypeOK
  <2>4. slopeDist' \in [Threads -> Slope]
    BY <2>1 DEF DrawWith, TypeOK, Slope
  <2>5. dt' \in [Threads -> Nat] /\ spent' \in Nat
    BY <2>1 DEF DrawWith, TypeOK, Elapsed
  <2>6. pc' \in [Threads -> {"init", "loop", "load", "store", "done"}]
    BY <2>1 DEF DrawWith, TypeOK
  <2>7. QED  BY <2>2, <2>3, <2>4, <2>5, <2>6
<1>3. ASSUME NEW t \in Threads, IterStatic(t) PROVE TypeOK'
  <2>1. iter[t] \in Draws /\ iter[t] + 1 \in 0 .. N
    BY <1>3, BlockBounds DEF IterStatic, TypeOK, Draws
  <2>2. QED  BY <1>3, <2>1, <1>2 DEF IterStatic, TypeOK
<1>4. ASSUME NEW t \in Threads, IterDynamic(t) PROVE TypeOK'
  <2>1. next \in Draws
    BY <1>4 DEF IterDynamic, TypeOK, Draws
  <2>2. QED  BY <1>4, <2>1, <1>2 DEF IterDynamic, TypeOK
<1>5. ASSUME NEW t \in Threads, LoopEnd(t) PROVE TypeOK'
  BY <1>5 DEF LoopEnd, TypeOK
<1>6. ASSUME NEW t \in Threads, Load(t) PROVE TypeOK'
  BY <1>6 DEF Load, TypeOK
<1>7. ASSUME NEW t \in Threads, Store(t) PROVE TypeOK'
  BY <1>7 DEF Store, TypeOK
<1>8. CASE Return \/ Finished \/ UNCHANGED vars
  BY <1>8 DEF Return, Finished, vars, TypeOK
<1>9. QED
  BY <1>1, <1>3, <1>4, <1>5, <1>6, <1>7, <1>8 DEF Next, Thread

(* Every state of the engine is well typed. *)
THEOREM TypeCorrect == Spec => []TypeOK
BY InitType, TypeStep, PTL DEF Spec

-----------------------------------------------------------------------------
(* The strengthening of DistinctDraws that the steps preserve: a started *)
(* thread's engine carries its own seed; every stored row was drawn by a  *)
(* started thread, from that thread's seed, from a non-empty run of its   *)
(* engine's outputs that ends before the engine's current position.       *)
RowFacts(i) ==
  /\ pc[result[i].thread] # "init"
  /\ result[i].seed = Seed(result[i].thread)
  /\ result[i].from <= result[i].to
  /\ result[i].to < engine[result[i].thread].pos

DrawsInv ==
  /\ TypeOK
  /\ \A t \in Threads : pc[t] # "init" => engine[t].seed = Seed(t)
  /\ \A i \in Written : RowFacts(i)
  /\ DistinctDraws

(* A step that leaves the rows and the engines alone and neither starts *)
(* a thread nor sends one back to its start preserves DrawsInv.          *)
LEMMA QuietStep ==
  ASSUME DrawsInv, TypeOK',
         UNCHANGED <<result, engine>>,
         \A t \in Threads : pc'[t] = "init" <=> pc[t] = "init"
  PROVE  DrawsInv'
<1>1. Written' = Written
  BY DEF Written
<1>2. \A t \in Threads : pc'[t] # "init" => engine'[t].seed = Seed(t)
  BY DEF DrawsInv
<1>3. \A i \in Written' : RowFacts(i)'
  <2> SUFFICES ASSUME NEW i \in Written PROVE RowFacts(i)'
    BY <1>1
  <2>1. RowFacts(i) /\ result[i].thread \in Threads
    BY DEF DrawsInv, TypeOK, Written, Traj
  <2>2. QED  BY <2>1 DEF RowFacts
<1>4. DistinctDraws'
  BY <1>1 DEF DrawsInv, DistinctDraws
<1>5. QED  BY <1>2, <1>3, <1>4 DEF DrawsInv

(* No two rows were ever drawn from the same random numbers, for every *)
(* number of threads and of draws, under either schedule.              *)
THEOREM DrawsAreDistinct == Spec => []DistinctDraws
<1>1. Init => DrawsInv
  BY InitType, NoResultAssumption DEF Init, DrawsInv, Written, DistinctDraws
<1>2. DrawsInv /\ [Next]_vars => DrawsInv'
  <2> SUFFICES ASSUME DrawsInv, [Next]_vars PROVE DrawsInv'
    OBVIOUS
  <2>0. TypeOK /\ TypeOK'
    BY TypeStep DEF DrawsInv
  <2>1. ASSUME NEW t \in Threads, Start(t) PROVE DrawsInv'
    <3>1. CASE slopeFile = "unreadable"
      BY <2>0, <2>1, <3>1, QuietStep DEF Start
    <3>2. CASE slopeFile # "unreadable"
      <4>1. /\ engine' = [engine EXCEPT ![t] = [seed |-> Seed(t), pos |-> 0]]
            /\ pc' = [pc EXCEPT ![t] = "loop"]
            /\ pc[t] = "init"
            /\ result' = result
        BY <2>1, <3>2 DEF Start
      <4>2. \A i \in Written : result[i].thread # t
        BY <4>1 DEF DrawsInv, RowFacts
      <4>3. \A u \in Threads : pc'[u] # "init" => engine'[u].seed = Seed(u)
        BY <2>0, <4>1 DEF DrawsInv, TypeOK
      <4>4. \A i \in Written' : RowFacts(i)'
        BY <2>0, <4>1, <4>2 DEF DrawsInv, RowFacts, Written, TypeOK, Traj
      <4>5. QED  BY <2>0, <4>1, <4>3, <4>4 DEF DrawsInv, DistinctDraws, Written
    <3>3. QED  BY <3>1, <3>2
  <2>2. ASSUME NEW t \in Threads, NEW i \in Draws, pc[t] = "loop", Draw(t, i)
        PROVE  DrawsInv'
    <3>1. PICK cx \in EngineCalls, cy \in EngineCalls, d \in Durations :
            DrawWith(t, i, cx, cy, d)
      BY <2>2 DEF Draw
    <3> DEFINE r == [thread |-> t, seed |-> engine[t].seed,
                     from |-> engine[t].pos, to |-> engine[t].pos + cx + cy - 1,
                     slope |-> slopeDist[t]]
    <3>2. /\ result' = [result EXCEPT ![i] = r]
          /\ engine' = [engine EXCEPT ![t].pos = @ + cx + cy]
          /\ pc' = [pc EXCEPT ![t] = "load"]
      BY <3>1 DEF DrawWith, Row
    <3>3. r \in Traj /\ r # NoResult /\ engine[t].seed = Seed(t)
      BY <2>0, <2>2, DrawType DEF DrawsInv
    <3>4. Written' = Written \cup {i}
      BY <2>0, <3>2, <3>3 DEF Written, TypeOK
    <3>5. \A j \in Written : result[j].thread = t => result[j].to < r.from
      BY DEF DrawsInv, RowFacts
    <3>6. \A j \in Written : result[j].thread # t => result[j].seed # r.seed
      BY <3>3, SeedInjective, <2>0 DEF DrawsInv, RowFacts, TypeOK, Traj, Written
    <3>7. \A u \in Threads : pc'[u] # "init" => engine'[u].seed = Seed(u)
      BY <2>0, <2>2, <3>2, <3>3 DEF DrawsInv, TypeOK
    <3>11. /\ engine'[t].pos = engine[t].pos + cx + cy
           /\ \A u \in Threads \ {t} : engine'[u] = engine[u]
           /\ engine[t].pos \in Nat
      BY <2>0, <3>2 DEF TypeOK
    <3>8. \A j \in Written' : RowFacts(j)'
      <4> SUFFICES ASSUME NEW j \in Written' PROVE RowFacts(j)'
        OBVIOUS
      <4>1. cx \in Nat \ {0} /\ cy \in Nat \ {0}
        OBVIOUS
      <4>2. CASE j = i
        <5>1. result'[j] = r /\ pc'[t] = "load"
          BY <2>0, <3>2, <4>2 DEF TypeOK
        <5>2. QED  BY <5>1, <3>3, <3>11, <4>1 DEF RowFacts
      <4>3. CASE j # i
        <5>1. j \in Written /\ result'[j] = result[j]
          BY <3>2, <3>4, <4>3 DEF Written, TypeOK
        <5>2. RowFacts(j)
          BY <5>1 DEF DrawsInv
        <5>3. result[j].thread \in Threads
          BY <5>1, <2>0 DEF TypeOK, Traj, Written
        <5>4. pc'[result[j].thread] # "init"
          BY <2>0, <3>2, <5>2, <5>3 DEF RowFacts, TypeOK
        <5>5. engine'[result[j].thread].pos >= engine[result[j].thread].pos
          <6>1. CASE result[j].thread = t
            BY <3>11, <4>1, <6>1
          <6>2. CASE result[j].thread # t
            BY <2>0, <3>11, <5>3, <6>2 DEF TypeOK
          <6>3. QED  BY <6>1, <6>2
        <5>6. engine'[result[j].thread].pos \in Int /\ engine[result[j].thread].pos \in Int
          BY <2>0, <5>3, TypeStep DEF TypeOK
        <5>7. result[j].to \in Int
          BY <2>0, <5>1 DEF TypeOK, Written, Traj
        <5>8. QED  BY <5>1, <5>2, <5>4, <5>5, <5>6, <5>7 DEF RowFacts
      <4>4. QED  BY <4>2, <4>3
    <3>9. DistinctDraws'
      <4> SUFFICES ASSUME NEW j \in Written', NEW k \in Written', j # k,
                          result'[j].seed = result'[k].seed
                   PROVE  result'[j].to < result'[k].from \/ result'[k].to < result'[j].from
        BY DEF DistinctDraws
      <4>1. CASE j # i /\ k # i
        <5>1. j \in Written /\ k \in Written /\ result'[j] = result[j] /\ result'[k] = result[k]
          BY <3>2, <3>4, <4>1, <2>0 DEF Written, TypeOK
        <5>2. QED  BY <5>1 DEF DrawsInv, DistinctDraws
      <4>2. CASE j = i
        <5>1. k \in Written /\ result'[k] = result[k] /\ result'[j] = r
          BY <3>2, <3>4, <4>2, <2>0 DEF Written, TypeOK
        <5>2. QED  BY <5>1, <3>5, <3>6
      <4>3. CASE k = i
        <5>1. j \in Written /\ result'[j] = result[j] /\ result'[k] = r
          BY <3>2, <3>4, <4>3, <2>0 DEF Written, TypeOK
        <5>2. QED  BY <5>1, <3>5, <3>6
      <4>4. QED  BY <4>1, <4>2, <4>3
    <3>10. QED  BY <2>0, <3>7, <3>8, <3>9 DEF DrawsInv
  <2>3. ASSUME NEW t \in Threads, IterStatic(t) PROVE DrawsInv'
    <3>1. iter[t] \in Draws
      BY <2>0, <2>3, BlockBounds DEF IterStatic, TypeOK, Draws
    <3>2. QED  BY <2>2, <2>3, <3>1 DEF IterStatic
  <2>4. ASSUME NEW t \in Threads, IterDynamic(t) PROVE DrawsInv'
    <3>1. next \in Draws
      BY <2>0, <2>4 DEF IterDynamic, TypeOK, Draws
    <3>2. QED  BY <2>2, <2>4, <3>1 DEF IterDynamic
  <2>5. ASSUME NEW t \in Threads, LoopEnd(t) \/ Load(t) \/ Store(t) PROVE DrawsInv'
    BY <2>0, <2>5, QuietStep DEF LoopEnd, Load, Store, TypeOK
  <2>6. CASE Return \/ Finished \/ UNCHANGED vars
    BY <2>0, <2>6, QuietStep DEF Return, Finished, vars
  <2>7. QED
    BY <2>1, <2>3, <2>4, <2>5, <2>6 DEF Next, Thread
<1>3. DrawsInv => DistinctDraws
  BY DEF DrawsInv
<1>4. QED  BY <1>1, <1>2, <1>3, PTL DEF Spec

=============================================================================
