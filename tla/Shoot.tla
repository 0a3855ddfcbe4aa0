-------------------------------- MODULE Shoot --------------------------------
(***************************************************************************)
(* The Monte Carlo shooting engine, shoot_vector() in                      *)
(* src/src/median_calculation/run_random_vector.cpp.                       *)
(*                                                                         *)
(* An OpenMP parallel region runs one thread per member of Threads.  Each  *)
(* thread seeds its own std::mt19937 with 123 + omp_get_thread_num(),      *)
(* builds its own slope distribution, then takes part in an "omp for" over *)
(* the draw indices 0..N-1.  For each index it draws two slopes, two       *)
(* intercepts, evaluates the vector (vector_info, modelled in VectorInfo)  *)
(* and stores the row result[i]; it then adds the measured elapsed time to *)
(* the shared double total_execution_time with a plain "+=", which is not  *)
(* atomic: a load and a store that other threads may interleave.  The      *)
(* function returns after the implicit barrier that closes the region.     *)
(*                                                                         *)
(* Random numbers are abstracted to positions in a generator's stream: a   *)
(* draw records the seed of the engine it used and the interval of engine *)
(* outputs it consumed.  The evaluated statistics of a row are a pure      *)
(* function of its trajectory and are left out here.                      *)
(***************************************************************************)
EXTENDS Naturals

CONSTANTS
  NumThreads,   \* options.numthreads, passed to omp_set_num_threads
  N,            \* num_random_vector (NUM_VECTORS)
  Durations,    \* elapsed times one vector_info call may be measured at
  EngineCalls,  \* engine outputs one uniform_int_distribution call may use
  Schedules,    \* the runtime's default schedule for an "omp for"
  SlopeFiles,   \* states SLOPE_PDF_FILE may be in
  NoResult      \* a row of result that no thread has written

ASSUME NumThreadsAssumption == NumThreads \in Nat \ {0}
ASSUME NAssumption == N \in Nat
ASSUME DurationsAssumption == Durations \subseteq Nat /\ Durations # {}
ASSUME EngineCallsAssumption == EngineCalls \subseteq Nat \ {0} /\ EngineCalls # {}
ASSUME SchedulesAssumption == Schedules \subseteq {"static", "dynamic"} /\ Schedules # {}
ASSUME SlopeFilesAssumption ==
  SlopeFiles \subseteq {"unset", "readable", "unreadable"} /\ SlopeFiles # {}

Threads == 0 .. NumThreads - 1
Draws == 0 .. N - 1

(* A stored row: who drew it, from which engine stream and which outputs *)
(* of it, and which slope distribution produced its slopes.               *)
Slope == [kind : {"beta", "custom"}, pos : Nat]
Traj == [thread : Threads, seed : Nat, from : Nat, to : Nat, slope : Slope]

ASSUME NoResultAssumption == NoResult \notin Traj

VARIABLES
  sched,      \* schedule the runtime uses for the "omp for"
  slopeFile,  \* whether SLOPE_PDF_FILE is set, and to a readable file
  pc,         \* per-thread control point
  engine,     \* per-thread rnd_engine: its seed and outputs consumed so far
  slopeDist,  \* per-thread slope_distribution: its kind and draws so far
  iter,       \* static schedule: the next index of each thread's block
  next,       \* dynamic schedule: the runtime's shared next-iteration counter
  result,     \* the result vector, pre-sized to N rows
  dt,         \* per-thread elapsed time of the current vector_info call
  tmp,        \* per-thread value of total_execution_time read by "+="
  total,      \* total_execution_time
  spent,      \* sum of every elapsed time measured so far (history)
  status      \* "running", "returned" or "aborted"

vars == <<sched, slopeFile, pc, engine, slopeDist, iter, next, result,
          dt, tmp, total, spent, status>>

-----------------------------------------------------------------------------
(* A mutant: the engine seeded without the thread number. *)
SeedShared(t) == 123

(* std::mt19937 rnd_engine(123 + omp_get_thread_num()). *)
Seed(t) == 123 + t

(* A mutant: the static split that forgets the remainder iterations. *)
ChunkNoRemainder(t) == N \div NumThreads

(* A mutant: every thread given the rounded-up share, the last block *)
(* running past the end.                                              *)
ChunkCeil(t) == (N + NumThreads - 1) \div NumThreads

(* A static "omp for" gives each thread N \div NumThreads iterations, and *)
(* one more to each of the first N % NumThreads threads; thread t's block  *)
(* is Lo(t) .. Hi(t) - 1.                                                  *)
Chunk(t) == IF t < N % NumThreads THEN N \div NumThreads + 1 ELSE N \div NumThreads
Lo(t) ==
  IF t < N % NumThreads THEN (N \div NumThreads + 1) * t
                        ELSE (N \div NumThreads) * t + (N % NumThreads)
Hi(t) == Lo(t) + Chunk(t)

Init ==
  /\ sched \in Schedules
  /\ slopeFile \in SlopeFiles
  /\ pc = [t \in Threads |-> "init"]
  /\ engine = [t \in Threads |-> [seed |-> 0, pos |-> 0]]
  /\ slopeDist = [t \in Threads |-> [kind |-> "beta", pos |-> 0]]
  /\ iter = [t \in Threads |-> 0]
  /\ next = 0
  /\ result = [i \in Draws |-> NoResult]
  /\ dt = [t \in Threads |-> 0]
  /\ tmp = [t \in Threads |-> 0]
  /\ total = 0
  /\ spent = 0
  /\ status = "running"

(* A mutant: any SLOPE_PDF_FILE taken as one that cannot be read. *)
StartFileFatal(t) ==
  /\ status = "running"
  /\ pc[t] = "init"
  /\ \/ /\ slopeFile = "unset"
        /\ engine' = [engine EXCEPT ![t] = [seed |-> Seed(t), pos |-> 0]]
        /\ slopeDist' = [slopeDist EXCEPT ![t] = [kind |-> "beta", pos |-> 0]]
        /\ iter' = [iter EXCEPT ![t] = Lo(t)]
        /\ pc' = [pc EXCEPT ![t] = "loop"]
        /\ UNCHANGED status
     \/ /\ slopeFile # "unset"
        /\ status' = "aborted"
        /\ UNCHANGED <<pc, engine, slopeDist, iter>>
  /\ UNCHANGED <<sched, slopeFile, next, result, dt, tmp, total, spent>>

(* The prologue of the parallel region and the entry of the "omp for".  *)
(* The engine is seeded; the beta distribution is built; when            *)
(* SLOPE_PDF_FILE is set a custom_distribution is built in the scope of  *)
(* the if statement only, so the loop uses the beta distribution        *)
(* whatever the file says.  Building it from a file that cannot be read *)
(* ends the process.  Under the static schedule the thread's block is    *)
(* fixed here.                                                          *)
Start(t) ==
  /\ status = "running"
  /\ pc[t] = "init"
  /\ \/ /\ slopeFile \in {"unset", "readable"}
        /\ engine' = [engine EXCEPT ![t] = [seed |-> Seed(t), pos |-> 0]]
        /\ slopeDist' = [slopeDist EXCEPT ![t] = [kind |-> "beta", pos |-> 0]]
        /\ iter' = [iter EXCEPT ![t] = Lo(t)]
        /\ pc' = [pc EXCEPT ![t] = "loop"]
        /\ UNCHANGED status
     \/ /\ slopeFile = "unreadable"
        /\ status' = "aborted"
        /\ UNCHANGED <<pc, engine, slopeDist, iter>>
  /\ UNCHANGED <<sched, slopeFile, next, result, dt, tmp, total, spent>>

(* A mutant: the start time taken once per thread, not once per draw, so *)
(* each measurement also counts the thread's earlier draws.             *)
ElapsedSinceThreadStart(t, d) == dt[t] + d

(* utility::elapsed_time_sec(start), with start taken just before the *)
(* vector_info call of this draw.                                      *)
Elapsed(t, d) == d

(* A mutant: the row indexed by how many draws this thread has made, not *)
(* by the loop index.                                                    *)
RowPerThread(t, i) == slopeDist[t].pos

(* result[i]: the row of the loop index. *)
Row(t, i) == i

(* The body of the loop for index i: slopes from slope_distribution(),  *)
(* x and y intercepts from the engine (each uniform_int_distribution    *)
(* call may use more than one engine output), vector_info, result[i]    *)
(* stored and the elapsed time measured.                                 *)
DrawWith(t, i, cx, cy, d) ==
  /\ result' = [result EXCEPT ![Row(t, i)] =
        [thread |-> t, seed |-> engine[t].seed,
         from |-> engine[t].pos, to |-> engine[t].pos + cx + cy - 1,
         slope |-> slopeDist[t]]]
  /\ engine' = [engine EXCEPT ![t].pos = @ + cx + cy]
  /\ slopeDist' = [slopeDist EXCEPT ![t].pos = @ + 1]
  /\ dt' = [dt EXCEPT ![t] = Elapsed(t, d)]
  /\ spent' = spent + d
  /\ pc' = [pc EXCEPT ![t] = "load"]

(* The body for index i, with any number of engine outputs used and any *)
(* measured time.                                                          *)
Draw(t, i) == \E cx, cy \in EngineCalls, d \in Durations : DrawWith(t, i, cx, cy, d)

(* An iteration under the static schedule: the next index of the block. *)
IterStatic(t) ==
  /\ status = "running"
  /\ sched = "static"
  /\ pc[t] = "loop"
  /\ iter[t] < Hi(t)
  /\ Draw(t, iter[t])
  /\ iter' = [iter EXCEPT ![t] = @ + 1]
  /\ UNCHANGED <<sched, slopeFile, next, tmp, total, status>>

(* An iteration under the dynamic schedule: the runtime's counter is   *)
(* fetched and incremented atomically.                                 *)
IterDynamic(t) ==
  /\ status = "running"
  /\ sched = "dynamic"
  /\ pc[t] = "loop"
  /\ next < N
  /\ Draw(t, next)
  /\ next' = next + 1
  /\ UNCHANGED <<sched, slopeFile, iter, tmp, total, status>>

(* No iteration left for the thread: it waits at the barrier that closes *)
(* the loop and the region.                                              *)
LoopEnd(t) ==
  /\ status = "running"
  /\ pc[t] = "loop"
  /\ sched = "static" => iter[t] >= Hi(t)
  /\ sched = "dynamic" => next >= N
  /\ pc' = [pc EXCEPT ![t] = "done"]
  /\ UNCHANGED <<sched, slopeFile, engine, slopeDist, iter, next, result, dt,
                 tmp, total, spent, status>>

(* total_execution_time += elapsed: the load. *)
Load(t) ==
  /\ status = "running"
  /\ pc[t] = "load"
  /\ tmp' = [tmp EXCEPT ![t] = total]
  /\ pc' = [pc EXCEPT ![t] = "store"]
  /\ UNCHANGED <<sched, slopeFile, engine, slopeDist, iter, next, result, dt,
                 total, spent, status>>

(* total_execution_time += elapsed: the store. *)
Store(t) ==
  /\ status = "running"
  /\ pc[t] = "store"
  /\ total' = tmp[t] + dt[t]
  /\ pc' = [pc EXCEPT ![t] = "loop"]
  /\ UNCHANGED <<sched, slopeFile, engine, slopeDist, iter, next, result, dt,
                 tmp, spent, status>>

(* The end of the parallel region: once every thread is at the barrier, *)
(* shoot_vector returns its pair (total_execution_time, result).           *)
Return ==
  /\ status = "running"
  /\ \A t \in Threads : pc[t] = "done"
  /\ status' = "returned"
  /\ UNCHANGED <<sched, slopeFile, pc, engine, slopeDist, iter, next, result,
                 dt, tmp, total, spent>>

(* After the return, or after the process has ended, nothing changes. *)
Finished ==
  /\ status # "running"
  /\ UNCHANGED vars

Thread(t) ==
  Start(t) \/ IterStatic(t) \/ IterDynamic(t) \/ LoopEnd(t) \/ Load(t) \/ Store(t)

Next == (\E t \in Threads : Thread(t)) \/ Return \/ Finished

(* OpenMP threads are operating-system threads: each that can run, runs. *)
Fairness == (\A t \in Threads : WF_vars(Thread(t))) /\ WF_vars(Return)

Spec == Init /\ [][Next]_vars /\ Fairness

-----------------------------------------------------------------------------
(* The rows some thread has stored. *)
Written == {i \in Draws : result[i] # NoResult}

TypeOK ==
  /\ sched \in Schedules
  /\ slopeFile \in SlopeFiles
  /\ pc \in [Threads -> {"init", "loop", "load", "store", "done"}]
  /\ engine \in [Threads -> [seed : Nat, pos : Nat]]
  /\ slopeDist \in [Threads -> Slope]
  /\ iter \in [Threads -> 0 .. N]
  /\ next \in 0 .. N
  /\ result \in [Draws -> Traj \cup {NoResult}]
  /\ dt \in [Threads -> Nat]
  /\ tmp \in [Threads -> Nat]
  /\ total \in Nat
  /\ spent \in Nat
  /\ status \in {"running", "returned", "aborted"}

(* No two rows were drawn from the same random numbers: two rows whose   *)
(* intercepts come from engines with the same seed used disjoint runs of *)
(* that engine's outputs.  This is what seeding each thread's engine      *)
(* with its thread number, and keeping the engine thread-local, buys.     *)
DistinctDraws ==
  \A i, j \in Written :
     i # j /\ result[i].seed = result[j].seed =>
        result[i].to < result[j].from \/ result[j].to < result[i].from

(* Shoot implements ShootAbstract: the result vector is the abstract    *)
(* vector and the status the abstract one; each concrete step is an      *)
(* abstract step or leaves both unchanged.                               *)
Abstract == INSTANCE ShootAbstract WITH out <- result, st <- status,
                                        Rows <- Traj, NoRow <- NoResult

(* shoot_vector keeps its promise to the caller: every row is stored once *)
(* and never replaced, the call returns only with all N rows stored, and *)
(* a call whose rows are all stored does return, through the barrier.    *)
ImplementsAbstract == Abstract!ASpec

(* With SLOPE_PDF_FILE unset or readable, shoot_vector returns: every     *)
(* thread gets past its last iteration, none waits forever at the        *)
(* barrier, and the process is not ended, whatever the schedule.         *)
Termination == slopeFile # "unreadable" => <>(status = "returned")

(* When shoot_vector returns, every one of the N rows write_tocsv prints *)
(* has been stored by some thread, whatever the schedule: the barrier at *)
(* the end of the region and the split of the iterations leave no row at *)
(* its default value.                                                     *)
CatalogComplete == status = "returned" => Written = Draws

(* A stored row is never overwritten: no two threads, and no two        *)
(* iterations, store the same index of result.                          *)
WriteOnce ==
  [][\A i \in Draws : result[i] # NoResult => result'[i] = result[i]]_vars

(* The racy "+=" on total_execution_time can lose time but never invent  *)
(* it: the reported total never exceeds the time the threads measured.   *)
TimeNeverOvercounted == total <= spent

(* The comment of the spec: the reported execution time is the sum of   *)
(* the per-draw times.  The unsynchronised "+=" breaks it.               *)
TimeAccounted == status = "returned" => total = spent

(* The spec: when SLOPE_PDF_FILE names a readable file, the slopes come *)
(* from the custom distribution it defines.                             *)
SlopeFromConfiguredFile ==
  slopeFile = "readable" => \A i \in Written : result[i].slope.kind = "custom"

=============================================================================
