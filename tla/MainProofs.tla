------------------------------ MODULE MainProofs ------------------------------
(***************************************************************************)
(* Proof that main() of run_random_vector.cpp never fails the cube        *)
(* constructor's assertion: every loader either ends the process or       *)
(* returns a list of exactly size_k values, so whichever order the three  *)
(* lists are loaded in, the constructor sees three lists of size_k; and    *)
(* that its variables keep their types, the wrapped count included.       *)
(***************************************************************************)
EXTENDS Main, TLAPS

USE SizeKAssumption, EnvAssumption

(* The inductive invariant: every list is unloaded or has size_k values, *)
(* and the constructor is reached only once all three are loaded.       *)
MInv ==
  /\ pc \in {"map", "load", "cube", "count", "shoot", "csv", "exit", "aborted"}
  /\ lists \in [Meta -> {NoList, SizeK}]
  /\ pc = "cube" => \A m \in Meta : lists[m] = SizeK
  /\ numEnv \in NumEnvs
  /\ numVectors \in Nat /\ rows \in Nat /\ csvRows \in Nat
  /\ freed \in BOOLEAN

(* get_num_vectors ends the process or yields a count: the default, or  *)
(* the number read, reduced modulo SIZE_MAX + 1 into a std::size_t.     *)
LEMMA NumVectorsResult ==
  ASSUME NEW e \in NumEnvs
  PROVE  NumVectors(e) \in Nat \cup {Abort}
<1>1. e.kind \in {"unset", "text", "number"} /\ e.value \in Int
  OBVIOUS
<1>2. e.kind = "number" => e.value % (SizeMax + 1) \in Nat
  BY <1>1
<1>3. QED  BY <1>1, <1>2 DEF NumVectors

(* A loader ends the process or returns size_k: LoadList compares the   *)
(* count it read with size_k before returning it.                       *)
LEMMA LoaderResult ==
  ASSUME NEW m \in Meta, NEW e
  PROVE  Loader(m, e) \in {SizeK, Abort}
<1>1. LoadList(e) \in {SizeK, Abort}
  BY DEF LoadList
<1>2. QED
  BY <1>1 DEF Loader, Meta, ReadTimestamp, ReadExposuretime, ReadPsf

(* main starts with no list loaded. *)
LEMMA MInit == Init => MInv
<1> SUFFICES ASSUME Init PROVE MInv
  OBVIOUS
<1>1. pc = "map" /\ lists \in [Meta -> {NoList, SizeK}]
  BY DEF Init, NoList
<1>2. numEnv \in NumEnvs /\ numVectors = 0 /\ rows = 0 /\ csvRows = 0 /\ freed = FALSE
  BY DEF Init
<1>3. QED  BY <1>1, <1>2 DEF MInv

(* A loader stores size_k, and the constructor comes after the last. *)
LEMMA LoadStep ==
  ASSUME NEW m \in Meta
  PROVE  MInv /\ Load(m) => MInv'
<1> SUFFICES ASSUME MInv, Load(m) PROVE MInv'
  OBVIOUS
<1>1. Loader(m, env[m]) \in {SizeK, Abort}
  BY LoaderResult
<1>2. CASE Loader(m, env[m]) = Abort
  BY <1>2 DEF Load, MInv, Config
<1>3. CASE Loader(m, env[m]) = SizeK
  <2>1. /\ lists' = [lists EXCEPT ![m] = SizeK]
        /\ pc' = IF \A o \in Meta \ {m} : lists[o] # NoList THEN "cube" ELSE "load"
    BY <1>3, SizeKAssumption DEF Load, Abort
  <2>2. lists' \in [Meta -> {NoList, SizeK}]
    BY <2>1 DEF MInv
  <2>3. pc' = "cube" => \A o \in Meta : lists'[o] = SizeK
    BY <2>1 DEF MInv
  <2>4. UNCHANGED <<numEnv, numVectors, rows, csvRows, freed>>
    BY DEF Load, Config
  <2>5. QED  BY <2>1, <2>2, <2>3, <2>4 DEF MInv
<1>4. QED  BY <1>1, <1>2, <1>3

(* Every step of main keeps MInv. *)
LEMMA MStep == MInv /\ [Next]_vars => MInv'
<1> SUFFICES ASSUME MInv, [Next]_vars PROVE MInv'
  OBVIOUS
<1>1. CASE MapFits
  BY <1>1 DEF MapFits, MInv, Config
<1>2. CASE BuildCube
  <2>1. \A m \in Meta : SizeK <= lists[m]
    BY <1>2 DEF BuildCube, MInv
  <2>2. QED  BY <1>2, <2>1 DEF BuildCube, MInv, Config
<1>3. CASE Count
  <2>1. NumVectors(numEnv) \in Nat \cup {Abort}
    BY NumVectorsResult DEF MInv
  <2>2. QED  BY <1>3, <2>1 DEF Count, MInv, Abort, Config
<1>4. CASE ShootVectors
  BY <1>4 DEF ShootVectors, MInv, Config
<1>5. CASE WriteCsv
  BY <1>5 DEF WriteCsv, MInv, Config
<1>6. CASE Stopped \/ UNCHANGED vars
  BY <1>6 DEF Stopped, vars, MInv, Config
<1>7. QED  BY <1>1, <1>2, <1>3, <1>4, <1>5, <1>6, LoadStep DEF Next

(* The cube constructor's assert(m_size_k <= list.size()) never fails:   *)
(* the loaders' own check of the count makes it unreachable, for every   *)
(* environment, every size_k and every order of the three loads.        *)
THEOREM NoAssertFailureHolds == Spec => []NoAssertFailure
<1>1. MInv => NoAssertFailure
  BY DEF MInv, NoAssertFailure
<1>2. QED  BY <1>1, MInit, MStep, PTL DEF Spec

(* main's variables keep their types; in particular the count of vectors *)
(* is a natural number whatever NUM_VECTORS holds, a negative value      *)
(* included, because get_num_vectors stores it in a std::size_t.         *)
THEOREM TypeCorrect == Spec => []TypeOK
<1>1. MInv => TypeOK
  BY DEF MInv, TypeOK, NoList
<1>2. QED  BY <1>1, MInit, MStep, PTL DEF Spec

=============================================================================
