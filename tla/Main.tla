--------------------------------- MODULE Main ---------------------------------
(***************************************************************************)
(* The driver, main() of src/src/median_calculation/run_random_vector.cpp: *)
(* map the FITS cube (map_fits), load the per-frame metadata lists        *)
(* (read_timestamp, read_exposuretime, read_psf), build the cube, read     *)
(* NUM_VECTORS (get_num_vectors), shoot, write the catalog (write_tocsv)  *)
(* and release the cube.                                                   *)
(*                                                                         *)
(* A metadata file is a sequence of tokens, each a number or not; the      *)
(* loop "for (double v; ifs >> v;)" reads the numbers before the first     *)
(* token that is not one.  The three lists are arguments of one call, so   *)
(* C++ leaves the order in which they are loaded unspecified.  The shoot   *)
(* itself is one step here: the rows it returns are those Shoot checks.   *)
(***************************************************************************)
EXTENDS Integers, Sequences

CONSTANTS
  SizeK,          \* frames of the FITS cube map_fits reports
  AllocResults,   \* outcomes of PerFits_alloc_cube: "ok" or "null"
  ElemSizes,      \* byte_per_element values the FITS files may have
  MetaEnvs,       \* states a metadata environment variable may be in
  NumEnvs,        \* states NUM_VECTORS may be in
  DefaultNum,     \* default_num_random_vector
  MaxVectorSize,  \* the largest size std::vector accepts
  SizeMax,        \* SIZE_MAX, the largest std::size_t
  CsvOpenResults  \* whether vector_output.csv can be created

Meta == {"timestamp", "exposuretime", "psf"}
Token == {"num", "bad"}

ASSUME SizeKAssumption == SizeK \in Nat
ASSUME EnvAssumption ==
  /\ MetaEnvs \subseteq [kind : {"unset", "unopenable", "file"}, tokens : Seq(Token)]
  /\ NumEnvs \subseteq [kind : {"unset", "text", "number"}, value : Int]
  /\ DefaultNum \in Nat /\ MaxVectorSize \in Nat /\ SizeMax \in Nat
ASSUME OutcomeAssumption ==
  /\ AllocResults \subseteq {"ok", "null"}
  /\ ElemSizes \subseteq Nat
  /\ CsvOpenResults \subseteq BOOLEAN

NoList == -1

(* What a loader or get_num_vectors yields when the process ends in it. *)
Abort == -2

VARIABLES
  env,         \* the metadata environment variables and their files
  numEnv,      \* NUM_VECTORS
  alloc,       \* what PerFits_alloc_cube returns
  elemSize,    \* byte_per_element
  csvOpens,    \* whether std::ofstream can create the catalog
  pc,          \* main's control point
  lists,       \* length of each loaded metadata list, or NoList
  numVectors,  \* num_random_vector
  rows,        \* rows of the result shoot_vector returned
  csvRows,     \* rows written to vector_output.csv
  freed        \* PerFits_free_cube called

vars == <<env, numEnv, alloc, elemSize, csvOpens, pc, lists, numVectors,
          rows, csvRows, freed>>

-----------------------------------------------------------------------------
(* The number of leading number tokens of a file: what the extraction    *)
(* loop reads before the stream fails.                                   *)
LeadingNumbers(f) ==
  LET bad == {j \in 1 .. Len(f) : f[j] # "num"}
  IN  IF bad = {} THEN Len(f)
      ELSE CHOOSE j \in 0 .. Len(f) - 1 : j + 1 \in bad /\ \A m \in 1 .. j : m \notin bad

(* A mutant: a loader that keeps what it read without comparing the   *)
(* count with the number of frames.                                    *)
LoadListUnchecked(e) ==
  IF e.kind = "unset" THEN SizeK
  ELSE IF e.kind = "unopenable" THEN Abort
  ELSE LeadingNumbers(e.tokens)

(* The shared body of the three loaders: without the variable, a list   *)
(* of size_k default values; a file that cannot be opened, or whose     *)
(* count of values differs from size_k, ends the process.               *)
LoadList(e) ==
  IF e.kind = "unset" THEN SizeK
  ELSE IF e.kind = "unopenable" THEN Abort
  ELSE IF LeadingNumbers(e.tokens) # SizeK THEN Abort
  ELSE LeadingNumbers(e.tokens)

(* read_timestamp: TIMESTAMP_FILE, default i * 1.0. *)
ReadTimestamp(e) == LoadList(e)
(* read_exposuretime: EXPOSURETIME_FILE, default 40. *)
ReadExposuretime(e) == LoadList(e)
(* read_psf: PSF_FILE, default 1.0. *)
ReadPsf(e) == LoadList(e)

Loader(m, e) ==
  CASE m = "timestamp" -> ReadTimestamp(e)
    [] m = "exposuretime" -> ReadExposuretime(e)
    [] m = "psf" -> ReadPsf(e)

(* A mutant: the count kept in a signed integer, so a negative count is *)
(* taken as it is.                                                       *)
NumVectorsSigned(e) ==
  CASE e.kind = "unset" -> DefaultNum
    [] e.kind = "text" -> Abort
    [] e.kind = "number" -> e.value

(* get_num_vectors: the default, or std::stoll of NUM_VECTORS stored in a *)
(* std::size_t, so a negative count wraps; text that is not a number     *)
(* throws std::invalid_argument, which nothing catches.                  *)
NumVectors(e) ==
  CASE e.kind = "unset" -> DefaultNum
    [] e.kind = "text" -> Abort
    [] e.kind = "number" -> e.value % (SizeMax + 1)

Init ==
  /\ env \in [Meta -> MetaEnvs]
  /\ numEnv \in NumEnvs
  /\ alloc \in AllocResults
  /\ elemSize \in ElemSizes
  /\ csvOpens \in CsvOpenResults
  /\ pc = "map"
  /\ lists = [m \in Meta |-> NoList]
  /\ numVectors = 0
  /\ rows = 0
  /\ csvRows = 0
  /\ freed = FALSE

Config == <<env, numEnv, alloc, elemSize, csvOpens>>

(* map_fits: abort when the cube cannot be mapped or its pixels are not *)
(* 4-byte floats.                                                       *)
MapFits ==
  /\ pc = "map"
  /\ pc' = IF alloc = "null" \/ elemSize # 4 THEN "aborted" ELSE "load"
  /\ UNCHANGED <<Config, lists, numVectors, rows, csvRows, freed>>

(* One of the three loaders, in whichever order the compiler evaluates *)
(* the constructor's arguments.                                         *)
Load(m) ==
  /\ pc = "load"
  /\ lists[m] = NoList
  /\ IF Loader(m, env[m]) = Abort
       THEN /\ pc' = "aborted"
            /\ UNCHANGED lists
       ELSE /\ lists' = [lists EXCEPT ![m] = Loader(m, env[m])]
            /\ pc' = IF \A o \in Meta \ {m} : lists[o] # NoList THEN "cube" ELSE "load"
  /\ UNCHANGED <<Config, numVectors, rows, csvRows, freed>>

(* The cube constructor: assert(m_size_k <= list.size()) for each list. *)
BuildCube ==
  /\ pc = "cube"
  /\ pc' = IF \A m \in Meta : SizeK <= lists[m] THEN "count" ELSE "assert"
  /\ UNCHANGED <<Config, lists, numVectors, rows, csvRows, freed>>

(* get_num_vectors, then shoot_vector: its result vector of that many  *)
(* rows cannot be allocated beyond std::vector's max_size.             *)
Count ==
  /\ pc = "count"
  /\ \/ /\ NumVectors(numEnv) = Abort
        /\ pc' = "aborted"
        /\ UNCHANGED numVectors
     \/ /\ NumVectors(numEnv) # Abort
        /\ numVectors' = NumVectors(numEnv)
        /\ pc' = IF NumVectors(numEnv) > MaxVectorSize THEN "aborted" ELSE "shoot"
  /\ UNCHANGED <<Config, lists, rows, csvRows, freed>>

(* shoot_vector returns one row per draw. *)
ShootVectors ==
  /\ pc = "shoot"
  /\ rows' = numVectors
  /\ pc' = "csv"
  /\ UNCHANGED <<Config, lists, numVectors, csvRows, freed>>

(* write_tocsv: the stream is not checked, so a catalog that cannot be *)
(* created is silently not written; then the cube is released and main *)
(* returns 0.                                                          *)
WriteCsv ==
  /\ pc = "csv"
  /\ csvRows' = IF csvOpens THEN rows ELSE 0
  /\ freed' = TRUE
  /\ pc' = "exit"
  /\ UNCHANGED <<Config, lists, numVectors, rows>>

Stopped ==
  /\ pc \in {"exit", "aborted", "assert"}
  /\ UNCHANGED vars

Next ==
  MapFits \/ (\E m \in Meta : Load(m)) \/ BuildCube \/ Count \/ ShootVectors
    \/ WriteCsv \/ Stopped

Spec == Init /\ [][Next]_vars

-----------------------------------------------------------------------------
TypeOK ==
  /\ pc \in {"map", "load", "cube", "count", "shoot", "csv", "exit", "aborted", "assert"}
  /\ lists \in [Meta -> Nat \cup {NoList}]
  /\ numVectors \in Nat /\ rows \in Nat /\ csvRows \in Nat
  /\ freed \in BOOLEAN

(* The loaders guarantee the cube constructor's assertions: whatever the *)
(* environment and whatever order the lists are loaded in, the process   *)
(* never reaches a cube with a metadata list shorter than its frames.    *)
NoAssertFailure == pc # "assert"

(* The spec: a metadata file that is malformed, or whose count of values *)
(* differs from the number of frames, is a fatal configuration error.   *)
(* Here: a run that writes the catalog (it ends, and the ofstream opens) *)
(* had every metadata file it was given made only of numbers, size_k of *)
(* them.                                                                 *)
MalformedMetadataRejected ==
  pc = "exit" /\ csvOpens =>
    \A m \in Meta : env[m].kind = "file" =>
       /\ Len(env[m].tokens) = SizeK
       /\ \A j \in 1 .. SizeK : env[m].tokens[j] = "num"

(* The spec: the catalog has exactly N rows, one per draw, whenever the *)
(* program ends without a fatal error.                                  *)
CatalogOnSuccess == pc = "exit" => csvRows = numVectors

=============================================================================
