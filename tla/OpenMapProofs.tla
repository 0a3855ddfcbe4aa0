---------------------------- MODULE OpenMapProofs ----------------------------
(***************************************************************************)
(* Proofs about umt_openandmap (OpenMap): the type invariant, and that a   *)
(* call which returns has mapped no more of the file than the file holds  *)
(* and, with noinit, has left the caller's file as it found it.  Both     *)
(* rest on one inductive invariant, OInv, that follows the file through   *)
(* the steps of the call.  With CInv besides, the call implements         *)
(* OpenMapCall, the call as its caller sees it.                           *)
(***************************************************************************)
EXTENDS OpenMap, TLAPS

USE OpenMapAssumption

(* The inductive invariant.  Past open the file exists; until fallocate  *)
(* with noinit it is the caller's file, and from the size check on it    *)
(* holds numbytes; from fallocate on it holds numbytes in every mode;    *)
(* a region exists only once the call has returned, and has numbytes.   *)
OInv ==
  /\ TypeOK
  /\ numbytes \in Sizes
  /\ initial \in Files
  /\ pc = "open" => file = initial
  /\ pc \in {"stat", "falloc", "map", "returned"} => file.exists
  /\ ops.noinit /\ pc \in {"stat", "falloc", "map", "returned"} => file = initial
  /\ ops.noinit /\ pc \in {"falloc", "map", "returned"} => numbytes <= file.size
  /\ pc \in {"map", "returned"} => numbytes <= file.size
  /\ region.kind # "none" => pc = "returned" /\ region.size = numbytes

(* An existing file of Files is the record open with O_CREAT leaves. *)
LEMMA ExistingFile ==
  ASSUME NEW f \in Files, f.exists
  PROVE  [exists |-> TRUE, size |-> f.size] = f
BY DEF Files, NoFile

(* The file after open with O_CREAT: the same size, existing. *)
LEMMA OpenedFile ==
  ASSUME NEW f \in Files
  PROVE  [exists |-> TRUE, size |-> f.size] \in Files \cup [exists : {TRUE}, size : {0}]
<1>1. CASE f = NoFile
  BY <1>1 DEF NoFile
<1>2. CASE f # NoFile
  BY <1>2 DEF Files
<1>3. QED
  BY <1>1, <1>2

(* What TypeOK says of the file: an existing file is a size in Sizes or 0. *)
LEMMA FileShape ==
  ASSUME NEW f \in Files \cup [exists : {TRUE}, size : {0}]
  PROVE  /\ f.size \in Nat
         /\ f.exists => f = [exists |-> TRUE, size |-> f.size]
<1>1. CASE f = NoFile
  BY <1>1 DEF NoFile
<1>2. CASE f \in [exists : {TRUE}, size : Sizes]
  BY <1>2, OpenMapAssumption
<1>3. CASE f \in [exists : {TRUE}, size : {0}]
  BY <1>3
<1>4. QED
  BY <1>1, <1>2, <1>3 DEF Files

(* The call starts with its variables in their types. *)
LEMMA TypeInit == Init => TypeOK
<1> SUFFICES ASSUME Init PROVE TypeOK
  OBVIOUS
<1>1. ops \in Options
  BY DEF Init
<1>2. file \in Files \cup [exists : {TRUE}, size : {0}]
  BY DEF Init
<1>3. region \in [kind : {"none", "anonymous", "file"}, size : Sizes \cup {0}]
  BY DEF Init
<1>4. pc \in {"open", "stat", "falloc", "map", "returned", "exited"}
  BY DEF Init
<1>5. QED
  BY <1>1, <1>2, <1>3, <1>4 DEF TypeOK

(* The call starts in the invariant: before open, the file is the caller's. *)
LEMMA OInit == Init => OInv
<1> SUFFICES ASSUME Init PROVE OInv
  OBVIOUS
<1>1. TypeOK
  BY TypeInit
<1>2. numbytes \in Sizes /\ initial \in Files /\ file = initial /\ pc = "open"
  BY DEF Init
<1>3. region.kind = "none"
  BY DEF Init
<1>4. QED
  BY <1>1, <1>2, <1>3 DEF OInv

(* The steps of the call, one lemma each. *)
LEMMA OpenStep == OInv /\ Open => OInv'
<1> SUFFICES ASSUME OInv, Open PROVE OInv'
  OBVIOUS
<1> PICK r \in OpenResults :
      IF r = "error" \/ (ops.noinit /\ ~file.exists)
        THEN pc' = "exited" /\ UNCHANGED file
        ELSE /\ file' = [exists |-> TRUE, size |-> file.size]
             /\ pc' = IF ops.noinit THEN "stat" ELSE "falloc"
  BY DEF Open
<1>0. /\ file \in Files /\ file = initial /\ pc = "open"
      /\ region.kind = "none" /\ numbytes \in Sizes /\ initial \in Files
      /\ TypeOK
      /\ UNCHANGED <<ops, numbytes, initial, region>>
  BY DEF Open, OInv
<1>1. CASE r = "error" \/ (ops.noinit /\ ~file.exists)
  <2>1. TypeOK'
    BY <1>0, <1>1 DEF TypeOK
  <2>2. QED
    BY <1>0, <1>1, <2>1 DEF OInv
<1>2. CASE ~(r = "error" \/ (ops.noinit /\ ~file.exists))
  <2>0. file' = [exists |-> TRUE, size |-> file.size]
    BY <1>2
  <2>1. file' \in Files \cup [exists : {TRUE}, size : {0}] /\ file'.exists
    BY <1>0, <2>0, OpenedFile
  <2>2. pc' \in {"stat", "falloc"} /\ (ops.noinit <=> pc' = "stat")
    BY <1>2
  <2>3. ops.noinit => file' = file
    BY <1>0, <1>2, ExistingFile
  <2>4. TypeOK'
    BY <1>0, <2>1, <2>2 DEF TypeOK
  <2>5. QED
    BY <1>0, <2>1, <2>2, <2>3, <2>4 DEF OInv
<1>3. QED
  BY <1>1, <1>2

(* fstat with noinit lets the call on only with a file of numbytes. *)
LEMMA SizeCheckStep == OInv /\ SizeCheck => OInv'
<1> SUFFICES ASSUME OInv, SizeCheck PROVE OInv'
  OBVIOUS
<1> PICK r \in FstatResults :
      pc' = IF r = "error" \/ file.size < numbytes THEN "exited" ELSE "falloc"
  BY DEF SizeCheck
<1>1. pc = "stat" /\ UNCHANGED <<ops, numbytes, file, initial, region>>
  BY DEF SizeCheck
<1>2. pc' \in {"exited", "falloc"} /\ (pc' = "falloc" => numbytes <= file.size)
  <2>1. file.size \in Nat /\ numbytes \in Nat
    BY FileShape, OpenMapAssumption DEF OInv, TypeOK
  <2>2. QED
    BY <2>1
<1>3. TypeOK'
  BY <1>1, <1>2 DEF OInv, TypeOK
<1>4. QED
  BY <1>1, <1>2, <1>3 DEF OInv

(* posix_fallocate leaves a file of at least numbytes, and with noinit *)
(* leaves the caller's file as it was.                                 *)
LEMMA FallocateStep == OInv /\ Fallocate => OInv'
<1> SUFFICES ASSUME OInv, Fallocate PROVE OInv'
  OBVIOUS
<1> PICK r \in FallocResults :
      IF r = "error" \/ numbytes = 0
        THEN pc' = "exited" /\ UNCHANGED file
        ELSE /\ file' = IF file.size < numbytes
                          THEN [file EXCEPT !.size = numbytes] ELSE file
             /\ pc' = "map"
  BY DEF Fallocate
<1>0. /\ pc = "falloc" /\ file.exists /\ numbytes \in Sizes
      /\ file \in Files \cup [exists : {TRUE}, size : {0}]
      /\ (ops.noinit => numbytes <= file.size /\ file = initial)
      /\ region.kind = "none" /\ TypeOK
      /\ UNCHANGED <<ops, numbytes, initial, region>>
  BY DEF Fallocate, OInv, TypeOK
<1>1. CASE r = "error" \/ numbytes = 0
  <2>1. TypeOK'
    BY <1>0, <1>1 DEF TypeOK
  <2>2. QED
    BY <1>0, <1>1, <2>1 DEF OInv
<1>2. CASE ~(r = "error" \/ numbytes = 0)
  <2>0. file.size \in Nat /\ numbytes \in Nat
    BY <1>0, FileShape, OpenMapAssumption
  <2>1. pc' = "map"
    BY <1>2
  <2>2. CASE file.size < numbytes
    <3>0. file = [exists |-> TRUE, size |-> file.size]
      BY <1>0, FileShape
    <3>1. file' = [exists |-> TRUE, size |-> numbytes]
      BY <1>2, <2>2, <3>0
    <3>2. file' \in Files /\ file'.exists /\ numbytes <= file'.size
      BY <1>0, <3>1, OpenMapAssumption DEF Files
    <3>3. ~ops.noinit
      BY <1>0, <2>0, <2>2
    <3>4. TypeOK'
      BY <1>0, <2>1, <3>2 DEF TypeOK
    <3>5. QED
      BY <1>0, <2>1, <3>2, <3>3, <3>4 DEF OInv
  <2>3. CASE ~(file.size < numbytes)
    <3>1. file' = file
      BY <1>2, <2>3
    <3>2. numbytes <= file.size
      BY <2>0, <2>3
    <3>3. TypeOK'
      BY <1>0, <2>1, <3>1 DEF TypeOK
    <3>4. QED
      BY <1>0, <2>1, <3>1, <3>2, <3>3 DEF OInv
  <2>4. QED
    BY <2>2, <2>3
<1>3. QED
  BY <1>1, <1>2

(* mmap makes a region of numbytes, and the call returns. *)
LEMMA MapStep == OInv /\ Map => OInv'
<1> SUFFICES ASSUME OInv, Map PROVE OInv'
  OBVIOUS
<1> PICK r \in MmapResults :
      IF r = "error"
        THEN pc' = "exited" /\ UNCHANGED region
        ELSE /\ region' = [kind |-> IF ops.usemmap THEN "file" ELSE "anonymous",
                           size |-> numbytes]
             /\ pc' = "returned"
  BY DEF Map
<1>0. /\ pc = "map" /\ numbytes \in Sizes /\ region.kind = "none" /\ TypeOK
      /\ UNCHANGED <<ops, numbytes, file, initial>>
  BY DEF Map, OInv
<1>1. CASE r = "error"
  <2>1. TypeOK'
    BY <1>0, <1>1 DEF TypeOK
  <2>2. QED
    BY <1>0, <1>1, <2>1 DEF OInv
<1>2. CASE r # "error"
  <2>1. region' \in [kind : {"none", "anonymous", "file"}, size : Sizes \cup {0}]
    BY <1>0, <1>2
  <2>2. region'.kind # "none" /\ region'.size = numbytes /\ pc' = "returned"
    BY <1>2
  <2>3. TypeOK'
    BY <1>0, <2>1, <2>2 DEF TypeOK
  <2>4. QED
    BY <1>0, <2>2, <2>3 DEF OInv
<1>3. QED
  BY <1>1, <1>2

(* Every step of the call keeps OInv. *)
LEMMA OStep == OInv /\ [Next]_vars => OInv'
<1> SUFFICES ASSUME OInv, [Next]_vars PROVE OInv'
  OBVIOUS
<1>1. CASE Done \/ UNCHANGED vars
  <2>1. UNCHANGED vars
    BY <1>1 DEF Done
  <2>2. TypeOK'
    BY <2>1 DEF vars, OInv, TypeOK
  <2>3. QED
    BY <2>1, <2>2 DEF vars, OInv
<1>2. QED
  BY <1>1, OpenStep, SizeCheckStep, FallocateStep, MapStep DEF Next

(* Every call keeps its variables within their types. *)
THEOREM TypeCorrect == Spec => []TypeOK
<1>1. OInv => TypeOK
  BY DEF OInv
<1>2. QED
  BY <1>1, OInit, OStep, PTL DEF Spec

(* A shared mapping made by a call that returns (mmap of numbytes on the *)
(* file after posix_fallocate) never reaches past the end of the file.  *)
THEOREM MappedWithinFileHolds == Spec => []MappedWithinFile
<1>1. OInv => MappedWithinFile
  BY DEF OInv, MappedWithinFile
<1>2. QED
  BY <1>1, OInit, OStep, PTL DEF Spec

(* With noinit, a call that returns has left the caller's file as it     *)
(* was: the size check before posix_fallocate means it never grows it.  *)
THEOREM NoinitKeepsFileHolds == Spec => []NoinitKeepsFile
<1>1. OInv => NoinitKeepsFile
  BY DEF OInv, NoinitKeepsFile
<1>2. QED
  BY <1>1, OInit, OStep, PTL DEF Spec
-----------------------------------------------------------------------------
(***************************************************************************)
(* The refinement of OpenMapCall.  Until the call ends its caller sees the *)
(* file it passed (initial); the steps before the end are stutters, and    *)
(* the last one is the abstract Return or Exit.  Besides OInv this needs   *)
(* CInv, which says what the file is at each point of the call in terms    *)
(* of the caller's file.                                                   *)
(***************************************************************************)

(* Between open and fallocate the file is the caller's, opened (and     *)
(* created empty if it was missing); at mmap it is the caller's, grown   *)
(* to numbytes, and numbytes is not 0.                                   *)
CInv ==
  /\ pc \in {"stat", "falloc"} => file = [exists |-> TRUE, size |-> initial.size]
  /\ pc = "map" => file = Call!Grown(initial, numbytes) /\ numbytes > 0

(* The call starts before open. *)
LEMMA CInit == Init => CInv
BY DEF Init, CInv

(* Every step keeps CInv. *)
LEMMA CStep == OInv /\ CInv /\ [Next]_vars => CInv'
<1> SUFFICES ASSUME OInv, CInv, [Next]_vars PROVE CInv'
  OBVIOUS
<1>0. initial \in Files /\ initial.size \in Nat /\ numbytes \in Nat
  BY FileShape, OpenMapAssumption DEF OInv
<1>1. CASE Open
  BY <1>1 DEF Open, OInv, CInv
<1>2. CASE SizeCheck
  BY <1>2 DEF SizeCheck, CInv
<1>3. CASE Fallocate
  <2> PICK r \in FallocResults :
        IF r = "error" \/ numbytes = 0
          THEN pc' = "exited" /\ UNCHANGED file
          ELSE /\ file' = IF file.size < numbytes
                            THEN [file EXCEPT !.size = numbytes] ELSE file
               /\ pc' = "map"
    BY <1>3 DEF Fallocate
  <2>0. pc = "falloc" /\ file = [exists |-> TRUE, size |-> initial.size]
        /\ UNCHANGED <<numbytes, initial>>
    BY <1>3 DEF Fallocate, CInv
  <2>1. CASE r = "error" \/ numbytes = 0
    BY <2>1 DEF CInv
  <2>2. CASE ~(r = "error" \/ numbytes = 0)
    <3>1. file' = Call!Grown(initial, numbytes) /\ numbytes > 0
      BY <2>0, <2>2, <1>0 DEF Call!Grown
    <3>2. QED  BY <2>0, <2>2, <3>1 DEF CInv
  <2>3. QED  BY <2>1, <2>2
<1>4. CASE Map
  BY <1>4 DEF Map, CInv
<1>5. CASE Done \/ UNCHANGED vars
  BY <1>5 DEF Done, vars, CInv
<1>6. QED  BY <1>1, <1>2, <1>3, <1>4, <1>5 DEF Next

(* A call that exits has left the file as OpenMapCall's Exit allows. *)
LEMMA ExitFile ==
  ASSUME OInv, CInv, pc \in {"open", "stat", "falloc", "map"},
         pc = "open" => file = initial
  PROVE  file \in IF ops.noinit THEN {initial}
                  ELSE {initial, [exists |-> TRUE, size |-> initial.size],
                        Call!Grown(initial, numbytes)}
<1>1. CASE ops.noinit
  <2>1. file = initial
    BY <1>1 DEF OInv
  <2>2. QED  BY <1>1, <2>1
<1>2. CASE ~ops.noinit
  BY <1>2 DEF CInv
<1>3. QED  BY <1>1, <1>2

(* Each step of the call is a stutter of OpenMapCall, or its last step. *)
LEMMA RefStep == OInv /\ CInv /\ [Next]_vars => [Call!ANext]_Call!avars
<1> SUFFICES ASSUME OInv, CInv, [Next]_vars PROVE [Call!ANext]_Call!avars
  OBVIOUS
<1>1. ASSUME pc' = "exited", pc \in {"open", "stat", "falloc", "map"},
             UNCHANGED <<ops, numbytes, file, initial, region>>
      PROVE  Call!Exit
  <2>1. file \in IF ops.noinit THEN {initial}
                 ELSE {initial, [exists |-> TRUE, size |-> initial.size],
                       Call!Grown(initial, numbytes)}
    BY <1>1, ExitFile DEF OInv
  <2>2. QED  BY <1>1, <2>1 DEF Call!Exit
<1>2. ASSUME pc \in {"open", "stat", "falloc"}, pc' \in {"stat", "falloc", "map"},
             UNCHANGED <<ops, numbytes, initial, region>>
      PROVE  UNCHANGED Call!avars
  BY <1>2 DEF Call!avars
<1>3. CASE Open
  BY <1>1, <1>2, <1>3 DEF Open, Call!ANext
<1>4. CASE SizeCheck
  BY <1>1, <1>2, <1>4 DEF SizeCheck, Call!ANext
<1>5. CASE Fallocate
  <2> PICK r \in FallocResults :
        IF r = "error" \/ numbytes = 0
          THEN pc' = "exited" /\ UNCHANGED file
          ELSE pc' = "map"
    BY <1>5 DEF Fallocate
  <2>1. pc = "falloc" /\ UNCHANGED <<ops, numbytes, initial, region>>
    BY <1>5 DEF Fallocate
  <2>2. QED  BY <1>1, <1>2, <2>1 DEF Call!ANext
<1>6. CASE Map
  <2> PICK r \in MmapResults :
        IF r = "error"
          THEN pc' = "exited" /\ UNCHANGED region
          ELSE /\ region' = [kind |-> IF ops.usemmap THEN "file" ELSE "anonymous",
                             size |-> numbytes]
               /\ pc' = "returned"
    BY <1>6 DEF Map
  <2>0. pc = "map" /\ UNCHANGED <<ops, numbytes, file, initial>>
    BY <1>6 DEF Map
  <2>1. CASE r = "error"
    BY <1>1, <2>0, <2>1 DEF Call!ANext
  <2>2. CASE r # "error"
    <3>1. file = Call!Grown(initial, numbytes) /\ numbytes > 0
      BY <2>0 DEF CInv
    <3>2. ops.noinit => initial.exists /\ numbytes <= initial.size
      BY <2>0 DEF OInv
    <3>3. Call!Return
      BY <2>0, <2>2, <3>1, <3>2 DEF Call!Return
    <3>4. QED  BY <3>3 DEF Call!ANext
  <2>3. QED  BY <2>1, <2>2
<1>7. CASE Done \/ UNCHANGED vars
  BY <1>7 DEF Done, vars, Call!avars
<1>8. QED  BY <1>3, <1>4, <1>5, <1>6, <1>7 DEF Next, Call!ANext

(* umt_openandmap implements OpenMapCall (ImplementsCall): to its caller *)
(* the call is one step that returns a region of numbytes, with the file *)
(* grown to hold them and never shrunk, and with noinit left as it was;  *)
(* or that exits with the file as it was, created, or grown.  This holds *)
(* for every option and every outcome of open, fstat, posix_fallocate    *)
(* and mmap.                                                             *)
THEOREM ImplementsCallHolds == Spec => ImplementsCall
<1>1. Init => Call!AInit
  BY DEF Init, Call!AInit, Call!AFiles, Files, NoFile
<1>2. Spec => [](OInv /\ CInv)
  BY OInit, CInit, OStep, CStep, PTL DEF Spec
<1>3. QED  BY <1>1, <1>2, RefStep, PTL DEF Spec, ImplementsCall, Call!ASpec

=============================================================================
