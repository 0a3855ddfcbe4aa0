------------------------------- MODULE OpenMap -------------------------------
(***************************************************************************)
(* umt_openandmap, src/libumaptest/mmap.cpp: open the test file (creating  *)
(* it unless noinit), with noinit check that it already holds numbytes,    *)
(* pre-allocate numbytes with posix_fallocate, and map numbytes: shared on *)
(* the file when usemmap, else private anonymous memory.  Every failure    *)
(* prints and calls exit(-1).  Sizes are in pages.                         *)
(***************************************************************************)
EXTENDS Naturals

CONSTANTS
  Options,        \* testops: [iodirect, noinit, usemmap : BOOLEAN]
  Sizes,          \* numbytes a caller may ask for, and file sizes
  OpenResults,    \* "ok", or "error" for a failure other than a missing file
  FstatResults,   \* "ok" or "error"
  FallocResults,  \* "ok" or "error"
  MmapResults     \* "ok" or "error"

ASSUME OpenMapAssumption ==
  /\ Options \subseteq [iodirect : BOOLEAN, noinit : BOOLEAN, usemmap : BOOLEAN]
  /\ Sizes \subseteq Nat
  /\ {OpenResults, FstatResults, FallocResults, MmapResults} \subseteq SUBSET {"ok", "error"}

NoFile == [exists |-> FALSE, size |-> 0]

VARIABLES
  ops,        \* testops
  numbytes,   \* the size asked for
  file,       \* the test file: whether it exists, and its size
  initial,    \* history: the file as it was when the call began
  region,     \* the mapping made: none, anonymous or on the file, and its size
  pc          \* "open", "stat", "falloc", "map", "returned" or "exited"

vars == <<ops, numbytes, file, initial, region, pc>>

Files == {NoFile} \cup [exists : {TRUE}, size : Sizes]

Init ==
  /\ ops \in Options
  /\ numbytes \in Sizes
  /\ file \in Files
  /\ initial = file
  /\ region = [kind |-> "none", size |-> 0]
  /\ pc = "open"

(* A mutant: O_TRUNC added to the flags with O_CREAT, so that the file *)
(* of an earlier run is emptied.                                        *)
OpenTrunc ==
  /\ pc = "open"
  /\ \E r \in OpenResults :
       IF r = "error" \/ (ops.noinit /\ ~file.exists)
         THEN pc' = "exited" /\ UNCHANGED file
         ELSE /\ file' = [exists |-> TRUE,
                          size |-> IF ops.noinit THEN file.size ELSE 0]
              /\ pc' = IF ops.noinit THEN "stat" ELSE "falloc"
  /\ UNCHANGED <<ops, numbytes, initial, region>>

(* open(fn, O_RDWR [| O_DIRECT] [| O_CREAT] [| O_LARGEFILE]): without     *)
(* O_CREAT a missing file fails; with it a missing file is created empty. *)
Open ==
  /\ pc = "open"
  /\ \E r \in OpenResults :
       IF r = "error" \/ (ops.noinit /\ ~file.exists)
         THEN pc' = "exited" /\ UNCHANGED file
         ELSE /\ file' = [exists |-> TRUE, size |-> file.size]
              /\ pc' = IF ops.noinit THEN "stat" ELSE "falloc"
  /\ UNCHANGED <<ops, numbytes, initial, region>>

(* A mutant: the size check left out. *)
SizeCheckSkipped ==
  /\ pc = "stat"
  /\ \E r \in FstatResults : pc' = IF r = "error" THEN "exited" ELSE "falloc"
  /\ UNCHANGED <<ops, numbytes, file, initial, region>>

(* With noinit: fstat, and exit unless the file holds numbytes already. *)
SizeCheck ==
  /\ pc = "stat"
  /\ \E r \in FstatResults :
       pc' = IF r = "error" \/ file.size < numbytes THEN "exited" ELSE "falloc"
  /\ UNCHANGED <<ops, numbytes, file, initial, region>>

(* A mutant: the result of posix_fallocate ignored. *)
FallocateUnchecked ==
  /\ pc = "falloc"
  /\ \E r \in FallocResults :
       /\ file' = IF r = "ok" /\ file.size < numbytes
                    THEN [file EXCEPT !.size = numbytes] ELSE file
       /\ pc' = "map"
  /\ UNCHANGED <<ops, numbytes, initial, region>>

(* A mutant: the space allocated after the current end of the file. *)
FallocateAppend ==
  /\ pc = "falloc"
  /\ \E r \in FallocResults :
       IF r = "error" \/ numbytes = 0
         THEN pc' = "exited" /\ UNCHANGED file
         ELSE /\ file' = [file EXCEPT !.size = @ + numbytes]
              /\ pc' = "map"
  /\ UNCHANGED <<ops, numbytes, initial, region>>

(* posix_fallocate(fd, 0, numbytes): the file grows to numbytes if it is *)
(* shorter, and is never shrunk; a failure, or a length of 0 (EINVAL),   *)
(* exits.                                                                *)
Fallocate ==
  /\ pc = "falloc"
  /\ \E r \in FallocResults :
       IF r = "error" \/ numbytes = 0
         THEN pc' = "exited" /\ UNCHANGED file
         ELSE /\ file' = IF file.size < numbytes
                           THEN [file EXCEPT !.size = numbytes] ELSE file
              /\ pc' = "map"
  /\ UNCHANGED <<ops, numbytes, initial, region>>

(* mmap(NULL, numbytes, PROT_READ|PROT_WRITE, flags, my_fd, 0): private  *)
(* anonymous without usemmap, shared on the file with it.               *)
Map ==
  /\ pc = "map"
  /\ \E r \in MmapResults :
       IF r = "error"
         THEN pc' = "exited" /\ UNCHANGED region
         ELSE /\ region' = [kind |-> IF ops.usemmap THEN "file" ELSE "anonymous",
                            size |-> numbytes]
              /\ pc' = "returned"
  /\ UNCHANGED <<ops, numbytes, file, initial>>

Done ==
  /\ pc \in {"returned", "exited"}
  /\ UNCHANGED vars

Next == Open \/ SizeCheck \/ Fallocate \/ Map \/ Done

Spec == Init /\ [][Next]_vars

-----------------------------------------------------------------------------
TypeOK ==
  /\ ops \in Options
  /\ file \in Files \cup [exists : {TRUE}, size : {0}]
  /\ region \in [kind : {"none", "anonymous", "file"}, size : Sizes \cup {0}]
  /\ pc \in {"open", "stat", "falloc", "map", "returned", "exited"}

(* A region mapped on the file lies within it: touching a page of a      *)
(* shared mapping beyond the end of the file raises SIGBUS in the test  *)
(* that uses the region.                                                *)
MappedWithinFile ==
  pc = "returned" /\ region.kind = "file" => region.size <= file.size

(* noinit means the caller's file is used as it is: a call that returns *)
(* has not changed its size, whatever it asked for.                     *)
NoinitKeepsFile ==
  pc = "returned" /\ ops.noinit => file = initial


(* umt_openandmap implements OpenMapCall: to its caller the call is one  *)
(* step that returns a region of numbytes with the file grown to hold    *)
(* them and never shrunk (with noinit, left as it was), or exits with    *)
(* the file as it was, created or grown.  Until the call ends the caller *)
(* sees the file it passed.                                              *)
Call == INSTANCE OpenMapCall WITH
  afile <- IF pc \in {"returned", "exited"} THEN file ELSE initial,
  aregion <- region,
  ast <- IF pc \in {"returned", "exited"} THEN pc ELSE "calling"

ImplementsCall == Call!ASpec

=============================================================================
