------------------------------ MODULE PageFile ------------------------------
(***************************************************************************)
(* What the NVMe page benchmark (src/pfbenchmark/nvmebenchmark.cpp)        *)
(* does to its file and how its processes end, with the threads, the page  *)
(* buffers and the loop's schedule left out.  A process is started with a  *)
(* page count and a command.  The writer removes the file and creates it  *)
(* anew (or, when the removal fails, opens the old one), grows it to that  *)
(* many pages, zero-filled, and stores pages with their own tags, in any   *)
(* order; it returns only with every page tagged, and it may exit 1 with   *)
(* the file removed, empty, or as it was.  The reader never changes the    *)
(* file, and reports a mismatch only on a file that lacks some tag.  Any   *)
(* process may exit 1 at any other point, leaving the file as it is.       *)
(***************************************************************************)
EXTENDS Naturals

CONSTANTS
  Pages,       \* the pages the file may hold
  PageCounts,  \* page counts a process may be given
  TagOf        \* TagOf[i]: the tag of page i

VARIABLES
  afile,   \* the file: exists, size in pages, tag word of each page
  anum,    \* the page count of the current process
  amode,   \* its command: "write", "read" or "none"
  ast      \* "busy", or how the last process ended

avars == <<afile, anum, amode, ast>>

Modes == {"write", "read", "none"}
AEnded == {"idle", "exit0", "exit1", "mismatch", "sigfpe"}
Blank == [i \in Pages |-> 0]
ANoFile == [exists |-> FALSE, size |-> 0, data |-> Blank]
ANewFile == [exists |-> TRUE, size |-> 0, data |-> Blank]

(* The first n pages hold their tags. *)
AGood(n) ==
  /\ afile.exists /\ n <= afile.size
  /\ \A i \in 0 .. n - 1 : afile.data[i] = TagOf[i]

AInit ==
  /\ afile = ANoFile
  /\ anum \in PageCounts
  /\ amode \in Modes
  /\ ast = "idle"

(* A process starts, or fails to allocate its buffers. *)
AStart ==
  /\ ast \in AEnded
  /\ anum' \in PageCounts
  /\ amode' \in Modes
  /\ ast' \in {"busy", "exit1"}
  /\ UNCHANGED afile

(* The writer removes the file, or fails to and keeps it, and opens it,   *)
(* creating it empty when it is gone; then it grows the file to its pages. *)
(* When the open or the growth fails it exits 1 with the file as it is by  *)
(* then; a page count of 0 cannot be grown to.                              *)
Create ==
  /\ ast = "busy" /\ amode = "write"
  /\ \E f \in {ANoFile, afile} :
       LET g == IF f.exists THEN f ELSE ANewFile IN
       \/ afile' = f /\ ast' = "exit1"
       \/ afile' = g /\ ast' = "exit1"
       \/ /\ anum > 0
          /\ afile' = [g EXCEPT !.size = IF @ < anum THEN anum ELSE @]
          /\ ast' = "busy"
  /\ UNCHANGED <<anum, amode>>

(* The writer stores page i with its tag. *)
Store(i) ==
  /\ ast = "busy" /\ amode = "write"
  /\ i < afile.size
  /\ afile' = [afile EXCEPT !.data[i] = TagOf[i]]
  /\ UNCHANGED <<anum, amode, ast>>

(* The process returns: a writer only with every page tagged; the     *)
(* division by a page count of 0 kills it instead.                    *)
Finish ==
  /\ ast = "busy" /\ amode # "none"
  /\ amode = "write" => AGood(anum)
  /\ ast' = IF anum = 0 THEN "sigfpe" ELSE "exit0"
  /\ UNCHANGED <<afile, anum, amode>>

(* A process with no command returns at once. *)
Return ==
  /\ ast = "busy" /\ amode = "none"
  /\ ast' = "exit0"
  /\ UNCHANGED <<afile, anum, amode>>

(* The reader stops on a file that lacks some tag. *)
Mismatch ==
  /\ ast = "busy" /\ amode = "read"
  /\ ~AGood(anum)
  /\ ast' = "mismatch"
  /\ UNCHANGED <<afile, anum, amode>>

(* A failed call: the process exits 1, the file as it is. *)
Fail ==
  /\ ast = "busy"
  /\ ast' = "exit1"
  /\ UNCHANGED <<afile, anum, amode>>

ANext ==
  \/ AStart \/ Create \/ (\E i \in 0 .. anum - 1 : Store(i))
  \/ Finish \/ Return \/ Mismatch \/ Fail

ASpec == AInit /\ [][ANext]_avars

=============================================================================
