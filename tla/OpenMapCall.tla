----------------------------- MODULE OpenMapCall -----------------------------
(***************************************************************************)
(* What umt_openandmap (src/libumaptest/mmap.cpp) promises its caller,     *)
(* as one atomic call: it returns a region of numbytes, anonymous or on    *)
(* the file as usemmap says, with the file grown to hold numbytes and      *)
(* never shrunk (with noinit, only when the file already holds them, and   *)
(* left as it was); or it exits, the file as it was, created, or grown.   *)
(***************************************************************************)
EXTENDS Naturals

CONSTANTS
  Options,   \* testops: [iodirect, noinit, usemmap : BOOLEAN]
  Sizes      \* numbytes a caller may ask for, and file sizes

VARIABLES
  ops,       \* testops
  numbytes,  \* the size asked for
  afile,     \* the test file as the caller sees it
  aregion,   \* the region returned
  ast        \* "calling", "returned" or "exited"

avars == <<ops, numbytes, afile, aregion, ast>>

AFiles == {[exists |-> FALSE, size |-> 0]} \cup [exists : {TRUE}, size : Sizes]

(* The file f after posix_fallocate(fd, 0, n): at least n long. *)
Grown(f, n) == [exists |-> TRUE, size |-> IF f.size < n THEN n ELSE f.size]

AInit ==
  /\ ops \in Options
  /\ numbytes \in Sizes
  /\ afile \in AFiles
  /\ aregion = [kind |-> "none", size |-> 0]
  /\ ast = "calling"

(* The call returns its region. *)
Return ==
  /\ ast = "calling"
  /\ numbytes > 0
  /\ ops.noinit => afile.exists /\ numbytes <= afile.size
  /\ afile' = Grown(afile, numbytes)
  /\ aregion' = [kind |-> IF ops.usemmap THEN "file" ELSE "anonymous",
                 size |-> numbytes]
  /\ ast' = "returned"
  /\ UNCHANGED <<ops, numbytes>>

(* The call exits the process; without noinit the file may have been   *)
(* created, or grown, first.                                            *)
Exit ==
  /\ ast = "calling"
  /\ afile' \in IF ops.noinit THEN {afile}
                ELSE {afile, [exists |-> TRUE, size |-> afile.size],
                      Grown(afile, numbytes)}
  /\ ast' = "exited"
  /\ UNCHANGED <<ops, numbytes, aregion>>

ANext == Return \/ Exit

ASpec == AInit /\ [][ANext]_avars

=============================================================================
