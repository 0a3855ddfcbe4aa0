------------------------------ MODULE NvmeBench ------------------------------
(***************************************************************************)
(* The NVMe page benchmark, src/pfbenchmark/nvmebenchmark.cpp.             *)
(*                                                                         *)
(* The program runs as one of two commands chosen by argv[0].  As          *)
(* "nvmebenchmark-write" it recreates the file, pre-allocates numpages     *)
(* pages and writes, in an "omp parallel for", each page i tagged in its   *)
(* first word with i * pagesize / 8.  As "nvmebenchmark-read" it reads     *)
(* every page back with pread and exits 1 at the first page whose first   *)
(* word is not its tag.  Each thread uses its own page buffer, allocated   *)
(* by posix_memalign and never initialised.  Any other argv[0] does        *)
(* nothing and returns 0.                                                  *)
(*                                                                         *)
(* Runs are processes started one after the other on the same file, which *)
(* outlives them.  A page's content is the first word of it, the only one  *)
(* the benchmark looks at.  pread at or past the end of the file returns 0 *)
(* and leaves the buffer as it was.                                        *)
(***************************************************************************)
EXTENDS Naturals

CONSTANTS
  NumThreads,     \* options.numthreads
  PageSize,       \* umt_getpagesize(), in bytes
  PageCounts,     \* values of options.numpages a run may be given
  Names,          \* argv[0] values a run may be started with
  Garbage,        \* values an uninitialised page buffer may start with
  MemalignResults, \* outcomes of posix_memalign: "ok" or "fail"
  UnlinkResults,  \* outcomes of unlink: "ok" or "fail" (the file stays)
  OpenResults,    \* outcomes of write_pages' open: "ok" or "fail"
  FallocResults,  \* outcomes of posix_fallocate: "ok" or "fail"
  PwriteResults,  \* outcomes of one pwrite: "ok" or "error"
  PreadResults,   \* outcomes of one pread: "ok" or "error"
  MaxRuns         \* processes started, a bound of the model

ASSUME NvmeAssumption ==
  /\ NumThreads \in Nat \ {0}
  /\ PageSize \in Nat \ {0} /\ PageSize % 8 = 0
  /\ PageCounts \subseteq Nat /\ Garbage \subseteq Nat
  /\ MemalignResults \subseteq {"ok", "fail"}
  /\ UnlinkResults \subseteq {"ok", "fail"}
  /\ OpenResults \subseteq {"ok", "fail"}
  /\ FallocResults \subseteq {"ok", "fail"}
  /\ PwriteResults \subseteq {"ok", "error"}
  /\ PreadResults \subseteq {"ok", "error"}
  /\ MaxRuns \in Nat

Threads == 0 .. NumThreads - 1
DiskPages == UNION {0 .. n - 1 : n \in PageCounts}

VARIABLES
  file,      \* the file: exists, size in pages, first word of each page
  written,   \* history: pages some pwrite stored since the file was created
  runs,      \* processes started so far
  name,      \* argv[0] of the current process
  numpages,  \* options.numpages of the current process
  status,    \* the current process's control point, or how it ended
  buf,       \* tmppagebuf: the first word of each thread's buffer
  iter,      \* each thread's next page in its block of the "parallel for"
  tpc        \* each thread's control point in the loop body

vars == <<file, written, runs, name, numpages, status, buf, iter, tpc>>

(* How a process ended: returned 0, exited 1 on a failed call, exited 1 *)
(* on a page that does not hold its tag, or killed by SIGFPE.           *)
Ended == {"idle", "exit0", "exit1", "mismatch", "sigfpe"}

(* No file, and the file open(O_CREAT) makes: empty, reading as zeros. *)
NoFile == [exists |-> FALSE, size |-> 0, data |-> [i \in DiskPages |-> 0]]
NewFile == [exists |-> TRUE, size |-> 0, data |-> [i \in DiskPages |-> 0]]

-----------------------------------------------------------------------------
(* The command main() dispatches on: strcmp of argv[0] with a bare name. *)
Mode ==
  IF name = "nvmebenchmark-write" THEN "write"
  ELSE IF name = "nvmebenchmark-read" THEN "read"
  ELSE "none"

(* The tag of page i: i * pagesize / sizeof(uint64_t). *)
Tag(i) == (i * PageSize) \div 8

(* A mutant: the expected value compared in bytes, not in words. *)
ExpectedBytes(i) == i * PageSize

(* The value do_read_pages compares page i's first word with. *)
Expected(i) == (i * PageSize) \div 8

(* A mutant: every thread using the first thread's buffer. *)
BufferShared(t) == 0

(* tmppagebuf[omp_get_thread_num()]. *)
BufferOf(t) == t

(* The static split of numpages iterations among the threads: thread t *)
(* takes pages Lo(t) .. Hi(t) - 1.                                      *)
Lo(t) ==
  IF t < numpages % NumThreads THEN (numpages \div NumThreads + 1) * t
  ELSE (numpages \div NumThreads) * t + (numpages % NumThreads)
(* A mutant: every block rounded up to the largest share. *)
HiCeil(t) == Lo(t) + (numpages + NumThreads - 1) \div NumThreads

Hi(t) ==
  Lo(t) + IF t < numpages % NumThreads THEN numpages \div NumThreads + 1
                                       ELSE numpages \div NumThreads

Init ==
  /\ file = NoFile
  /\ written = {}
  /\ runs = 0
  /\ name \in Names
  /\ numpages \in PageCounts
  /\ status = "idle"
  /\ buf \in [Threads -> Garbage]
  /\ iter = [t \in Threads |-> 0]
  /\ tpc = [t \in Threads |-> "done"]

(* A new process: options parsed, one page buffer per thread allocated *)
(* with posix_memalign (its content undefined); a failed allocation    *)
(* exits 1.                                                            *)
StartRun ==
  /\ status \in Ended
  /\ runs < MaxRuns
  /\ runs' = runs + 1
  /\ name' \in Names
  /\ numpages' \in PageCounts
  /\ buf' \in [Threads -> Garbage]
  /\ \E r \in MemalignResults : status' = IF r = "ok" THEN "dispatch" ELSE "exit1"
  /\ UNCHANGED <<file, written, iter, tpc>>

(* The threads enter the "omp parallel for" over the pages. *)
EnterLoop ==
  /\ iter' = [t \in Threads |-> Lo(t)]
  /\ tpc' = [t \in Threads |-> "next"]
  /\ status' = "parallel"

(* The file after unlink: gone, or as it was when unlink fails.  Its    *)
(* result is not looked at.                                             *)
Unlinked(u) == IF u = "ok" THEN NoFile ELSE file

(* The file open(O_CREAT) returns: the one there, or a new one. *)
Opened(f) == IF f.exists THEN f ELSE NewFile

(* posix_fallocate(fd, 0, numpages * pagesize): the file at least       *)
(* numpages pages long, the added pages zero.                           *)
Fallocated(f) == [f EXCEPT !.size = IF @ < numpages THEN numpages ELSE @]

(* write_pages: unlink the file, open it with O_CREAT, pre-allocate     *)
(* numpages pages, and enter the loop.  A failed open or pre-allocation *)
(* exits 1 with the file as the calls before it left it; a length of 0  *)
(* is EINVAL.  `written' restarts with the file unlink removed.         *)
OpenWrite ==
  /\ status = "dispatch"
  /\ Mode = "write"
  /\ \E u \in UnlinkResults, o \in OpenResults, r \in FallocResults :
       LET f == Unlinked(u) IN
       /\ written' = IF f.exists THEN written ELSE {}
       /\ \/ /\ o = "fail"
             /\ file' = f
             /\ status' = "exit1" /\ UNCHANGED <<iter, tpc>>
          \/ /\ o = "ok" /\ (r = "fail" \/ numpages = 0)
             /\ file' = Opened(f)
             /\ status' = "exit1" /\ UNCHANGED <<iter, tpc>>
          \/ /\ o = "ok" /\ r = "ok" /\ numpages > 0
             /\ file' = Fallocated(Opened(f))
             /\ EnterLoop
  /\ UNCHANGED <<runs, name, numpages, buf>>

(* A mutant: read_pages opening the file as write_pages does, unlink *)
(* and O_CREAT, so that it reads back a new, empty file.             *)
OpenReadUnlink ==
  /\ status = "dispatch"
  /\ Mode = "read"
  /\ file' = NewFile
  /\ EnterLoop
  /\ UNCHANGED <<written, runs, name, numpages, buf>>

(* read_pages: open without O_CREAT; a missing file exits 1. *)
OpenRead ==
  /\ status = "dispatch"
  /\ Mode = "read"
  /\ IF file.exists THEN EnterLoop ELSE status' = "exit1" /\ UNCHANGED <<iter, tpc>>
  /\ UNCHANGED <<file, written, runs, name, numpages, buf>>

(* Any other argv[0]: main returns rval = 0. *)
NoCommand ==
  /\ status = "dispatch"
  /\ Mode = "none"
  /\ status' = "exit0"
  /\ UNCHANGED <<file, written, runs, name, numpages, buf, iter, tpc>>

(* do_write_pages: the tag stored in the thread's buffer. *)
TagPage(t) ==
  /\ status = "parallel" /\ Mode = "write"
  /\ tpc[t] = "next" /\ iter[t] < Hi(t)
  /\ buf' = [buf EXCEPT ![BufferOf(t)] = Tag(iter[t])]
  /\ tpc' = [tpc EXCEPT ![t] = "io"]
  /\ UNCHANGED <<file, written, runs, name, numpages, status, iter>>

(* do_write_pages: pwrite of the buffer at page i; an error exits 1. *)
WritePage(t) ==
  /\ status = "parallel" /\ Mode = "write"
  /\ tpc[t] = "io"
  /\ \E r \in PwriteResults :
       IF r = "ok"
         THEN /\ file' = [file EXCEPT !.data[iter[t]] = buf[BufferOf(t)]]
              /\ written' = written \cup {iter[t]}
              /\ iter' = [iter EXCEPT ![t] = @ + 1]
              /\ tpc' = [tpc EXCEPT ![t] = "next"]
              /\ UNCHANGED status
         ELSE /\ status' = "exit1"
              /\ UNCHANGED <<file, written, iter, tpc>>
  /\ UNCHANGED <<runs, name, numpages, buf>>

(* do_read_pages: pread of page i into the thread's buffer; a negative *)
(* result exits 1, and at the end of the file it returns 0 with the     *)
(* buffer unchanged.                                                    *)
ReadPage(t) ==
  /\ status = "parallel" /\ Mode = "read"
  /\ tpc[t] = "next" /\ iter[t] < Hi(t)
  /\ \E r \in PreadResults :
       \/ /\ r = "ok"
          /\ buf' = IF iter[t] < file.size
                      THEN [buf EXCEPT ![BufferOf(t)] = file.data[iter[t]]]
                      ELSE buf
          /\ tpc' = [tpc EXCEPT ![t] = "check"]
          /\ UNCHANGED status
       \/ /\ r = "error"
          /\ status' = "exit1"
          /\ UNCHANGED <<buf, tpc>>
  /\ UNCHANGED <<file, written, runs, name, numpages, iter>>

(* do_read_pages: the first word compared with the tag; a mismatch     *)
(* exits 1.                                                            *)
CheckPage(t) ==
  /\ status = "parallel" /\ Mode = "read"
  /\ tpc[t] = "check"
  /\ IF buf[BufferOf(t)] # Expected(iter[t])
       THEN status' = "mismatch" /\ UNCHANGED <<iter, tpc>>
       ELSE /\ iter' = [iter EXCEPT ![t] = @ + 1]
            /\ tpc' = [tpc EXCEPT ![t] = "next"]
            /\ UNCHANGED status
  /\ UNCHANGED <<file, written, runs, name, numpages, buf>>

(* A thread past its block waits at the loop's barrier. *)
ThreadDone(t) ==
  /\ status = "parallel"
  /\ tpc[t] = "next" /\ iter[t] >= Hi(t)
  /\ tpc' = [tpc EXCEPT ![t] = "done"]
  /\ UNCHANGED <<file, written, runs, name, numpages, status, buf, iter>>

(* After the loop: the time per page, an integer division by numpages  *)
(* (SIGFPE when it is 0), close and return 0.                          *)
Report ==
  /\ status = "parallel"
  /\ \A t \in Threads : tpc[t] = "done"
  /\ status' = IF numpages = 0 THEN "sigfpe" ELSE "exit0"
  /\ UNCHANGED <<file, written, runs, name, numpages, buf, iter, tpc>>

Thread(t) ==
  TagPage(t) \/ WritePage(t) \/ ReadPage(t) \/ CheckPage(t) \/ ThreadDone(t)

(* No more processes are started. *)
AllRunsDone ==
  /\ status \in Ended /\ runs = MaxRuns
  /\ UNCHANGED vars

Next ==
  \/ StartRun \/ OpenWrite \/ OpenRead \/ NoCommand
  \/ (\E t \in Threads : Thread(t))
  \/ Report \/ AllRunsDone

Spec == Init /\ [][Next]_vars

-----------------------------------------------------------------------------
TypeOK ==
  /\ file \in [exists : BOOLEAN, size : Nat, data : [DiskPages -> Nat]]
  /\ written \subseteq DiskPages
  /\ runs \in 0 .. MaxRuns
  /\ status \in Ended \cup {"dispatch", "parallel"}
  /\ buf \in [Threads -> Nat]
  /\ iter \in [Threads -> Nat]
  /\ tpc \in [Threads -> {"next", "io", "check", "done"}]

(* The file holds the first n pages as a write pass leaves them. *)
Good(n) ==
  /\ file.exists /\ n <= file.size
  /\ \A i \in 0 .. n - 1 : file.data[i] = Tag(i)

(* A write run that returns 0 has stored every page with its own tag:   *)
(* the threads, writing concurrently, never store one page's tag in     *)
(* another page.                                                        *)
WriteStoresTags == status = "exit0" /\ Mode = "write" => Good(numpages)

(* A read run fails only on a file that is not as a write pass of at    *)
(* least as many pages left it: concurrent readers raise no false alarm. *)
NoFalseAlarm == status = "mismatch" => ~Good(numpages)

(* What the read benchmark's verification is for: a run started as the *)
(* reader that returns 0 has found every page of the file written by a *)
(* write pass, with its tag.                                            *)
ReadSuccessMeansVerified ==
  status = "exit0" /\ name \in {"nvmebenchmark-read", "./nvmebenchmark-read"} =>
    /\ numpages <= file.size
    /\ \A i \in 0 .. numpages - 1 : i \in written /\ file.data[i] = Tag(i)


(* The benchmark implements PageFile: the writer recreates the file     *)
(* blank and stores every page only with its own tag, returning only    *)
(* with all of them tagged; the reader never changes the file and       *)
(* reports a mismatch only on a file lacking a tag; each failed call    *)
(* leaves the file as it is.  A dispatched or looping process is busy.  *)
File == INSTANCE PageFile WITH
  Pages <- DiskPages,
  TagOf <- [i \in DiskPages |-> Tag(i)],
  afile <- file,
  anum <- numpages,
  amode <- Mode,
  ast <- IF status \in {"dispatch", "parallel"} THEN "busy" ELSE status

ImplementsPageFile == File!ASpec

=============================================================================
