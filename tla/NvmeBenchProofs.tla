--------------------------- MODULE NvmeBenchProofs ---------------------------
(***************************************************************************)
(* Proofs about the NVMe page benchmark (NvmeBench): that a write run     *)
(* which returns 0 has left every page holding its own tag, and that a    *)
(* read run reports a mismatch only on a file that is not as a write run  *)
(* leaves it.  Both rest on the inductive invariant NInv, which follows    *)
(* each thread through its block of the static split (StaticSplit).  On   *)
(* NInv rests, too, the proof that the benchmark implements PageFile.     *)
(***************************************************************************)
EXTENDS NvmeBench, StaticSplit, TLAPS

USE NvmeAssumption

(* Inside the parallel loop every thread stays within its block; a       *)
(* thread between two calls for page iter[t] has not run past it, and a  *)
(* thread at the barrier has done its whole block.                       *)
InBlocks ==
  \A t \in Threads :
    /\ Lo(t) <= iter[t] /\ iter[t] <= Hi(t)
    /\ tpc[t] \in {"io", "check"} => iter[t] < Hi(t)
    /\ tpc[t] = "done" => iter[t] = Hi(t)

(* Inside a write loop the file holds at least numpages pages (more when *)
(* the unlink failed and the old file was longer); a thread about to     *)
(* pwrite holds its page's tag in its buffer, and the pages of its block  *)
(* before iter[t] hold their tags.                                        *)
WriteLoop ==
  /\ file.exists /\ numpages <= file.size
  /\ \A t \in Threads :
       /\ tpc[t] # "check"
       /\ tpc[t] = "io" => buf[BufferOf(t)] = Tag(iter[t])
       /\ \A i \in Lo(t) .. iter[t] - 1 : file.data[i] = Tag(i)

(* Inside a read loop a thread about to compare holds in its buffer the  *)
(* page pread returned, unless the page lies past the end of the file.   *)
ReadLoop ==
  \A t \in Threads :
    /\ tpc[t] # "io"
    /\ tpc[t] = "check" /\ iter[t] < file.size =>
         buf[BufferOf(t)] = file.data[iter[t]]

NInv ==
  /\ TypeOK
  /\ name \in Names /\ numpages \in PageCounts
  /\ status = "parallel" => InBlocks /\ Mode \in {"write", "read"}
  /\ status = "parallel" /\ Mode = "write" => WriteLoop
  /\ status = "parallel" /\ Mode = "read" => ReadLoop
  /\ WriteStoresTags
  /\ NoFalseAlarm
-----------------------------------------------------------------------------
(* NvmeBench's Lo and Hi are the static split of numpages. *)
LEMMA LoHiSplit ==
  ASSUME NEW t
  PROVE  /\ Lo(t) = SplitLo(numpages, NumThreads, t)
         /\ Hi(t) = SplitHi(numpages, NumThreads, t)
BY DEF Lo, Hi, SplitLo, SplitHi

(* Every block lies within the pages of the run. *)
LEMMA Block ==
  ASSUME numpages \in Nat, NEW t \in Threads
  PROVE  /\ Lo(t) \in Nat /\ Hi(t) \in Nat
         /\ Lo(t) <= Hi(t) /\ Hi(t) <= numpages
BY SplitBounds, LoHiSplit DEF Threads

(* A page of a thread's block is a page of the disk. *)
LEMMA BlockPage ==
  ASSUME numpages \in PageCounts, NEW t \in Threads, NEW i \in Lo(t) .. Hi(t) - 1
  PROVE  i \in DiskPages /\ i \in 0 .. numpages - 1 /\ i \in Nat
<1>1. numpages \in Nat
  OBVIOUS
<1>2. Lo(t) \in Nat /\ Hi(t) \in Nat /\ Hi(t) <= numpages
  BY <1>1, Block
<1>3. i \in 0 .. numpages - 1
  BY <1>2
<1>4. 0 .. numpages - 1 \in {0 .. n - 1 : n \in PageCounts}
  OBVIOUS
<1>5. i \in DiskPages
  BY <1>3, <1>4, Zenon DEF DiskPages
<1>6. QED  BY <1>3, <1>5

(* A step that leaves the process's loop, or never enters it, keeps the *)
(* invariant as long as it keeps the types.                            *)
LEMMA OutsideLoop ==
  ASSUME TypeOK', name' \in Names, numpages' \in PageCounts,
         status' \notin {"parallel", "exit0", "mismatch"}
  PROVE  NInv'
BY DEF NInv, WriteStoresTags, NoFalseAlarm

(* Two threads never work on the same page. *)
LEMMA BlockDisjoint ==
  ASSUME numpages \in Nat, NEW t \in Threads, NEW u \in Threads, t # u,
         NEW i \in Nat, Lo(t) <= i, i < Hi(t), Lo(u) <= i, i < Hi(u)
  PROVE  FALSE
BY SplitDisjoint, LoHiSplit DEF Threads

(* Every page of the run lies in some thread's block. *)
LEMMA BlockCover ==
  ASSUME numpages \in Nat, NEW i \in 0 .. numpages - 1
  PROVE  \E t \in Threads : Lo(t) <= i /\ i < Hi(t)
<1>1. NumThreads \in Nat \ {0}
  BY NvmeAssumption
<1>2. \E t \in 0 .. NumThreads - 1 :
        SplitLo(numpages, NumThreads, t) <= i /\ i < SplitHi(numpages, NumThreads, t)
  BY <1>1, SplitCover
<1>3. QED  BY <1>2, LoHiSplit DEF Threads

(* A buffer's garbage is a word. *)
LEMMA GarbageNat ==
  ASSUME NEW f \in [Threads -> Garbage]
  PROVE  f \in [Threads -> Nat]
BY Zenon

(* A tag is a word. *)
LEMMA TagNat ==
  ASSUME NEW i \in Nat
  PROVE  Tag(i) \in Nat /\ Expected(i) = Tag(i)
BY DEF Tag, Expected

(* The first process starts in the invariant: nothing is running. *)
LEMMA NInit == Init => NInv
<1> SUFFICES ASSUME Init PROVE NInv
  OBVIOUS
<1>1. TypeOK
  <2>1. file \in [exists : BOOLEAN, size : Nat, data : [DiskPages -> Nat]]
    BY DEF Init, NoFile
  <2>2. buf \in [Threads -> Nat]
    BY GarbageNat DEF Init
  <2>3. runs \in 0 .. MaxRuns /\ written \subseteq DiskPages
    BY DEF Init
  <2>4. status \in Ended \cup {"dispatch", "parallel"}
    BY DEF Init, Ended
  <2>5. iter \in [Threads -> Nat] /\ tpc \in [Threads -> {"next", "io", "check", "done"}]
    BY DEF Init
  <2>6. QED  BY <2>1, <2>2, <2>3, <2>4, <2>5 DEF TypeOK
<1>2. status = "idle"
  BY DEF Init
<1>3. QED  BY <1>1, <1>2 DEF Init, NInv, WriteStoresTags, NoFalseAlarm

(* A step that keeps numpages keeps every block. *)
LEMMA BlocksKept ==
  ASSUME numpages' = numpages, NEW t
  PROVE  Lo(t)' = Lo(t) /\ Hi(t)' = Hi(t)
BY DEF Lo, Hi

(* A new process has not entered a loop yet. *)
LEMMA StartRunStep == NInv /\ StartRun => NInv'
<1> SUFFICES ASSUME NInv, StartRun PROVE NInv'
  OBVIOUS
<1>1. status' \in {"dispatch", "exit1"} /\ name' \in Names /\ numpages' \in PageCounts
  BY DEF StartRun
<1>2. TypeOK'
  <2>1. runs' \in 0 .. MaxRuns
    BY DEF StartRun, NInv, TypeOK
  <2>2. buf' \in [Threads -> Nat]
    BY GarbageNat DEF StartRun
  <2>3. QED  BY <1>1, <2>1, <2>2 DEF StartRun, NInv, TypeOK, Ended
<1>3. QED  BY <1>1, <1>2, OutsideLoop

(* The files write_pages may leave: every one is a file. *)
FileType == [exists : BOOLEAN, size : Nat, data : [DiskPages -> Nat]]

(* unlink, open and posix_fallocate each leave a file of the type. *)
LEMMA WriteFiles ==
  ASSUME file \in FileType, numpages \in Nat, NEW u
  PROVE  /\ Unlinked(u) \in FileType
         /\ Opened(Unlinked(u)) \in FileType
         /\ Fallocated(Opened(Unlinked(u))) \in FileType
         /\ Fallocated(Opened(Unlinked(u))).exists
         /\ numpages <= Fallocated(Opened(Unlinked(u))).size
<1>1. NoFile \in FileType /\ NewFile \in FileType
  BY DEF NoFile, NewFile, FileType
<1>2. Unlinked(u) \in FileType
  BY <1>1 DEF Unlinked
<1>3. Opened(Unlinked(u)) \in FileType /\ Opened(Unlinked(u)).exists
  BY <1>1, <1>2 DEF Opened, NewFile, NoFile
<1>4. QED  BY <1>2, <1>3 DEF Fallocated, FileType

(* write_pages enters its loop on a file of at least numpages pages,     *)
(* every thread at the start of its block, or exits 1 before it.         *)
LEMMA OpenWriteStep == NInv /\ OpenWrite => NInv'
<1> SUFFICES ASSUME NInv, OpenWrite PROVE NInv'
  OBVIOUS
<1>0. /\ name' = name /\ numpages' = numpages /\ Mode' = Mode /\ Mode = "write"
      /\ name \in Names /\ numpages \in PageCounts /\ numpages \in Nat
      /\ TypeOK /\ file \in FileType
  BY DEF OpenWrite, NInv, Mode, TypeOK, FileType
<1> PICK u \in UnlinkResults, o \in OpenResults, r \in FallocResults :
       /\ written' = IF Unlinked(u).exists THEN written ELSE {}
       /\ \/ /\ o = "fail"
             /\ file' = Unlinked(u)
             /\ status' = "exit1" /\ UNCHANGED <<iter, tpc>>
          \/ /\ o = "ok" /\ (r = "fail" \/ numpages = 0)
             /\ file' = Opened(Unlinked(u))
             /\ status' = "exit1" /\ UNCHANGED <<iter, tpc>>
          \/ /\ o = "ok" /\ r = "ok" /\ numpages > 0
             /\ file' = Fallocated(Opened(Unlinked(u)))
             /\ EnterLoop
  BY DEF OpenWrite
<1>1. /\ written' \subseteq DiskPages
      /\ UNCHANGED <<runs, buf>>
  BY <1>0 DEF OpenWrite, TypeOK
<1>2. CASE file' = Fallocated(Opened(Unlinked(u))) /\ EnterLoop
  <2>1. /\ iter' = [t \in Threads |-> Lo(t)]
        /\ tpc' = [t \in Threads |-> "next"]
        /\ status' = "parallel"
    BY <1>2 DEF EnterLoop
  <2>2. \A t \in Threads : Lo(t) \in Nat /\ Lo(t) <= Hi(t)
        /\ Lo(t)' = Lo(t) /\ Hi(t)' = Hi(t)
    BY <1>0, Block, BlocksKept
  <2>3. file' \in FileType /\ file'.exists /\ numpages <= file'.size
    BY <1>0, <1>2, WriteFiles
  <2>4. TypeOK'
    <3>1. iter' \in [Threads -> Nat]
      BY <2>1, <2>2
    <3>2. QED  BY <1>0, <1>1, <2>1, <2>3, <3>1 DEF TypeOK, Ended, FileType
  <2>5. InBlocks'
    BY <2>1, <2>2 DEF InBlocks
  <2>6. WriteLoop'
    <3>1. \A t \in Threads : tpc'[t] = "next" /\ iter'[t] = Lo(t)
      BY <2>1
    <3>2. \A t \in Threads : \A i \in Lo(t) .. Lo(t) - 1 : FALSE
      BY <2>2
    <3>3. QED  BY <1>0, <2>1, <2>2, <2>3, <3>1, <3>2 DEF WriteLoop
  <2>7. QED  BY <1>0, <2>1, <2>4, <2>5, <2>6 DEF NInv, WriteStoresTags, NoFalseAlarm
<1>3. CASE status' = "exit1" /\ UNCHANGED <<iter, tpc>>
          /\ file' \in {Unlinked(u), Opened(Unlinked(u))}
  <2>1. file' \in FileType
    BY <1>0, <1>3, WriteFiles
  <2>2. TypeOK'
    BY <1>0, <1>1, <1>3, <2>1 DEF TypeOK, Ended, FileType
  <2>3. QED  BY <1>0, <1>3, <2>2, OutsideLoop
<1>4. QED  BY <1>2, <1>3

(* read_pages enters its loop, every thread at the start of its block. *)
LEMMA OpenReadStep == NInv /\ OpenRead => NInv'
<1> SUFFICES ASSUME NInv, OpenRead PROVE NInv'
  OBVIOUS
<1>0. /\ name' = name /\ numpages' = numpages /\ Mode' = Mode /\ Mode = "read"
      /\ name \in Names /\ numpages \in PageCounts /\ numpages \in Nat
      /\ UNCHANGED <<file, written, runs, buf>> /\ TypeOK
  BY DEF OpenRead, NInv, Mode
<1>1. CASE file.exists
  <2>1. /\ iter' = [t \in Threads |-> Lo(t)]
        /\ tpc' = [t \in Threads |-> "next"]
        /\ status' = "parallel"
    BY <1>1 DEF OpenRead, EnterLoop
  <2>2. \A t \in Threads : Lo(t) \in Nat /\ Lo(t) <= Hi(t)
        /\ Lo(t)' = Lo(t) /\ Hi(t)' = Hi(t)
    BY <1>0, Block, BlocksKept
  <2>3. TypeOK'
    BY <1>0, <2>1, <2>2 DEF TypeOK, Ended
  <2>4. InBlocks'
    BY <2>1, <2>2 DEF InBlocks
  <2>5. ReadLoop'
    BY <2>1 DEF ReadLoop
  <2>6. QED  BY <1>0, <2>1, <2>3, <2>4, <2>5 DEF NInv, WriteStoresTags, NoFalseAlarm
<1>2. CASE ~file.exists
  <2>1. status' = "exit1" /\ UNCHANGED <<iter, tpc>>
    BY <1>2 DEF OpenRead
  <2>2. TypeOK'
    BY <1>0, <2>1 DEF TypeOK, Ended
  <2>3. QED  BY <1>0, <2>1, <2>2 DEF NInv, WriteStoresTags, NoFalseAlarm
<1>3. QED  BY <1>1, <1>2

(* A process with another argv[0] returns 0 and writes nothing. *)
LEMMA NoCommandStep == NInv /\ NoCommand => NInv'
<1> SUFFICES ASSUME NInv, NoCommand PROVE NInv'
  OBVIOUS
<1>1. Mode' = "none" /\ status' = "exit0" /\ name' \in Names /\ numpages' \in PageCounts
  BY DEF NoCommand, NInv, Mode
<1>2. TypeOK'
  BY <1>1 DEF NoCommand, NInv, TypeOK, Ended
<1>3. QED  BY <1>1, <1>2 DEF NInv, WriteStoresTags, NoFalseAlarm

(* do_write_pages puts the page's tag into the thread's own buffer. *)
LEMMA TagPageStep ==
  ASSUME NEW t \in Threads
  PROVE  NInv /\ TagPage(t) => NInv'
<1> SUFFICES ASSUME NInv, TagPage(t) PROVE NInv'
  OBVIOUS
<1>0. /\ status = "parallel" /\ status' = "parallel" /\ Mode = "write" /\ Mode' = Mode
      /\ numpages' = numpages /\ numpages \in Nat /\ name' \in Names /\ numpages' \in PageCounts
      /\ InBlocks /\ WriteLoop /\ TypeOK /\ tpc[t] = "next" /\ iter[t] < Hi(t)
      /\ buf' = [buf EXCEPT ![t] = Tag(iter[t])]
      /\ tpc' = [tpc EXCEPT ![t] = "io"]
      /\ UNCHANGED <<file, written, runs, iter>>
  BY DEF TagPage, NInv, Mode, BufferOf
<1>1. \A u \in Threads : /\ Lo(u)' = Lo(u) /\ Hi(u)' = Hi(u)
                        /\ Lo(u) \in Nat /\ Hi(u) \in Nat
                        /\ Lo(u) <= Hi(u) /\ Hi(u) <= numpages
  BY <1>0, BlocksKept, Block
<1>2. Tag(iter[t]) \in Nat
  BY <1>0, <1>1, TagNat DEF TypeOK
<1>3. TypeOK'
  BY <1>0, <1>1, <1>2 DEF TypeOK
<1>4. InBlocks'
  BY <1>0, <1>1 DEF InBlocks
<1>5. WriteLoop'
  <2>1. file'.exists /\ numpages' <= file'.size
    BY <1>0, <1>1 DEF WriteLoop
  <2>2. ASSUME NEW u \in Threads
        PROVE  /\ tpc'[u] # "check"
               /\ tpc'[u] = "io" => buf'[BufferOf(u)] = Tag(iter'[u])
               /\ \A i \in Lo(u)' .. iter'[u] - 1 : file'.data[i] = Tag(i)
    <3>1. CASE u = t
      BY <3>1, <1>0, <1>1 DEF WriteLoop, BufferOf, TypeOK
    <3>2. CASE u # t
      BY <3>2, <1>0, <1>1 DEF WriteLoop, BufferOf, TypeOK
    <3>3. QED  BY <3>1, <3>2
  <2>3. QED  BY <2>1, <2>2 DEF WriteLoop
<1>6. QED  BY <1>0, <1>1, <1>3, <1>4, <1>5 DEF NInv, WriteStoresTags, NoFalseAlarm

(* pwrite stores the tag in the thread's page, which lies in no other *)
(* thread's block, so no page written before is disturbed.            *)
LEMMA WritePageStep ==
  ASSUME NEW t \in Threads
  PROVE  NInv /\ WritePage(t) => NInv'
<1> SUFFICES ASSUME NInv, WritePage(t) PROVE NInv'
  OBVIOUS
<1>0. /\ status = "parallel" /\ Mode = "write" /\ Mode' = Mode
      /\ numpages' = numpages /\ numpages \in PageCounts /\ numpages \in Nat
      /\ name' \in Names /\ numpages' \in PageCounts
      /\ InBlocks /\ WriteLoop /\ TypeOK /\ tpc[t] = "io"
      /\ UNCHANGED <<runs, buf>>
  BY DEF WritePage, NInv, Mode
<1>1. \A u \in Threads : /\ Lo(u)' = Lo(u) /\ Hi(u)' = Hi(u)
                        /\ Lo(u) \in Nat /\ Hi(u) \in Nat
                        /\ Lo(u) <= Hi(u) /\ Hi(u) <= numpages
  BY <1>0, BlocksKept, Block
<1> PICK r \in PwriteResults :
      IF r = "ok"
        THEN /\ file' = [file EXCEPT !.data[iter[t]] = buf[BufferOf(t)]]
             /\ written' = written \cup {iter[t]}
             /\ iter' = [iter EXCEPT ![t] = @ + 1]
             /\ tpc' = [tpc EXCEPT ![t] = "next"]
             /\ UNCHANGED status
        ELSE /\ status' = "exit1"
             /\ UNCHANGED <<file, written, iter, tpc>>
  BY DEF WritePage
<1>2. CASE r = "ok"
  <2> DEFINE p == iter[t]
  <2>1. /\ file' = [file EXCEPT !.data[p] = Tag(p)]
        /\ written' = written \cup {p}
        /\ iter' = [iter EXCEPT ![t] = p + 1]
        /\ tpc' = [tpc EXCEPT ![t] = "next"]
        /\ status' = "parallel"
    BY <1>0, <1>1, <1>2 DEF WriteLoop, BufferOf, TypeOK
  <2>2. p \in Nat /\ Lo(t) <= p /\ p < Hi(t) /\ p \in DiskPages
    <3>1. p \in Lo(t) .. Hi(t) - 1
      BY <1>0, <1>1 DEF InBlocks, TypeOK
    <3>2. QED  BY <3>1, <1>0, <1>1, BlockPage
  <2>3. Tag(p) \in Nat
    BY <2>2, TagNat
  <2>4. /\ file'.exists = file.exists /\ file'.size = file.size
        /\ file'.data = [file.data EXCEPT ![p] = Tag(p)]
    BY <1>0, <1>1, <2>1 DEF TypeOK
  <2>5. TypeOK'
    BY <1>0, <1>1, <2>1, <2>2, <2>3, <2>4 DEF TypeOK
  <2>6. InBlocks'
    <3>1. Hi(t) \in Nat
      BY <1>0, <1>1, Block
    <3>2. QED  BY <1>0, <1>1, <2>1, <2>2, <3>1 DEF InBlocks, TypeOK
  <2>7. WriteLoop'
    <3>1. file'.exists /\ numpages' <= file'.size
      BY <1>0, <1>1, <2>4 DEF WriteLoop
    <3>2. ASSUME NEW u \in Threads
          PROVE  /\ tpc'[u] # "check"
                 /\ tpc'[u] = "io" => buf'[BufferOf(u)] = Tag(iter'[u])
      BY <1>0, <1>1, <2>1 DEF WriteLoop, TypeOK, BufferOf
    <3>3. ASSUME NEW u \in Threads, NEW i \in Lo(u)' .. iter'[u] - 1
          PROVE  file'.data[i] = Tag(i)
      <4>1. CASE u = t /\ i = p
        BY <4>1, <1>0, <1>1, <2>2, <2>4 DEF TypeOK
      <4>2. CASE u = t /\ i # p
        <5>1. i \in Lo(t) .. iter[t] - 1
          BY <4>2, <1>1, <2>1, <2>2, <1>0 DEF TypeOK
        <5>2. i \in DiskPages
          <6>1. i \in Lo(t) .. Hi(t) - 1
            BY <5>1, <2>2, <1>1
          <6>2. QED  BY <6>1, <1>0, <1>1, BlockPage
        <5>3. QED  BY <4>2, <5>1, <5>2, <2>4, <1>0, <1>1 DEF WriteLoop, TypeOK
      <4>3. CASE u # t
        <5>1. i \in Lo(u) .. iter[u] - 1 /\ iter[u] <= Hi(u) /\ iter[u] \in Nat
          BY <4>3, <1>1, <2>1, <1>0 DEF InBlocks, TypeOK
        <5>2. Lo(u) \in Nat /\ Hi(u) \in Nat
          BY <1>1
        <5>3. i \in Lo(u) .. Hi(u) - 1
          BY <5>1, <5>2
        <5>4. i \in DiskPages /\ i \in Nat
          BY <5>3, <1>0, <1>1, BlockPage
        <5>6. i # p
          <6>1. SUFFICES ASSUME i = p PROVE FALSE
            OBVIOUS
          <6>2. Lo(u) <= p /\ p < Hi(u)
            BY <5>3, <6>1, <1>1
          <6>3. QED  BY <6>2, <2>2, <4>3, <1>0, <1>1, BlockDisjoint
        <5>5. QED  BY <4>3, <5>1, <5>4, <5>6, <2>4, <1>0, <1>1 DEF WriteLoop, TypeOK
      <4>4. QED  BY <4>1, <4>2, <4>3
    <3>4. QED  BY <3>1, <3>2, <3>3 DEF WriteLoop
  <2>8. QED  BY <1>0, <1>1, <2>1, <2>5, <2>6, <2>7 DEF NInv, WriteStoresTags, NoFalseAlarm
<1>3. CASE r # "ok"
  <2>1. status' = "exit1" /\ UNCHANGED <<file, written, iter, tpc>>
    BY <1>3
  <2>2. TypeOK'
    BY <1>0, <1>1, <2>1 DEF TypeOK, Ended
  <2>3. QED  BY <1>0, <1>1, <2>1, <2>2 DEF NInv, WriteStoresTags, NoFalseAlarm
<1>4. QED  BY <1>2, <1>3

(* pread puts the page into the thread's own buffer, or fails and the   *)
(* process exits 1.                                                     *)
LEMMA ReadPageStep ==
  ASSUME NEW t \in Threads
  PROVE  NInv /\ ReadPage(t) => NInv'
<1> SUFFICES ASSUME NInv, ReadPage(t) PROVE NInv'
  OBVIOUS
<1>0. /\ status = "parallel" /\ Mode = "read" /\ Mode' = Mode
      /\ numpages' = numpages /\ numpages \in PageCounts /\ numpages \in Nat
      /\ name' \in Names /\ numpages' \in PageCounts
      /\ InBlocks /\ ReadLoop /\ TypeOK /\ tpc[t] = "next" /\ iter[t] < Hi(t)
      /\ UNCHANGED <<file, written, runs, iter>>
  BY DEF ReadPage, NInv, Mode
<1>1. \A u \in Threads : /\ Lo(u)' = Lo(u) /\ Hi(u)' = Hi(u)
                        /\ Lo(u) \in Nat /\ Hi(u) \in Nat
                        /\ Lo(u) <= Hi(u) /\ Hi(u) <= numpages
  BY <1>0, BlocksKept, Block
<1> PICK r \in PreadResults :
       \/ /\ r = "ok"
          /\ buf' = IF iter[t] < file.size
                      THEN [buf EXCEPT ![BufferOf(t)] = file.data[iter[t]]]
                      ELSE buf
          /\ tpc' = [tpc EXCEPT ![t] = "check"]
          /\ UNCHANGED status
       \/ /\ r = "error"
          /\ status' = "exit1"
          /\ UNCHANGED <<buf, tpc>>
  BY DEF ReadPage
<1>2. CASE r = "ok"
  <2>1. /\ buf' = IF iter[t] < file.size
                    THEN [buf EXCEPT ![t] = file.data[iter[t]]] ELSE buf
        /\ tpc' = [tpc EXCEPT ![t] = "check"]
        /\ status' = "parallel"
    BY <1>0, <1>2 DEF BufferOf
  <2>2. iter[t] \in DiskPages
    <3>1. iter[t] \in Lo(t) .. Hi(t) - 1
      BY <1>0, <1>1 DEF InBlocks, TypeOK
    <3>2. QED  BY <3>1, <1>0, <1>1, BlockPage
  <2>3. TypeOK'
    BY <1>0, <1>1, <2>1, <2>2 DEF TypeOK
  <2>4. InBlocks'
    BY <1>0, <1>1, <2>1 DEF InBlocks
  <2>5. ReadLoop'
    BY <1>0, <1>1, <2>1 DEF ReadLoop, BufferOf, TypeOK
  <2>6. QED  BY <1>0, <1>1, <2>1, <2>3, <2>4, <2>5 DEF NInv, WriteStoresTags, NoFalseAlarm
<1>3. CASE r = "error"
  <2>1. status' = "exit1" /\ UNCHANGED <<buf, tpc>>
    BY <1>3
  <2>2. TypeOK'
    BY <1>0, <2>1 DEF TypeOK, Ended
  <2>3. QED  BY <1>0, <2>1, <2>2, OutsideLoop
<1>4. QED  BY <1>2, <1>3

(* A mismatch is reported only on a page that does not hold its tag, *)
(* or that lies past the end of the file.                            *)
LEMMA CheckPageStep ==
  ASSUME NEW t \in Threads
  PROVE  NInv /\ CheckPage(t) => NInv'
<1> SUFFICES ASSUME NInv, CheckPage(t) PROVE NInv'
  OBVIOUS
<1>0. /\ status = "parallel" /\ Mode = "read" /\ Mode' = Mode
      /\ numpages' = numpages /\ numpages \in PageCounts /\ numpages \in Nat
      /\ name' \in Names /\ numpages' \in PageCounts
      /\ InBlocks /\ ReadLoop /\ TypeOK /\ tpc[t] = "check"
      /\ UNCHANGED <<file, written, runs, buf>>
  BY DEF CheckPage, NInv, Mode
<1>1. \A u \in Threads : /\ Lo(u)' = Lo(u) /\ Hi(u)' = Hi(u)
                        /\ Lo(u) \in Nat /\ Hi(u) \in Nat
                        /\ Lo(u) <= Hi(u) /\ Hi(u) <= numpages
  BY <1>0, BlocksKept, Block
<1>2. /\ iter[t] \in Nat /\ Lo(t) <= iter[t] /\ iter[t] < Hi(t)
      /\ iter[t] \in 0 .. numpages - 1
  <2>1. iter[t] \in Lo(t) .. Hi(t) - 1
    BY <1>0, <1>1 DEF InBlocks, TypeOK
  <2>2. QED  BY <2>1, <1>0, <1>1, BlockPage
<1>3. CASE buf[BufferOf(t)] # Expected(iter[t])
  <2>1. status' = "mismatch" /\ UNCHANGED <<iter, tpc>>
    BY <1>3 DEF CheckPage
  <2>2. buf[t] # Tag(iter[t])
    BY <1>2, <1>3, TagNat DEF BufferOf
  <2>3. ~Good(numpages)
    <3>1. CASE iter[t] < file.size
      <4>1. file.data[iter[t]] # Tag(iter[t])
        BY <1>0, <1>1, <2>2, <3>1 DEF ReadLoop, BufferOf
      <4>2. QED  BY <1>2, <4>1 DEF Good
    <3>2. CASE ~(iter[t] < file.size)
      BY <1>0, <1>1, <1>2, <3>2 DEF Good, TypeOK
    <3>3. QED  BY <3>1, <3>2
  <2>4. TypeOK'
    BY <1>0, <1>1, <2>1 DEF TypeOK, Ended
  <2>5. NoFalseAlarm'
    BY <1>0, <1>1, <2>1, <2>3 DEF NoFalseAlarm, Good
  <2>6. QED  BY <1>0, <1>1, <2>1, <2>4, <2>5 DEF NInv, WriteStoresTags
<1>4. CASE ~(buf[BufferOf(t)] # Expected(iter[t]))
  <2>1. /\ iter' = [iter EXCEPT ![t] = iter[t] + 1]
        /\ tpc' = [tpc EXCEPT ![t] = "next"]
        /\ status' = "parallel"
    BY <1>4, <1>0 DEF CheckPage
  <2>2. TypeOK'
    BY <1>0, <1>1, <1>2, <2>1 DEF TypeOK
  <2>3. InBlocks'
    <3>1. Hi(t) \in Nat
      BY <1>0, <1>1, Block
    <3>2. QED  BY <1>0, <1>1, <1>2, <2>1, <3>1 DEF InBlocks, TypeOK
  <2>4. ReadLoop'
    BY <1>0, <1>1, <2>1 DEF ReadLoop, TypeOK
  <2>5. QED  BY <1>0, <1>1, <2>1, <2>2, <2>3, <2>4 DEF NInv, WriteStoresTags, NoFalseAlarm
<1>5. QED  BY <1>3, <1>4

(* A thread reaches the barrier with its whole block done. *)
LEMMA ThreadDoneStep ==
  ASSUME NEW t \in Threads
  PROVE  NInv /\ ThreadDone(t) => NInv'
<1> SUFFICES ASSUME NInv, ThreadDone(t) PROVE NInv'
  OBVIOUS
<1>0. /\ status = "parallel" /\ status' = "parallel" /\ Mode' = Mode
      /\ Mode \in {"write", "read"}
      /\ numpages' = numpages /\ numpages \in Nat
      /\ name' \in Names /\ numpages' \in PageCounts
      /\ InBlocks /\ TypeOK /\ tpc[t] = "next" /\ iter[t] >= Hi(t)
      /\ (Mode = "write" => WriteLoop) /\ (Mode = "read" => ReadLoop)
      /\ tpc' = [tpc EXCEPT ![t] = "done"]
      /\ UNCHANGED <<file, written, runs, buf, iter>>
  BY DEF ThreadDone, NInv, Mode
<1>1. \A u \in Threads : /\ Lo(u)' = Lo(u) /\ Hi(u)' = Hi(u)
                        /\ Lo(u) \in Nat /\ Hi(u) \in Nat
                        /\ Lo(u) <= Hi(u) /\ Hi(u) <= numpages
  BY <1>0, BlocksKept, Block
<1>2. Hi(t) \in Nat
  BY <1>0, <1>1, Block
<1>3. TypeOK'
  BY <1>0, <1>1 DEF TypeOK
<1>4. InBlocks'
  BY <1>0, <1>1, <1>2 DEF InBlocks, TypeOK
<1>5. Mode = "write" => WriteLoop'
  BY <1>0, <1>1 DEF WriteLoop, TypeOK
<1>6. Mode = "read" => ReadLoop'
  BY <1>0, <1>1 DEF ReadLoop, TypeOK
<1>7. QED  BY <1>0, <1>3, <1>4, <1>5, <1>6 DEF NInv, WriteStoresTags, NoFalseAlarm

(* At the barrier of a write loop every page of the run holds its tag. *)
LEMMA AllTaggedAtBarrier ==
  ASSUME NInv, status = "parallel", Mode = "write",
         \A t \in Threads : tpc[t] = "done"
  PROVE  Good(numpages)
<1>0. numpages \in PageCounts /\ numpages \in Nat /\ InBlocks /\ WriteLoop
  BY DEF NInv
<1>1. ASSUME NEW i \in 0 .. numpages - 1 PROVE file.data[i] = Tag(i)
  <2>1. PICK t \in Threads : Lo(t) <= i /\ i < Hi(t)
    BY <1>0, BlockCover
  <2>2. iter[t] = Hi(t)
    BY <1>0 DEF InBlocks
  <2>3. i \in Lo(t) .. iter[t] - 1
    BY <2>1, <2>2, <1>0, Block
  <2>4. QED  BY <1>0, <2>3 DEF WriteLoop
<1>2. QED  BY <1>0, <1>1 DEF WriteLoop, Good

(* After the barrier a write run that returns 0 has tagged every page. *)
LEMMA ReportStep == NInv /\ Report => NInv'
<1> SUFFICES ASSUME NInv, Report PROVE NInv'
  OBVIOUS
<1>0. /\ status = "parallel" /\ Mode' = Mode /\ Mode \in {"write", "read"}
      /\ status' \in {"sigfpe", "exit0"}
      /\ name' \in Names /\ numpages' \in PageCounts /\ TypeOK
      /\ \A t \in Threads : tpc[t] = "done"
      /\ UNCHANGED <<file, written, runs, name, numpages, buf, iter, tpc>>
  BY DEF Report, NInv, Mode
<1>1. Mode = "write" => Good(numpages)
  BY <1>0, AllTaggedAtBarrier
<1>2. TypeOK'
  BY <1>0 DEF TypeOK, Ended
<1>3. WriteStoresTags'
  BY <1>0, <1>1 DEF WriteStoresTags, Good
<1>4. QED  BY <1>0, <1>2, <1>3 DEF NInv, NoFalseAlarm

(* Every step of every process keeps NInv. *)
LEMMA NStep == NInv /\ [Next]_vars => NInv'
<1> SUFFICES ASSUME NInv, [Next]_vars PROVE NInv'
  OBVIOUS
<1>1. CASE AllRunsDone \/ UNCHANGED vars
  <2>1. UNCHANGED vars
    BY <1>1 DEF AllRunsDone
  <2>2. \A t : Lo(t)' = Lo(t) /\ Hi(t)' = Hi(t)
    BY <2>1, BlocksKept DEF vars
  <2>3. TypeOK'
    BY <2>1 DEF vars, NInv, TypeOK
  <2>4. QED  BY <2>1, <2>2, <2>3 DEF vars, NInv, InBlocks, WriteLoop, ReadLoop,
                                    Mode, Good, WriteStoresTags, NoFalseAlarm, BufferOf
<1>2. CASE \E t \in Threads : Thread(t)
  BY <1>2, TagPageStep, WritePageStep, ReadPageStep, CheckPageStep, ThreadDoneStep
  DEF Thread
<1>3. QED
  BY <1>1, <1>2, StartRunStep, OpenWriteStep, OpenReadStep, NoCommandStep, ReportStep
  DEF Next

(* A write run that returns 0 (nvmebenchmark-write's main, after the     *)
(* "omp parallel for" of do_write_pages) has left every page i of the    *)
(* run holding its tag i * pagesize / 8, whatever the interleaving of    *)
(* the threads' pwrite calls.                                           *)
THEOREM WriteStoresTagsHolds == Spec => []WriteStoresTags
<1>1. NInv => WriteStoresTags
  BY DEF NInv
<1>2. QED  BY <1>1, NInit, NStep, PTL DEF Spec

(* A read run that exits 1 on a mismatch (do_read_pages) has found a     *)
(* file that is not as a write run of at least numpages pages left it:  *)
(* its concurrent readers, each in its own buffer, raise no false alarm. *)
THEOREM NoFalseAlarmHolds == Spec => []NoFalseAlarm
<1>1. NInv => NoFalseAlarm
  BY DEF NInv
<1>2. QED  BY <1>1, NInit, NStep, PTL DEF Spec

(* The benchmark's variables keep their types. *)
THEOREM TypeCorrect == Spec => []TypeOK
<1>1. NInv => TypeOK
  BY DEF NInv
<1>2. QED  BY <1>1, NInit, NStep, PTL DEF Spec
-----------------------------------------------------------------------------
(***************************************************************************)
(* The refinement of PageFile.  The page count, the command and the file   *)
(* are the abstract ones; a dispatched or looping process is busy.  Each   *)
(* step is matched with NInv on both sides: a pwrite stores its page's tag *)
(* (WriteLoop), a mismatch is raised only on a file lacking a tag          *)
(* (NoFalseAlarm), and the barrier is passed only with every page tagged   *)
(* (AllTaggedAtBarrier).                                                   *)
(***************************************************************************)

(* PageFile's view of a process's control point. *)
AbsStatus == IF status \in {"dispatch", "parallel"} THEN "busy" ELSE status

(* The abstract variables under the refinement mapping. *)
LEMMA AbsVars ==
  /\ File!avars = <<file, numpages, Mode, AbsStatus>>
  /\ File!Blank = [i \in DiskPages |-> 0]
  BY DEF File!avars, File!Blank, AbsStatus

(* The page count's pages are pages of the disk. *)
LEMMA RunPages ==
  ASSUME NEW n \in PageCounts PROVE 0 .. n - 1 \subseteq DiskPages
  BY DEF DiskPages

(* For the run's page count, PageFile's AGood is the benchmark's Good. *)
LEMMA GoodIsAGood ==
  ASSUME numpages \in PageCounts
  PROVE  File!AGood(numpages) <=> Good(numpages)
<1>1. \A i \in 0 .. numpages - 1 : [j \in DiskPages |-> Tag(j)][i] = Tag(i)
  BY RunPages
<1>2. QED  BY <1>1 DEF File!AGood, Good

(* A process is started. *)
LEMMA RefStart == NInv /\ StartRun => File!AStart
<1> SUFFICES ASSUME NInv, StartRun PROVE File!AStart
  OBVIOUS
<1>1. AbsStatus \in File!AEnded
  BY DEF StartRun, AbsStatus, Ended, File!AEnded
<1>2. AbsStatus' \in {"busy", "exit1"}
  BY DEF StartRun, AbsStatus
<1>3. Mode' \in File!Modes
  BY DEF Mode, File!Modes
<1>4. QED  BY <1>1, <1>2, <1>3 DEF StartRun, File!AStart, AbsStatus

(* write_pages removes the file or keeps it, opens it and grows it to    *)
(* numpages pages, or exits 1 with the file as the failed call found it. *)
LEMMA RefOpenWrite == NInv /\ OpenWrite => File!Create
<1> SUFFICES ASSUME NInv, OpenWrite PROVE File!Create
  OBVIOUS
<1>1. AbsStatus = "busy" /\ Mode = "write" /\ Mode' = Mode /\ numpages' = numpages
  BY DEF OpenWrite, AbsStatus, Mode
<1>2. PICK u \in UnlinkResults, o \in OpenResults, r \in FallocResults :
        \/ file' = Unlinked(u) /\ status' = "exit1"
        \/ file' = Opened(Unlinked(u)) /\ status' = "exit1"
        \/ numpages > 0 /\ file' = Fallocated(Opened(Unlinked(u))) /\ status' = "parallel"
  BY DEF OpenWrite, EnterLoop
<1> DEFINE f == Unlinked(u)
           g == IF f.exists THEN f ELSE File!ANewFile
<1>3. f \in {File!ANoFile, file}
  <2>1. NoFile = File!ANoFile
    BY DEF NoFile, File!ANoFile, File!Blank
  <2>2. QED  BY <2>1 DEF Unlinked
<1>4. Opened(f) = g
  <2>1. NewFile = File!ANewFile
    BY DEF NewFile, File!ANewFile, File!Blank
  <2>2. QED  BY <2>1 DEF Opened
<1>5. Fallocated(Opened(f)) = [g EXCEPT !.size = IF @ < numpages THEN numpages ELSE @]
  BY <1>4 DEF Fallocated
<1>6. \/ file' = f /\ AbsStatus' = "exit1"
      \/ file' = g /\ AbsStatus' = "exit1"
      \/ /\ numpages > 0
         /\ file' = [g EXCEPT !.size = IF @ < numpages THEN numpages ELSE @]
         /\ AbsStatus' = "busy"
  BY <1>2, <1>4, <1>5 DEF AbsStatus
<1>7. QED  BY <1>1, <1>3, <1>6, AbsVars DEF File!Create, AbsStatus

(* read_pages opens the file, or exits 1 when it is missing. *)
LEMMA RefOpenRead == NInv /\ OpenRead => File!Fail \/ UNCHANGED File!avars
<1> SUFFICES ASSUME NInv, OpenRead PROVE File!Fail \/ UNCHANGED File!avars
  OBVIOUS
<1>1. /\ AbsStatus = "busy" /\ Mode' = Mode
      /\ UNCHANGED <<file, numpages>>
  BY DEF OpenRead, AbsStatus, Mode
<1>2. CASE file.exists
  <2>1. AbsStatus' = "busy"
    BY <1>2 DEF OpenRead, EnterLoop, AbsStatus
  <2>2. QED  BY <1>1, <2>1 DEF File!avars, AbsStatus
<1>3. CASE ~file.exists
  <2>1. AbsStatus' = "exit1"
    BY <1>3 DEF OpenRead, AbsStatus
  <2>2. QED  BY <1>1, <2>1 DEF File!Fail, AbsStatus
<1>4. QED  BY <1>2, <1>3

(* Any other command returns 0. *)
LEMMA RefNoCommand == NInv /\ NoCommand => File!Return
  BY DEF NoCommand, File!Return, AbsStatus, Mode


(* A pwrite stores its page's tag, or fails and the process exits 1. *)
LEMMA RefWritePage ==
  ASSUME NEW t \in Threads
  PROVE  NInv /\ WritePage(t) => (\E i \in 0 .. numpages - 1 : File!Store(i)) \/ File!Fail
<1> SUFFICES ASSUME NInv, WritePage(t)
             PROVE  (\E i \in 0 .. numpages - 1 : File!Store(i)) \/ File!Fail
  OBVIOUS
<1>0. /\ status = "parallel" /\ Mode = "write" /\ Mode' = Mode
      /\ numpages' = numpages /\ numpages \in PageCounts /\ numpages \in Nat
      /\ InBlocks /\ WriteLoop /\ TypeOK /\ tpc[t] = "io"
  BY DEF WritePage, NInv, Mode
<1>1. iter[t] \in Lo(t) .. Hi(t) - 1
  <2>1. Lo(t) \in Nat /\ Hi(t) \in Nat /\ iter[t] \in Nat
    BY <1>0, Block DEF TypeOK
  <2>2. Lo(t) <= iter[t] /\ iter[t] < Hi(t)
    BY <1>0 DEF InBlocks
  <2>3. QED  BY <2>1, <2>2
<1>2. iter[t] \in DiskPages /\ iter[t] \in 0 .. numpages - 1
  BY <1>0, <1>1, BlockPage
<1>3. buf[BufferOf(t)] = Tag(iter[t]) /\ iter[t] < file.size
  BY <1>0, <1>2 DEF WriteLoop, TypeOK
<1>4. [j \in DiskPages |-> Tag(j)][iter[t]] = Tag(iter[t])
  BY <1>2
<1> PICK r \in PwriteResults :
      IF r = "ok"
        THEN /\ file' = [file EXCEPT !.data[iter[t]] = buf[BufferOf(t)]]
             /\ UNCHANGED status
        ELSE /\ status' = "exit1"
             /\ UNCHANGED file
  BY DEF WritePage
<1>5. CASE r = "ok"
  <2>1. File!Store(iter[t])
    BY <1>0, <1>3, <1>4, <1>5 DEF File!Store, AbsStatus
  <2>2. QED  BY <1>2, <2>1
<1>6. CASE r # "ok"
  BY <1>0, <1>6 DEF File!Fail
<1>7. QED  BY <1>5, <1>6

(* A comparison that fails is made on a file lacking a tag; one that    *)
(* passes changes nothing PageFile sees.                                *)
LEMMA RefCheckPage ==
  ASSUME NEW t \in Threads
  PROVE  NInv /\ NInv' /\ CheckPage(t) => File!Mismatch \/ UNCHANGED File!avars
<1> SUFFICES ASSUME NInv, NInv', CheckPage(t)
             PROVE  File!Mismatch \/ UNCHANGED File!avars
  OBVIOUS
<1>0. /\ status = "parallel" /\ Mode = "read" /\ Mode' = Mode
      /\ numpages \in PageCounts /\ UNCHANGED <<file, numpages>>
  BY DEF CheckPage, NInv, Mode
<1>1. CASE status' = "mismatch"
  <2>1. ~Good(numpages)
    <3>1. ~Good(numpages)'
      BY <1>1 DEF NInv, NoFalseAlarm
    <3>2. QED  BY <3>1, <1>0 DEF Good
  <2>2. ~File!AGood(numpages)
    BY <1>0, <2>1, GoodIsAGood
  <2>3. QED  BY <1>0, <1>1, <2>2 DEF File!Mismatch
<1>2. CASE status' # "mismatch"
  <2>1. status' = "parallel"
    BY <1>0, <1>2 DEF CheckPage
  <2>2. QED  BY <1>0, <2>1 DEF File!avars
<1>3. QED  BY <1>1, <1>2

(* Storing a tag in a buffer and a thread reaching the barrier change   *)
(* nothing PageFile sees.                                               *)
LEMMA RefLocal ==
  ASSUME NEW t \in Threads
  PROVE  TagPage(t) \/ ThreadDone(t) => UNCHANGED File!avars
BY DEF TagPage, ThreadDone, File!avars, Mode

(* A pread fills a buffer, which PageFile does not see, or fails and   *)
(* the process exits 1.                                                 *)
LEMMA RefReadPage ==
  ASSUME NEW t \in Threads
  PROVE  ReadPage(t) => File!Fail \/ UNCHANGED File!avars
<1> SUFFICES ASSUME ReadPage(t) PROVE File!Fail \/ UNCHANGED File!avars
  OBVIOUS
<1>1. /\ AbsStatus = "busy" /\ Mode' = Mode
      /\ UNCHANGED <<file, numpages>>
      /\ status' \in {"parallel", "exit1"}
  BY DEF ReadPage, AbsStatus, Mode
<1>2. CASE status' = "parallel"
  BY <1>1, <1>2 DEF File!avars, AbsStatus
<1>3. CASE status' = "exit1"
  BY <1>1, <1>3 DEF File!Fail, AbsStatus
<1>4. QED  BY <1>1, <1>2, <1>3

(* The process returns after the barrier, a writer with every page tagged. *)
LEMMA RefReport == NInv /\ Report => File!Finish
<1> SUFFICES ASSUME NInv, Report PROVE File!Finish
  OBVIOUS
<1>0. /\ status = "parallel" /\ Mode \in {"write", "read"} /\ Mode' = Mode
      /\ numpages \in PageCounts /\ UNCHANGED <<file, numpages>>
      /\ status' = IF numpages = 0 THEN "sigfpe" ELSE "exit0"
  BY DEF Report, NInv, Mode
<1>1. Mode = "write" => File!AGood(numpages)
  BY <1>0, AllTaggedAtBarrier, GoodIsAGood DEF Report
<1>2. QED  BY <1>0, <1>1 DEF File!Finish


(* The benchmark implements PageFile (ImplementsPageFile): over any      *)
(* sequence of processes, nvmebenchmark-write recreates the file blank   *)
(* and stores each page only with its own tag, returning only once all   *)
(* of them are tagged, nvmebenchmark-read never changes the file and     *)
(* reports a mismatch only on a file lacking a tag, and every failed     *)
(* call leaves the file as it is, whatever the threads' interleaving.    *)
THEOREM ImplementsPageFileHolds == Spec => ImplementsPageFile
<1>1. Init => File!AInit
  BY DEF Init, NoFile, File!AInit, File!ANoFile, File!Blank, File!Modes, Mode
<1>2. NInv /\ NInv' /\ [Next]_vars => [File!ANext]_File!avars
  <2> SUFFICES ASSUME NInv, NInv', [Next]_vars PROVE [File!ANext]_File!avars
    OBVIOUS
  <2>1. CASE StartRun
    BY <2>1, RefStart DEF File!ANext
  <2>2. CASE OpenWrite
    BY <2>2, RefOpenWrite DEF File!ANext
  <2>3. CASE OpenRead
    BY <2>3, RefOpenRead DEF File!ANext
  <2>4. CASE NoCommand
    BY <2>4, RefNoCommand DEF File!ANext
  <2>5. CASE \E t \in Threads : Thread(t)
    <3> PICK t \in Threads : Thread(t)
      BY <2>5
    <3>1. CASE WritePage(t)
      BY <3>1, RefWritePage DEF File!ANext
    <3>2. CASE CheckPage(t)
      BY <3>2, RefCheckPage DEF File!ANext
    <3>3. CASE ReadPage(t)
      BY <3>3, RefReadPage DEF File!ANext
    <3>4. CASE TagPage(t) \/ ThreadDone(t)
      BY <3>4, RefLocal
    <3>5. QED  BY <3>1, <3>2, <3>3, <3>4 DEF Thread
  <2>6. CASE Report
    BY <2>6, RefReport DEF File!ANext
  <2>7. CASE AllRunsDone \/ UNCHANGED vars
    BY <2>7 DEF AllRunsDone, vars, File!avars, Mode
  <2>8. QED  BY <2>1, <2>2, <2>3, <2>4, <2>5, <2>6, <2>7 DEF Next
<1>3. Spec => []NInv
  BY NInit, NStep, PTL DEF Spec
<1>4. QED  BY <1>1, <1>2, <1>3, PTL DEF Spec, ImplementsPageFile, File!ASpec

=============================================================================
