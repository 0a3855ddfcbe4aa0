# TLA+ models of umap-apps median_calculation

This directory holds TLA+ models of the programs in `src/`. The models cover
the Monte Carlo trajectory-shooting program `run_random_vector`, the NVMe page
benchmark `nvmebenchmark` and the test helper `umt_openandmap`. The TLC
configurations check them. TLAPS proofs show, for every number of threads and
of draws, that the shooting engine implements an abstract specification of its
result vector, together with its main safety properties.

## The system

`src/src/median_calculation/run_random_vector.cpp` runs in these stages:

1. **Driver** (`main`):
   - `map_fits` maps a FITS cube through umap. It aborts on a null cube and on
     an element size other than `sizeof(float)`.
   - `read_timestamp`, `read_exposuretime` and `read_psf` load one value per
     frame. Each reads the file named by its environment variable, or builds
     defaults when the variable is unset. Each aborts when the file cannot be
     opened or when the count it read differs from `size_k`.
   - The `cube` is built from these lists. Its constructor asserts that every
     list has at least `size_k` entries.
   - `get_num_vectors` reads `NUM_VECTORS`.
   - `shoot_vector` produces the rows, and `write_tocsv` writes them to
     `vector_output.csv`.
2. **Shooting engine** (`shoot_vector`), an OpenMP parallel region:
   - Each thread seeds its own `mt19937` with `123 + thread` and builds a slope
     distribution.
   - The threads share an `omp for` over the N draw indices. Each draw picks
     slopes and intercepts and evaluates the trajectory with `vector_info`.
   - Each draw stores `result[i]` and adds its elapsed time to the shared
     `total_execution_time`.
3. **Statistics accumulator** (`vector_info`) folds the samples a trajectory
   meets into (SNR, summed signal, frames hit).
   - The samples come from the walker `cube_iterator_with_vector` and from
     `vector_xy::position`. Neither is in this repository.
   - Each sample is the pixel value at the rounded position of each frame. It
     counts as no data when it is out of the cube or NaN.
4. **Cube** (`cube.hpp`) holds the dimensions and the per-frame metadata, and
   answers `out_of_range` and `timestamp`.

`src/pfbenchmark/nvmebenchmark.cpp` and `src/libumaptest/mmap.cpp` are separate
I/O benchmarks. They do not interact with the program above.

### Inventory

| Part | State | Operations | Hard behaviour |
|---|---|---|---|
| Shooting engine | per-thread engine, slope distribution, loop position; shared `result`, `total_execution_time` | region prologue, static/dynamic iteration, loop end/barrier, `+=` | thread interleaving, data race on the timer, index split with remainder |
| Accumulator | totals, frame count | begin (empty check), skip, accumulate, finish | NaN/0-by-0 SNR, skip vs. count |
| Driver | config inputs, loaded lists, count, catalog | map, load ×3 (any order), cube, count, shoot, write | every abort path, size_t wrap, silent I/O failure |
| Cube | dimensions, metadata lists | ctor asserts, accessors | — |
| NVMe benchmark | page file, per-thread buffers | write pages, read/verify pages, argv[0] dispatch | short reads, page 0 tag, unchecked dispatch |
| mmap helper | fd, region | open, size check, fallocate, mmap | each failure exits |

## Modules

| Module | Models | Runs |
|---|---|---|
| `Shoot` | `shoot_vector` | `MC_Shoot` with `MC_Shoot*.cfg` |
| `ShootProofs` | theorems about `Shoot` | (TLAPS) |
| `VectorInfo` | `vector_info`, with the walker from the spec | `MC_VectorInfo` with `MC_VectorInfo*.cfg` |
| `Main` | `main`, `map_fits`, the three loaders, `get_num_vectors`, `write_tocsv`, the cube constructor | `MC_Main` with `MC_Main*.cfg` |
| `ShootAbstract` | what `shoot_vector` promises its caller | through `Shoot`'s `Abstract` instance, `MC_Shoot.cfg` |
| `ShootRefinement` | proofs that `Shoot` implements `ShootAbstract` | (TLAPS) |
| `NvmeBench` | `nvmebenchmark.cpp`: `main`, `write_pages`, `read_pages`, `do_write_pages`, `do_read_pages` | `MC_NvmeBench` with `MC_NvmeBench*.cfg` |
| `PageFile` | what the NVMe benchmark does to its file | through `NvmeBench`'s `File` instance, `MC_NvmeBench.cfg` |
| `OpenMapCall` | what `umt_openandmap` promises its caller | through `OpenMap`'s `Call` instance, `MC_OpenMap.cfg` |
| `OpenMap` | `umt_openandmap` in `mmap.cpp` | `MC_OpenMap` with `MC_OpenMap.cfg` |
| `StaticSplit` | libgomp's static split of n iterations among k threads, and lemmas about it | (TLAPS) |
| `NvmeBenchProofs` | theorems about `NvmeBench` | (TLAPS) |
| `OpenMapProofs` | theorems about `OpenMap` | (TLAPS) |
| `MainProofs` | theorems about `Main` | (TLAPS) |

### Shoot

**Variables.**
- Per thread:
  - `pc`, the control point.
  - `engine`, the engine's seed and how many outputs it has given.
  - `slopeDist`, which distribution the thread uses and how many slopes it has
    drawn.
  - `iter`, the thread's position in its static block.
  - `dt` and `tmp`, the last measured time and the value the `+=` loaded.
- Shared:
  - `next`, the dynamic schedule's counter.
  - `result`.
  - `total`, which is `total_execution_time`.
  - `spent`, a history variable: the sum of every measured time.

**Actions.**
- `Start`: the region prologue. It seeds the engine and builds the beta
  distribution. Building the custom distribution ends the process when the
  file is unreadable. The custom distribution is otherwise discarded, because
  it is declared in the scope of the `if`.
- `IterStatic`: the next index of the libgomp static block of thread t. That
  block is `Lo(t)..Hi(t)-1`: `N div T` iterations, plus one for the first
  `N % T` threads.
- `IterDynamic`: an atomic fetch-and-increment of the shared counter.
- `DrawWith`: the loop body. It consumes 1 or 2 engine outputs per
  `uniform_int_distribution` call, because the distribution may reject
  outputs. It stores the row, measures the time and moves the thread to the
  `+=`.
- `Load` and `Store`: the two halves of `total_execution_time +=`.
- `LoopEnd` and `Return`: the implicit barrier and the return.

Random numbers are abstracted to intervals of an engine's output stream.
Evaluated statistics are left out: they are a function of the trajectory,
which `VectorInfo` checks.

### ShootAbstract and the refinement

`ShootAbstract` has two variables: the result vector `out` and the call's
status `st`.
- `Compute(i)` stores a row at an index that still holds the default row.
- `Finish` returns once no row holds the default.
- `Fail` ends the process inside the call.
- `ASpec` adds weak fairness on `Finish`.

`Shoot` instantiates it as `Abstract`, mapping `out` to `result`, `st` to
`status`, `Rows` to `Traj` and `NoRow` to `NoResult`. The property
`ImplementsAbstract == Abstract!ASpec` is checked by TLC. Its safety part is
proved by TLAPS.

### VectorInfo

The pixel values are integers and the sums are exact.

- **Scaling.** B = v/3, D = 0.417 and R = 49/exposure are multiplied by a
  constant `Scale`, a multiple of 3000 and of every exposure. This keeps them
  integers.
- **SNR.** It is represented by its class (nan, ±inf, zero, positive,
  negative). When it is finite, it is also represented by its square, as a
  fraction.
- **Actions.** `Begin` is the `begin == end` early return, `Skip` the NaN
  `continue`, `Accumulate` the loop body and `Finish` the SNR formula and
  return.
- **Spec-modelled parts.** The walker's rounded position (`Position`,
  `RoundDiv`: `std::round`, half away from zero) and its no-data rule
  (`Sample`) are taken from the spec, because their code is not in this
  repository.

### Main

**Inputs.**
- A metadata file is a sequence of tokens, each a number or not.
  `for (double v; ifs >> v;)` reads the numbers before the first token that is
  not one (`LeadingNumbers`).
- The three loaders (`ReadTimestamp`, `ReadExposuretime`, `ReadPsf`) share
  `LoadList`.
- `NUM_VECTORS` is unset, text, or an integer. An integer is stored modulo
  `SizeMax + 1`, like a `std::size_t` whose largest value is `SIZE_MAX`. The
  width is given by `SizeMax`, not by a bit count, so that the proofs can
  reason about the modulus (`2^w > 0` needs induction).

**Actions.**
- `Load(m)` may run for the lists in any order, since C++ leaves the order in
  which function arguments are evaluated unspecified.
- `Count` covers `get_num_vectors`, and the allocation of the result vector,
  which aborts past `max_size`.
- `ShootVectors` is the shooting engine as one step.
- `WriteCsv` writes nothing when the stream could not be opened.

**As the code stands.** Two mismatches stop it from compiling as written:
- `main` calls the cube constructor with 7 arguments where it takes 9, and
  `read_timestamp` returns `vector<double>` where the constructor takes
  `vector<unsigned long>`.
- `cube::u_cube` is a reference member the constructors never bind.

The model follows the evident intent: the three lists are passed, and the
constructor asserts on them.

### NvmeBench

**Variables.**
- `file`: whether the benchmark file exists, its size in pages, and the first
  word of each page.
- `written`: a history variable, the pages the current write run stored.
- `runs`: how many processes have been started.
- `name` and `numpages`: `argv[0]` and the page count of the current process.
- `status`: the process's state.
- `buf`: the per-thread page buffers (`tmppagebuf`).
- `iter` and `tpc`: each thread's page and its control point.

Successive processes share the file, so that a read run can follow a write run
that failed half-way.

**Actions.**
- `StartRun`: `posix_memalign` leaves each buffer's content undefined. This is
  modelled as a choice from `Garbage`.
- `OpenWrite`: `unlink`, whose result is ignored; the `open` with `O_CREAT`;
  and the zero-filling `posix_fallocate`. When `unlink` fails, `open` finds
  the old file, and `posix_fallocate` only grows it. A failed `open` exits 1
  after the `unlink` has removed the file. A failed pre-allocation exits 1
  with the file just opened. A length of 0 is `EINVAL`, so a write run of 0
  pages always exits 1 here.
- `OpenRead`: the open, which needs an existing file.
- `NoCommand`: any other `argv[0]`.
- `TagPage` and `WritePage`: the two steps of a `do_write_pages` iteration.
  Another thread may run between them.
- `ReadPage` and `CheckPage`: the two steps of a `do_read_pages` iteration.
  `pread` returns 0 at the end of the file and leaves the buffer as it was;
  a negative result exits 1.
- `ThreadDone` and `Report`: the barrier, then the division by `numpages`.
  It raises SIGFPE when the count is 0, which only a read run reaches.

Pages are split by the libgomp static split, as in `Shoot`.

**Abstract specification.** `PageFile` keeps only the file, the page count,
the command and how the process ended. Its actions:
- `AStart`: a process starts.
- `Create`: the writer removes the file (or fails to, and keeps it), opens
  it, creating it empty when it is gone, and grows it to its pages. When the
  open or the growth fails it exits 1, with the file removed, empty, or as
  it was.
- `Store(i)`: page `i` gets its own tag, in any order.
- `Finish`: the process returns; a writer only with every page tagged.
- `Return`: a process with no command returns.
- `Mismatch`: the reader stops, only on a file lacking a tag.
- `Fail`: any other failed call exits 1, the file as it is.

`NvmeBench` instances it as `File`, with `file`, `numpages` and `Mode` as the
abstract variables; a dispatched or looping process is `"busy"`. Buffer
stores, `pread`s and threads reaching the barrier are stutters.
A writer that skipped the `unlink` would not be caught: it behaves as one
whose `unlink` failed, which the code allows and `PageFile` therefore does
too.

### OpenMap

One call of `umt_openandmap`:
- `Open`: the open flags, with `O_CREAT` unless `noinit`.
- `SizeCheck`: the `fstat` and size check that only `noinit` makes.
- `Fallocate`: `posix_fallocate` grows the file and never shrinks it. It fails
  with a length of 0.
- `Map`: a shared mapping of the file, or private anonymous memory.

Every failure ends the process. Sizes are in pages.

**Abstract specification.** `OpenMapCall` is the call as its caller sees it,
one atomic step:
- `Return`: a region of `numbytes`, on the file with `usemmap`, and the file
  grown to hold `numbytes` and never shrunk. With `noinit` the file must
  already hold them and is left as it was.
- `Exit`: the process ends. The file is as it was or, without `noinit`,
  created or grown.

`OpenMap` instances it as `Call`. The abstract file is `initial` until the
call ends and `file` after it, so every step before the last is a stutter.

## Runs

| Run | Config | Expect | Checks | Shows |
|---|---|---|---|---|
| shoot | `MC_Shoot.cfg` | pass | TypeOK, DistinctDraws, CatalogComplete, TimeNeverOvercounted, ImplementsAbstract, Termination | every row written exactly once under both schedules; rows never share random numbers; the racy timer loses time but never invents it; `Shoot` implements `ShootAbstract`, fairness included, and with a usable slope file the call always returns |
| shoot_time_race | `MC_Shoot_TimeAccounted.cfg` | violation | TimeAccounted | the `+=` at line 252 loses a draw's time |
| shoot_slope_file | `MC_Shoot_SlopeFromConfiguredFile.cfg` | violation | SlopeFromConfiguredFile | `SLOPE_PDF_FILE` never reaches the draws (line 227) |
| vector_info | `MC_VectorInfo.cfg` | pass | TypeOK, AgreesWithReference | the fold equals the reference sum over frames hit, SNR exactly |
| vector_info_empty | `MC_VectorInfo_Empty.cfg` | violation | EmptyYieldsZero | all-no-data trajectories give NaN, not (0, 0, 0) |
| main | `MC_Main.cfg` | pass | TypeOK, NoAssertFailure | the loaders' checks make the constructor's assertions unreachable |
| main_malformed | `MC_Main_Malformed.cfg` | violation | MalformedMetadataRejected | a file with `size_k` numbers then junk is accepted and the catalog written |
| main_catalog | `MC_Main_Catalog.cfg` | violation | CatalogOnSuccess | an uncreatable catalog still exits 0 |
| nvme | `MC_NvmeBench.cfg` | pass | TypeOK, WriteStoresTags, NoFalseAlarm, ImplementsPageFile | a write run that returns 0 tagged every page; a mismatch is reported only for a page really lacking its tag, across interleavings and buffer garbage; the benchmark implements `PageFile` |
| nvme_page0 | `MC_NvmeBench_Page0.cfg` | violation | ReadSuccessMeansVerified | page 0's tag equals the zero fill, so an unwritten page 0 passes (line 62) |
| nvme_dispatch | `MC_NvmeBench_Dispatch.cfg` | violation | ReadSuccessMeansVerified | `./nvmebenchmark-read` matches no command and returns 0 having checked nothing (line 156) |
| openmap | `MC_OpenMap.cfg` | pass | TypeOK, MappedWithinFile, NoinitKeepsFile, ImplementsCall | no shared mapping is longer than its file; with `noinit` the file is left as it was; the call implements `OpenMapCall`, failures included |

Each property of a passing run has a mutant in `PROJECT.json`: a plausible bug
in the definition it rests on, which TLC finds. Examples:
- A shared seed (`SeedShared`).
- The static split without its remainder (`ChunkNoRemainder`), or rounded up
  (`ChunkCeil`).
- A row indexed by per-thread count (`RowPerThread`).
- Positions truncated instead of rounded (`PositionTruncated`).
- A loader without its count check (`LoadListUnchecked`).
- One page buffer shared by all threads (`BufferShared`).
- A tag compared in bytes instead of words (`ExpectedBytes`).
- The result of `posix_fallocate` ignored (`FallocateUnchecked`).
- The `noinit` size check dropped (`SizeCheckSkipped`).
- The reader opening the file as the writer does, with `unlink` and
  `O_CREAT` (`OpenReadUnlink`). Only `ImplementsPageFile` sees it.
- `O_TRUNC` among `umt_openandmap`'s open flags (`OpenTrunc`). Only
  `ImplementsCall` sees it.
- Any `SLOPE_PDF_FILE` treated as unreadable (`StartFileFatal`). This one
  breaks `Termination`.

### Bounds

- **Shoot:**
  - 2 threads and 3 draws, so the static split has a remainder and one thread
    has more work.
  - Both schedules, and all three `SLOPE_PDF_FILE` states.
  - 1–2 engine outputs per intercept, and two durations, so that lost updates
    change the total.
  - 184,382 distinct states.
- **VectorInfo:**
  - A 3×3×3 cube with NaN pixels and negative values.
  - Timestamps 0, 1, 3 and exposures 40, 20, 40.
  - Slopes −1/2 .. 1, so trajectories leave the cube, hit half-way rounding
    and go negative.
  - Every intercept.
- **Main:**
  - 2 frames.
  - Six metadata states: unset, unopenable, exact, short, trailing junk, and
    junk in the middle.
  - Five `NUM_VECTORS` states, with a 4-bit `size_t` so that −1 wraps past
    `max_size`.
  - Both allocation outcomes, two element sizes and both stream outcomes.
- **NvmeBench:**
  - 2 threads and page counts 0, 1 and 3. With 3 pages the split has a
    remainder, and with 0 pages the division traps.
  - A page of 16 bytes, so that the tags 0, 2 and 4 differ from the page
    numbers and from the byte offsets.
  - Two successive processes, so that a read run can follow a failed write
    run.
  - Both outcomes of every call (`unlink`, `open`, `posix_fallocate`,
    `pwrite`, `pread`), and two garbage values (0 and 7) for the
    buffers. 0 equals page 0's tag.
  - 3,342 distinct states.
- **OpenMap:**
  - All 8 option combinations.
  - Requested and existing sizes of 0 to 2 pages. Size 0 covers the EINVAL of
    `posix_fallocate`.
  - Both outcomes of every call.
  - 420 distinct states.

### Fairness

`Shoot.Spec` has weak fairness on each thread's steps and on `Return`. The
OpenMP threads are OS threads that are never blocked except at the barrier, and
the barrier releases them once all have arrived. Under this fairness the run
`shoot` checks two liveness properties:
- `Termination`: when `SLOPE_PDF_FILE` is unset or readable, `shoot_vector`
  returns.
- The fairness part of `ImplementsAbstract`: a call whose rows are all stored
  returns.

`Main`, `NvmeBench` and `OpenMap` check safety only. The code gives no fairness
that a liveness property could rest on: the NVMe threads run the same
per-thread loops as `Shoot`, and the benchmark's interest is in what the file
holds. Every terminal state stutters through `Stopped`, `Finished`,
`AllRunsDone` or `Done`, so deadlock checking stays on.

## Proofs (TLAPS)

Six modules hold proofs:
- `ShootProofs` and `ShootRefinement` (the shooting engine).
- `StaticSplit` (the loop split both parallel components use).
- `NvmeBenchProofs`, `OpenMapProofs` and `MainProofs`.

Each safety theorem has the form `Spec => []P`. It is proved from an
inductive invariant `I` with `Init => I`, `I /\ [Next]_vars => I'` and
`I => P`. Each `I` was first checked by TLC as an invariant of the
component's run.

### Shoot (`ShootProofs`, `ShootRefinement`)

The Shoot proofs hold for every `NumThreads ≥ 1`, every `N`, and every
non-empty set of durations and engine-call counts.

- **`TypeCorrect`**: `Spec => []TypeOK`. It rests on two lemmas:
  - `InitType`.
  - `TypeStep`, with one case per action.
  `TypeStep` in turn rests on `BlockBounds` (`Lo(t) ≤ Hi(t) ≤ N`), which
  `ShootSplit` (Shoot's `Lo`/`Hi` are `SplitLo`/`SplitHi` of `N` and
  `NumThreads`) reduces to `StaticSplit`'s `SplitBounds`.
- **`DrawsAreDistinct`**: `Spec => []DistinctDraws`. DistinctDraws is not
  inductive on its own, because a new row could overlap an old one.
  - The inductive invariant `DrawsInv` adds three facts:
    - A started thread's engine carries `Seed(t)`.
    - Every stored row was drawn by a started thread from that thread's seed.
    - Each row's output interval is non-empty and ends before the engine's
      current position.
  - Given these, a new row starts at the engine's position, which is past
    every earlier row of the same seed. `SeedInjective` separates rows of
    different threads.
  - Steps that touch neither rows nor engines are handled once, in
    `QuietStep`.
  - TLC checked `DrawsInv` as an invariant before it was proved.

`ShootRefinement` proves that `Shoot` implements `ShootAbstract`.
- **The static split.** `BlocksDisjoint` and `BlocksCover` are
  `StaticSplit`'s `SplitDisjoint` and `SplitCover` for `N` draws.
- **The invariant `RefInv`.** TLC checked it on 2×3, 3×2 and 2×5 threads ×
  draws before it was proved. It says:
  - A row is stored exactly when its index has been handed out (`Claimed`).
    Under the static schedule that means it lies in a started thread's block
    below its position. Under the dynamic one it means it is below the
    counter.
  - A started thread's position stays within its block.
  - A thread at the barrier has finished its block, or the counter has reached
    N.
- **`RefStep`.** It has one case per action. It shows that RefInv is preserved
  and that each step is `Compute(i)`, `Finish`, `Fail` or a stutter of
  `<<result, status>>`. An iteration's index is free by `BlocksDisjoint`.
  `Return` sees every row stored, by `BlocksCover` (`AllStoredAtBarrier`).
- **`Refinement`**: `Spec => Abstract!ASafety`.
- **`RowsWrittenOnce`**: `Spec => WriteOnce`. An abstract step only fills an
  empty row. TLC checks the same fact as part of `ImplementsAbstract`.
- **`CatalogIsComplete`**: `Spec => []CatalogComplete`. It adds to RefInv the
  fact that a returned call has every thread at the barrier.

### The static split (`StaticSplit`)

Shoot and NvmeBench split a loop the same way: `n div k` iterations to each
thread and one more to each of the first `n % k`. `StaticSplit` states this
once, as `SplitLo(n, k, t)` and `SplitHi(n, k, t)`, and proves for every
`n ∈ Nat` and `k ≥ 1`:
- `SplitBounds`: each block lies within `0 .. n-1`.
- `SplitHiIsNextLo` and `SplitLoMonotone`: each block ends where the next one
  starts, and starts grow with `t`. Together they give `SplitDisjoint`.
- `SplitCover`: every iteration lies in some block. The witness is computed:
  `i div (q+1)` below `r(q+1)`, and `r + (i - r(q+1)) div q` above.
Each model's proofs show first that its own `Lo`/`Hi` are these operators
(`ShootSplit`, `LoHiSplit`), and then cite the lemmas. NvmeBench's split is
over the variable `numpages`, so the lemmas are needed for every `n`, not
for one constant.

### NvmeBench (`NvmeBenchProofs`)

These hold for every number of threads, page size (a multiple of 8) and set
of page counts.
- **`WriteStoresTagsHolds`**: `Spec => []WriteStoresTags`.
- **`NoFalseAlarmHolds`**: `Spec => []NoFalseAlarm`.
- **`TypeCorrect`**: `Spec => []TypeOK`.
- **`ImplementsPageFileHolds`**: `Spec => ImplementsPageFile`, the
  refinement of `PageFile`.

All four rest on the inductive invariant `NInv`. TLC checked it as an
invariant first, on the run's instance and on 3 threads × 3 runs × up to 4
pages. It adds to the two properties:
- `InBlocks`: inside a loop, each thread's position stays in its block. A
  thread between its two calls for a page has not passed the block's end. A
  thread at the barrier has done its whole block.
- `WriteLoop`: inside a write loop, the file holds at least `numpages`
  pages (more when `unlink` failed and the old file was longer). A thread
  about to `pwrite` holds its page's tag in its own buffer. Each page of its
  block before its position holds its tag.
- `ReadLoop`: inside a read loop, a thread about to compare holds, in its own
  buffer, the page `pread` returned. This holds unless the page lies past the
  end of the file.

There is one lemma per action.
- `WritePageStep`: the page written lies in no other thread's block
  (`BlockDisjoint`), so no page already tagged is disturbed.
- `ReportStep`: `AllTaggedAtBarrier` uses `BlockCover`. Every page lies in
  some block, and every block is done at the barrier.
- `CheckPageStep`: a mismatch is either a page that does not hold its tag, or
  a page at or past the end of the file. In both cases `Good(numpages)` is
  false.

The refinement has one lemma per kind of step, each taking `NInv` in the
state before (and, for `CheckPage`, after) the step:
- `RefWritePage`: the buffer written holds the page's tag (`WriteLoop`), and
  the page lies in the file (`BlockPage`), so the step is `Store`.
- `RefCheckPage`: a mismatch keeps `NoFalseAlarm`, and the file is
  unchanged, so the file lacked a tag before: the step is `Mismatch`.
- `RefReport`: at the barrier of a write loop every page is tagged
  (`AllTaggedAtBarrier`), so the step is `Finish`.
- `RefOpenWrite`: the file after `unlink` is either no file or the old one,
  the file `open` returns is that one or a new empty one, and
  `posix_fallocate` grows it to `numpages` pages (`WriteFiles`): these are
  the three outcomes `Create` allows.
- `RefReadPage`: a `pread` changes only a buffer, or fails (`Fail`).
- `RefOpenRead`, `RefStart`, `RefNoCommand` and `RefLocal` match the other
  steps.
`GoodIsAGood` equates `PageFile`'s `AGood` with `Good` for the run's page
count. The last step combines `Init => File!AInit`, the step lemma and
`Spec => []NInv` by PTL.

### OpenMap (`OpenMapProofs`)

These hold for every set of options and sizes.
- `MappedWithinFileHolds`.
- `NoinitKeepsFileHolds`.
- `TypeCorrect`.

The inductive invariant `OInv` follows the file through the call:
- Before `open`, it is the caller's file.
- Past `open`, it exists.
- With noinit, it is the caller's file until the call ends. From the size
  check on, it holds `numbytes`.
- From `posix_fallocate` on, it holds `numbytes` in every mode.
- A region exists only once the call has returned, and has `numbytes`.

`ExistingFile` shows that `open` with `O_CREAT` leaves an existing file as it
was. `FileShape` gives the file's type.

- **`ImplementsCallHolds`**: `Spec => ImplementsCall`, the refinement of
  `OpenMapCall`. Until the call ends the caller sees `initial`, so every step
  before the last is a stutter. This needs a second invariant, `CInv`,
  which TLC checked first:
  - between `open` and `posix_fallocate` the file is the caller's, opened
    (created empty if it was missing);
  - at `mmap` it is the caller's file grown to `numbytes` (`Grown`), and
    `numbytes` is not 0.
  `ExitFile` shows that a call that exits leaves one of the files `Exit`
  allows. `RefStep` matches each step, and the last step combines
  `Init => Call!AInit`, `RefStep` and `Spec => [](OInv /\ CInv)` by PTL.

### Main (`MainProofs`)

- **`NoAssertFailureHolds`**: `Spec => []NoAssertFailure`, for every
  environment, every `size_k`, and every order of the three loads.
  - The invariant `MInv` says two things. Each list is unloaded or has
    exactly `size_k` values. The constructor is reached only when all three
    are loaded.
  - `LoaderResult`: `LoadList` compares its count with `size_k` before it
    returns, so a loader returns `size_k` or ends the process.
  - The proof needs nothing about what `LeadingNumbers` counts.
- **`TypeCorrect`**: `Spec => []TypeOK`. `MInv` also carries the types of
  the counts. `NumVectorsResult` shows that `get_num_vectors` ends the process
  or yields a natural number, a negative `NUM_VECTORS` included, because the
  value is reduced modulo `SizeMax + 1`.

### What stays with TLC, and why

- **`TimeNeverOvercounted`** (Shoot).
  - The invariant it needs sums, over the threads between their load and
    their store, the durations they have not yet added:
    `total + Σ pending ≤ spent`, and `tmp[t] + dt[t] + Σ others ≤ spent`.
  - A per-thread version is not inductive. When two threads are pending, a
    store by one needs a bound that covers both.
  - Reasoning about a sum over a set of threads needs induction over that
    set. The installed provers cannot instantiate the library's induction
    theorems, and there are no lemmas about sums to cite.
- **`VectorInfo`.**
  - Its reference uses `MapThenSumSet`, a fold, through FiniteSetsExt and
    Folds.
  - Those modules declare RECURSIVE operators, and tlapm loses its SMT
    backend in any module that reaches one.
  - What a fold computes for every input would in any case need induction
    over data.
  - So `AgreesWithReference` and `TypeOK` stay with TLC.
- **Liveness.** `Termination` and the fairness part of `ImplementsAbstract`
  use ENABLED and fairness, which are out of this prover's reach here.
- **Violation runs.** They are properties the code does not have, so there is
  nothing to prove.

## Not modelled

These parts are not in this repository:
- The umap FITS pixel store. Its outcomes are inputs.
- `custom_distribution` and `beta_distribution`. Only which one is used is
  modelled.
- `umt_getoptions` and `elapsed_time_sec`, which are constants.

Also not modelled:
- `cube::get_rnd_coord` is called nowhere.
- `print_top_median` is commented out.
- Formatting of the CSV and the console output is left out. Only the number of
  catalog rows is kept.

## Plan

Next steps, in order:

1. `TimeNeverOvercounted` by TLAPS, once lemmas about sums over finite sets
   can be cited.
2. A `NUM_VECTORS` property at a realistic ratio of `max_size` to
   `SizeMax`.
3. `cube.hpp`'s `get_rnd_coord`, if a caller appears.
