------------------------------ MODULE VectorInfo ------------------------------
(***************************************************************************)
(* One evaluation of a trajectory: the cube iterator walking the frames    *)
(* (cube_iterator_with_vector, whose source is not in this repository)    *)
(* and vector_info() in src/src/median_calculation/run_random_vector.cpp,  *)
(* which folds the iterator's samples into <SNR, sum, frames hit>.         *)
(*                                                                         *)
(* Pixel values are integers and the sums are kept exact.  The real-valued *)
(* terms B = v/3, D = 0.417 and R = 49/e are scaled by Scale, a multiple  *)
(* of 3000 and of every exposure time, so that they stay integers.  SNR is *)
(* represented by its class (NaN, an infinity, or a finite value of some   *)
(* sign) and, when finite, by its square as a fraction.                    *)
(***************************************************************************)
EXTENDS Integers, FiniteSets, FiniteSetsExt

CONSTANTS
  SizeX, SizeY, SizeK,  \* the cube's dimensions
  Image,                \* the pixel store: a value or NaN at each coordinate
  NaN,                  \* the not-a-value pixel
  Timestamp,            \* m_timestamp_list, in hundredths of a second
  Exposure,             \* m_exposuretime_list, in seconds
  SlopeNums, SlopeDen,  \* slopes are SlopeNums / SlopeDen pixels per unit
  Scale                 \* a common multiple of 3000 and the exposure times

Frames == 0 .. SizeK - 1
Coords == (0 .. SizeX - 1) \X (0 .. SizeY - 1) \X Frames

ASSUME SizeAssumption == {SizeX, SizeY, SizeK} \subseteq Nat /\ SizeX > 0 /\ SizeY > 0
ASSUME ImageAssumption == Image \in [Coords -> Int \cup {NaN}] /\ NaN \notin Int
ASSUME MetadataAssumption ==
  /\ Timestamp \in [Frames -> Nat]
  /\ Exposure \in [Frames -> Nat \ {0}]
  /\ Scale \in Nat \ {0} /\ Scale % 3000 = 0
  /\ \A k \in Frames : Scale % Exposure[k] = 0
ASSUME SlopeAssumption == SlopeNums \subseteq Int /\ SlopeDen \in Nat \ {0}

(* A trajectory: vector_xy{x_slope, x_intercept, y_slope, y_intercept}, *)
(* with intercepts drawn from [0, size - 1] as shoot_vector draws them. *)
Trajectories ==
  [xs : SlopeNums, xi : 0 .. SizeX - 1, ys : SlopeNums, yi : 0 .. SizeY - 1]

NoData == [kind |-> "nodata"]
Samples == {NoData} \cup [kind : {"data"}, value : Int, n : {1}, exp : Nat \ {0}]

(* std::round of a / b, b > 0: half-way cases away from zero. *)
RoundDiv(a, b) ==
  IF a >= 0 THEN (2 * a + b) \div (2 * b) ELSE -((2 * (-a) + b) \div (2 * b))

(* The elapsed time to frame k: timestamp(k) - timestamp(0). *)
Dt(k) == Timestamp[k] - Timestamp[0]

(* A mutant: the position truncated instead of rounded. *)
PositionTruncated(tr, k) ==
  << (tr.xi * SlopeDen + tr.xs * Dt(k)) \div SlopeDen,
     (tr.yi * SlopeDen + tr.ys * Dt(k)) \div SlopeDen >>

(* vector_xy::position(time_offset): the rounded (x, y) at frame k. *)
Position(tr, k) ==
  << RoundDiv(tr.xi * SlopeDen + tr.xs * Dt(k), SlopeDen),
     RoundDiv(tr.yi * SlopeDen + tr.ys * Dt(k), SlopeDen) >>

(* cube::out_of_range: the pixel store resolves no index for (x, y, k). *)
OutOfRange(x, y, k) == <<x, y, k>> \notin Coords

(* A mutant: an out-of-range position read as a zero pixel. *)
SampleOutOfRangeZero(tr, k) ==
  LET p == Position(tr, k) IN
  IF OutOfRange(p[1], p[2], k)
    THEN [kind |-> "data", value |-> 0, n |-> 1, exp |-> Exposure[k]]
  ELSE IF Image[p[1], p[2], k] = NaN THEN NoData
  ELSE [kind |-> "data", value |-> Image[p[1], p[2], k], n |-> 1, exp |-> Exposure[k]]

(* The iterator's snr_info() at frame k: no data when the position is out *)
(* of range or the pixel is NaN, else (value, 1 pixel, exposuretime(k)).  *)
Sample(tr, k) ==
  LET p == Position(tr, k) IN
  IF OutOfRange(p[1], p[2], k) THEN NoData
  ELSE IF Image[p[1], p[2], k] = NaN THEN NoData
  ELSE [kind |-> "data", value |-> Image[p[1], p[2], k], n |-> 1, exp |-> Exposure[k]]

(* The class of SNR = S * sqrt(T) / sqrt(A / Scale), and its square     *)
(* S^2 * T * Scale / A when it is finite, kept as the fraction S^2 * T / A *)
(* (the factor Scale is common to every SNR).                          *)
SnrOf(S, T, A) ==
  LET num == IF T = 0 THEN 0 ELSE S IN
  [cls |-> CASE A < 0 -> "nan"
             [] A = 0 /\ num = 0 -> "nan"
             [] A = 0 /\ num > 0 -> "inf"
             [] A = 0 /\ num < 0 -> "-inf"
             [] A > 0 /\ num = 0 -> "zero"
             [] A > 0 /\ num > 0 -> "pos"
             [] OTHER -> "neg",
   sqNum |-> IF A > 0 THEN S * S * T ELSE 0,
   sqDen |-> IF A > 0 THEN A ELSE 1]

VARIABLES
  traj,         \* the vector under evaluation
  pc,           \* "begin", "loop" or "done"
  k,            \* the iterator's frame
  totalSignal,  \* total_signal
  frameNum,     \* frame_num
  totalB,       \* total_B * Scale
  totalR,       \* total_R * Scale
  totalD,       \* total_D * Scale
  totalTime,    \* total_time
  out           \* the returned tuple

vars == <<traj, pc, k, totalSignal, frameNum, totalB, totalR, totalD, totalTime, out>>

NoOut == [snr |-> [cls |-> "none", sqNum |-> 0, sqDen |-> 1], signal |-> 0, frames |-> 0]

Init ==
  /\ traj \in Trajectories
  /\ pc = "begin"
  /\ k = 0
  /\ totalSignal = 0 /\ frameNum = 0
  /\ totalB = 0 /\ totalR = 0 /\ totalD = 0 /\ totalTime = 0
  /\ out = NoOut

(* if (iterator_begin == iterator_end) return (0, 0, 0): the iterator of *)
(* a cube with no frame starts at its end.                               *)
Begin ==
  /\ pc = "begin"
  /\ \/ /\ SizeK = 0
        /\ out' = [snr |-> [cls |-> "zero", sqNum |-> 0, sqDen |-> 1],
                   signal |-> 0, frames |-> 0]
        /\ pc' = "done"
     \/ /\ SizeK # 0
        /\ pc' = "loop"
        /\ UNCHANGED out
  /\ UNCHANGED <<traj, k, totalSignal, frameNum, totalB, totalR, totalD, totalTime>>

(* A mutant: an off-by-one loop bound that visits the end position too, *)
(* which has no frame and so reads as no data.                          *)
SkipPastEnd ==
  /\ pc = "loop"
  /\ k <= SizeK
  /\ k = SizeK \/ Sample(traj, k) = NoData
  /\ k' = k + 1
  /\ UNCHANGED <<traj, pc, totalSignal, frameNum, totalB, totalR, totalD, totalTime, out>>

(* An iteration whose sample is NaN: continue. *)
Skip ==
  /\ pc = "loop"
  /\ k < SizeK
  /\ Sample(traj, k) = NoData
  /\ k' = k + 1
  /\ UNCHANGED <<traj, pc, totalSignal, frameNum, totalB, totalR, totalD, totalTime, out>>

(* An iteration with data: the signal, the frame count and the B, R, D *)
(* and exposure sums grow by this sample's terms.                       *)
Accumulate ==
  /\ pc = "loop"
  /\ k < SizeK
  /\ Sample(traj, k) # NoData
  /\ LET s == Sample(traj, k) IN
     /\ totalSignal' = totalSignal + s.value
     /\ frameNum' = frameNum + 1
     /\ totalB' = totalB + s.value * s.n * (Scale \div 3)
     /\ totalR' = totalR + s.n * 49 * (Scale \div s.exp)
     /\ totalD' = totalD + 417 * s.n * (Scale \div 1000)
     /\ totalTime' = totalTime + s.exp
  /\ k' = k + 1
  /\ UNCHANGED <<traj, pc, out>>

(* After the last frame: SNR = total_signal * sqrt(total_time) /         *)
(* sqrt(total_signal + total_B + total_D + total_R), returned with the   *)
(* sum and the frame count.                                              *)
Finish ==
  /\ pc = "loop"
  /\ k = SizeK
  /\ out' = [snr |-> SnrOf(totalSignal, totalTime,
                           totalSignal * Scale + totalB + totalD + totalR),
             signal |-> totalSignal, frames |-> frameNum]
  /\ pc' = "done"
  /\ UNCHANGED <<traj, k, totalSignal, frameNum, totalB, totalR, totalD, totalTime>>

Done == pc = "done" /\ UNCHANGED vars

Next == Begin \/ Skip \/ Accumulate \/ Finish \/ Done

Spec == Init /\ [][Next]_vars /\ WF_vars(Next)

-----------------------------------------------------------------------------
TypeOK ==
  /\ traj \in Trajectories
  /\ pc \in {"begin", "loop", "done"}
  /\ k \in 0 .. SizeK
  /\ totalSignal \in Int /\ frameNum \in Nat
  /\ totalB \in Int /\ totalR \in Nat /\ totalD \in Nat /\ totalTime \in Nat

(* The reference, from the statement of the algorithm: the frames whose   *)
(* rounded position x(k) = round(x_intercept + x_slope * dt(k)), and the   *)
(* same for y, lies in the cube on a pixel that is not NaN; and the sums   *)
(* over them.                                                              *)
RefXY(tr, j) ==
  << RoundDiv(tr.xi * SlopeDen + tr.xs * Dt(j), SlopeDen),
     RoundDiv(tr.yi * SlopeDen + tr.ys * Dt(j), SlopeDen) >>
RefHits(tr) ==
  {j \in Frames : /\ <<RefXY(tr, j)[1], RefXY(tr, j)[2], j>> \in Coords
                  /\ Image[RefXY(tr, j)[1], RefXY(tr, j)[2], j] # NaN}
RefValue(tr, j) == Image[RefXY(tr, j)[1], RefXY(tr, j)[2], j]
RefResult(tr) ==
  LET H == RefHits(tr)
      S == MapThenSumSet(LAMBDA j : RefValue(tr, j), H)
      T == MapThenSumSet(LAMBDA j : Exposure[j], H)
      A == MapThenSumSet(LAMBDA j : RefValue(tr, j) * (Scale + Scale \div 3)
                                    + 417 * (Scale \div 1000)
                                    + 49 * (Scale \div Exposure[j]), H)
  IN  [snr |-> SnrOf(S, T, A), signal |-> S, frames |-> Cardinality(H)]

SameSnr(a, b) == a.cls = b.cls /\ a.sqNum * b.sqDen = b.sqNum * a.sqDen

(* Whenever the trajectory meets at least one pixel with data, the tuple *)
(* vector_info returns is the reference's: the frame count, the summed   *)
(* signal and the SNR (its class and exact value) of the frames hit.     *)
AgreesWithReference ==
  pc = "done" /\ RefHits(traj) # {} =>
     /\ SameSnr(out.snr, RefResult(traj).snr)
     /\ out.signal = RefResult(traj).signal
     /\ out.frames = RefResult(traj).frames

(* The spec: a trajectory that meets no pixel with data (every frame out *)
(* of range or NaN) yields (SNR, sum, frames hit) = (0, 0, 0) exactly.    *)
EmptyYieldsZero ==
  pc = "done" /\ RefHits(traj) = {} =>
     out.snr.cls = "zero" /\ out.signal = 0 /\ out.frames = 0

=============================================================================
