----------------------------- MODULE MC_VectorInfo -----------------------------
(* A 3 x 3 x 3 cube with NaN holes and negative, zero and positive pixels; *)
(* unevenly spaced timestamps and two exposure times; half-pixel slopes so *)
(* that positions land on x.5 and the rounding matters.                    *)
EXTENDS VectorInfo

MCImage ==
  [c \in (0 .. 2) \X (0 .. 2) \X (0 .. 2) |->
     LET s == c[1] + 2 * c[2] + 3 * c[3] IN
     IF s % 4 = 1 THEN NaN ELSE (s % 7) - 3]
MCTimestamp == [j \in 0 .. 2 |-> IF j = 2 THEN 3 ELSE j]
MCExposure == [j \in 0 .. 2 |-> IF j = 1 THEN 20 ELSE 40]
MCSlopeNums == -1 .. 2
=============================================================================
