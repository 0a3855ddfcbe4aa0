----------------------------- MODULE StaticSplit -----------------------------
(***************************************************************************)
(* The static schedule of an "omp parallel for" without a chunk size, as  *)
(* libgomp computes it: n iterations among k threads, n \div k each and   *)
(* one more to each of the first n % k threads, thread t taking the      *)
(* iterations SplitLo(n, k, t) .. SplitHi(n, k, t) - 1.  Shoot and        *)
(* NvmeBench write the same split in terms of their own variables; the    *)
(* proofs about them show that their Lo and Hi are these operators and    *)
(* cite the lemmas below: the blocks lie in 0 .. n - 1, two threads'      *)
(* blocks are disjoint, and together they cover 0 .. n - 1.               *)
(***************************************************************************)
EXTENDS Naturals, TLAPS

(* Each thread's share, and how many threads get one more. *)
SplitQ(n, k) == n \div k
SplitR(n, k) == n % k

SplitLo(n, k, t) ==
  IF t < n % k THEN (n \div k + 1) * t ELSE (n \div k) * t + (n % k)

SplitHi(n, k, t) ==
  SplitLo(n, k, t) + IF t < n % k THEN n \div k + 1 ELSE n \div k

(* Division with remainder by a positive number. *)
LEMMA SplitDivMod ==
  ASSUME NEW n \in Nat, NEW k \in Nat \ {0}
  PROVE  /\ n \div k \in Nat
         /\ n % k \in 0 .. k - 1
         /\ n = k * (n \div k) + (n % k)
<1>1. n \div k \in Nat /\ n % k \in 0 .. k - 1
  OBVIOUS
<1>2. n % k = n - k * (n \div k)
  OBVIOUS
<1>3. QED  BY <1>1, <1>2

(* The bounds of a block in terms of quotient and remainder. *)
LEMMA SplitForm ==
  ASSUME NEW n \in Nat, NEW k \in Nat \ {0}, NEW t \in Nat
  PROVE  /\ SplitQ(n, k) \in Nat /\ SplitR(n, k) \in 0 .. k - 1
         /\ n = k * SplitQ(n, k) + SplitR(n, k)
         /\ t < SplitR(n, k) =>
              /\ SplitLo(n, k, t) = (SplitQ(n, k) + 1) * t
              /\ SplitHi(n, k, t) = (SplitQ(n, k) + 1) * t + (SplitQ(n, k) + 1)
         /\ t >= SplitR(n, k) =>
              /\ SplitLo(n, k, t) = SplitQ(n, k) * t + SplitR(n, k)
              /\ SplitHi(n, k, t) = SplitQ(n, k) * t + SplitR(n, k) + SplitQ(n, k)
BY SplitDivMod DEF SplitLo, SplitHi, SplitQ, SplitR

(* Each block ends where the next one starts. *)
LEMMA SplitHiIsNextLo ==
  ASSUME NEW n \in Nat, NEW k \in Nat \ {0}, NEW t \in Nat
  PROVE  SplitHi(n, k, t) = SplitLo(n, k, t + 1)
<1> DEFINE q == SplitQ(n, k)
           r == SplitR(n, k)
<1>0. /\ q \in Nat /\ r \in 0 .. k - 1
      /\ t < r => SplitHi(n, k, t) = (q + 1) * t + (q + 1)
      /\ t >= r => SplitHi(n, k, t) = q * t + r + q
  BY SplitForm
<1>1. /\ q \in Nat /\ r \in 0 .. k - 1
      /\ t < r => SplitHi(n, k, t) = (q + 1) * t + (q + 1)
      /\ t >= r => SplitHi(n, k, t) = q * t + r + q
      /\ t + 1 < r => SplitLo(n, k, t + 1) = (q + 1) * (t + 1)
      /\ t + 1 >= r => SplitLo(n, k, t + 1) = q * (t + 1) + r
  <2>1. t + 1 \in Nat
    OBVIOUS
  <2>2. /\ t + 1 < r => SplitLo(n, k, t + 1) = (q + 1) * (t + 1)
        /\ t + 1 >= r => SplitLo(n, k, t + 1) = q * (t + 1) + r
    BY <2>1, SplitForm
  <2>3. QED  BY <1>0, <2>2
<1>2. (q + 1) * (t + 1) = (q + 1) * t + (q + 1) /\ q * (t + 1) = q * t + q
      /\ (q + 1) * t = q * t + t
  BY <1>1
<1> HIDE DEF q, r
<1>3. CASE t + 1 < r
  BY <1>1, <1>2, <1>3
<1>4. CASE t + 1 = r
  BY <1>1, <1>2, <1>4
<1>5. CASE t >= r
  BY <1>1, <1>2, <1>5
<1>6. QED  BY <1>1, <1>3, <1>4, <1>5

(* The start of a block grows with the thread number. *)
LEMMA SplitLoMonotone ==
  ASSUME NEW n \in Nat, NEW k \in Nat \ {0}, NEW t \in Nat, NEW u \in Nat, t <= u
  PROVE  SplitLo(n, k, t) <= SplitLo(n, k, u)
<1> DEFINE q == SplitQ(n, k)
           r == SplitR(n, k)
<1>1. /\ q \in Nat /\ r \in 0 .. k - 1
      /\ t < r => SplitLo(n, k, t) = (q + 1) * t
      /\ t >= r => SplitLo(n, k, t) = q * t + r
      /\ u < r => SplitLo(n, k, u) = (q + 1) * u
      /\ u >= r => SplitLo(n, k, u) = q * u + r
  BY SplitForm
<1>2. q * t <= q * u /\ (q + 1) * t <= (q + 1) * u /\ (q + 1) * t = q * t + t
  BY <1>1
<1>3. QED  BY <1>1, <1>2

(* Every block lies within 0 .. n - 1. *)
LEMMA SplitBounds ==
  ASSUME NEW n \in Nat, NEW k \in Nat \ {0}, NEW t \in 0 .. k - 1
  PROVE  /\ SplitLo(n, k, t) \in Nat /\ SplitHi(n, k, t) \in Nat
         /\ SplitLo(n, k, t) <= SplitHi(n, k, t) /\ SplitHi(n, k, t) <= n
<1> DEFINE q == SplitQ(n, k)
           r == SplitR(n, k)
<1>1. /\ q \in Nat /\ r \in 0 .. k - 1 /\ n = k * q + r
      /\ t < r => /\ SplitLo(n, k, t) = (q + 1) * t
                  /\ SplitHi(n, k, t) = (q + 1) * t + (q + 1)
      /\ t >= r => /\ SplitLo(n, k, t) = q * t + r
                   /\ SplitHi(n, k, t) = q * t + r + q
  BY SplitForm
<1>2. CASE t < r
  <2>1. (q + 1) * t + (q + 1) = (q + 1) * (t + 1) /\ (q + 1) * (t + 1) <= (q + 1) * r
    BY <1>1, <1>2
  <2>2. (q + 1) * r = q * r + r /\ q * r <= q * k /\ k * q = q * k
    BY <1>1
  <2>3. QED  BY <1>1, <1>2, <2>1, <2>2
<1>3. CASE t >= r
  <2>1. q * t + q = q * (t + 1) /\ q * (t + 1) <= q * k /\ k * q = q * k
    BY <1>1
  <2>2. q * t \in Nat /\ q * (t + 1) \in Nat /\ q * k \in Nat
    BY <1>1
  <2> HIDE DEF q, r
  <2>3. QED  BY <1>1, <1>3, <2>1, <2>2
<1>4. QED  BY <1>1, <1>2, <1>3

(* The blocks of two different threads are disjoint. *)
LEMMA SplitDisjoint ==
  ASSUME NEW n \in Nat, NEW k \in Nat \ {0},
         NEW t \in 0 .. k - 1, NEW u \in 0 .. k - 1, t # u, NEW i \in Nat,
         SplitLo(n, k, t) <= i, i < SplitHi(n, k, t),
         SplitLo(n, k, u) <= i, i < SplitHi(n, k, u)
  PROVE  FALSE
<1> SUFFICES ASSUME NEW a \in 0 .. k - 1, NEW b \in 0 .. k - 1, a < b,
                    SplitLo(n, k, b) <= i, i < SplitHi(n, k, a)
             PROVE  FALSE
  OBVIOUS
<1>1. a \in Nat /\ b \in Nat /\ a + 1 <= b
  OBVIOUS
<1>2. SplitHi(n, k, a) = SplitLo(n, k, a + 1)
  BY <1>1, SplitHiIsNextLo
<1>3. SplitLo(n, k, a + 1) <= SplitLo(n, k, b)
  BY <1>1, SplitLoMonotone
<1>4. SplitLo(n, k, b) \in Nat /\ SplitHi(n, k, a) \in Nat
  BY SplitBounds
<1>5. QED  BY <1>2, <1>3, <1>4

(* Every iteration lies in some thread's block: the split leaves none  *)
(* out.  The witness is computed from the iteration.                   *)
LEMMA SplitCover ==
  ASSUME NEW n \in Nat, NEW k \in Nat \ {0}, NEW i \in 0 .. n - 1
  PROVE  \E t \in 0 .. k - 1 : SplitLo(n, k, t) <= i /\ i < SplitHi(n, k, t)
<1> DEFINE q == SplitQ(n, k)
           r == SplitR(n, k)
<1>1. q \in Nat /\ r \in 0 .. k - 1 /\ n = k * q + r /\ i \in Nat /\ i < n
  BY SplitForm
<1> HIDE DEF q, r
<1>2. CASE i < r * (q + 1)
  <2> DEFINE j == i \div (q + 1)
  <2>1. j \in Nat /\ (q + 1) * j <= i /\ i < (q + 1) * j + (q + 1)
    BY <1>1
  <2>2. j >= r => (q + 1) * j >= (q + 1) * r
    BY <1>1, <2>1
  <2>3. j < r
    BY <1>1, <1>2, <2>1, <2>2
  <2>4. SplitLo(n, k, j) = (q + 1) * j /\ SplitHi(n, k, j) = (q + 1) * j + (q + 1)
    BY <2>1, <2>3, SplitForm DEF q, r
  <2>5. j \in 0 .. k - 1
    BY <1>1, <2>1, <2>3
  <2>6. QED  BY <2>1, <2>4, <2>5
<1>3. CASE i >= r * (q + 1)
  <2>1. q # 0
    BY <1>1, <1>3
  <2> DEFINE j == (i - r * (q + 1)) \div q
  <2>2. j \in Nat /\ q * j <= i - r * (q + 1) /\ i - r * (q + 1) < q * j + q
    BY <1>1, <1>3, <2>1
  <2>3. r + j < k
    <3>1. r + j >= k => q * j >= q * (k - r)
      BY <1>1, <2>2
    <3>2. q * (k - r) = k * q - q * r /\ r * (q + 1) = q * r + r
      BY <1>1
    <3>3. QED  BY <1>1, <2>2, <3>1, <3>2
  <2>4. /\ SplitLo(n, k, r + j) = q * (r + j) + r
        /\ SplitHi(n, k, r + j) = q * (r + j) + r + q
    <3>1. r + j \in Nat /\ r + j >= r
      BY <1>1, <2>2
    <3>2. QED  BY <3>1, SplitForm DEF q, r
  <2>5. q * (r + j) = q * r + q * j /\ r * (q + 1) = q * r + r
    BY <1>1, <2>2
  <2>6. r + j \in 0 .. k - 1
    BY <1>1, <2>2, <2>3
  <2>7. QED  BY <1>1, <2>2, <2>4, <2>5, <2>6
<1>4. QED  BY <1>1, <1>2, <1>3
=============================================================================
