---------------------------- MODULE VideoProofs -----------------------------
(***************************************************************************)
(* Proofs about VideoCodec: the decoder takes every frame for what the     *)
(* encoder made of it; and up to a frame's first full block it moves each  *)
(* block as the encoder did and its reference drifts by no more than the   *)
(* error of a frame for each frame.                                        *)
(* And about BlockCodec, the symbols of a frame's blocks: they come back   *)
(* as the blocks they were made of.                                        *)
(***************************************************************************)
EXTENDS VideoCodec, BlockCodec, WellFoundedInduction, NaturalsInduction, SequenceTheorems, TLAPS

\* A set of natural numbers that is not empty has a least element.
LEMMA Least ==
  ASSUME NEW T \in SUBSET Nat, T # {}
  PROVE  \E m \in T : \A k \in T : m <= k
  <1> DEFINE R == {p \in Nat \X Nat : p[1] < p[2]}
  <1>1. IsWellFoundedOn(R, Nat)
    BY NatLessThanWellFounded DEF OpToRel
  <1>2. \A k, m \in Nat : <<k, m>> \notin R => m <= k
    OBVIOUS
  <1> HIDE DEF R
  <1>3. PICK m \in T : \A k \in T : <<k, m>> \notin R
    BY <1>1, WFMin
  <1> QED BY <1>2, <1>3, Zenon

\* A set that has zero, and with each number the next, has them all.
LEMMA Induct ==
  ASSUME NEW T, 0 \in T, \A k \in Nat : k \in T => k + 1 \in T
  PROVE  \A n \in Nat : n \in T
  <1> DEFINE Bad == Nat \ T
  <1> SUFFICES ASSUME Bad # {} PROVE FALSE
    OBVIOUS
  <1>1. Bad \in SUBSET Nat
    OBVIOUS
  <1>2. PICK m \in Bad : \A k \in Bad : m <= k
    <2> HIDE DEF Bad
    <2> QED BY <1>1, Least
  <1>3. m # 0 /\ m - 1 \in Nat /\ m - 1 \notin Bad
    BY <1>1, <1>2
  <1> QED BY <1>3


(***************************************************************************)
(* Recursions over the numbers from zero.                                  *)
(***************************************************************************)
Recursion(S, base, step) == base \in S /\ step \in [S \X Nat -> S]

Result(S, base, step, n, g) ==
    g \in [0..n -> S] /\ g[0] = base /\ \A i \in 1..n : g[i] = step[<<g[i - 1], i>>]

LEMMA RecursionIs ==
  ASSUME NEW S, NEW base, NEW step, Recursion(S, base, step), NEW n \in Nat
  PROVE  \E g : Result(S, base, step, n, g)
  <1> DEFINE Is(g, k) == g[0] = base /\ \A i \in 1..k : g[i] = step[<<g[i - 1], i>>]
             T == {k \in Nat : \E g \in [0..k -> S] : Is(g, k)}
  <1> USE DEF Recursion
  <1>1. 0 \in T
    <2>1. [i \in 0..0 |-> base] \in [0..0 -> S] /\ Is([i \in 0..0 |-> base], 0)
      OBVIOUS
    <2> QED BY <2>1
  <1>2. ASSUME NEW k \in Nat, k \in T PROVE k + 1 \in T
    <2>1. PICK g \in [0..k -> S] : Is(g, k)
      BY <1>2
    <2>2. PICK new \in S : new = step[<<g[k], k + 1>>]
      OBVIOUS
    <2>3. PICK h : h = [i \in 0..(k + 1) |-> IF i = k + 1 THEN new ELSE g[i]]
      OBVIOUS
    <2>4. h[k + 1] = new /\ \A i \in 0..k : h[i] = g[i]
      BY <2>3
    <2>5. h \in [0..(k + 1) -> S]
      <3> SUFFICES ASSUME NEW i \in 0..(k + 1) PROVE h[i] \in S
        BY <2>3
      <3>1. i = k + 1 \/ i \in 0..k
        OBVIOUS
      <3> QED BY <2>4, <3>1
    <2>6. ASSUME NEW i \in 1..(k + 1) PROVE h[i] = step[<<h[i - 1], i>>]
      <3>1. CASE i = k + 1
        <4>1. h[i - 1] = g[k]
          BY <2>4, <3>1
        <4> QED BY <2>2, <2>4, <3>1, <4>1
      <3>2. CASE i # k + 1
        <4>1. i \in 1..k /\ i - 1 \in 0..k /\ i \in 0..k
          BY <3>2
        <4> QED BY <2>1, <2>4, <4>1
      <3> QED BY <3>1, <3>2
    <2>7. Is(h, k + 1)
      BY <2>1, <2>4, <2>6
    <2> HIDE DEF Is
    <2> QED BY <2>5, <2>7
  <1> HIDE DEF T
  <1>3. n \in T
    BY <1>1, <1>2, Induct
  <1>4. PICK g \in [0..n -> S] : Is(g, n)
    BY <1>3 DEF T
  <1>5. Result(S, base, step, n, g)
    BY <1>4 DEF Result
  <1> QED BY <1>5

-----------------------------------------------------------------------------
(***************************************************************************)
(* Numbers, blocks and pixels.                                             *)
(***************************************************************************)
Row == [Position -> 0..MaxPixel]

LEMMA PairIs ==
  ASSUME NEW a \in Int, NEW b \in Int
  PROVE  /\ Max({a, b}) = IF a >= b THEN a ELSE b
         /\ Min({a, b}) = IF a <= b THEN a ELSE b
  <1>1. \E x \in {a, b} : \A y \in {a, b} : x >= y
    OBVIOUS
  <1>2. \E x \in {a, b} : \A y \in {a, b} : x <= y
    OBVIOUS
  <1>3. Max({a, b}) \in {a, b} /\ \A y \in {a, b} : Max({a, b}) >= y
    BY <1>1 DEF Max
  <1>4. Min({a, b}) \in {a, b} /\ \A y \in {a, b} : Min({a, b}) <= y
    BY <1>2 DEF Min
  <1> QED BY <1>3, <1>4

\* A pixel is brought into its range, and never farther from one in it
\* (lines 377-378).
LEMMA ClampedIs ==
  ASSUME NEW p \in Int
  PROVE  /\ Clamped(p) \in 0..MaxPixel
         /\ \A q \in 0..MaxPixel : Distance(Clamped(p), q) <= Distance(p, q)
  <1>1. MaxPixel \in Nat
    BY VideoAssumption
  <1>2. PICK m \in Int : m = Min({MaxPixel, p}) /\ m = IF MaxPixel <= p THEN MaxPixel ELSE p
    BY <1>1, PairIs
  <1>3. Clamped(p) = IF 0 >= m THEN 0 ELSE m
    BY <1>2, PairIs DEF Clamped
  <1> QED BY <1>1, <1>2, <1>3 DEF Distance

\* Division with a remainder.
LEMMA DivideIs ==
  ASSUME NEW m \in Nat \ {0}, NEW a \in Nat
  PROVE  a \div m \in Nat /\ a % m \in 0..(m - 1) /\ a = m * (a \div m) + (a % m)
  <1>1. PICK r \in 0..(m - 1) : r = a % m
    OBVIOUS
  <1>2. PICK q \in Int : q = a \div m
    OBVIOUS
  <1>3. a = m * q + r
    BY <1>1, <1>2, Z3
  <1>4. a \div m \in Nat
    OBVIOUS
  <1> QED BY <1>1, <1>2, <1>3, <1>4

LEMMA BlocksAre ==
  /\ NumBlocks \in Nat \ {0} /\ Width \in Nat /\ kBlockSize \in Nat \ {0}
  /\ Width = NumBlocks * kBlockSize
  /\ \A k \in 1..NumBlocks : BlockX(k) \in 0..(Width - kBlockSize)
  /\ \A x \in Position :
        /\ BlockAt(x) \in 1..NumBlocks
        /\ x - BlockX(BlockAt(x)) \in 0..(kBlockSize - 1)
  <1> DEFINE b == kBlockSize
             n == NumBlocks
  <1>1. b \in Nat \ {0} /\ Width \in Nat \ {0} /\ Width % b = 0
    BY VideoAssumption
  <1>2. n \in Nat /\ Width = b * n
    <2>2. Width \div b \in Nat /\ Width = b * (Width \div b) + 0
      BY <1>1, DivideIs
    <2>3. \A c, d \in Nat : c * d + 0 = c * d
      BY Z3
    <2> QED BY <1>1, <2>2, <2>3 DEF NumBlocks
  <1> HIDE DEF n, b
  <1>3. n # 0 /\ b * n = n * b
    BY <1>1, <1>2
  <1>4. ASSUME NEW k \in 1..n PROVE BlockX(k) \in 0..(Width - b)
    <2>1. PICK i \in Nat, j \in Nat : k = i + 1 /\ n = (i + j) + 1
      <3>1. k - 1 \in Nat /\ n - k \in Nat /\ k = (k - 1) + 1 /\ n = ((k - 1) + (n - k)) + 1
        BY <1>2
      <3> QED BY <3>1
    <2>2. BlockX(k) = i * b
      BY <2>1 DEF BlockX, b
    <2>3. \A c, d, e \in Nat : e * ((c + d) + 1) = (c * e + d * e) + e /\ c * e \in Nat
      BY Z3
    <2>4. Width = (i * b + j * b) + b /\ i * b \in Nat /\ j * b \in Nat
      BY <1>1, <1>2, <2>1, <2>3
    <2> QED BY <1>1, <2>2, <2>4
  <1>5. ASSUME NEW x \in Position
        PROVE  /\ (x \div b) + 1 \in 1..n
               /\ x - BlockX((x \div b) + 1) \in 0..(b - 1)
    <2>1. x \in Nat /\ x < Width
      BY <1>1, <1>2 DEF Position
    <2>2. /\ x \div b \in Nat /\ x % b \in 0..(b - 1)
          /\ x = b * (x \div b) + (x % b)
      BY <1>1, <2>1, DivideIs
    <2>3. PICK q \in Nat, r \in 0..(b - 1) : q = x \div b /\ x = q * b + r
      <3>1. PICK q \in Nat, r \in 0..(b - 1) : q = x \div b /\ x = b * q + r
        <4>1. PICK q \in Nat : q = x \div b
          BY <2>2
        <4>2. PICK r \in 0..(b - 1) : r = x % b
          BY <2>2
        <4>3. x = b * q + r
          BY <2>2, <4>1, <4>2, Zenon
        <4> QED BY <4>1, <4>3
      <3>2. b * q = q * b
        BY <1>1
      <3> QED BY <3>1, <3>2
    <2>4. q < n
      <3>1. \A c, d, e \in Nat : c >= d => e * d <= c * e
        BY Z3
      <3>2. q * b \in Nat /\ b * n \in Nat
        BY <1>1, <1>2
      <3>3. q >= n => b * n <= q * b
        BY <1>1, <1>2, <3>1
      <3> QED BY <1>1, <1>2, <2>1, <2>3, <3>2, <3>3
    <2>5. BlockX(q + 1) = q * b /\ q * b \in Nat
      <3>1. (q + 1) - 1 = q
        OBVIOUS
      <3> QED BY <1>1, <3>1 DEF BlockX, b
    <2>6. x - BlockX(q + 1) = r
      BY <2>3, <2>5
    <2> QED BY <1>2, <2>3, <2>4, <2>6
  <1> QED BY <1>1, <1>2, <1>3, <1>4, <1>5 DEF n, b, BlockAt

-----------------------------------------------------------------------------
(***************************************************************************)
(* Motion: the search stays inside, and what the decoder makes of the      *)
(* symbols is what was found.                                              *)
(***************************************************************************)
\* A sum of differences is a number (lines 8-32).
LEMMA SadIs ==
  ASSUME NEW curr \in Row, NEW ref \in Row,
         NEW x \in 0..(Width - kBlockSize), NEW y \in 0..(Width - kBlockSize)
  PROVE  compute_sad(curr, ref, x, y) \in Nat
  <1> DEFINE n == kBlockSize
             apart(i) == Distance(curr[x + i - 1], ref[y + i - 1])
             step == [p \in Nat \X Nat |-> IF p[2] \in 1..n THEN p[1] + apart(p[2]) ELSE 0]
  <1>1. n \in Nat \ {0} /\ Width \in Nat /\ MaxPixel \in Nat
    BY VideoAssumption
  <1>2. \A i \in 1..n : apart(i) \in Nat
    <2> SUFFICES ASSUME NEW i \in 1..n PROVE apart(i) \in Nat
      OBVIOUS
    <2>1. x + i - 1 \in Position /\ y + i - 1 \in Position
      BY <1>1 DEF Position
    <2>2. curr[x + i - 1] \in 0..MaxPixel /\ ref[y + i - 1] \in 0..MaxPixel
      BY <2>1 DEF Row
    <2> QED BY <1>1, <2>2 DEF Distance
  <1> HIDE DEF apart, n
  <1>3. Recursion(Nat, 0, step)
    <2>1. step \in [Nat \X Nat -> Nat]
      BY <1>2
    <2> QED BY <2>1 DEF Recursion
  <1>4. PICK g : Result(Nat, 0, step, n, g)
    BY <1>1, <1>3, RecursionIs
  <1>5. g \in [0..n -> Nat] /\ g[0] = 0 /\ \A i \in 1..n : g[i] = g[i - 1] + apart(i)
    <2>1. g \in [0..n -> Nat] /\ g[0] = 0 /\ \A i \in 1..n : g[i] = step[<<g[i - 1], i>>]
      BY <1>4 DEF Result
    <2>2. ASSUME NEW i \in 1..n PROVE g[i] = g[i - 1] + apart(i)
      <3>1. g[i - 1] \in Nat /\ i \in Nat
        BY <1>1, <2>1
      <3>2. g[i] = step[<<g[i - 1], i>>]
        <4> HIDE DEF step
        <4> QED BY <2>1
      <3> QED BY <3>1, <3>2
    <2> QED BY <2>1, <2>2
  <1> HIDE DEF step
  <1> DEFINE sad == CHOOSE f : f = [i \in 0..n |-> IF i = 0 THEN 0 ELSE f[i - 1] + apart(i)]
  <1>6. g = [i \in 0..n |-> IF i = 0 THEN 0 ELSE g[i - 1] + apart(i)]
    <2>1. \A i \in 0..n : i = 0 \/ i \in 1..n
      BY <1>1
    <2> QED BY <1>5, <2>1
  <1>7. sad = [i \in 0..n |-> IF i = 0 THEN 0 ELSE sad[i - 1] + apart(i)]
    BY <1>6, Zenon
  <1>8. compute_sad(curr, ref, x, y) = sad[n]
    BY DEF compute_sad, apart, n
  <1> HIDE DEF sad
  <1>9. \A i \in 0..n : sad[i] = IF i = 0 THEN 0 ELSE sad[i - 1] + apart(i)
    BY <1>7, Zenon
  <1> DEFINE T == {i \in Nat : i <= n => sad[i] \in Nat}
  <1>10. 0 \in T
    BY <1>1, <1>9
  <1>11. ASSUME NEW i \in Nat, i \in T PROVE i + 1 \in T
    <2> SUFFICES ASSUME i + 1 <= n PROVE sad[i + 1] \in Nat
      OBVIOUS
    <2>1. i + 1 \in 0..n /\ i + 1 # 0 /\ i + 1 \in 1..n /\ (i + 1) - 1 = i /\ i <= n
      BY <1>1
    <2>2. sad[i] \in Nat /\ apart(i + 1) \in Nat
      BY <1>2, <1>11, <2>1
    <2> QED BY <1>9, <2>1, <2>2
  <1> HIDE DEF T
  <1>12. n \in T
    BY <1>1, <1>10, <1>11, Induct
  <1> QED BY <1>8, <1>12, <1>1 DEF T

LEMMA MovesAre ==
  ASSUME NEW x \in 0..(Width - kBlockSize), NEW window \in Int
  PROVE  \E lo \in Int, hi \in Int :
            /\ Moves(x, window) = lo..hi
            /\ \A dx \in lo..hi : /\ dx \in (-window)..window
                                  /\ x + dx \in 0..(Width - kBlockSize)
  <1>1. Width \in Nat /\ kBlockSize \in Nat
    BY VideoAssumption
  <1> DEFINE room == (Width - x) - kBlockSize
             lo == IF -window >= -x THEN -window ELSE -x
             hi == IF window <= room THEN window ELSE room
  <1>2. Width - x - kBlockSize = room /\ room \in Nat
    BY <1>1
  <1>3. Max({-window, -x}) = lo
    BY <1>1, PairIs
  <1>4. Min({window, room}) = hi
    <2>1. window \in Int /\ room \in Int
      BY <1>1, <1>2
    <2> HIDE DEF room
    <2> QED BY <2>1, PairIs
  <1>5. Moves(x, window) = lo..hi
    BY <1>2, <1>3, <1>4 DEF Moves
  <1>6. /\ lo \in Int /\ hi \in Int
        /\ \A dx \in lo..hi : /\ dx \in (-window)..window
                              /\ x + dx \in 0..(Width - kBlockSize)
    BY <1>1, <1>2
  <1> HIDE DEF lo, hi
  <1> QED BY <1>5, <1>6

\* A set of numbers from a range has a least one.
LEMMA LeastMove ==
  ASSUME NEW lo \in Int, NEW hi \in Int, NEW S \in SUBSET (lo..hi), S # {}
  PROVE  Min(S) \in S
  <1> DEFINE T == {k \in Nat : lo + k \in S}
  <1>1. T \in SUBSET Nat /\ T # {}
    <2>1. PICK s \in S : TRUE
      OBVIOUS
    <2>2. s \in lo..hi
      BY <2>1
    <2>3. s - lo \in Nat /\ lo + (s - lo) = s
      BY <2>2
    <2>4. s - lo \in T
      BY <2>1, <2>3
    <2> QED BY <2>4
  <1>2. PICK m \in T : \A k \in T : m <= k
    <2> HIDE DEF T
    <2> QED BY <1>1, Least
  <1>3. lo + m \in S /\ \A y \in S : lo + m <= y
    <2>1. \A y \in S : y - lo \in Nat /\ lo + (y - lo) = y
      OBVIOUS
    <2>2. \A y \in S : m <= y - lo
      BY <1>2, <2>1
    <2> QED BY <1>2, <2>2
  <1>4. \E x \in S : \A y \in S : x <= y
    BY <1>3
  <1> QED BY <1>4 DEF Min

\* What a component of a vector can say.
Component == -(MvValues \div 2)..(MvValues \div 2 - 1)

\* A number is narrowed to a component, and a component to itself.
LEMMA SignedIs ==
  ASSUME NEW v \in Int
  PROVE  Signed(v) \in Component /\ (v \in Component => Signed(v) = v)
  <1>1. PICK h \in Nat : MvValues \div 2 = h /\ MvValues = 2 * h /\ h # 0
    <2>1. MvValues \in Nat \ {0} /\ MvValues % 2 = 0
      BY VideoAssumption
    <2> QED BY <2>1
  <1>2. PICK m \in Nat \ {0} : m = 2 * h
    BY <1>1
  <1>3. Signed(v) = ((v + h) % m) - h
    BY <1>1, <1>2 DEF Signed
  <1>4. PICK r \in 0..(m - 1) : r = (v + h) % m
    BY <1>2
  <1>5. v + h \in 0..(m - 1) => r = v + h
    BY <1>2, <1>4
  <1> QED BY <1>1, <1>2, <1>3, <1>4, <1>5 DEF Component

\* Some move has the least difference, if there is one (lines 52-62); a window
\* that fits a component loses nothing.
LEMMA SearchFinds ==
  ASSUME NEW curr \in Row, NEW ref \in Row, NEW x \in 0..(Width - kBlockSize),
         NEW window \in Int
  PROVE  LET v == find_best_motion_vector(curr, ref, x, window)
         IN  /\ v \in Component
             /\ window < MvValues \div 2 => x + v \in 0..(Width - kBlockSize)
  <1> DEFINE Sad(dx) == compute_sad(curr, ref, x, x + dx)
             moves == Moves(x, window)
             best == {dx \in moves : \A other \in moves : Sad(dx) <= Sad(other)}
             sums == {Sad(dx) : dx \in moves}
             v == find_best_motion_vector(curr, ref, x, window)
  <1>1. PICK lo \in Int, hi \in Int :
            /\ moves = lo..hi
            /\ \A dx \in lo..hi : /\ dx \in (-window)..window
                                  /\ x + dx \in 0..(Width - kBlockSize)
    BY MovesAre
  <1>2. \A dx \in moves : Sad(dx) \in Nat
    BY <1>1, SadIs
  <1>3. v = IF moves = {} THEN 0 ELSE Signed(Min(best))
    BY DEF find_best_motion_vector
  <1>4. PICK h \in Nat : MvValues \div 2 = h /\ h # 0
    <2>1. MvValues \in Nat \ {0} /\ MvValues % 2 = 0
      BY VideoAssumption
    <2> QED BY <2>1
  <1> HIDE DEF Sad, moves, v
  <1>5. CASE moves = {}
    <2>1. v = 0 /\ x \in Int
      BY <1>3, <1>5, BlocksAre
    <2> QED BY <1>4, <2>1 DEF Component, v
  <1>6. CASE moves # {}
    <2>1. sums \in SUBSET Nat /\ sums # {}
      BY <1>2, <1>6
    <2>2. PICK m \in sums : \A k \in sums : m <= k
      <3> HIDE DEF sums
      <3> QED BY <2>1, Least
    <2>3. PICK dx \in moves : Sad(dx) = m
      BY <2>2
    <2>4. best # {}
      BY <2>2, <2>3
    <2>5. best \in SUBSET (lo..hi)
      BY <1>1
    <2> HIDE DEF best
    <2>6. PICK d \in lo..hi : d = Min(best)
      BY <2>4, <2>5, LeastMove
    <2>7. d \in (-window)..window /\ x + d \in 0..(Width - kBlockSize) /\ d \in Int
      BY <1>1, <2>6
    <2>8. v = Signed(d)
      BY <1>3, <1>6, <2>6
    <2>9. v \in Component
      BY <2>7, <2>8, SignedIs
    <2>10. ASSUME window < h PROVE v = d
      <3>1. d \in Component
        BY <1>4, <2>7, <2>10 DEF Component
      <3> QED BY <2>7, <2>8, <3>1, SignedIs
    <2>11. window < MvValues \div 2 => x + v \in 0..(Width - kBlockSize)
      BY <1>4, <2>7, <2>10
    <2> QED BY <2>9, <2>11 DEF v
  <1> QED BY <1>5, <1>6

LEMMA MotionIs ==
  ASSUME NEW curr \in Row, NEW ref \in Row, NEW window \in Int
  PROVE  /\ Motion(curr, ref, window) \in [1..NumBlocks -> Component]
         /\ window < MvValues \div 2 =>
               \A k \in 1..NumBlocks : StaysInside(k, Motion(curr, ref, window)[k])
  <1>1. ASSUME NEW k \in 1..NumBlocks
        PROVE  LET v == find_best_motion_vector(curr, ref, BlockX(k), window)
               IN  /\ v \in Component
                   /\ window < MvValues \div 2 => StaysInside(k, v)
    <2> DEFINE x == BlockX(k)
               v == find_best_motion_vector(curr, ref, x, window)
    <2>1. x \in 0..(Width - kBlockSize)
      BY BlocksAre
    <2> HIDE DEF x
    <2>2. v \in Component /\ (window < MvValues \div 2 => x + v \in 0..(Width - kBlockSize))
      BY <2>1, SearchFinds
    <2> HIDE DEF v
    <2> QED BY <2>2 DEF v, x, StaysInside
  <1> QED BY <1>1 DEF Motion

\* The difference wraps around, and the sum wraps back (lines 151-153, 317-320).
LEMMA SignedBack ==
  ASSUME NEW v \in Int, -(MvValues \div 2) <= v, v < MvValues \div 2, NEW prev \in Int
  PROVE  Signed(prev + unmap_uint16_to_int8(map_int8_to_uint16(Signed(v - prev)))) = v
  <1>1. PICK h \in Nat : MvValues \div 2 = h /\ MvValues = 2 * h /\ h # 0
    <2>1. MvValues \in Nat \ {0} /\ MvValues % 2 = 0
      BY VideoAssumption
    <2> QED BY <2>1
  <1> DEFINE m == 2 * h
             d == Signed(v - prev)
  <1>2. m \in Nat \ {0}
    BY <1>1
  <1>3. PICK q \in Int, r \in 0..(m - 1) : (v - prev) + h = m * q + r /\ d = r - h
    <2> DEFINE a == (v - prev) + h
    <2>1. a \in Int /\ d = (a % m) - h
      BY <1>1 DEF Signed
    <2> HIDE DEF a, d, m
    <2>2. PICK q \in Int, r \in 0..(m - 1) : q = a \div m /\ r = a % m
      BY <1>2, <2>1
    <2>3. a = m * q + r
      BY <1>2, <2>1, <2>2, Z3
    <2> QED BY <2>1, <2>2, <2>3 DEF a
  <1> HIDE DEF d
  <1>4. d \in Int
    BY <1>2, <1>3
  <1>5. unmap_uint16_to_int8(map_int8_to_uint16(d)) = d
    <2>1. CASE d >= 0
      <3>1. map_int8_to_uint16(d) = 2 * d
        BY <2>1 DEF map_int8_to_uint16
      <3>2. (2 * d) % 2 = 0 /\ (2 * d) \div 2 = d
        BY <1>4
      <3> QED BY <3>1, <3>2 DEF unmap_uint16_to_int8
    <2>2. CASE ~(d >= 0)
      <3>1. PICK e \in Nat : d = -e
        <4>1. -d \in Nat /\ d = -(-d)
          BY <1>4, <2>2
        <4> QED BY <4>1
      <3>2. PICK u \in Int : u = map_int8_to_uint16(d) /\ u = 2 * e - 1
        BY <2>2, <3>1 DEF map_int8_to_uint16
      <3>3. u % 2 # 0 /\ u + 1 = 2 * e /\ (2 * e) \div 2 = e
        BY <3>2
      <3> QED BY <3>1, <3>2, <3>3 DEF unmap_uint16_to_int8
    <2> QED BY <2>1, <2>2
  <1>6. Signed(prev + d) = v
    <2> DEFINE a == (prev + d) + h
    <2>1. Signed(prev + d) = (a % m) - h
      BY <1>1 DEF Signed
    <2>2. a = (v + h) + m * (-q)
      <3>1. m * (-q) = -(m * q) /\ m * q \in Int
        BY <1>2
      <3> HIDE DEF m
      <3> QED BY <1>3, <1>4, <3>1
    <2>3. v + h \in 0..(m - 1)
      BY <1>1
    <2>4. \A b \in 0..(m - 1), k \in Int : (b + m * k) % m = b
      <3> HIDE DEF m
      <3> QED BY <1>2
    <2>5. a % m = v + h
      <3> HIDE DEF m, a
      <3> QED BY <2>2, <2>3, <2>4
    <2> QED BY <1>1, <2>1, <2>5
  <1> QED BY <1>5, <1>6 DEF d

\* The decoder's recursion has one outcome.
Decodes(n, symbols, mv) ==
    /\ DOMAIN symbols = 1..n
    /\ mv = [k \in 1..n |-> Signed((IF k = 1 THEN 0 ELSE mv[k - 1])
                                   + unmap_uint16_to_int8(symbols[k]))]

LEMMA DecodedIs ==
  ASSUME NEW n \in Nat, NEW symbols, NEW mv, Decodes(n, symbols, mv)
  PROVE  DecodedMotion(symbols) = mv
  <1> USE DEF Decodes
  <1> DEFINE next(before, k) == Signed((IF k = 1 THEN 0 ELSE before)
                                       + unmap_uint16_to_int8(symbols[k]))
             out == CHOOSE f : f = [k \in DOMAIN symbols |->
                        Signed((IF k = 1 THEN 0 ELSE f[k - 1])
                               + unmap_uint16_to_int8(symbols[k]))]
  <1>1. out = [k \in 1..n |-> Signed((IF k = 1 THEN 0 ELSE out[k - 1])
                                     + unmap_uint16_to_int8(symbols[k]))]
    BY Zenon
  <1>2. DecodedMotion(symbols) = out
    BY DEF DecodedMotion
  <1> HIDE DEF out
  <1>3. \A f : f = [k \in 1..n |-> Signed((IF k = 1 THEN 0 ELSE f[k - 1])
                                          + unmap_uint16_to_int8(symbols[k]))]
          => /\ DOMAIN f = 1..n
             /\ \A k \in 1..n : f[k] = IF k = 1 THEN Signed(0 + unmap_uint16_to_int8(symbols[k]))
                                       ELSE next(f[k - 1], k)
    <2> SUFFICES ASSUME NEW f, f = [k \in 1..n |-> Signed((IF k = 1 THEN 0 ELSE f[k - 1])
                                          + unmap_uint16_to_int8(symbols[k]))],
                        NEW k \in 1..n
                 PROVE  f[k] = IF k = 1 THEN Signed(0 + unmap_uint16_to_int8(symbols[k]))
                               ELSE next(f[k - 1], k)
      BY Zenon
    <2>1. f[k] = Signed((IF k = 1 THEN 0 ELSE f[k - 1]) + unmap_uint16_to_int8(symbols[k]))
      BY Zenon
    <2>2. CASE k = 1
      BY <2>1, <2>2, Zenon
    <2>3. CASE k # 1
      BY <2>1, <2>3, Zenon
    <2> QED BY <2>2, <2>3
  <1> HIDE DEF next
  <1>4. /\ DOMAIN mv = 1..n /\ DOMAIN out = 1..n
        /\ \A k \in 1..n : k # 1 => mv[k] = next(mv[k - 1], k) /\ out[k] = next(out[k - 1], k)
        /\ 1 \in 1..n => mv[1] = out[1]
    <2>1. /\ DOMAIN mv = 1..n
          /\ \A k \in 1..n : mv[k] = IF k = 1 THEN Signed(0 + unmap_uint16_to_int8(symbols[k]))
                                     ELSE next(mv[k - 1], k)
      BY <1>3, Zenon
    <2>2. /\ DOMAIN out = 1..n
          /\ \A k \in 1..n : out[k] = IF k = 1 THEN Signed(0 + unmap_uint16_to_int8(symbols[k]))
                                      ELSE next(out[k - 1], k)
      BY <1>1, <1>3, Zenon
    <2> QED BY <2>1, <2>2, Zenon
  <1> DEFINE T == {k \in Nat : k \in 1..n => mv[k] = out[k]}
  <1>5. 0 \in T
    OBVIOUS
  <1>6. ASSUME NEW k \in Nat, k \in T PROVE k + 1 \in T
    <2> SUFFICES ASSUME k + 1 \in 1..n PROVE mv[k + 1] = out[k + 1]
      OBVIOUS
    <2>1. CASE k = 0
      BY <1>4, <2>1
    <2>2. CASE k # 0
      <3>1. k \in 1..n /\ k + 1 # 1 /\ (k + 1) - 1 = k
        BY <2>2
      <3> QED BY <1>4, <1>6, <3>1
    <2> QED BY <2>1, <2>2
  <1> HIDE DEF T
  <1>7. \A k \in Nat : k \in T
    BY <1>5, <1>6, Induct
  <1>8. \A k \in 1..n : mv[k] = out[k]
    <2> SUFFICES ASSUME NEW k \in 1..n PROVE mv[k] = out[k]
      OBVIOUS
    <2>1. k \in T
      BY <1>7
    <2> QED BY <2>1 DEF T
  <1>9. mv = [k \in 1..n |-> mv[k]] /\ out = [k \in 1..n |-> out[k]]
    BY <1>1, Zenon
  <1> QED BY <1>2, <1>8, <1>9

\* The motion symbols that the decoder gets of a motion.
Got(motion, step) ==
    [k \in 1..Min({step + 1, NumBlocks}) |->
        IF k = step + 1 THEN EndMarker ELSE MotionSymbols(motion)[k]]

LEMMA MotionReceivedIs ==
  ASSUME NEW c, NEW motion, NEW step,
         c.good = step, c.symbols = MotionSymbols(motion), Len(c.symbols) = NumBlocks
  PROVE  MotionReceived(c) = Got(motion, step)
  BY Zenon DEF MotionReceived, Got

\* A motion within the range of its vectors comes back from its symbols, up to
\* the first full block.
LEMMA MotionBack ==
  ASSUME NEW motion \in [1..NumBlocks -> Component], NEW step \in 1..NumBlocks
  PROVE  /\ MotionSymbols(motion) \in [1..NumBlocks -> Int]
         /\ \A k \in 1..step : k \in DOMAIN DecodedMotion(Got(motion, step))
                               /\ DecodedMotion(Got(motion, step))[k] = motion[k]
         /\ DOMAIN DecodedMotion(Got(motion, step)) \subseteq 1..NumBlocks
  <1> DEFINE n == NumBlocks
             symbols == MotionSymbols(motion)
             prev(k) == IF k = 1 THEN 0 ELSE motion[k - 1]
             h == MvValues \div 2
             got == Got(motion, step)
  <1>1. n \in Nat
    BY BlocksAre
  <1>2. h \in Int
    <2>1. MvValues \in Nat
      BY VideoAssumption
    <2> QED BY <2>1
  <1> HIDE DEF n, h
  <1>3. \A k \in 1..n : motion[k] \in Component
    BY DEF n
  <1>4. \A v \in Component : v \in Int /\ -h <= v /\ v < h
    BY <1>2 DEF Component, h
  <1>5. \A k \in 1..n : prev(k) \in Int /\ motion[k] \in Int
                        /\ -h <= motion[k] /\ motion[k] < h
    <2> SUFFICES ASSUME NEW k \in 1..n
                 PROVE  prev(k) \in Int /\ motion[k] \in Int
                        /\ -h <= motion[k] /\ motion[k] < h
      OBVIOUS
    <2>1. k = 1 \/ k - 1 \in 1..n
      BY <1>1
    <2> QED BY <1>3, <1>4, <2>1
  <1> HIDE DEF prev
  <1>6. symbols = [k \in 1..n |-> map_int8_to_uint16(Signed(motion[k] - prev(k)))]
    <2>1. DOMAIN motion = 1..n
      BY DEF n
    <2> QED BY <2>1 DEF MotionSymbols, MotionDelta, prev
  <1>7. symbols \in [1..n -> Int]
    <2>1. \A v \in Int : Signed(v) \in Int
      BY <1>4, SignedIs
    <2>2. \A v \in Int : map_int8_to_uint16(v) \in Int
      BY DEF map_int8_to_uint16
    <2>3. \A k \in 1..n : map_int8_to_uint16(Signed(motion[k] - prev(k))) \in Int
      <3> SUFFICES ASSUME NEW k \in 1..n
                   PROVE  map_int8_to_uint16(Signed(motion[k] - prev(k))) \in Int
        OBVIOUS
      <3>1. PICK v \in Int : v = motion[k] - prev(k)
        BY <1>5
      <3>2. Signed(v) \in Int
        BY <2>1
      <3>3. map_int8_to_uint16(Signed(v)) \in Int
        BY <2>2, <3>2
      <3> QED BY <3>1, <3>3
    <2> QED BY <1>6, <2>3
  <1> HIDE DEF symbols
  <1>8. \A k \in 1..n :
            Signed(prev(k) + unmap_uint16_to_int8(symbols[k])) = motion[k]
    <2> SUFFICES ASSUME NEW k \in 1..n
                 PROVE  Signed(prev(k) + unmap_uint16_to_int8(symbols[k])) = motion[k]
      OBVIOUS
    <2>1. symbols[k] = map_int8_to_uint16(Signed(motion[k] - prev(k)))
      BY <1>6
    <2>2. prev(k) \in Int /\ motion[k] \in Int /\ -h <= motion[k] /\ motion[k] < h
      BY <1>5
    <2> QED BY <2>1, <2>2, SignedBack DEF h
  <1>9. PICK m \in Nat : m = Min({step + 1, n}) /\ step <= m /\ m <= n /\ m <= step + 1
    <2>1. step \in 1..n
      BY DEF n
    <2>2. PICK s \in Nat : s = step + 1
      BY <1>1, <2>1
    <2>3. Min({s, n}) = IF s <= n THEN s ELSE n
      <3>1. s \in Int /\ n \in Int
        BY <1>1
      <3> QED BY <3>1, PairIs
    <2>4. {s, n} = {step + 1, n}
      BY <2>2
    <2>5. Min({step + 1, n}) = IF s <= n THEN s ELSE n
      BY <2>3, <2>4, Zenon
    <2> QED BY <1>1, <2>1, <2>2, <2>5
  <1>10. /\ DOMAIN got = 1..m
         /\ \A k \in 1..m : got[k] = IF k = step + 1 THEN EndMarker ELSE symbols[k]
    BY <1>9 DEF n, symbols, Got
  <1> HIDE DEF got
  <1> DEFINE Wild == Signed(motion[step] + unmap_uint16_to_int8(EndMarker))
             mv == [k \in 1..m |-> IF k = step + 1 THEN Wild ELSE motion[k]]
             Follow(k) == Signed((IF k = 1 THEN 0 ELSE mv[k - 1]) + unmap_uint16_to_int8(got[k]))
  <1>11. ASSUME NEW k \in 1..m PROVE mv[k] = Follow(k)
    <2>1. step \in Nat /\ step # 0 /\ k \in Nat /\ k # 0
      BY <1>1, <1>9
    <2>2. CASE k = step + 1
      <3>1. k # 1 /\ k - 1 = step /\ k - 1 # step + 1 /\ k - 1 \in 1..m
        BY <1>9, <2>1, <2>2
      <3>2. mv[k - 1] = motion[step] /\ mv[k] = Wild
        BY <2>2, <3>1
      <3>3. got[k] = EndMarker
        BY <1>10, <2>2
      <3> QED BY <3>1, <3>2, <3>3
    <2>3. CASE k # step + 1
      <3>1. k \in 1..n /\ k <= step
        BY <1>1, <1>9, <2>1, <2>3
      <3>2. mv[k] = motion[k] /\ got[k] = symbols[k]
        BY <1>10, <2>3
      <3>3. (IF k = 1 THEN 0 ELSE mv[k - 1]) = prev(k)
        <4>1. k # 1 => k - 1 \in 1..m /\ k - 1 # step + 1
          BY <1>9, <2>1, <3>1
        <4> QED BY <4>1 DEF prev
      <3>4. Signed(prev(k) + unmap_uint16_to_int8(symbols[k])) = motion[k]
        BY <1>8, <3>1
      <3> HIDE DEF mv
      <3> QED BY <3>2, <3>3, <3>4
    <2> QED BY <2>2, <2>3
  <1>12. mv = [k \in 1..m |-> mv[k]]
    OBVIOUS
  <1>13. /\ DOMAIN mv = 1..m
         /\ \A k \in 1..step : k \in 1..m /\ mv[k] = motion[k]
    BY <1>9
  <1> HIDE DEF mv
  <1>14. mv = [k \in 1..m |-> Follow(k)]
    BY <1>11, <1>12, Zenon
  <1>15. Decodes(m, got, mv)
    BY <1>10, <1>14 DEF Decodes
  <1>16. DecodedMotion(got) = mv
    BY <1>9, <1>15, DecodedIs
  <1>17. 1..m \subseteq 1..n
    BY <1>1, <1>9
  <1> QED BY <1>7, <1>13, <1>16, <1>17 DEF n, symbols, got

-----------------------------------------------------------------------------
(***************************************************************************)
(* What a coded frame is, and what the decoder makes of it.                *)
(***************************************************************************)
Coded == [type : {"I", "P"}, intra : BOOLEAN, frame : Row, window : Int, motion : Seq(Int),
          symbols : Seq(Int), pixels : [Position -> Int], good : 1..NumBlocks]

Buffer == [ref : Row, has : BOOLEAN]

\* What it is of each block, and whether the decoder has it.
Vectors(c) == DecodedMotion(MotionReceived(c))

Moved(c) ==
    /\ \A k \in DOMAIN Vectors(c) :
          k <= c.good => /\ Vectors(c)[k] = c.motion[k]
                         /\ c.window < MvValues \div 2 => StaysInside(k, Vectors(c)[k])
    /\ ~c.intra => \A k \in 1..c.good : k \in DOMAIN Vectors(c)

\* The pixels are the frame, or what is left of it beside the prediction from
\* the frame before, with the error of the quantiser.
Made(c, prev) ==
    /\ Moved(c)
    /\ c.intra => \E error \in -Loss..Loss :
                     \A x \in Position : c.pixels[x] = c.frame[x] + error
    /\ ~c.intra => /\ DOMAIN c.motion = 1..NumBlocks
                   /\ \E error \in -Loss..Loss, other \in Frames :
                         \A x \in Position :
                            c.pixels[x] = (c.frame[x] - Compensated(prev, c.motion, other, x))
                                          + error

\* A prediction takes its pixels from the reference, or from anywhere.
LEMMA CompensatedIs ==
  ASSUME NEW ref \in Row, NEW motion, NEW other \in Row, NEW x \in Position
  PROVE  Compensated(ref, motion, other, x) \in 0..MaxPixel
  BY DEF Compensated, Row

\* Of a block that stays in the frame, from the same place of any reference.
LEMMA InsideIs ==
  ASSUME NEW motion \in Seq(Int), DOMAIN motion = 1..NumBlocks, NEW x \in Position,
         StaysInside(BlockAt(x), motion[BlockAt(x)])
  PROVE  \E y \in Position : \A ref, other : Compensated(ref, motion, other, x) = ref[y]
  <1>1. PICK k \in 1..NumBlocks : k = BlockAt(x) /\ x - BlockX(k) \in 0..(kBlockSize - 1)
    BY BlocksAre
  <1>2. PICK v \in Int, b \in Int : v = motion[k] /\ b = BlockX(k)
    <2>1. motion[k] \in Int
      BY <1>1, ElementOfSeq, LenProperties
    <2>2. BlockX(k) \in Int
      BY BlocksAre
    <2> QED BY <2>1, <2>2
  <1>3. b + v \in 0..(Width - kBlockSize) /\ x - b \in 0..(kBlockSize - 1)
        /\ Width \in Nat /\ kBlockSize \in Nat \ {0} /\ x \in Int
    <2>1. Width \in Nat /\ kBlockSize \in Nat \ {0}
      BY BlocksAre
    <2>2. b + v \in 0..(Width - kBlockSize) /\ x - b \in 0..(kBlockSize - 1)
      BY <1>1, <1>2 DEF StaysInside
    <2>3. x \in Int
      BY <2>1 DEF Position
    <2> QED BY <2>1, <2>2, <2>3
  <1>4. PICK y \in Position : y = x + v
    BY <1>3 DEF Position
  <1>5. \A r, o : Compensated(r, motion, o, x) = r[y]
    BY <1>1, <1>2, <1>4 DEF Compensated
  <1> QED BY <1>5

\* The blocks up to the first full one.
LEMMA InStepIs ==
  ASSUME NEW pixels
  PROVE  InStep(pixels) \subseteq 1..NumBlocks
  BY BlocksAre DEF InStep

\* A sequence without elements has no motion.
LEMMA NoMotion ==
  ASSUME NEW c, c.symbols = <<>>, NEW g \in Nat, c.good = g
  PROVE  DOMAIN DecodedMotion(MotionReceived(c)) = {}
  <1> DEFINE got == MotionReceived(c)
  <1>1. Len(c.symbols) = 0 /\ 1..0 = {}
    OBVIOUS
  <1>2. DOMAIN got = 1..0
    <2>1. PICK s \in Nat : s = g + 1
      OBVIOUS
    <2>2. Min({s, 0}) = 0
      <3>1. PICK z \in Int : z = 0
        OBVIOUS
      <3>2. s \in Int /\ 0 <= s
        OBVIOUS
      <3>3. Min({s, z}) = IF s <= z THEN s ELSE z
        BY <3>1, <3>2, PairIs
      <3>4. Min({s, z}) = z
        BY <3>1, <3>2, <3>3
      <3> QED BY <3>1, <3>4, Zenon
    <2>3. DOMAIN got = 1..Min({c.good + 1, Len(c.symbols)})
      BY Zenon DEF MotionReceived
    <2> QED BY <1>1, <2>1, <2>2, <2>3, Zenon
  <1> HIDE DEF got
  <1> DEFINE mv == [k \in 1..0 |-> 0]
             f == [k \in 1..0 |-> Signed((IF k = 1 THEN 0 ELSE mv[k - 1])
                                         + unmap_uint16_to_int8(got[k]))]
  <1>3. mv = f
    <2>1. \A k \in 1..0 : FALSE
      BY <1>1
    <2> QED BY <2>1, Zenon
  <1>4. DOMAIN mv = {}
    BY <1>1
  <1> HIDE DEF mv
  <1>5. Decodes(0, got, mv)
    BY <1>2, <1>3 DEF Decodes
  <1>6. DecodedMotion(got) = mv
    BY <1>5, DecodedIs
  <1> QED BY <1>4, <1>6 DEF got

\* The pixels and the coded frame that encode_frame makes (lines 107-249).
Rest(type, window, frame, other, error) ==
    [x \in Position |->
        frame[x] - (IF EncodesIntra(type, enc) THEN 0
                    ELSE Compensated(enc.ref, Motion(frame, enc.ref, window), other, x)) + error]

CodedFrame(type, window, frame, pixels, step) ==
    LET motion == Motion(frame, enc.ref, window)
        intra  == EncodesIntra(type, enc)
    IN  [type |-> type, intra |-> intra, frame |-> frame,
         window |-> IF intra THEN 0 ELSE window,
         motion |-> IF intra THEN <<>> ELSE motion,
         symbols |-> IF intra THEN <<>> ELSE MotionSymbols(motion),
         pixels |-> pixels, good |-> step]

IsCoded(c, type, window, frame, pixels) ==
    /\ c \in Coded /\ Moved(c)
    /\ c.type = type /\ c.frame = frame /\ c.pixels = pixels
    /\ c.intra = EncodesIntra(type, enc)
    /\ ~c.intra => /\ c.motion = Motion(frame, enc.ref, window)
                   /\ DOMAIN c.motion = 1..NumBlocks

\* Any row of numbers is the pixels of a coded frame.
LEMMA CodedIs ==
  ASSUME NEW type \in {"I", "P"}, NEW window \in Int, NEW frame \in Row, enc \in Buffer,
         NEW pixels \in [Position -> Int], NEW step \in 1..NumBlocks, NEW c,
         c = CodedFrame(type, window, frame, pixels, step)
  PROVE  IsCoded(c, type, window, frame, pixels)
  <1> DEFINE motion == Motion(frame, enc.ref, window)
             symbols == MotionSymbols(motion)
  <1>1. enc.ref \in Row /\ EncodesIntra(type, enc) \in BOOLEAN
    BY DEF Buffer, EncodesIntra
  <1>2. /\ motion \in [1..NumBlocks -> Component]
        /\ window < MvValues \div 2 => \A k \in 1..NumBlocks : StaysInside(k, motion[k])
    BY <1>1, MotionIs
  <1>3. /\ c.type = type /\ c.frame = frame /\ c.pixels = pixels /\ c.good = step
        /\ c.intra = EncodesIntra(type, enc)
        /\ c.window = (IF EncodesIntra(type, enc) THEN 0 ELSE window)
        /\ c.motion = (IF EncodesIntra(type, enc) THEN <<>> ELSE motion)
        /\ c.symbols = (IF EncodesIntra(type, enc) THEN <<>> ELSE symbols)
        /\ c = [type |-> c.type, intra |-> c.intra, frame |-> c.frame, window |-> c.window,
                motion |-> c.motion, symbols |-> c.symbols, pixels |-> c.pixels,
                good |-> c.good]
    BY DEF CodedFrame
  <1> HIDE DEF motion
  <1>4. PICK got : got = Got(motion, step)
    OBVIOUS
  <1>5. /\ symbols \in [1..NumBlocks -> Int]
        /\ \A k \in 1..step : k \in DOMAIN DecodedMotion(got)
                              /\ DecodedMotion(got)[k] = motion[k]
        /\ DOMAIN DecodedMotion(got) \subseteq 1..NumBlocks
    BY <1>2, <1>4, MotionBack
  <1> HIDE DEF symbols
  <1>6. NumBlocks \in Nat /\ step \in Nat
    BY BlocksAre
  <1>7. motion \in Seq(Int) /\ symbols \in Seq(Int) /\ DOMAIN motion = 1..NumBlocks
        /\ Len(symbols) = NumBlocks
    <2>1. MvValues \in Nat
      BY VideoAssumption
    <2>2. Component \subseteq Int
      BY <2>1 DEF Component
    <2>3. motion \in [1..NumBlocks -> Int]
      BY <1>2, <2>2
    <2> QED BY <1>5, <1>6, <2>3, SeqDef, LenProperties
  <1>8. CASE EncodesIntra(type, enc)
    <2>1. c.intra = TRUE /\ c.window = 0 /\ c.motion = <<>> /\ c.symbols = <<>>
      BY <1>3, <1>8
    <2>2. c \in Coded
      <3>1. <<>> \in Seq(Int) /\ 0 \in Int
        OBVIOUS
      <3> QED BY <1>3, <2>1, <3>1 DEF Coded
    <2>3. DOMAIN DecodedMotion(MotionReceived(c)) = {}
      BY <1>3, <1>6, <2>1, NoMotion
    <2>4. Moved(c)
      BY <2>1, <2>3 DEF Moved, Vectors
    <2> QED BY <1>3, <2>1, <2>2, <2>4 DEF IsCoded
  <1>9. CASE ~EncodesIntra(type, enc)
    <2>1. c.intra = FALSE /\ c.window = window /\ c.motion = motion /\ c.symbols = symbols
      BY <1>1, <1>3, <1>9
    <2>2. c \in Coded
      BY <1>3, <1>7, <2>1 DEF Coded
    <2>3. MotionReceived(c) = got
      <3>1. c.good = step /\ c.symbols = MotionSymbols(motion) /\ Len(c.symbols) = NumBlocks
        BY <1>3, <1>7, <2>1 DEF symbols
      <3> QED BY <1>4, <3>1, MotionReceivedIs
    <2>4. Moved(c)
      <3>1. ASSUME NEW k \in DOMAIN DecodedMotion(got), k <= step
            PROVE  k \in 1..step /\ k \in 1..NumBlocks
        BY <1>5, <1>6, <3>1
      <3>2. ASSUME NEW k \in DOMAIN DecodedMotion(got), k <= step
            PROVE  /\ DecodedMotion(got)[k] = motion[k]
                   /\ window < MvValues \div 2 => StaysInside(k, DecodedMotion(got)[k])
        BY <1>2, <1>5, <3>1, <3>2
      <3>3. \A k \in 1..step : k \in DOMAIN DecodedMotion(got)
        BY <1>5
      <3> QED BY <1>3, <2>1, <2>3, <3>2, <3>3 DEF Moved, Vectors
    <2> QED BY <1>3, <1>7, <2>1, <2>2, <2>4 DEF motion, IsCoded
  <1> QED BY <1>8, <1>9

LEMMA EncodedIs ==
  ASSUME NEW type \in {"I", "P"}, NEW window \in Int, NEW frame \in Frames, enc \in Buffer,
         NEW other \in Frames, NEW error \in -Loss..Loss, NEW step,
         step \in InStep(Rest(type, window, frame, other, error)), NEW c,
         c = CodedFrame(type, window, frame, Rest(type, window, frame, other, error), step)
  PROVE  /\ c \in Coded /\ Made(c, enc.ref)
         /\ c.type = type /\ c.frame = frame /\ c.intra = EncodesIntra(type, enc)
  <1> DEFINE pixels == Rest(type, window, frame, other, error)
             pred(x) == Compensated(enc.ref, Motion(frame, enc.ref, window), other, x)
  <1>1. frame \in Row /\ enc.ref \in Row /\ other \in Row /\ MaxPixel \in Nat
        /\ error \in Int
    BY VideoAssumption DEF Row, Position, Buffer
  <1>2. \A x \in Position : pred(x) \in Int /\ frame[x] \in Int
    <2>1. \A x \in Position : pred(x) \in 0..MaxPixel /\ frame[x] \in 0..MaxPixel
      BY <1>1, CompensatedIs DEF Row
    <2> QED BY <2>1
  <1>3. pixels = [x \in Position |->
                     frame[x] - (IF EncodesIntra(type, enc) THEN 0 ELSE pred(x)) + error]
    BY DEF Rest
  <1> HIDE DEF pred
  <1>4. /\ pixels \in [Position -> Int]
        /\ \A x \in Position :
              pixels[x] = IF EncodesIntra(type, enc) THEN frame[x] + error
                          ELSE (frame[x] - pred(x)) + error
    BY <1>1, <1>2, <1>3
  <1>5. step \in 1..NumBlocks
    BY InStepIs
  <1> HIDE DEF pixels
  <1>6. c = CodedFrame(type, window, frame, pixels, step)
    BY DEF pixels
  <1>7. /\ c \in Coded /\ Moved(c)
        /\ c.type = type /\ c.frame = frame /\ c.pixels = pixels
        /\ c.intra = EncodesIntra(type, enc)
        /\ ~c.intra => /\ c.motion = Motion(frame, enc.ref, window)
                       /\ DOMAIN c.motion = 1..NumBlocks
    <2>1. IsCoded(c, type, window, frame, pixels)
      BY <1>1, <1>4, <1>5, <1>6, CodedIs
    <2> QED BY <2>1 DEF IsCoded
  <1>8. c.intra => \E e \in -Loss..Loss : \A x \in Position : c.pixels[x] = c.frame[x] + e
    BY <1>4, <1>7
  <1>9. ~c.intra => \E e \in -Loss..Loss, o \in Frames : \A x \in Position :
            c.pixels[x] = (c.frame[x] - Compensated(enc.ref, c.motion, o, x)) + e
    BY <1>4, <1>7 DEF pred
  <1>10. Made(c, enc.ref)
    BY <1>7, <1>8, <1>9 DEF Made
  <1> QED BY <1>7, <1>10

\* Whatever was misread, the output is a frame.
LEMMA DecodedIsFrame ==
  ASSUME NEW c \in Coded, NEW other \in Row, dec \in Buffer
  PROVE  Decoded(c, other) \in Row
  <1> DEFINE pred(x) == IF c.intra THEN 0
                        ELSE Compensated(dec.ref, DecodedMotion(MotionReceived(c)), other, x)
  <1>1. c.pixels \in [Position -> Int] /\ dec.ref \in Row /\ MaxPixel \in Nat
    BY VideoAssumption DEF Coded, Buffer
  <1>2. ASSUME NEW x \in Position PROVE c.pixels[x] + pred(x) \in Int
    <2>1. pred(x) \in Int
      <3>1. Compensated(dec.ref, DecodedMotion(MotionReceived(c)), other, x) \in 0..MaxPixel
        BY <1>1, CompensatedIs
      <3> QED BY <3>1
    <2> HIDE DEF pred
    <2> QED BY <1>1, <2>1
  <1>3. Decoded(c, other) = [x \in Position |-> IF BlockAt(x) > c.good THEN other[x]
                                                ELSE Clamped(c.pixels[x] + pred(x))]
    BY Zenon DEF Decoded
  <1> HIDE DEF pred
  <1>4. \A x \in Position : /\ Clamped(c.pixels[x] + pred(x)) \in 0..MaxPixel
                            /\ other[x] \in 0..MaxPixel
    BY <1>2, ClampedIs DEF Row
  <1> QED BY <1>3, <1>4 DEF Row

\* Of the blocks that came back the output is off by the error of the quantiser,
\* and in a predicted frame by what the reference was off (lines 372-380).
LEMMA DecodedNear ==
  ASSUME NEW c \in Coded, NEW prev \in Row, Made(c, prev), dec \in Buffer, NEW far \in Nat,
         NEW other \in Row,
         ~c.intra => /\ \A x \in Position : Distance(dec.ref[x], prev[x]) <= far
                     /\ \A k \in DOMAIN c.motion : StaysInside(k, c.motion[k]),
         NEW x \in Position, BlockAt(x) <= c.good
  PROVE  Distance(Decoded(c, other)[x], c.frame[x]) <= IF c.intra THEN Loss ELSE far + Loss
  <1> DEFINE motion == DecodedMotion(MotionReceived(c))
             pred == IF c.intra THEN 0 ELSE Compensated(dec.ref, motion, other, x)
  <1>1. /\ dec.ref \in Row /\ c.frame \in Row /\ c.pixels \in [Position -> Int]
        /\ c.motion \in Seq(Int) /\ c.intra \in BOOLEAN /\ c.good \in 1..NumBlocks
        /\ MaxPixel \in Nat /\ Loss \in Nat /\ Frames \subseteq Row
    BY VideoAssumption DEF Buffer, Coded, Row, Position
  <1>2. PICK k \in 1..NumBlocks : k = BlockAt(x) /\ k <= c.good
    BY BlocksAre
  <1>3. PICK f \in 0..MaxPixel, p \in Int : f = c.frame[x] /\ p = c.pixels[x]
    BY <1>1 DEF Row
  <1>4. Decoded(c, other)[x] = Clamped(p + pred)
    <2>1. ~(BlockAt(x) > c.good)
      BY <1>1, <1>2
    <2>2. Decoded(c, other)[x] = Clamped(c.pixels[x] + pred)
      BY <2>1, Zenon DEF Decoded
    <2> QED BY <1>3, <2>2, Zenon
  <1>5. p + pred \in Int /\ Distance(p + pred, f) <= IF c.intra THEN Loss ELSE far + Loss
    <2>1. CASE c.intra
      <3>1. PICK error \in -Loss..Loss : p = f + error
        BY <1>3, <2>1 DEF Made
      <3>2. pred = 0
        BY <2>1
      <3> HIDE DEF pred
      <3>3. p + pred = p /\ Distance(p, f) <= Loss
        BY <1>1, <3>1, <3>2 DEF Distance
      <3> QED BY <2>1, <3>3
    <2>2. CASE ~c.intra
      <3>1. DOMAIN c.motion = 1..NumBlocks
        BY <2>2 DEF Made
      <3>2. StaysInside(k, c.motion[k])
        BY <2>2, <3>1
      <3>3. motion[k] = c.motion[k]
        <4>1. k \in 1..c.good
          BY <1>1, <1>2
        <4>2. Moved(c)
          BY DEF Made
        <4>3. k \in DOMAIN motion
          BY <2>2, <4>1, <4>2 DEF Moved, Vectors
        <4> QED BY <1>2, <4>2, <4>3 DEF Moved, Vectors
      <3>4. PICK y \in Position : \A r, o : Compensated(r, c.motion, o, x) = r[y]
        <4> DEFINE mv == c.motion
        <4>1. mv \in Seq(Int) /\ DOMAIN mv = 1..NumBlocks
              /\ StaysInside(BlockAt(x), mv[BlockAt(x)])
          BY <1>1, <1>2, <3>1, <3>2
        <4> HIDE DEF mv
        <4>2. \E y \in Position : \A r, o : Compensated(r, mv, o, x) = r[y]
          BY <4>1, InsideIs
        <4> QED BY <4>2 DEF mv
      <3>5. pred = dec.ref[y]
        <4>1. Compensated(dec.ref, motion, other, x) = Compensated(dec.ref, c.motion, other, x)
          BY <1>2, <3>3 DEF Compensated
        <4> QED BY <2>2, <3>4, <4>1
      <3>6. PICK d \in 0..MaxPixel, e \in 0..MaxPixel : d = dec.ref[y] /\ e = prev[y]
        BY <1>1 DEF Row
      <3>7. PICK error \in -Loss..Loss : p = (f - e) + error
        <4>1. PICK error \in -Loss..Loss, o \in Frames :
                 \A z \in Position :
                    c.pixels[z] = (c.frame[z] - Compensated(prev, c.motion, o, z)) + error
          BY <2>2 DEF Made
        <4>2. p = (f - Compensated(prev, c.motion, o, x)) + error
          BY <1>3, <4>1
        <4> QED BY <3>4, <3>6, <4>2
      <3>8. Distance(d, e) <= far
        BY <2>2, <3>6
      <3> HIDE DEF pred
      <3>9. p + pred \in Int /\ Distance(p + pred, f) <= far + Loss
        <4>1. d \in Int /\ e \in Int /\ f \in Int /\ pred = d
          BY <1>1, <3>5, <3>6
        <4>2. -far <= d - e /\ d - e <= far
          BY <3>8, <4>1 DEF Distance
        <4>3. error \in Int /\ -Loss <= error /\ error <= Loss
          BY <1>1
        <4>4. PICK z \in Int : z = (p + d) - f
          BY <4>1
        <4>5. z = (d - e) + error
          BY <3>7, <4>1, <4>3, <4>4
        <4>6. z <= far + Loss /\ -z <= far + Loss
          BY <1>1, <4>1, <4>2, <4>3, <4>5
        <4>7. Distance(p + d, f) = IF z < 0 THEN -z ELSE z
          BY <4>1, <4>4 DEF Distance
        <4> QED BY <4>1, <4>6, <4>7
      <3> QED BY <2>2, <3>9
    <2> QED BY <1>1, <2>1, <2>2
  <1>6. PICK s \in Int : s = p + pred
    BY <1>5
  <1>7. PICK q \in 0..MaxPixel : q = Clamped(s) /\ Distance(q, f) <= Distance(s, f)
    BY <1>3, <1>6, ClampedIs
  <1>8. Distance(q, f) \in Int /\ Distance(s, f) \in Int
    BY <1>1, <1>3, <1>6, <1>7 DEF Distance
  <1>9. Distance(s, f) <= IF c.intra THEN Loss ELSE far + Loss
    BY <1>5, <1>6
  <1>10. Distance(q, f) <= IF c.intra THEN Loss ELSE far + Loss
    BY <1>1, <1>7, <1>8, <1>9
  <1> QED BY <1>3, <1>4, <1>6, <1>7, <1>10

-----------------------------------------------------------------------------
(***************************************************************************)
(* The inductive invariant.  The encoder's reference is the frame it coded *)
(* last, which becomes the decoder's shown frame when everything under way *)
(* is decoded; and the kind of each frame under way is what the decoder    *)
(* will take it for, as long as the two are allocated together.            *)
(***************************************************************************)
InvTypes ==
    /\ enc \in Buffer /\ dec \in Buffer /\ stream \in Seq(Coded)
    /\ shown \in Row /\ since \in Nat /\ good \in 0..NumBlocks

\* The frame that the i-th of those under way was predicted from.
Before(i) == IF i = 1 THEN shown ELSE stream[i - 1].frame

InvChain ==
    /\ \A i \in 1..Len(stream) : Made(stream[i], Before(i))
    /\ enc.ref = Before(Len(stream) + 1)

\* Only the first frame under way meets a decoder without a reference.
InvKinds ==
    together =>
        /\ enc.has <=> dec.has \/ stream # <<>>
        /\ \A i \in 1..Len(stream) :
              stream[i].intra <=> stream[i].type = "I" \/ (i = 1 /\ ~dec.has)

Inv == InvTypes /\ InvChain /\ InvKinds /\ DriftBounded

LEMMA InvInit == Init => Inv
  <1> SUFFICES ASSUME Init PROVE Inv
    OBVIOUS
  <1>1. Black \in Row
    BY VideoAssumption DEF Black, Row
  <1>2. enc = [ref |-> Black, has |-> FALSE] /\ dec = enc
    BY DEF Init, Allocated
  <1>3. stream = <<>> /\ shown = Black /\ since = 0 /\ good = 0
    BY DEF Init
  <1>4. Len(stream) = 0 /\ stream \in Seq(Coded) /\ 0 + 1 = 1
    BY <1>3, EmptySeq
  <1>5. InvTypes
    BY <1>1, <1>2, <1>3, <1>4, BlocksAre DEF InvTypes, Buffer
  <1>6. InvChain
    BY <1>2, <1>3, <1>4 DEF InvChain, Before
  <1>7. InvKinds
    BY <1>2, <1>3, <1>4 DEF InvKinds
  <1>8. DriftBounded
    <2>1. \A x \in Position : BlockAt(x) \in 1..NumBlocks /\ NumBlocks \in Nat
      BY BlocksAre
    <2> QED BY <1>3, <2>1 DEF DriftBounded
  <1> QED BY <1>5, <1>6, <1>7, <1>8 DEF Inv

\* A coded frame that the encoder appends.
LEMMA Encodes ==
  ASSUME NEW type \in {"I", "P"}, NEW window \in Int, NEW frame \in Frames, enc \in Buffer,
         encode_frame(type, window, frame)
  PROVE  \E c \in Coded : /\ stream' = Append(stream, c) /\ Made(c, enc.ref)
                          /\ c.frame = frame /\ c.type = type
                          /\ c.intra <=> EncodesIntra(type, enc)
  <1> DEFINE Pixels(other, error) == Rest(type, window, frame, other, error)
             c(pixels, step) == CodedFrame(type, window, frame, pixels, step)
  <1>1. \E pixels \in {Pixels(other, error) : other \in Frames, error \in -Loss..Loss} :
           \E step \in InStep(pixels) : stream' = Append(stream, c(pixels, step))
    BY DEF encode_frame, Rest, CodedFrame
  <1> HIDE DEF Pixels, c
  <1>2. PICK other \in Frames, error \in -Loss..Loss :
           \E step \in InStep(Pixels(other, error)) :
              stream' = Append(stream, c(Pixels(other, error), step))
    BY <1>1
  <1>3. PICK step \in InStep(Pixels(other, error)) :
              stream' = Append(stream, c(Pixels(other, error), step))
    BY <1>2
  <1>4. PICK new : new = c(Pixels(other, error), step)
    OBVIOUS
  <1>5. /\ new \in Coded /\ Made(new, enc.ref)
        /\ new.type = type /\ new.frame = frame /\ new.intra = EncodesIntra(type, enc)
    BY <1>4, EncodedIs DEF c, Pixels
  <1> QED BY <1>3, <1>4, <1>5

LEMMA InvEncode ==
  ASSUME Inv, NEW type \in {"I", "P"}, NEW window \in Windows, NEW frame \in Frames,
         encode_frame(type, window, frame)
  PROVE  Inv'
  <1>1. /\ enc' = [ref |-> frame, has |-> TRUE]
        /\ dec' = dec /\ shown' = shown /\ since' = since /\ good' = good
        /\ together' = together
    BY DEF encode_frame
  <1>2. /\ enc \in Buffer /\ dec \in Buffer /\ stream \in Seq(Coded)
        /\ shown \in Row /\ since \in Nat /\ good \in 0..NumBlocks /\ frame \in Row
        /\ window \in Int
    BY VideoAssumption DEF Inv, InvTypes, Row, Position
  <1>3. PICK c \in Coded : /\ stream' = Append(stream, c) /\ Made(c, enc.ref)
                           /\ c.frame = frame /\ c.type = type
                           /\ c.intra <=> EncodesIntra(type, enc)
    BY <1>2, Encodes
  <1>4. PICK n \in Nat : n = Len(stream)
    BY <1>2, LenProperties
  <1>5. /\ stream' \in Seq(Coded) /\ Len(stream') = n + 1 /\ stream'[n + 1] = c
        /\ \A i \in 1..n : stream'[i] = stream[i]
    BY <1>2, <1>3, <1>4, AppendProperties
  <1>6. InvTypes'
    BY <1>1, <1>2, <1>5 DEF InvTypes, Buffer
  <1>7. \A i \in 1..(n + 1) : Before(i)' = Before(i)
    <2> SUFFICES ASSUME NEW i \in 1..(n + 1) PROVE Before(i)' = Before(i)
      OBVIOUS
    <2>1. i = 1 \/ i - 1 \in 1..n
      BY <1>4
    <2> QED BY <1>1, <1>5, <2>1 DEF Before
  <1>8. enc.ref = Before(n + 1)
    BY <1>4 DEF Inv, InvChain
  <1>9. InvChain'
    <2>1. ASSUME NEW i \in 1..(n + 1) PROVE Made(stream'[i], Before(i)')
      <3>1. CASE i = n + 1
        BY <1>3, <1>5, <1>7, <1>8, <3>1
      <3>2. CASE i # n + 1
        <4>1. i \in 1..n
          BY <3>2
        <4>2. Made(stream[i], Before(i))
          BY <1>4, <4>1 DEF Inv, InvChain
        <4> QED BY <1>5, <1>7, <4>1, <4>2
      <3> QED BY <3>1, <3>2
    <2>2. enc'.ref = Before((n + 1) + 1)'
      <3>1. (n + 1) + 1 # 1 /\ ((n + 1) + 1) - 1 = n + 1
        BY <1>4
      <3> QED BY <1>1, <1>3, <1>5, <3>1 DEF Before
    <2> QED BY <1>5, <2>1, <2>2 DEF InvChain
  <1>10. InvKinds'
    <2> SUFFICES ASSUME together
                 PROVE  /\ enc'.has <=> dec'.has \/ stream' # <<>>
                        /\ \A i \in 1..(n + 1) : stream'[i].intra <=>
                              stream'[i].type = "I" \/ (i = 1 /\ ~dec'.has)
      BY <1>1, <1>5 DEF InvKinds
    <2>1. /\ enc.has <=> dec.has \/ stream # <<>>
          /\ \A i \in 1..n : stream[i].intra <=>
                stream[i].type = "I" \/ (i = 1 /\ ~dec.has)
      BY <1>4 DEF Inv, InvKinds
    <2>2. stream' # <<>> /\ (stream = <<>> <=> n = 0)
      <3>1. n + 1 # 0
        BY <1>4
      <3> QED BY <1>2, <1>4, <1>5, <3>1, EmptySeq
    <2>3. c.intra <=> c.type = "I" \/ (n + 1 = 1 /\ ~dec.has)
      BY <1>3, <2>1, <2>2 DEF EncodesIntra
    <2>4. ASSUME NEW i \in 1..(n + 1)
          PROVE  stream'[i].intra <=> stream'[i].type = "I" \/ (i = 1 /\ ~dec'.has)
      <3>1. CASE i = n + 1
        BY <1>1, <1>5, <2>3, <3>1
      <3>2. CASE i # n + 1
        <4>1. i \in 1..n
          BY <3>2
        <4> QED BY <1>1, <1>5, <2>1, <4>1
      <3> QED BY <3>1, <3>2
    <2> QED BY <1>1, <2>1, <2>2, <2>4
  <1>11. DriftBounded'
    BY <1>1 DEF Inv, DriftBounded
  <1> QED BY <1>6, <1>9, <1>10, <1>11 DEF Inv

LEMMA InvDecode ==
  ASSUME Inv, decode_frame
  PROVE  Inv'
  <1> DEFINE c == Head(stream)
  <1>1. /\ stream # <<>> /\ stream' = Tail(stream) /\ shown' = c.frame
        /\ enc' = enc /\ together' = together
        /\ IF DecodesIntra(c.type, dec) = c.intra
           THEN /\ \E other \in Frames : dec' = [ref |-> Decoded(c, other), has |-> TRUE]
                /\ since' = IF c.intra THEN 0 ELSE since + 1
                /\ good' = IF c.intra \/ Predictable(c) THEN c.good ELSE 0
           ELSE /\ dec' \in {dec} \cup {[ref |-> g, has |-> TRUE] : g \in Frames}
                /\ good' = 0 /\ since' = since
    BY DEF decode_frame, NextReference
  <1>2. /\ enc \in Buffer /\ dec \in Buffer /\ stream \in Seq(Coded)
        /\ shown \in Row /\ since \in Nat /\ good \in 0..NumBlocks
        /\ Frames \subseteq Row /\ Loss \in Nat /\ MaxPixel \in Nat /\ NumBlocks \in Nat
    BY VideoAssumption, BlocksAre DEF Inv, InvTypes, Row, Position
  <1>3. PICK n \in Nat : Len(stream) = n + 1
    <2>1. Len(stream) \in Nat /\ Len(stream) # 0
      BY <1>1, <1>2, EmptySeq, LenProperties
    <2>2. Len(stream) - 1 \in Nat /\ Len(stream) = (Len(stream) - 1) + 1
      BY <2>1
    <2> QED BY <2>2
  <1>4. /\ c \in Coded /\ stream' \in Seq(Coded) /\ Len(stream') = n
        /\ \A i \in 1..n : stream'[i] = stream[i + 1]
    BY <1>1, <1>2, <1>3, HeadTailProperties
  <1>5. c = stream[1]
    OBVIOUS
  <1> HIDE DEF c
  <1>6. Made(c, shown)
    <2>1. 1 \in 1..(n + 1)
      BY <1>3
    <2>2. Made(stream[1], Before(1))
      BY <1>3, <2>1 DEF Inv, InvChain
    <2> QED BY <1>5, <2>2 DEF Before
  <1>7. \A i \in 1..(n + 1) : Before(i)' = Before(i + 1)
    <2> SUFFICES ASSUME NEW i \in 1..(n + 1) PROVE Before(i)' = Before(i + 1)
      OBVIOUS
    <2>1. CASE i = 1
      BY <1>1, <1>5, <2>1 DEF Before
    <2>2. CASE i # 1
      <3>1. i - 1 \in 1..n /\ i + 1 # 1 /\ (i + 1) - 1 = i /\ (i - 1) + 1 = i
        BY <1>3, <2>2
      <3>2. stream'[i - 1] = stream[(i - 1) + 1]
        BY <1>4, <3>1
      <3> QED BY <2>2, <3>1, <3>2 DEF Before
    <2> QED BY <2>1, <2>2
  <1>8. InvChain'
    <2>1. ASSUME NEW i \in 1..n PROVE Made(stream'[i], Before(i)')
      <3>1. i + 1 \in 1..(n + 1) /\ i \in 1..(n + 1)
        BY <1>3
      <3>2. Made(stream[i + 1], Before(i + 1))
        BY <1>3, <3>1 DEF Inv, InvChain
      <3> QED BY <1>4, <1>7, <3>1, <3>2
    <2>2. enc'.ref = Before(n + 1)'
      <3>1. n + 1 \in 1..(n + 1)
        BY <1>3
      <3>2. enc.ref = Before((n + 1) + 1)
        BY <1>3 DEF Inv, InvChain
      <3> QED BY <1>1, <1>7, <3>1, <3>2
    <2> QED BY <1>4, <2>1, <2>2 DEF InvChain
  <1>9. c.intra \in BOOLEAN /\ c.good \in 1..NumBlocks /\ c.frame \in Row
    BY <1>4 DEF Coded
  <1>10. dec' \in Buffer /\ since' \in Nat /\ good' \in 0..NumBlocks
    <2>1. CASE DecodesIntra(c.type, dec) = c.intra
      <3>1. PICK other \in Frames : dec' = [ref |-> Decoded(c, other), has |-> TRUE]
        BY <1>1, <2>1
      <3>2. Decoded(c, other) \in Row
        BY <1>2, <1>4, DecodedIsFrame
      <3>3. dec' \in Buffer
        BY <3>1, <3>2 DEF Buffer
      <3>4. since' = (IF c.intra THEN 0 ELSE since + 1)
            /\ good' = IF c.intra \/ Predictable(c) THEN c.good ELSE 0
        BY <1>1, <2>1
      <3>5. since' \in Nat
        BY <1>2, <3>4
      <3>6. good' \in 0..NumBlocks
        BY <1>2, <1>9, <3>4
      <3> QED BY <3>3, <3>5, <3>6
    <2>2. CASE DecodesIntra(c.type, dec) # c.intra
      <3>1. /\ dec' \in {dec} \cup {[ref |-> g, has |-> TRUE] : g \in Frames}
            /\ good' = 0 /\ since' = since
        BY <1>1, <2>2
      <3>2. \A g \in Frames : [ref |-> g, has |-> TRUE] \in Buffer
        BY <1>2 DEF Buffer
      <3>3. dec' \in Buffer
        BY <1>2, <3>1, <3>2, Zenon
      <3> QED BY <1>2, <3>1, <3>3
    <2> QED BY <2>1, <2>2
  <1>11. InvTypes'
    BY <1>1, <1>2, <1>4, <1>9, <1>10 DEF InvTypes
  <1>12. DriftBounded'
    <2> SUFFICES ASSUME NEW x \in Position, BlockAt(x) <= good'
                 PROVE  Distance(dec'.ref[x], c.frame[x]) <= Loss * (since' + 1)
      BY <1>1 DEF DriftBounded
    <2>1. BlockAt(x) \in 1..NumBlocks /\ good' # 0
      BY <1>2, BlocksAre
    <2>2. DecodesIntra(c.type, dec) = c.intra
      BY <1>1, <2>1
    <2>3. PICK other \in Frames : dec' = [ref |-> Decoded(c, other), has |-> TRUE]
      BY <1>1, <2>2
    <2>4. dec'.ref = Decoded(c, other) /\ other \in Row
      BY <1>2, <2>3
    <2>5. good' = c.good /\ (c.intra \/ Predictable(c))
      BY <1>1, <2>1, <2>2
    <2>6. BlockAt(x) <= c.good
      BY <2>5
    <2>7. CASE c.intra
      <3>1. since' = 0
        BY <1>1, <2>2, <2>7
      <3>2. Distance(Decoded(c, other)[x], c.frame[x]) <= IF c.intra THEN Loss ELSE 0 + Loss
        BY <1>2, <1>4, <1>6, <2>4, <2>6, <2>7, DecodedNear
      <3>3. Loss * (0 + 1) = Loss
        BY <1>2
      <3> QED BY <2>4, <2>7, <3>1, <3>2, <3>3
    <2>8. CASE ~c.intra
      <3>1. good = NumBlocks /\ \A k \in DOMAIN c.motion : StaysInside(k, c.motion[k])
        BY <2>5, <2>8 DEF Predictable
      <3>2. PICK s \in Nat : s = since /\ since' = s + 1
        BY <1>1, <1>2, <2>2, <2>8
      <3>3. PICK far \in Nat : far = Loss * (s + 1)
        BY <1>2
      <3>4. \A y \in Position : Distance(dec.ref[y], shown[y]) <= far
        <4>1. \A y \in Position : BlockAt(y) <= good
          BY <1>2, <3>1, BlocksAre
        <4> QED BY <3>2, <3>3, <4>1 DEF Inv, DriftBounded
      <3>5. Distance(Decoded(c, other)[x], c.frame[x]) <= IF c.intra THEN Loss ELSE far + Loss
        BY <1>2, <1>4, <1>6, <2>4, <2>6, <3>1, <3>4, DecodedNear
      <3>6. Loss * ((s + 1) + 1) = far + Loss
        <4>1. \A a, b \in Nat : a * (b + 1) = a * b + a
          BY Z3
        <4> QED BY <1>2, <3>3, <4>1
      <3> QED BY <2>4, <2>8, <3>2, <3>5, <3>6
    <2> QED BY <2>7, <2>8
  <1>13. InvKinds'
    <2> SUFFICES ASSUME together
                 PROVE  /\ enc'.has <=> dec'.has \/ stream' # <<>>
                        /\ \A i \in 1..n : stream'[i].intra <=>
                              stream'[i].type = "I" \/ (i = 1 /\ ~dec'.has)
      BY <1>1, <1>4 DEF InvKinds
    <2>1. /\ enc.has <=> dec.has \/ stream # <<>>
          /\ \A i \in 1..(n + 1) : stream[i].intra <=>
                stream[i].type = "I" \/ (i = 1 /\ ~dec.has)
      BY <1>3 DEF Inv, InvKinds
    <2>2. c.intra <=> c.type = "I" \/ ~dec.has
      <3>1. 1 \in 1..(n + 1)
        BY <1>3
      <3> QED BY <1>5, <2>1, <3>1
    <2>3. DecodesIntra(c.type, dec) = c.intra
      <3>1. c.intra \in BOOLEAN
        BY <1>4 DEF Coded
      <3> QED BY <2>2, <3>1 DEF DecodesIntra
    <2>4. dec'.has = TRUE
      BY <1>1, <2>3
    <2>5. ASSUME NEW i \in 1..n
          PROVE  stream'[i].intra <=> stream'[i].type = "I" \/ (i = 1 /\ ~dec'.has)
      <3>1. i + 1 \in 1..(n + 1) /\ i + 1 # 1
        BY <1>3
      <3> QED BY <1>4, <2>1, <2>4, <3>1
    <2> QED BY <1>1, <2>1, <2>4, <2>5
  <1> QED BY <1>8, <1>11, <1>12, <1>13 DEF Inv

LEMMA AllocatedIs ==
  ASSUME NEW b \in Buffer
  PROVE  Allocated(b) \in Buffer /\ Allocated(b).ref = b.ref /\ Allocated(b).has = FALSE
  BY DEF Buffer, Allocated

LEMMA InvAllocate ==
  ASSUME Inv, AllocateBoth \/ AllocateOne
  PROVE  Inv'
  <1>1. /\ stream' = stream /\ shown' = shown /\ since' = since /\ good' = good
        /\ enc' = enc \/ enc' = Allocated(enc)
        /\ dec' = dec \/ dec' = Allocated(dec)
    BY DEF AllocateBoth, AllocateOne
  <1>2. enc \in Buffer /\ dec \in Buffer
    BY DEF Inv, InvTypes
  <1>3. enc' \in Buffer /\ dec' \in Buffer /\ enc'.ref = enc.ref /\ dec'.ref = dec.ref
    BY <1>1, <1>2, AllocatedIs
  <1>4. InvTypes'
    BY <1>1, <1>3 DEF Inv, InvTypes
  <1>5. InvChain'
    BY <1>1, <1>3 DEF Inv, InvChain, Before
  <1>6. DriftBounded'
    BY <1>1, <1>3 DEF Inv, DriftBounded
  <1>7. InvKinds'
    <2>1. CASE AllocateBoth
      <3>1. /\ stream = <<>> /\ enc' = Allocated(enc) /\ dec' = Allocated(dec)
        BY <2>1 DEF AllocateBoth
      <3>2. enc'.has = FALSE /\ dec'.has = FALSE
        BY <1>2, <3>1, AllocatedIs
      <3>3. stream' = <<>> /\ Len(stream') = 0 /\ 1..0 = {}
        BY <1>1, <3>1, EmptySeq
      <3> QED BY <3>2, <3>3 DEF InvKinds
    <2>2. CASE AllocateOne
      BY <2>2 DEF AllocateOne, InvKinds
    <2> QED BY <2>1, <2>2
  <1> QED BY <1>4, <1>5, <1>6, <1>7 DEF Inv

LEMMA InvHolds == Spec => []Inv
  <1>1. Inv /\ [Next]_vars => Inv'
    <2> SUFFICES ASSUME Inv, [Next]_vars PROVE Inv'
      OBVIOUS
    <2>1. ASSUME NEW type \in {"I", "P"}, NEW window \in Windows, NEW frame \in Frames,
                 encode_frame(type, window, frame)
          PROVE  Inv'
      BY <2>1, InvEncode
    <2>2. CASE decode_frame
      BY <2>2, InvDecode
    <2>3. CASE AllocateBoth \/ AllocateOne
      BY <2>3, InvAllocate
    <2>4. CASE UNCHANGED vars
      BY <2>4 DEF vars, Inv, InvTypes, InvChain, Before, InvKinds, DriftBounded
    <2> QED BY <2>1, <2>2, <2>3, <2>4 DEF Next
  <1> QED BY InvInit, <1>1, PTL DEF Spec

(***************************************************************************)
(* The theorems.                                                           *)
(***************************************************************************)
\* Though the header does not say it, the decoder takes every frame for what the
\* encoder made of it, as long as both sides are allocated together (lines 107
\* and 264-266).
THEOREM KindsAgreeHolds == Spec => []KindsAgree
  <1>1. Inv => KindsAgree
    <2> SUFFICES ASSUME Inv, together, stream # <<>>
                 PROVE  DecodesIntra(Head(stream).type, dec) = Head(stream).intra
      BY DEF KindsAgree
    <2>1. stream \in Seq(Coded) /\ Len(stream) \in Nat /\ Len(stream) # 0
      BY EmptySeq, LenProperties DEF Inv, InvTypes
    <2>2. 1 \in 1..Len(stream)
      BY <2>1
    <2>3. stream[1] \in Coded
      BY <2>1, <2>2, ElementOfSeq
    <2>4. PICK c \in Coded : c = stream[1] /\ c = Head(stream)
      BY <2>3
    <2>5. c.intra <=> c.type = "I" \/ ~dec.has
      BY <2>2, <2>4 DEF Inv, InvKinds
    <2>6. c.intra \in BOOLEAN
      BY DEF Coded
    <2> QED BY <2>4, <2>5, <2>6 DEF DecodesIntra
  <1> QED BY <1>1, InvHolds, PTL

\* Up to the first full block since the last intra frame the references drift by no
\* more than the error of a frame for each frame since then (lines 245 and 384-386).
THEOREM DriftBoundedHolds == Spec => []DriftBounded
  <1>1. Inv => DriftBounded
    BY DEF Inv
  <1> QED BY <1>1, InvHolds, PTL

\* Up to the first full block of a frame the decoder moves each block as the encoder
\* did, whatever the search window; and never out of the frame, with a window that a
\* vector can say (lines 145-161 and 308-321).
THEOREM SameMotionHolds == Spec => []SameMotion
  <1>1. Inv => SameMotion
    <2> SUFFICES ASSUME Inv, NEW i \in DOMAIN stream
                 PROVE  LET c == stream[i]
                            motion == DecodedMotion(MotionReceived(c))
                        IN  \A k \in DOMAIN motion :
                               k <= c.good =>
                                  /\ motion[k] = c.motion[k]
                                  /\ c.window < MvValues \div 2 => StaysInside(k, motion[k])
      BY DEF SameMotion
    <2>1. stream \in Seq(Coded)
      BY DEF Inv, InvTypes
    <2>2. i \in 1..Len(stream)
      BY <2>1, LenProperties
    <2>3. Moved(stream[i])
      BY <2>2 DEF Inv, InvChain, Made
    <2> QED BY <2>3 DEF Moved, Vectors
  <1> QED BY <1>1, InvHolds, PTL
-----------------------------------------------------------------------------
(***************************************************************************)
(* The block symbols.                                                      *)
(***************************************************************************)
LEMMA Monotone ==
  ASSUME NEW k \in Nat \ {0}, NEW m \in Nat, NEW n \in Nat
  PROVE  (m <= n => k * m <= k * n) /\ (k * m < k * n => m < n)
  <1>1. \A a, b, c \in Nat : a <= b => c * a <= c * b
    BY Z3
  <1>2. m <= n => k * m <= k * n
    BY <1>1
  <1>3. n <= m => k * n <= k * m
    BY <1>1
  <1>4. k * m \in Nat /\ k * n \in Nat
    OBVIOUS
  <1> QED BY <1>2, <1>3, <1>4

\* Half of the numbers of two symbols are negative.
LEMMA HalfIs ==
  \E a \in Nat \ {0}, h \in Nat \ {0} :
     a = Base /\ h = Half /\ 2 * h = a * a /\ Symbol = 0..(a - 1)
  <1>1. PICK a \in Nat \ {0} : a = Base /\ a % 2 = 0
    BY BlockAssumption
  <1>2. PICK j \in Nat \ {0} : a = 2 * j
    <2>1. a = 2 * (a \div 2) + (a % 2) /\ a \div 2 \in Nat
      BY DivideIs, 2 \in Nat \ {0}
    <2> QED BY <1>1, <2>1
  <1>3. PICK h \in Nat \ {0} : h = 2 * (j * j)
    <2>1. \A i \in Nat \ {0} : 2 * (i * i) \in Nat \ {0}
      BY Z3
    <2> QED BY <2>1
  <1>4. a * a = 2 * h
    <2>1. \A i \in Nat : (2 * i) * (2 * i) = 2 * (2 * (i * i))
      BY Z3
    <2> QED BY <1>2, <1>3, <2>1
  <1>5. (2 * h) \div 2 = h
    OBVIOUS
  <1>6. h = Half
    BY <1>1, <1>4, <1>5 DEF Half
  <1> QED BY <1>1, <1>4, <1>6 DEF Symbol

LEMMA WrapIs ==
  ASSUME NEW n \in Int
  PROVE  Wrap(n) \in Int16
  <1>1. PICK h \in Nat \ {0} : h = Half
    BY HalfIs
  <1>2. PICK m \in Nat \ {0} : m = 2 * h
    <2>1. 2 * h \in Nat \ {0}
      OBVIOUS
    <2> QED BY <2>1
  <1>3. PICK x \in Int : x = n + h
    OBVIOUS
  <1>4. PICK r \in 0..(m - 1) : r = x % m
    OBVIOUS
  <1>5. Wrap(n) = r - h
    BY <1>1, <1>2, <1>3, <1>4 DEF Wrap
  <1>6. r - h \in (-h)..(h - 1)
    BY <1>2
  <1> QED BY <1>1, <1>5, <1>6 DEF Int16

LEMMA RemainderIs ==
  ASSUME NEW m \in Nat \ {0}, NEW x \in Int, NEW q \in Int, NEW r \in 0..(m - 1), x = m * q + r
  PROVE  x % m = r
  <1>1. PICK s \in 0..(m - 1) : s = x % m
    OBVIOUS
  <1>2. PICK p \in Int : p = x \div m
    OBVIOUS
  <1>3. x = m * p + s
    BY <1>1, <1>2, Z3
  <1>4. PICK t \in Int : t = q - p
    OBVIOUS
  <1>5. PICK a \in Int, b \in Int : a = m * q /\ b = m * p
    <2>1. m * q \in Int /\ m * p \in Int
      OBVIOUS
    <2> QED BY <2>1
  <1>6. m * t = a - b
    <2>1. \A i, j, k \in Int : i * (j - k) = i * j - i * k
      BY Z3
    <2> QED BY <1>4, <1>5, <2>1
  <1>7. a - b = s - r
    BY <1>3, <1>5
  <1>8. CASE t >= 1
    <2>1. \A i, j \in Int : i >= 1 /\ j >= 1 => i * j >= i
      BY Z3
    <2>2. m * t >= m
      BY <1>8, <2>1
    <2> QED BY <1>6, <1>7, <2>2
  <1>9. CASE t <= -1
    <2>1. \A i, j \in Int : i >= 1 /\ j <= -1 => i * j <= -i
      BY Z3
    <2>2. m * t <= -m
      BY <1>9, <2>1
    <2> QED BY <1>6, <1>7, <2>2
  <1>10. CASE t = 0
    <2>1. m * t = 0
      BY <1>10
    <2> QED BY <1>1, <1>6, <1>7, <2>1
  <1> QED BY <1>4, <1>8, <1>9, <1>10

\* A difference taken modulo 2^16 and added modulo 2^16 (lines 82 and 184).
LEMMA WrapReturns ==
  ASSUME NEW x \in Int16, NEW p \in Int
  PROVE  Wrap(p + Wrap(x - p)) = x
  <1>1. PICK h \in Nat \ {0} : h = Half
    BY HalfIs
  <1>2. PICK m \in Nat \ {0} : m = 2 * h
    <2>1. 2 * h \in Nat \ {0}
      OBVIOUS
    <2> QED BY <2>1
  <1>3. x \in Int /\ x + h \in 0..(m - 1)
    <2>1. x \in (-h)..(h - 1)
      BY <1>1 DEF Int16
    <2> QED BY <1>2, <2>1
  <1>4. PICK y \in Int : y = (x - p) + h
    BY <1>3
  <1>5. PICK r \in 0..(m - 1) : r = y % m
    OBVIOUS
  <1>6. PICK t \in Int : t = y \div m
    OBVIOUS
  <1>7. y = m * t + r
    BY <1>5, <1>6, Z3
  <1>8. PICK d \in Int : d = Wrap(x - p) /\ d = r - h
    <2>1. Wrap(x - p) = r - h
      BY <1>1, <1>2, <1>4, <1>5 DEF Wrap
    <2> QED BY <2>1
  <1>9. PICK a \in Int : a = m * t /\ m * (-t) = -a
    <2>1. m * t \in Int
      OBVIOUS
    <2>2. \A i, j \in Int : i * (-j) = -(i * j)
      BY Z3
    <2> QED BY <2>1, <2>2
  <1>10. PICK z \in Int : z = (p + d) + h
    OBVIOUS
  <1>11. z = m * (-t) + (x + h)
    BY <1>3, <1>4, <1>7, <1>8, <1>9, <1>10
  <1>12. z % m = x + h
    <2>1. -t \in Int
      OBVIOUS
    <2> QED BY <1>3, <1>11, <2>1, RemainderIs
  <1>13. Wrap(p + d) = (x + h) - h
    BY <1>1, <1>2, <1>10, <1>12 DEF Wrap
  <1> QED BY <1>3, <1>8, <1>13

\* The mapping of signed to unsigned numbers and back (image_frame.hpp, lines 60-66).
LEMMA MappingReturns ==
  ASSUME NEW v \in Int
  PROVE  /\ map_int16_to_uint16(v) \in Nat
         /\ unmap_uint16_to_int16(map_int16_to_uint16(v)) = v
  <1>1. CASE v >= 0
    <2>1. map_int16_to_uint16(v) = 2 * v /\ 2 * v \in Nat
      BY <1>1 DEF map_int16_to_uint16
    <2>2. (2 * v) % 2 = 0 /\ (2 * v) \div 2 = v
      OBVIOUS
    <2> QED BY <2>1, <2>2 DEF unmap_uint16_to_int16
  <1>2. CASE ~(v >= 0)
    <2>1. PICK u \in Nat : u = -2 * v - 1 /\ map_int16_to_uint16(v) = u
      <3>1. map_int16_to_uint16(v) = -2 * v - 1 /\ -2 * v - 1 \in Nat
        BY <1>2 DEF map_int16_to_uint16
      <3> QED BY <3>1
    <2>2. u % 2 # 0 /\ (u + 1) \div 2 = -v
      BY <2>1
    <2>3. -(-v) = v
      OBVIOUS
    <2> QED BY <2>1, <2>2, <2>3 DEF unmap_uint16_to_int16
  <1> QED BY <1>1, <1>2

\* A signed number as two symbols, and back (lines 82-89 and 182-183).
LEMMA SymbolsOfIs ==
  ASSUME NEW v \in Int16
  PROVE  \E high \in Symbol, low \in Symbol :
            SymbolsOf(v) = <<high, low>> /\ Value(high, low) = v
  <1>1. PICK a \in Nat \ {0}, h \in Nat \ {0} :
            a = Base /\ h = Half /\ 2 * h = a * a /\ Symbol = 0..(a - 1)
    BY HalfIs
  <1>2. v \in Int /\ -h <= v /\ v <= h - 1
    BY <1>1 DEF Int16
  <1>3. PICK u \in Nat : u = map_int16_to_uint16(v) /\ unmap_uint16_to_int16(u) = v
    BY <1>2, MappingReturns
  <1>4. u < a * a
    <2>1. CASE v >= 0
      <3>1. u = 2 * v
        BY <1>3, <2>1 DEF map_int16_to_uint16
      <3> QED BY <1>1, <1>2, <3>1
    <2>2. CASE ~(v >= 0)
      <3>1. u = -2 * v - 1
        BY <1>3, <2>2 DEF map_int16_to_uint16
      <3> QED BY <1>1, <1>2, <3>1
    <2> QED BY <2>1, <2>2
  <1>5. PICK q \in Nat, r \in 0..(a - 1) : q = u \div a /\ r = u % a /\ u = a * q + r
    BY DivideIs
  <1>6. q < a
    <2>1. PICK x \in Nat : x = a * q
      <3>1. a * q \in Nat
        OBVIOUS
      <3> QED BY <3>1
    <2>2. x < a * a
      <3>1. PICK y \in Nat : y = a * a
        <4>1. a * a \in Nat
          OBVIOUS
        <4> QED BY <4>1
      <3> QED BY <1>4, <1>5, <2>1, <3>1
    <2> QED BY <2>1, <2>2, Monotone
  <1>7. q \in Symbol /\ r \in Symbol
    BY <1>1, <1>6
  <1>8. SymbolsOf(v) = <<q, r>>
    BY <1>1, <1>3, <1>5 DEF SymbolsOf, HighLow
  <1>9. q * a = a * q
    <2>1. \A i, j \in Nat : i * j = j * i
      BY Z3
    <2> QED BY <2>1
  <1>10. Value(q, r) = v
    BY <1>1, <1>3, <1>5, <1>9 DEF Value
  <1> QED BY <1>7, <1>8, <1>10

\* Any two symbols stand for a signed number.
LEMMA ValueIs ==
  ASSUME NEW high \in Symbol, NEW low \in Symbol
  PROVE  Value(high, low) \in Int16
  <1>1. PICK a \in Nat \ {0}, h \in Nat \ {0} :
            a = Base /\ h = Half /\ 2 * h = a * a /\ Symbol = 0..(a - 1)
    BY HalfIs
  <1>2. PICK x \in Nat, y \in Nat : x = high /\ y = low /\ x <= a - 1 /\ y <= a - 1
    BY <1>1
  <1>3. PICK p \in Nat : p = x * a
    <2>1. x * a \in Nat
      OBVIOUS
    <2> QED BY <2>1
  <1>4. p + a <= 2 * h
    <2>1. \A i, j \in Nat : i <= j - 1 => i * j + j <= j * j
      BY Z3
    <2> QED BY <1>1, <1>2, <1>3, <2>1
  <1>5. PICK u \in Nat : u = p + y /\ u < 2 * h
    <2>1. p + y \in Nat /\ p + y < 2 * h
      BY <1>2, <1>4
    <2> QED BY <2>1
  <1>6. Value(high, low) = unmap_uint16_to_int16(u)
    BY <1>1, <1>2, <1>3, <1>5 DEF Value
  <1>7. unmap_uint16_to_int16(u) \in (-h)..(h - 1)
    <2>1. CASE u % 2 = 0
      <3>1. unmap_uint16_to_int16(u) = u \div 2
        BY <2>1 DEF unmap_uint16_to_int16
      <3>2. u \div 2 \in 0..(h - 1)
        BY <1>5
      <3> QED BY <3>1, <3>2
    <2>2. CASE ~(u % 2 = 0)
      <3>1. unmap_uint16_to_int16(u) = -((u + 1) \div 2)
        BY <2>2 DEF unmap_uint16_to_int16
      <3>2. (u + 1) \div 2 \in 0..h
        BY <1>5
      <3> QED BY <3>1, <3>2
    <2> QED BY <2>1, <2>2
  <1> QED BY <1>1, <1>6, <1>7 DEF Int16

-----------------------------------------------------------------------------
(***************************************************************************)
(* The symbols of a block.                                                 *)
(***************************************************************************)
LEMMA SizesAre ==
  \E k \in Nat \ {0, 1}, b \in Nat \ {0} :
     /\ k = kBlockElements /\ b = Base /\ k < b
     /\ MaxRun = b - 2 /\ EOB = b - 1 /\ Symbol = 0..(b - 1)
     /\ Block = [0..(k - 1) -> Int16]
  BY BlockAssumption DEF MaxRun, EOB, Symbol, Block

LEMMA ZeroIs == 0 \in Int16
  <1>1. PICK h \in Nat \ {0} : h = Half
    BY HalfIs
  <1> QED BY <1>1 DEF Int16

\* Three symbols more.
Three(out, all, x, y, z) ==
    /\ all \in Seq(Symbol) /\ Len(all) = Len(out) + 3
    /\ \A i \in 1..Len(out) : all[i] = out[i]
    /\ all[Len(out) + 1] = x /\ all[Len(out) + 2] = y /\ all[Len(out) + 3] = z

LEMMA ThreeMore ==
  ASSUME NEW out \in Seq(Symbol), NEW x \in Symbol, NEW y \in Symbol, NEW z \in Symbol
  PROVE  /\ Three(out, out \o <<x, y, z>>, x, y, z)
         /\ Three(out, out \o <<x>> \o <<y, z>>, x, y, z)
  <1>1. PICK n \in Nat : n = Len(out)
    BY LenProperties
  <1>2. ASSUME NEW all, all = out \o <<x, y, z>> PROVE Three(out, all, x, y, z)
    <2>1. <<x, y, z>> \in Seq(Symbol) /\ Len(<<x, y, z>>) = 3
      OBVIOUS
    <2>2. /\ all \in Seq(Symbol) /\ Len(all) = n + 3
          /\ \A i \in 1..(n + 3) : all[i] = IF i <= n THEN out[i] ELSE <<x, y, z>>[i - n]
      BY <1>1, <1>2, <2>1, ConcatProperties
    <2>3. \A i \in 1..n : all[i] = out[i]
      BY <2>2
    <2>4. all[n + 1] = <<x, y, z>>[1] /\ all[n + 2] = <<x, y, z>>[2] /\ all[n + 3] = <<x, y, z>>[3]
      <3>1. /\ n + 1 \in 1..(n + 3) /\ n + 2 \in 1..(n + 3) /\ n + 3 \in 1..(n + 3)
            /\ ~(n + 1 <= n) /\ ~(n + 2 <= n) /\ ~(n + 3 <= n)
            /\ (n + 1) - n = 1 /\ (n + 2) - n = 2 /\ (n + 3) - n = 3
        OBVIOUS
      <3> QED BY <2>2, <3>1
    <2> QED BY <1>1, <2>2, <2>3, <2>4 DEF Three
  <1>3. out \o <<x>> \o <<y, z>> = out \o <<x, y, z>>
    <2>1. <<x>> \in Seq(Symbol) /\ <<y, z>> \in Seq(Symbol) /\ <<x>> \o <<y, z>> = <<x, y, z>>
      <3>1. /\ <<x>> \in Seq(Symbol) /\ Len(<<x>>) = 1 /\ <<x>>[1] = x
            /\ <<y, z>> \in Seq(Symbol) /\ Len(<<y, z>>) = 2 /\ <<y, z>>[1] = y /\ <<y, z>>[2] = z
            /\ <<x, y, z>> \in Seq(Symbol) /\ Len(<<x, y, z>>) = 3
        OBVIOUS
      <3>2. PICK s : s = <<x>> \o <<y, z>>
        OBVIOUS
      <3>3. /\ s \in Seq(Symbol) /\ Len(s) = 3
            /\ \A i \in 1..3 : s[i] = IF i <= 1 THEN <<x>>[i] ELSE <<y, z>>[i - 1]
        BY <3>1, <3>2, ConcatProperties
      <3>4. \A i \in 1..3 : s[i] = <<x, y, z>>[i]
        <4>1. \A i \in 1..3 : i = 1 \/ i = 2 \/ i = 3
          OBVIOUS
        <4>2. s[1] = x /\ s[2] = y /\ s[3] = z
          BY <3>1, <3>3
        <4> QED BY <4>1, <4>2
      <3>5. s = <<x, y, z>>
        BY <3>1, <3>3, <3>4, SeqEqual
      <3> QED BY <3>1, <3>2, <3>5
    <2>2. (out \o <<x>>) \o <<y, z>> = out \o (<<x>> \o <<y, z>>)
      BY <2>1, ConcatAssociative
    <2> QED BY <2>1, <2>2
  <1> QED BY <1>2, <1>3

\* What has been written of a block, after some of its coefficients.
Coding == [run : 0..MaxRun, out : Seq(Symbol)]

\* A coefficient that is not zero is written with the run before it and its value.
Says(r, s, v) ==
    \E high \in Symbol, low \in Symbol :
        Three(r.out, s.out, r.run, high, low) /\ Value(high, low) = v

Turned(r, s, v) ==
    /\ v = 0 => s.run = r.run + 1 /\ s.out = r.out
    /\ v # 0 => s.run = 0 /\ Says(r, s, v)

\* What one coefficient adds, as long as the run before it can grow.
LEMMA CoefficientIs ==
  ASSUME NEW r \in Coding, NEW v \in Int16
  PROVE  /\ Coefficient(r, v) \in Coding
         /\ r.run < MaxRun => Turned(r, Coefficient(r, v), v)
  <1>1. PICK b \in Nat \ {0} : MaxRun = b - 2 /\ b >= 3 /\ Symbol = 0..(b - 1)
    BY SizesAre
  <1>2. PICK n \in 0..MaxRun, out \in Seq(Symbol) : r = [run |-> n, out |-> out]
    BY DEF Coding
  <1>3. r.run = n /\ r.out = out /\ n \in Symbol /\ MaxRun \in Symbol /\ 0 \in Symbol
    BY <1>1, <1>2
  <1>4. PICK s : s = Coefficient(r, v)
    OBVIOUS
  <1>5. CASE v # 0
    <2>1. PICK high \in Symbol, low \in Symbol :
              SymbolsOf(v) = <<high, low>> /\ Value(high, low) = v
      BY SymbolsOfIs
    <2>2. s = [run |-> 0, out |-> out \o <<n>> \o <<high, low>>]
      BY <1>3, <1>4, <1>5, <2>1 DEF Coefficient
    <2>3. PICK all : all = out \o <<n>> \o <<high, low>> /\ Three(out, all, n, high, low)
      BY <1>3, ThreeMore
    <2>4. s.run = 0 /\ s.out = all /\ s = [run |-> 0, out |-> all]
      BY <2>2, <2>3
    <2>5. s \in Coding
      <3>1. all \in Seq(Symbol) /\ 0 \in 0..MaxRun
        BY <1>1, <2>3 DEF Three
      <3> QED BY <2>4, <3>1 DEF Coding
    <2>6. Says(r, s, v)
      BY <1>3, <2>1, <2>3, <2>4 DEF Says
    <2> QED BY <1>4, <1>5, <2>4, <2>5, <2>6 DEF Turned
  <1>6. CASE v = 0 /\ n = MaxRun
    <2>1. s = [run |-> 0, out |-> out \o <<MaxRun, 0, 0>>]
      BY <1>3, <1>4, <1>6 DEF Coefficient
    <2>2. out \o <<MaxRun, 0, 0>> \in Seq(Symbol)
      BY <1>3, ThreeMore DEF Three
    <2>3. s \in Coding
      BY <1>1, <2>1, <2>2 DEF Coding
    <2> QED BY <1>3, <1>4, <1>6, <2>3
  <1>7. CASE v = 0 /\ n # MaxRun
    <2>1. s = [r EXCEPT !.run = n + 1]
      BY <1>3, <1>4, <1>7 DEF Coefficient
    <2>2. s = [run |-> n + 1, out |-> out] /\ n + 1 \in 0..MaxRun
      BY <1>1, <1>2, <1>7, <2>1
    <2> QED BY <1>3, <1>4, <1>7, <2>2 DEF Coding, Turned
  <1> QED BY <1>5, <1>6, <1>7

\* The last coefficient that is not zero.
LEMMA LastIs ==
  ASSUME NEW block \in Block
  PROVE  /\ LastNonzero(block) \in 0..(kBlockElements - 1)
         /\ \A i \in 1..(kBlockElements - 1) : block[i] # 0 => i <= LastNonzero(block)
         /\ LastNonzero(block) # 0 => block[LastNonzero(block)] # 0
  <1>1. PICK k \in Nat \ {0, 1} : k = kBlockElements
    BY SizesAre
  <1>2. PICK S : S = {0} \cup {i \in 1..(k - 1) : block[i] # 0}
    OBVIOUS
  <1>3. \E m \in S : \A i \in S : m >= i
    <2> DEFINE T == {j \in Nat : k - j \in S}
    <2>1. T \in SUBSET Nat /\ k - 0 \in Nat
      OBVIOUS
    <2>2. k \in T /\ T # {}
      <3>1. k - k = 0 /\ 0 \in S
        BY <1>2
      <3> QED BY <3>1
    <2>3. PICK j \in T : \A i \in T : j <= i
      <3> HIDE DEF T
      <3> QED BY <2>1, <2>2, Least
    <2>4. ASSUME NEW i \in S PROVE k - j >= i
      <3>1. i \in Nat /\ i <= k /\ k - i \in Nat /\ k - (k - i) = i
        BY <1>2
      <3>2. k - i \in T
        BY <3>1
      <3> QED BY <2>3, <3>1, <3>2
    <2> QED BY <2>3, <2>4
  <1>4. LastNonzero(block) = Max(S)
    BY <1>1, <1>2 DEF LastNonzero
  <1>5. Max(S) \in S /\ \A i \in S : Max(S) >= i
    BY <1>3 DEF Max
  <1>6. PICK m \in S : m = Max(S)
    BY <1>5
  <1> QED BY <1>1, <1>2, <1>4, <1>5, <1>6

\* The loop over the coefficients as an induction.
LEMMA TurnsTyped ==
  ASSUME NEW block \in Block
  PROVE  /\ Turns(block)[0] = [run |-> 0, out |-> <<>>]
         /\ \A i \in 1..LastNonzero(block) :
               Turns(block)[i] = Coefficient(Turns(block)[i - 1], block[i])
         /\ \A i \in 0..LastNonzero(block) : Turns(block)[i] \in Coding
  <1>1. PICK last \in Nat, k \in Nat \ {0, 1} :
            last = LastNonzero(block) /\ k = kBlockElements /\ last <= k - 1
    BY LastIs, SizesAre
  <1>2. \A i \in 1..last : block[i] \in Int16
    <2>1. \A i \in 0..(k - 1) : block[i] \in Int16
      BY SizesAre, <1>1
    <2> QED BY <1>1, <2>1
  <1>3. PICK none \in Coding : none = [run |-> 0, out |-> <<>>]
    <2>1. MaxRun \in Nat
      BY SizesAre
    <2>2. <<>> \in Seq(Symbol)
      OBVIOUS
    <2>3. [run |-> 0, out |-> <<>>] \in Coding
      BY <2>1, <2>2 DEF Coding
    <2> QED BY <2>3
  <1> DEFINE step == [p \in Coding \X Nat |->
                        IF p[2] \in 1..last THEN Coefficient(p[1], block[p[2]]) ELSE p[1]]
  <1>4. Recursion(Coding, none, step)
    <2>1. step \in [Coding \X Nat -> Coding]
      BY <1>2, CoefficientIs
    <2> QED BY <2>1 DEF Recursion
  <1>5. PICK g : Result(Coding, none, step, last, g)
    <2> HIDE DEF step
    <2> QED BY <1>4, RecursionIs
  <1>6. g \in [0..last -> Coding] /\ g[0] = none
        /\ \A i \in 1..last : g[i] = Coefficient(g[i - 1], block[i])
    <2>1. g \in [0..last -> Coding] /\ g[0] = none /\ \A i \in 1..last : g[i] = step[<<g[i - 1], i>>]
      BY <1>5 DEF Result
    <2>2. ASSUME NEW i \in 1..last PROVE g[i] = Coefficient(g[i - 1], block[i])
      <3>1. g[i - 1] \in Coding /\ i \in Nat
        BY <1>1, <2>1
      <3>2. g[i] = step[<<g[i - 1], i>>]
        <4> HIDE DEF step
        <4> QED BY <2>1
      <3> QED BY <3>1, <3>2
    <2> QED BY <2>1, <2>2
  <1> HIDE DEF step
  <1>7. g = [i \in 0..last |-> IF i = 0 THEN none ELSE Coefficient(g[i - 1], block[i])]
    <2>1. \A i \in 0..last : i = 0 \/ i \in 1..last
      BY <1>1
    <2> QED BY <1>6, <2>1
  <1> DEFINE turn == CHOOSE f : f = [i \in 0..last |->
                        IF i = 0 THEN none ELSE Coefficient(f[i - 1], block[i])]
  <1>8. turn = [i \in 0..last |-> IF i = 0 THEN none ELSE Coefficient(turn[i - 1], block[i])]
    BY <1>7, Zenon
  <1>9. Turns(block) = turn
    BY <1>1, <1>3 DEF Turns
  <1> HIDE DEF turn
  <1>10. \A i \in 0..last : turn[i] = IF i = 0 THEN none ELSE Coefficient(turn[i - 1], block[i])
    BY <1>8, Zenon
  <1> DEFINE T == {i \in Nat : i <= last => turn[i] \in Coding}
  <1>11. 0 \in T
    BY <1>1, <1>10
  <1>12. ASSUME NEW i \in Nat, i \in T PROVE i + 1 \in T
    <2> SUFFICES ASSUME i + 1 <= last PROVE turn[i + 1] \in Coding
      OBVIOUS
    <2>1. i + 1 \in 0..last /\ i + 1 # 0 /\ i + 1 \in 1..last /\ (i + 1) - 1 = i /\ i <= last
      BY <1>1
    <2>2. turn[i] \in Coding /\ block[i + 1] \in Int16
      BY <1>2, <1>12, <2>1
    <2>3. turn[i + 1] = Coefficient(turn[i], block[i + 1])
      BY <1>10, <2>1
    <2> QED BY <2>2, <2>3, CoefficientIs
  <1>13. \A i \in Nat : i \in T
    <2> HIDE DEF T
    <2> QED BY <1>11, <1>12, Induct
  <1>14. \A i \in 0..last : turn[i] \in Coding
    BY <1>13
  <1>15. turn[0] = none /\ \A i \in 1..last : turn[i] = Coefficient(turn[i - 1], block[i])
    BY <1>1, <1>10
  <1> QED BY <1>1, <1>3, <1>9, <1>14, <1>15

\* No run is as long as a symbol can say, so that each turn moves on.
LEMMA TurnsAre ==
  ASSUME NEW block \in Block
  PROVE  \A i \in 1..LastNonzero(block) : Turned(Turns(block)[i - 1], Turns(block)[i], block[i])
  <1>1. PICK last \in Nat, k \in Nat \ {0, 1} :
            last = LastNonzero(block) /\ k = kBlockElements /\ last <= k - 1
    BY LastIs, SizesAre
  <1>2. \A i \in 1..last : block[i] \in Int16
    <2>1. \A i \in 0..(k - 1) : block[i] \in Int16
      BY SizesAre, <1>1
    <2> QED BY <1>1, <2>1
  <1>3. k - 2 < MaxRun
    BY <1>1, SizesAre
  <1>4. PICK turn : turn = Turns(block)
    OBVIOUS
  <1>5. /\ turn[0] = [run |-> 0, out |-> <<>>]
        /\ \A i \in 1..last : turn[i] = Coefficient(turn[i - 1], block[i])
        /\ \A i \in 0..last : turn[i] \in Coding
    BY <1>1, <1>4, TurnsTyped
  <1> DEFINE T == {i \in Nat : i <= last => turn[i].run <= i}
  <1>6. ASSUME NEW i \in Nat, i + 1 <= last, turn[i].run <= i
        PROVE  Turned(turn[i], turn[i + 1], block[i + 1])
    <2>1. i + 1 \in 1..last /\ (i + 1) - 1 = i /\ i \in 0..last
      BY <1>6
    <2>2. turn[i] \in Coding /\ block[i + 1] \in Int16 /\ turn[i + 1] = Coefficient(turn[i], block[i + 1])
      BY <1>2, <1>5, <2>1
    <2>3. PICK run \in Nat : run = turn[i].run
      <3>1. MaxRun \in Nat
        BY SizesAre
      <3> QED BY <2>2, <3>1 DEF Coding
    <2>4. turn[i].run < MaxRun
      BY <1>1, <1>3, <1>6, <2>3, SizesAre
    <2> QED BY <2>2, <2>4, CoefficientIs
  <1>7. 0 \in T
    BY <1>5
  <1>8. ASSUME NEW i \in Nat, i \in T PROVE i + 1 \in T
    <2> SUFFICES ASSUME i + 1 <= last PROVE turn[i + 1].run <= i + 1
      OBVIOUS
    <2>1. turn[i].run <= i
      BY <1>1, <1>8
    <2>2. Turned(turn[i], turn[i + 1], block[i + 1])
      BY <1>6, <2>1
    <2>3. PICK run \in Nat : run = turn[i].run
      <3>1. MaxRun \in Nat
        BY SizesAre
      <3>2. turn[i] \in Coding
        BY <1>1, <1>5
      <3> QED BY <3>1, <3>2 DEF Coding
    <2> QED BY <2>1, <2>2, <2>3 DEF Turned
  <1>9. \A i \in Nat : i \in T
    <2> HIDE DEF T
    <2> QED BY <1>7, <1>8, Induct
  <1> SUFFICES ASSUME NEW i \in 1..last PROVE Turned(turn[i - 1], turn[i], block[i])
    BY <1>1, <1>4
  <1>10. PICK j \in Nat : i = j + 1 /\ j + 1 <= last /\ i - 1 = j /\ j <= last
    <2>1. i - 1 \in Nat /\ i = (i - 1) + 1 /\ i <= last
      OBVIOUS
    <2> QED BY <2>1
  <1>11. turn[j].run <= j
    BY <1>9, <1>10
  <1> QED BY <1>6, <1>10, <1>11

\* One sequence begins another.
Starts(a, b) ==
    /\ a \in Seq(Symbol) /\ b \in Seq(Symbol) /\ Len(a) <= Len(b)
    /\ \A i \in 1..Len(a) : a[i] = b[i]

LEMMA StartsOn ==
  ASSUME NEW a, NEW b, NEW c, Starts(a, b), Starts(b, c)
  PROVE  Starts(a, c)
  <1>1. PICK m \in Nat, n \in Nat, o \in Nat :
            m = Len(a) /\ n = Len(b) /\ o = Len(c) /\ m <= n /\ n <= o
    <2>1. Len(a) \in Nat /\ Len(b) \in Nat /\ Len(c) \in Nat
      BY LenProperties DEF Starts
    <2> QED BY <2>1 DEF Starts
  <1>2. \A i \in 1..m : i \in 1..n /\ a[i] = b[i] /\ b[i] = c[i]
    BY <1>1 DEF Starts
  <1> QED BY <1>1, <1>2 DEF Starts

LEMMA TurnStarts ==
  ASSUME NEW r \in Coding, NEW s \in Coding, NEW v, Turned(r, s, v)
  PROVE  Starts(r.out, s.out)
  <1>1. r.out \in Seq(Symbol) /\ s.out \in Seq(Symbol)
    BY DEF Coding
  <1>2. PICK n \in Nat : n = Len(r.out)
    BY <1>1, LenProperties
  <1>3. CASE v = 0
    BY <1>1, <1>2, <1>3 DEF Turned, Starts
  <1>4. CASE v # 0
    <2>1. PICK x, y, z : Three(r.out, s.out, x, y, z)
      BY <1>4 DEF Turned, Says
    <2> QED BY <1>1, <1>2, <2>1 DEF Three, Starts
  <1> QED BY <1>3, <1>4

\* What is written of a block stays.
LEMMA TurnsStart ==
  ASSUME NEW block \in Block, NEW p \in 0..LastNonzero(block)
  PROVE  \A q \in p..LastNonzero(block) : Starts(Turns(block)[p].out, Turns(block)[q].out)
  <1>1. PICK last \in Nat : last = LastNonzero(block) /\ p \in Nat /\ p <= last
    BY LastIs, SizesAre
  <1>2. PICK turn : turn = Turns(block)
    OBVIOUS
  <1>3. \A i \in 0..last : turn[i] \in Coding
    BY <1>1, <1>2, TurnsTyped
  <1>4. \A i \in 1..last : Turned(turn[i - 1], turn[i], block[i])
    BY <1>1, <1>2, TurnsAre
  <1> DEFINE T == {i \in Nat : p + i <= last => Starts(turn[p].out, turn[p + i].out)}
  <1>5. 0 \in T
    <2>1. turn[p].out \in Seq(Symbol)
      BY <1>1, <1>3 DEF Coding
    <2>2. Len(turn[p].out) \in Nat
      BY <2>1, LenProperties
    <2>3. Starts(turn[p].out, turn[p].out)
      BY <2>1, <2>2 DEF Starts
    <2>4. p + 0 = p
      BY <1>1
    <2> QED BY <2>3, <2>4
  <1>6. ASSUME NEW i \in Nat, i \in T PROVE i + 1 \in T
    <2> SUFFICES ASSUME p + (i + 1) <= last PROVE Starts(turn[p].out, turn[p + (i + 1)].out)
      OBVIOUS
    <2>1. PICK j \in 1..last : j = p + (i + 1) /\ j - 1 = p + i /\ j - 1 \in 0..last /\ j \in 0..last
      <3>1. p + (i + 1) \in 1..last /\ (p + (i + 1)) - 1 = p + i
        BY <1>1
      <3> QED BY <3>1
    <2>2. Starts(turn[p].out, turn[j - 1].out)
      BY <1>1, <1>6, <2>1
    <2>3. turn[j - 1] \in Coding /\ turn[j] \in Coding /\ Turned(turn[j - 1], turn[j], block[j])
      BY <1>3, <1>4, <2>1
    <2>4. Starts(turn[j - 1].out, turn[j].out)
      BY <2>3, TurnStarts
    <2> QED BY <2>1, <2>2, <2>4, StartsOn
  <1>7. \A i \in Nat : i \in T
    <2> HIDE DEF T
    <2> QED BY <1>5, <1>6, Induct
  <1> SUFFICES ASSUME NEW q \in p..last PROVE Starts(turn[p].out, turn[q].out)
    BY <1>1, <1>2
  <1>8. PICK i \in Nat : q = p + i /\ p + i <= last
    <2>1. q - p \in Nat /\ q = p + (q - p) /\ q <= last
      BY <1>1
    <2> QED BY <2>1
  <1> QED BY <1>7, <1>8

\* Zeros lengthen the run and write nothing.
LEMMA ZerosRun ==
  ASSUME NEW block \in Block, NEW p \in 0..LastNonzero(block), Turns(block)[p].run = 0,
         NEW i \in p..LastNonzero(block), \A j \in (p + 1)..i : block[j] = 0
  PROVE  Turns(block)[i].run = i - p /\ Turns(block)[i].out = Turns(block)[p].out
  <1>1. PICK last \in Nat : last = LastNonzero(block) /\ p \in Nat /\ i \in Nat /\ i <= last /\ p <= i
    BY LastIs, SizesAre
  <1>2. PICK turn : turn = Turns(block)
    OBVIOUS
  <1>3. \A j \in 1..last : Turned(turn[j - 1], turn[j], block[j])
    BY <1>1, <1>2, TurnsAre
  <1> DEFINE T == {k \in Nat : p + k <= i => turn[p + k].run = k /\ turn[p + k].out = turn[p].out}
  <1>4. 0 \in T
    <2>1. p + 0 = p
      BY <1>1
    <2> QED BY <1>2, <2>1
  <1>5. ASSUME NEW k \in Nat, k \in T PROVE k + 1 \in T
    <2> SUFFICES ASSUME p + (k + 1) <= i
                 PROVE  turn[p + (k + 1)].run = k + 1 /\ turn[p + (k + 1)].out = turn[p].out
      OBVIOUS
    <2>1. PICK j \in 1..last : j = p + (k + 1) /\ j - 1 = p + k /\ j \in (p + 1)..i
      <3>1. p + (k + 1) \in 1..last /\ (p + (k + 1)) - 1 = p + k /\ p + (k + 1) \in (p + 1)..i
        BY <1>1
      <3> QED BY <3>1
    <2>2. turn[j - 1].run = k /\ turn[j - 1].out = turn[p].out
      BY <1>1, <1>5, <2>1
    <2>3. block[j] = 0 /\ Turned(turn[j - 1], turn[j], block[j])
      BY <1>3, <2>1
    <2> QED BY <2>1, <2>2, <2>3 DEF Turned
  <1>6. \A k \in Nat : k \in T
    <2> HIDE DEF T
    <2> QED BY <1>4, <1>5, Induct
  <1>7. PICK k \in Nat : k = i - p /\ i = p + k
    <2>1. i - p \in Nat /\ i = p + (i - p)
      BY <1>1
    <2> QED BY <2>1
  <1> QED BY <1>1, <1>2, <1>6, <1>7

\* What follows of a block, from a coefficient on that no run precedes: a run, and the
\* next coefficient that is not zero.
Onwards(block, at, i) ==
    /\ block[i] # 0 /\ \A j \in at..(i - 1) : block[j] = 0
    /\ Turns(block)[i].run = 0
    /\ \E high \in Symbol, low \in Symbol :
          /\ Three(Turns(block)[at - 1].out, Turns(block)[i].out, i - at, high, low)
          /\ Value(high, low) = block[i]

\* Behind a coefficient without a run comes the next one that is not zero.
LEMMA NextNonzero ==
  ASSUME NEW block \in Block, NEW at \in 1..LastNonzero(block), Turns(block)[at - 1].run = 0
  PROVE  \E i \in at..LastNonzero(block) : Onwards(block, at, i)
  <1>1. PICK last \in Nat, p \in Nat :
            /\ last = LastNonzero(block) /\ at = p + 1 /\ at - 1 = p /\ p < last
            /\ last # 0 /\ block[last] # 0
    <2>1. LastNonzero(block) \in Nat
      BY LastIs, SizesAre
    <2>2. at - 1 \in Nat /\ at = (at - 1) + 1 /\ at - 1 < LastNonzero(block) /\ LastNonzero(block) # 0
      BY <2>1
    <2> QED BY <2>1, <2>2, LastIs
  <1>2. PICK turn : turn = Turns(block)
    OBVIOUS
  <1> DEFINE S == {i \in Nat : i \in at..last /\ block[i] # 0}
  <1>3. S \in SUBSET Nat /\ last \in S
    BY <1>1
  <1>4. PICK i \in S : \A j \in S : i <= j
    <2> HIDE DEF S
    <2> QED BY <1>3, Least
  <1>5. i \in Nat /\ i \in at..last /\ i - 1 \in p..last /\ i \in 1..last /\ block[i] # 0
    BY <1>1, <1>4
  <1>6. \A j \in at..(i - 1) : block[j] = 0
    <2> SUFFICES ASSUME NEW j \in at..(i - 1), block[j] # 0 PROVE FALSE
      OBVIOUS
    <2>1. j \in S /\ ~(i <= j)
      BY <1>1, <1>5
    <2> QED BY <1>4, <2>1
  <1>7. turn[i - 1].run = (i - 1) - p /\ turn[i - 1].out = turn[p].out
    <2>1. p \in 0..last /\ turn[p].run = 0 /\ \A j \in (p + 1)..(i - 1) : block[j] = 0
      BY <1>1, <1>2, <1>6
    <2> QED BY <1>1, <1>2, <1>5, <2>1, ZerosRun
  <1>8. Turned(turn[i - 1], turn[i], block[i])
    BY <1>1, <1>2, <1>5, TurnsAre
  <1>9. turn[i].run = 0 /\ Says(turn[i - 1], turn[i], block[i])
    BY <1>5, <1>8 DEF Turned
  <1>10. (i - 1) - p = i - at
    BY <1>1, <1>5
  <1>11. Onwards(block, at, i)
    BY <1>1, <1>2, <1>5, <1>6, <1>7, <1>9, <1>10 DEF Onwards, Says
  <1> QED BY <1>1, <1>5, <1>11

\* All the symbols of a block: the DC's two, those of the other coefficients, the marker.
Spelling(out, block, prev_dc) ==
    /\ out \in Seq(Symbol) /\ Len(out) = Len(AcSymbols(block)) + 3
    /\ \A j \in 1..Len(AcSymbols(block)) : out[2 + j] = AcSymbols(block)[j]
    /\ out[Len(AcSymbols(block)) + 3] = EOB
    /\ \E high \in Symbol, low \in Symbol :
          out[1] = high /\ out[2] = low /\ Value(high, low) = Wrap(block[0] - prev_dc)

LEMMA BlockSymbolsAre ==
  ASSUME NEW block \in Block, NEW prev_dc \in Int16
  PROVE  /\ Spelling(BlockSymbols(block, prev_dc), block, prev_dc)
         /\ AcSymbols(block) \in Seq(Symbol)
  <1>1. PICK ac \in Seq(Symbol), n \in Nat : ac = AcSymbols(block) /\ n = Len(ac)
    <2>1. LastNonzero(block) \in 0..LastNonzero(block)
      BY LastIs, SizesAre
    <2>2. Turns(block)[LastNonzero(block)] \in Coding
      BY <2>1, TurnsTyped
    <2>3. AcSymbols(block) \in Seq(Symbol)
      BY <2>2 DEF AcSymbols, Coding
    <2> QED BY <2>3, LenProperties
  <1>2. PICK v \in Int16 : v = Wrap(block[0] - prev_dc)
    <2>1. block[0] \in Int16
      BY SizesAre
    <2>2. block[0] - prev_dc \in Int
      BY <2>1, HalfIs DEF Int16
    <2> QED BY <2>2, WrapIs
  <1>3. PICK high \in Symbol, low \in Symbol : SymbolsOf(v) = <<high, low>> /\ Value(high, low) = v
    BY SymbolsOfIs
  <1>4. PICK eob \in Symbol : eob = EOB
    <2>1. EOB \in Symbol
      BY SizesAre
    <2> QED BY <2>1
  <1>5. /\ <<high, low>> \in Seq(Symbol) /\ Len(<<high, low>>) = 2
        /\ <<high, low>>[1] = high /\ <<high, low>>[2] = low
        /\ <<eob>> \in Seq(Symbol) /\ Len(<<eob>>) = 1 /\ <<eob>>[1] = eob
    OBVIOUS
  <1>6. PICK all : all = <<high, low>> \o ac
    OBVIOUS
  <1>7. /\ all \in Seq(Symbol) /\ Len(all) = 2 + n
        /\ \A i \in 1..(2 + n) : all[i] = IF i <= 2 THEN <<high, low>>[i] ELSE ac[i - 2]
    BY <1>1, <1>5, <1>6, ConcatProperties
  <1>8. PICK out : out = all \o <<eob>>
    OBVIOUS
  <1>9. /\ out \in Seq(Symbol) /\ Len(out) = (2 + n) + 1
        /\ \A i \in 1..((2 + n) + 1) : out[i] = IF i <= 2 + n THEN all[i] ELSE <<eob>>[i - (2 + n)]
    BY <1>5, <1>7, <1>8, ConcatProperties
  <1>10. out = BlockSymbols(block, prev_dc)
    BY <1>1, <1>2, <1>3, <1>4, <1>6, <1>8 DEF BlockSymbols, End
  <1>11. out[1] = high /\ out[2] = low
    <2>1. 1 \in 1..((2 + n) + 1) /\ 1 <= 2 + n /\ 1 \in 1..(2 + n) /\ 2 \in 1..((2 + n) + 1)
          /\ 2 <= 2 + n /\ 2 \in 1..(2 + n)
      OBVIOUS
    <2>2. out[1] = all[1] /\ out[2] = all[2]
      BY <1>9, <2>1
    <2>3. all[1] = <<high, low>>[1] /\ all[2] = <<high, low>>[2]
      BY <1>7, <2>1
    <2> QED BY <1>5, <2>2, <2>3
  <1>12. ASSUME NEW j \in 1..n PROVE out[2 + j] = ac[j]
    <2>1. 2 + j \in 1..((2 + n) + 1) /\ 2 + j <= 2 + n /\ 2 + j \in 1..(2 + n) /\ ~(2 + j <= 2)
          /\ (2 + j) - 2 = j
      OBVIOUS
    <2> QED BY <1>7, <1>9, <2>1
  <1>13. out[n + 3] = eob
    <2>1. n + 3 \in 1..((2 + n) + 1) /\ ~(n + 3 <= 2 + n) /\ (n + 3) - (2 + n) = 1
      OBVIOUS
    <2> QED BY <1>5, <1>9, <2>1
  <1>14. Len(out) = n + 3
    BY <1>9
  <1>15. Spelling(out, block, prev_dc)
    BY <1>1, <1>2, <1>3, <1>4, <1>9, <1>11, <1>12, <1>13, <1>14 DEF Spelling
  <1> QED BY <1>1, <1>10, <1>15

\* Where the n-th block ends among the symbols, and the DC before the block behind it.
Ends(n) == IF n = 0 THEN 0 ELSE encoded.ends[n]

DcBefore(n) == IF n = 0 THEN 0 ELSE picture[n][0]

BlocksTyped ==
    /\ picture \in Seq(Block) /\ coded \in Seq(Symbol) /\ decoded \in Seq(Block)
    /\ encoded \in [blocks : Nat, prev_dc : Int16, ends : Seq(Nat)]
    /\ encoded.blocks <= Len(picture)
    /\ decoder \in [pos : Nat, at : 0..(kBlockElements - 1), prev_dc : Int16, block : Block]
    /\ Len(decoded) <= Blocks

\* The symbols of the k-th block are where they should be.
Written(k) ==
    /\ Ends(k) = Ends(k - 1) + Len(BlockSymbols(picture[k], DcBefore(k - 1)))
    /\ Ends(k) <= Len(coded)
    /\ \A j \in 1..Len(BlockSymbols(picture[k], DcBefore(k - 1))) :
          coded[Ends(k - 1) + j] = BlockSymbols(picture[k], DcBefore(k - 1))[j]

BlocksWritten ==
    picture # <<>> =>
        /\ Len(encoded.ends) = encoded.blocks
        /\ encoded.prev_dc = DcBefore(encoded.blocks)
        /\ Len(coded) = Ends(encoded.blocks)
        /\ \A k \in 1..encoded.blocks : Ends(k) \in Nat /\ Written(k)

\* The decoder waits for the encoder.
DecoderWaits ==
    encoded.blocks < Len(picture) =>
        /\ decoder = [pos |-> 0, at |-> 0, prev_dc |-> 0, block |-> Blank]
        /\ decoded = <<>>

Clear(n) == \A k \in 1..n : ~Full(picture[k])

\* The decoder between two blocks, and in a block: it has read the runs and values
\* up to a coefficient that no run of zeros follows.
Between(n) ==
    decoder.pos = Ends(n) /\ decoder.prev_dc = DcBefore(n) /\ decoder.block = Blank

Agrees(block, at, other) ==
    \A i \in 0..(kBlockElements - 1) : block[i] = IF i < at THEN other[i] ELSE 0

Within(n) ==
    /\ n <= Len(picture)
    /\ decoder.prev_dc = picture[n][0]
    /\ decoder.at - 1 \in 0..LastNonzero(picture[n])
    /\ Turns(picture[n])[decoder.at - 1].run = 0
    /\ decoder.pos = Ends(n - 1) + 2 + Len(Turns(picture[n])[decoder.at - 1].out)
    /\ Agrees(decoder.block, decoder.at, picture[n])

BlocksRead ==
    picture # <<>> =>
        /\ \A n \in 1..Len(decoded) : Clear(n - 1) => decoded[n] = picture[n]
        /\ Len(decoded) > 0 /\ Clear(Len(decoded) - 1) /\ Full(picture[Len(decoded)])
              /\ decoder.at = 0 => decoder.pos = Ends(Len(decoded)) - 1
        /\ Clear(Len(decoded)) =>
              IF decoder.at = 0 THEN Between(Len(decoded)) ELSE Within(Len(decoded) + 1)

BlocksInv == BlocksTyped /\ BlocksWritten /\ DecoderWaits /\ BlocksRead

LEMMA BlankIs == Blank \in Block
  BY ZeroIs DEF Blank, Block

LEMMA BlocksInvStarts == BlockInit => BlocksInv
  <1> SUFFICES ASSUME BlockInit PROVE BlocksInv
    OBVIOUS
  <1>1. picture \in Seq(Block) /\ coded \in Seq(Symbol) /\ decoded \in Seq(Block) /\ decoded = <<>>
    <2>1. <<>> \in Seq(Block) /\ <<>> \in Seq(Symbol)
      OBVIOUS
    <2>2. picture \in Seq(Block) /\ coded \in Seq(Symbol) /\ decoded = <<>>
      BY <2>1, BlockAssumption DEF BlockInit
    <2> QED BY <2>1, <2>2
  <1>2. encoded = [blocks |-> 0, prev_dc |-> 0, ends |-> <<>>]
    BY DEF BlockInit
  <1>3. decoder = [pos |-> 0, at |-> 0, prev_dc |-> 0, block |-> Blank]
    BY DEF BlockInit
  <1>4. Len(picture) \in Nat /\ Blocks \in Nat
    BY <1>1, LenProperties, BlockAssumption DEF Blocks
  <1>5. Len(decoded) = 0 /\ <<>> \in Seq(Nat) /\ Len(<<>>) = 0
    BY <1>1
  <1>6. 0 \in 0..(kBlockElements - 1)
    BY SizesAre
  <1>7. BlocksTyped
    <2>1. encoded \in [blocks : Nat, prev_dc : Int16, ends : Seq(Nat)]
      BY <1>2, <1>5, ZeroIs
    <2>2. decoder \in [pos : Nat, at : 0..(kBlockElements - 1), prev_dc : Int16, block : Block]
      BY <1>3, <1>6, ZeroIs, BlankIs
    <2> QED BY <1>1, <1>2, <1>4, <1>5, <2>1, <2>2 DEF BlocksTyped
  <1>8. BlocksWritten
    <2>1. picture # <<>> => coded = <<>>
      BY DEF BlockInit
    <2>2. \A k \in 1..0 : Ends(k) \in Nat /\ Written(k)
      OBVIOUS
    <2> QED BY <1>2, <1>5, <2>1, <2>2 DEF BlocksWritten, DcBefore, Ends
  <1>9. DecoderWaits
    BY <1>1, <1>3 DEF DecoderWaits
  <1>10. BlocksRead
    <2>1. Between(0) /\ decoder.at = 0
      BY <1>3 DEF Between, Ends, DcBefore
    <2>2. \A n \in 1..0 : Clear(n - 1) => decoded[n] = picture[n]
      OBVIOUS
    <2> QED BY <1>5, <2>1, <2>2 DEF BlocksRead
  <1> QED BY <1>7, <1>8, <1>9, <1>10 DEF BlocksInv

LEMMA EncodeBlockKeeps == BlocksInv /\ EncodeBlock => BlocksInv'
  <1> SUFFICES ASSUME BlocksInv, EncodeBlock PROVE BlocksInv'
    OBVIOUS
  <1>1. PICK n \in Nat, len \in Nat :
            /\ n = encoded.blocks /\ len = Len(picture) /\ n < len /\ n + 1 \in 1..len /\ n + 1 \in Nat
            /\ picture # <<>> /\ picture \in Seq(Block)
    <2>1. picture \in Seq(Block) /\ encoded.blocks \in Nat /\ encoded.blocks < Len(picture)
      BY DEF BlocksInv, BlocksTyped, EncodeBlock
    <2>2. Len(picture) \in Nat /\ picture # <<>>
      BY <2>1, LenProperties
    <2>3. encoded.blocks + 1 \in 1..Len(picture) /\ encoded.blocks + 1 \in Nat
      BY <2>1, <2>2
    <2> QED BY <2>1, <2>2, <2>3
  <1>2. PICK block \in Block : block = picture[n + 1]
    <2>1. picture[n + 1] \in Block
      BY <1>1, ElementOfSeq
    <2> QED BY <2>1
  <1>3. PICK pdc \in Int16 : pdc = encoded.prev_dc /\ pdc = DcBefore(n)
    BY <1>1 DEF BlocksInv, BlocksTyped, BlocksWritten
  <1>4. PICK out \in Seq(Symbol), m \in Nat : out = BlockSymbols(block, pdc) /\ m = Len(out)
    <2>1. BlockSymbols(block, pdc) \in Seq(Symbol)
      BY BlockSymbolsAre DEF Spelling
    <2> QED BY <2>1, LenProperties
  <1>5. PICK c \in Nat : c = Len(coded) /\ coded \in Seq(Symbol) /\ c = Ends(n)
    <2>1. coded \in Seq(Symbol) /\ Len(coded) = Ends(n)
      BY <1>1 DEF BlocksInv, BlocksTyped, BlocksWritten
    <2> QED BY <2>1, LenProperties
  <1>6. PICK ends \in Seq(Nat) : ends = encoded.ends /\ Len(ends) = n
    BY <1>1 DEF BlocksInv, BlocksTyped, BlocksWritten
  <1>7. /\ coded' = coded \o out
        /\ encoded' = [blocks |-> n + 1, prev_dc |-> block[0], ends |-> Append(ends, c + m)]
        /\ picture' = picture /\ decoder' = decoder /\ decoded' = decoded
    BY <1>1, <1>2, <1>3, <1>4, <1>5, <1>6 DEF EncodeBlock
  <1>8. /\ coded' \in Seq(Symbol) /\ Len(coded') = c + m
        /\ \A i \in 1..(c + m) : coded'[i] = IF i <= c THEN coded[i] ELSE out[i - c]
    <2>1. PICK old \in Seq(Symbol) : old = coded
      BY <1>5
    <2>2. PICK all : all = old \o out
      OBVIOUS
    <2>3. /\ all \in Seq(Symbol) /\ Len(all) = Len(old) + Len(out)
          /\ \A i \in 1..(Len(old) + Len(out)) :
                all[i] = IF i <= Len(old) THEN old[i] ELSE out[i - Len(old)]
      BY <2>2, ConcatProperties
    <2>4. Len(old) = c /\ Len(out) = m
      BY <1>4, <1>5, <2>1
    <2> QED BY <1>7, <2>1, <2>2, <2>3, <2>4
  <1>9. PICK more : more = Append(ends, c + m)
    OBVIOUS
  <1>10. /\ more \in Seq(Nat) /\ Len(more) = n + 1 /\ more[n + 1] = c + m
         /\ \A i \in 1..n : more[i] = ends[i]
    <2>1. c + m \in Nat
      OBVIOUS
    <2> QED BY <1>6, <1>9, <2>1, AppendProperties
  <1>11. /\ encoded'.blocks = n + 1 /\ encoded'.prev_dc = block[0] /\ encoded'.ends = more
         /\ encoded' \in [blocks : Nat, prev_dc : Int16, ends : Seq(Nat)]
    <2>1. block[0] \in Int16
      BY SizesAre
    <2> QED BY <1>1, <1>7, <1>9, <1>10, <2>1
  <1>12. BlocksTyped'
    <2>1. Blocks' = Blocks
      BY <1>7 DEF Blocks
    <2> QED BY <1>1, <1>7, <1>8, <1>11, <2>1 DEF BlocksInv, BlocksTyped
  <1>13. /\ \A k \in 0..n : Ends(k)' = Ends(k) /\ DcBefore(k)' = DcBefore(k)
         /\ Ends(n + 1)' = c + m /\ DcBefore(n + 1)' = block[0]
    <2>1. ASSUME NEW k \in 0..n PROVE Ends(k)' = Ends(k) /\ DcBefore(k)' = DcBefore(k)
      <3>1. k # 0 => k \in 1..n
        OBVIOUS
      <3> QED BY <1>6, <1>7, <1>10, <1>11, <3>1 DEF Ends, DcBefore
    <2>2. n + 1 # 0
      OBVIOUS
    <2> QED BY <1>1, <1>2, <1>7, <1>10, <1>11, <2>1, <2>2 DEF Ends, DcBefore
  <1>14. BlocksWritten'
    <2>1. ASSUME NEW k \in 1..n PROVE Ends(k)' \in Nat /\ Written(k)'
      <3>1. Ends(k) \in Nat /\ Written(k)
        BY <1>1 DEF BlocksInv, BlocksWritten
      <3>2. PICK a \in Nat, b \in Nat : a = Ends(k - 1) /\ b = Ends(k)
        <4>1. k - 1 = 0 \/ k - 1 \in 1..n
          OBVIOUS
        <4>2. Ends(k - 1) \in Nat
          BY <1>1, <4>1 DEF BlocksInv, BlocksWritten, Ends
        <4> QED BY <3>1, <4>2
      <3>3. PICK w \in Seq(Symbol), l \in Nat : w = BlockSymbols(picture[k], DcBefore(k - 1)) /\ l = Len(w)
        <4>1. picture[k] \in Block
          <5>1. k \in 1..len
            BY <1>1
          <5> QED BY <1>1, <5>1, ElementOfSeq
        <4>2. DcBefore(k - 1) \in Int16
          <5>1. CASE k - 1 = 0
            BY <5>1, ZeroIs DEF DcBefore
          <5>2. CASE k - 1 # 0
            <6>1. k - 1 \in 1..len
              BY <1>1, <5>2
            <6>2. picture[k - 1] \in Block
              BY <1>1, <6>1, ElementOfSeq
            <6>3. picture[k - 1][0] \in Int16
              BY <6>2, SizesAre
            <6> QED BY <5>2, <6>3 DEF DcBefore
          <5> QED BY <5>1, <5>2
        <4>3. BlockSymbols(picture[k], DcBefore(k - 1)) \in Seq(Symbol)
          BY <4>1, <4>2, BlockSymbolsAre DEF Spelling
        <4> QED BY <4>3, LenProperties
      <3>4. b = a + l /\ b <= c /\ \A j \in 1..l : coded[a + j] = w[j]
        BY <1>5, <3>1, <3>2, <3>3 DEF Written
      <3>5. b <= c + m /\ \A j \in 1..l : coded'[a + j] = w[j]
        <4>1. ASSUME NEW j \in 1..l PROVE coded'[a + j] = w[j]
          <5>1. a + j \in 1..(c + m) /\ a + j <= c
            BY <3>4
          <5> QED BY <1>8, <3>4, <5>1
        <4> QED BY <3>4, <4>1
      <3>6. /\ Ends(k)' = b /\ Ends(k - 1)' = a
            /\ BlockSymbols(picture'[k], DcBefore(k - 1)') = w
        <4>1. k \in 0..n /\ k - 1 \in 0..n
          OBVIOUS
        <4> QED BY <1>7, <1>13, <3>2, <3>3, <4>1
      <3> QED BY <1>8, <3>3, <3>4, <3>5, <3>6 DEF Written
    <2>2. Ends(n + 1)' \in Nat /\ Written(n + 1)'
      <3>1. ASSUME NEW j \in 1..m PROVE coded'[c + j] = out[j]
        <4>1. c + j \in 1..(c + m) /\ ~(c + j <= c) /\ (c + j) - c = j
          OBVIOUS
        <4> QED BY <1>8, <4>1
      <3>2. BlockSymbols(picture'[n + 1], DcBefore(n)') = out
        <4>1. n \in 0..n
          OBVIOUS
        <4> QED BY <1>2, <1>3, <1>4, <1>7, <1>13, <4>1
      <3>3. PICK k \in Nat : k = n + 1 /\ k - 1 = n /\ n \in 0..n
        OBVIOUS
      <3>4. /\ Ends(k)' = c + m /\ Ends(k - 1)' = c /\ c + m \in Nat
            /\ BlockSymbols(picture'[k], DcBefore(k - 1)') = out
        BY <1>5, <1>13, <3>2, <3>3
      <3>5. Written(k)'
        BY <1>4, <1>8, <3>1, <3>4 DEF Written
      <3> QED BY <3>3, <3>4, <3>5
    <2>3. \A k \in 1..(n + 1) : Ends(k)' \in Nat /\ Written(k)'
      <3>1. \A k \in 1..(n + 1) : k \in 1..n \/ k = n + 1
        OBVIOUS
      <3> QED BY <2>1, <2>2, <3>1
    <2> QED BY <1>8, <1>10, <1>11, <1>13, <2>3 DEF BlocksWritten
  <1>15. decoder = [pos |-> 0, at |-> 0, prev_dc |-> 0, block |-> Blank] /\ decoded = <<>>
    BY <1>1 DEF BlocksInv, DecoderWaits
  <1>16. DecoderWaits'
    BY <1>7, <1>15 DEF DecoderWaits
  <1>17. BlocksRead'
    <2>1. Between(0)' /\ decoder'.at = 0 /\ Len(decoded') = 0
      BY <1>7, <1>15 DEF Between, Ends, DcBefore
    <2>2. \A i \in 1..0 : Clear(i - 1)' => decoded'[i] = picture'[i]
      OBVIOUS
    <2> QED BY <2>1, <2>2 DEF BlocksRead
  <1> QED BY <1>12, <1>14, <1>16, <1>17 DEF BlocksInv

\* Inside the stream the decoder gets the symbols of the encoder.
LEMMA ReceivedIs ==
  ASSUME BlocksTyped, NEW n \in Nat, NEW s \in Received(n)
  PROVE  /\ \A i \in 1..n : s[i] \in Symbol
         /\ \A i \in 1..n : decoder.pos + i <= Len(coded) => s[i] = coded[decoder.pos + i]
  BY DEF Received

LEMMA OnwardIs ==
  ASSUME BlocksTyped, NEW pos \in Nat, NEW n \in Nat
  PROVE  /\ Onward(pos, n) \in Nat
         /\ pos + n <= Len(coded) => Onward(pos, n) = pos + n
  <1>1. PICK c \in Nat : c = Len(coded)
    BY LenProperties DEF BlocksTyped
  <1>2. Onward(pos, n) = Min({pos + n, c + 1})
    BY <1>1 DEF Onward
  <1>3. pos + n \in Int /\ c + 1 \in Int
    OBVIOUS
  <1>4. Onward(pos, n) = IF pos + n <= c + 1 THEN pos + n ELSE c + 1
    BY <1>2, <1>3, PairIs
  <1> QED BY <1>1, <1>4

\* While a frame is decoded, all of it has been written.
LEMMA AllWritten ==
  ASSUME BlocksInv, Decoding, picture # <<>>
  PROVE  \E len \in Nat, n \in Nat :
            /\ len = Len(picture) /\ len = encoded.blocks /\ n = Len(decoded) /\ n < len
            /\ n + 1 \in Nat /\ picture[n + 1] \in Block
            /\ DcBefore(n) \in Int16 /\ Ends(n) \in Nat /\ Ends(n + 1) \in Nat /\ Written(n + 1)
  <1>1. picture \in Seq(Block) /\ decoded \in Seq(Block)
    BY DEF BlocksInv, BlocksTyped
  <1>2. PICK len \in Nat, n \in Nat : len = Len(picture) /\ n = Len(decoded) /\ n < len /\ encoded.blocks = len
    <2>1. Len(picture) \in Nat /\ Len(decoded) \in Nat
      BY <1>1, LenProperties
    <2> QED BY <2>1 DEF Decoding, Blocks
  <1>3. n + 1 \in 1..len /\ n + 1 \in Nat /\ (n = 0 \/ n \in 1..len)
    BY <1>2
  <1>4. picture[n + 1] \in Block
    BY <1>1, <1>2, <1>3, ElementOfSeq
  <1>5. \A k \in 1..len : Ends(k) \in Nat /\ Written(k)
    BY <1>2 DEF BlocksInv, BlocksWritten
  <1>6. Ends(n) \in Nat /\ Ends(n + 1) \in Nat /\ Written(n + 1)
    BY <1>3, <1>5 DEF Ends
  <1>7. DcBefore(n) \in Int16
    <2>1. CASE n = 0
      BY <2>1, ZeroIs DEF DcBefore
    <2>2. CASE n # 0
      <3>1. picture[n] \in Block
        BY <1>1, <1>2, <1>3, <2>2, ElementOfSeq
      <3>2. picture[n][0] \in Int16
        BY <3>1, SizesAre
      <3> QED BY <2>2, <3>2 DEF DcBefore
    <2> QED BY <2>1, <2>2
  <1> QED BY <1>2, <1>3, <1>4, <1>6, <1>7

\* A step that only decodes leaves what has been written alone.
LEMMA OnlyDecodes ==
  ASSUME UNCHANGED <<picture, coded, encoded>>
  PROVE  /\ \A n : Ends(n)' = Ends(n) /\ DcBefore(n)' = DcBefore(n) /\ Clear(n)' = Clear(n)
         /\ BlocksWritten => BlocksWritten'
         /\ Decoding => DecoderWaits'
         /\ Blocks' = Blocks
  <1>1. picture' = picture /\ coded' = coded /\ encoded' = encoded
    OBVIOUS
  <1>2. \A n : Ends(n)' = Ends(n) /\ DcBefore(n)' = DcBefore(n) /\ Clear(n)' = Clear(n)
    BY <1>1 DEF Ends, DcBefore, Clear
  <1>3. BlocksWritten => BlocksWritten'
    <2>1. \A k : Written(k)' = Written(k)
      BY <1>1, <1>2 DEF Written
    <2> QED BY <1>1, <1>2, <2>1 DEF BlocksWritten
  <1>4. Decoding => DecoderWaits'
    <2> SUFFICES ASSUME Decoding, encoded.blocks < Len(picture) PROVE FALSE
      BY <1>1 DEF DecoderWaits
    <2> QED BY DEF Decoding
  <1>5. Blocks' = Blocks
    BY <1>1 DEF Blocks
  <1> QED BY <1>2, <1>3, <1>4, <1>5

\* The decoder as a record of its fields.
At(pos, at, prev_dc, block) == [pos |-> pos, at |-> at, prev_dc |-> prev_dc, block |-> block]

LEMMA PosPut ==
  ASSUME NEW pos, NEW at, NEW p, NEW block, NEW x
  PROVE  [At(pos, at, p, block) EXCEPT !.pos = x] = At(x, at, p, block)
  BY DEF At

LEMMA IndexPut ==
  ASSUME NEW pos, NEW at, NEW p, NEW block, NEW x
  PROVE  [At(pos, at, p, block) EXCEPT !.at = x] = At(pos, x, p, block)
  BY DEF At

LEMMA DcPut ==
  ASSUME NEW pos, NEW at, NEW p, NEW block, NEW x
  PROVE  [At(pos, at, p, block) EXCEPT !.prev_dc = x] = At(pos, at, x, block)
  BY DEF At

LEMMA BlockPut ==
  ASSUME NEW pos, NEW at, NEW p, NEW block, NEW x
  PROVE  [At(pos, at, p, block) EXCEPT !.block = x] = At(pos, at, p, x)
  BY DEF At

\* What the steps assign to the decoder.
DcDone(d, dc) ==
    [[d EXCEPT !.block[0] = dc, !.prev_dc = dc] EXCEPT !.pos = Onward(@, 2), !.at = 1]

StoreDone(d) == [d EXCEPT !.at = 0, !.block = Blank]

RunDone(d) == [d EXCEPT !.pos = Onward(@, 1)]

Filled(block, i, v) == [block EXCEPT ![i] = IF v = 0 THEN @ ELSE v]

ValueDone(d, i, v) ==
    [d EXCEPT !.pos = Onward(@, 2), !.at = IF v = 0 THEN i ELSE i + 1,
              !.block[i] = IF v = 0 THEN @ ELSE v]

LEMMA DcDoneIs ==
  ASSUME NEW pos, NEW at, NEW p, NEW block, NEW dc, NEW d, d = At(pos, at, p, block)
  PROVE  DcDone(d, dc) = At(Onward(pos, 2), 1, dc, [block EXCEPT ![0] = dc])
  <1>1. d.block = block /\ d.pos = pos
    BY DEF At
  <1>2. PICK c : c = [block EXCEPT ![0] = dc]
    OBVIOUS
  <1>3. [d EXCEPT !.block[0] = dc, !.prev_dc = dc] = [[d EXCEPT !.block = c] EXCEPT !.prev_dc = dc]
    BY <1>1, <1>2
  <1>4. [d EXCEPT !.block = c] = At(pos, at, p, c)
    BY BlockPut
  <1>5. [[d EXCEPT !.block = c] EXCEPT !.prev_dc = dc] = [At(pos, at, p, c) EXCEPT !.prev_dc = dc]
    BY <1>4, Zenon
  <1>6. PICK e : e = At(pos, at, dc, c)
    OBVIOUS
  <1>7. [d EXCEPT !.block[0] = dc, !.prev_dc = dc] = e
    <2>1. [At(pos, at, p, c) EXCEPT !.prev_dc = dc] = At(pos, at, dc, c)
      BY DcPut
    <2> QED BY <1>3, <1>5, <1>6, <2>1, Zenon
  <1>8. e.pos = pos
    BY <1>6 DEF At
  <1>9. PICK q : q = Onward(pos, 2)
    OBVIOUS
  <1>10. [e EXCEPT !.pos = Onward(@, 2), !.at = 1] = [[e EXCEPT !.pos = q] EXCEPT !.at = 1]
    <2>1. [e EXCEPT !.pos = Onward(@, 2), !.at = 1] = [[e EXCEPT !.pos = Onward(e.pos, 2)] EXCEPT !.at = 1]
      OBVIOUS
    <2>2. Onward(e.pos, 2) = q
      BY <1>8, <1>9, Zenon
    <2> QED BY <2>1, <2>2, Zenon
  <1>11. [e EXCEPT !.pos = q] = At(q, at, dc, c)
    BY <1>6, PosPut
  <1>12. [[e EXCEPT !.pos = q] EXCEPT !.at = 1] = [At(q, at, dc, c) EXCEPT !.at = 1]
    BY <1>11, Zenon
  <1>13. [At(q, at, dc, c) EXCEPT !.at = 1] = At(q, 1, dc, c)
    BY IndexPut
  <1>14. [e EXCEPT !.pos = Onward(@, 2), !.at = 1] = At(q, 1, dc, c)
    BY <1>10, <1>12, <1>13, Zenon
  <1>15. DcDone(d, dc) = [[d EXCEPT !.block[0] = dc, !.prev_dc = dc] EXCEPT !.pos = Onward(@, 2), !.at = 1]
    BY DEF DcDone
  <1> QED BY <1>2, <1>7, <1>9, <1>14, <1>15, Zenon

LEMMA StoreDoneIs ==
  ASSUME NEW pos, NEW at, NEW p, NEW block, NEW d, d = At(pos, at, p, block)
  PROVE  StoreDone(d) = At(pos, 0, p, Blank)
  <1>1. StoreDone(d) = [[d EXCEPT !.at = 0] EXCEPT !.block = Blank]
    BY DEF StoreDone
  <1>2. [d EXCEPT !.at = 0] = At(pos, 0, p, block)
    BY IndexPut
  <1>3. [[d EXCEPT !.at = 0] EXCEPT !.block = Blank] = [At(pos, 0, p, block) EXCEPT !.block = Blank]
    BY <1>2, Zenon
  <1>4. [At(pos, 0, p, block) EXCEPT !.block = Blank] = At(pos, 0, p, Blank)
    BY BlockPut
  <1> QED BY <1>1, <1>3, <1>4, Zenon

LEMMA RunDoneIs ==
  ASSUME NEW pos, NEW at, NEW p, NEW block, NEW d, d = At(pos, at, p, block)
  PROVE  RunDone(d) = At(Onward(pos, 1), at, p, block)
  <1>1. d.pos = pos
    BY DEF At
  <1>2. RunDone(d) = [d EXCEPT !.pos = Onward(pos, 1)]
    BY <1>1 DEF RunDone
  <1>3. [d EXCEPT !.pos = Onward(pos, 1)] = At(Onward(pos, 1), at, p, block)
    BY PosPut
  <1> QED BY <1>2, <1>3, Zenon

LEMMA ValueDoneIs ==
  ASSUME NEW pos, NEW at, NEW p, NEW block, NEW d, d = At(pos, at, p, block), NEW i, NEW v
  PROVE  ValueDone(d, i, v)
         = At(Onward(pos, 2), IF v = 0 THEN i ELSE i + 1, p, Filled(block, i, v))
  <1>1. d.pos = pos /\ d.block = block
    BY DEF At
  <1>2. PICK c : c = [block EXCEPT ![i] = IF v = 0 THEN @ ELSE v] /\ c = Filled(block, i, v)
    BY DEF Filled
  <1>3. PICK q, x : q = Onward(pos, 2) /\ x = IF v = 0 THEN i ELSE i + 1
    OBVIOUS
  <1>4. ValueDone(d, i, v) = [[[d EXCEPT !.pos = q] EXCEPT !.at = x] EXCEPT !.block = c]
    BY <1>1, <1>2, <1>3 DEF ValueDone
  <1>5. [d EXCEPT !.pos = q] = At(q, at, p, block)
    BY PosPut
  <1>6. [[d EXCEPT !.pos = q] EXCEPT !.at = x] = [At(q, at, p, block) EXCEPT !.at = x]
    BY <1>5, Zenon
  <1>7. [At(q, at, p, block) EXCEPT !.at = x] = At(q, x, p, block)
    BY IndexPut
  <1>8. [[[d EXCEPT !.pos = q] EXCEPT !.at = x] EXCEPT !.block = c] = [At(q, x, p, block) EXCEPT !.block = c]
    BY <1>6, <1>7, Zenon
  <1>9. [At(q, x, p, block) EXCEPT !.block = c] = At(q, x, p, c)
    BY BlockPut
  <1> QED BY <1>2, <1>3, <1>4, <1>8, <1>9, Zenon

LEMMA DecoderIs ==
  ASSUME BlocksTyped
  PROVE  \E pos \in Nat, at \in 0..(kBlockElements - 1), prev_dc \in Int16, block \in Block :
            decoder = At(pos, at, prev_dc, block)
  <1>1. decoder \in [pos : Nat, at : 0..(kBlockElements - 1), prev_dc : Int16, block : Block]
    BY DEF BlocksTyped
  <1> QED BY <1>1 DEF At

LEMMA DcStep ==
  ASSUME BlocksTyped, NEW pos \in Nat, NEW at, NEW prev_dc \in Int16, NEW block \in Block,
         decoder = At(pos, at, prev_dc, block), DecodeDc
  PROVE  /\ Decoding /\ at = 0 /\ UNCHANGED <<picture, coded, encoded, decoded>>
         /\ \E s \in Received(2), dc \in Int16 :
               /\ dc = Wrap(prev_dc + Value(s[1], s[2]))
               /\ decoder' = At(Onward(pos, 2), 1, dc, [block EXCEPT ![0] = dc])
  <1>1. decoder.at = at /\ decoder.pos = pos /\ decoder.prev_dc = prev_dc /\ decoder.block = block
    BY DEF At
  <1>2. Decoding /\ at = 0 /\ UNCHANGED <<picture, coded, encoded, decoded>>
    BY <1>1 DEF DecodeDc
  <1>3. PICK s \in Received(2) :
            decoder' = [Predicted(decoder, Value(s[1], s[2])) EXCEPT !.pos = Onward(@, 2), !.at = 1]
    BY DEF DecodeDc
  <1>4. s[1] \in Symbol /\ s[2] \in Symbol
    BY ReceivedIs, 2 \in Nat, 1 \in 1..2, 2 \in 1..2
  <1>5. PICK v \in Int16 : v = Value(s[1], s[2])
    BY <1>4, ValueIs
  <1>6. PICK dc \in Int16 : dc = Wrap(prev_dc + v)
    <2>1. prev_dc + v \in Int
      BY HalfIs DEF Int16
    <2> QED BY <2>1, WrapIs
  <1>7. PICK d : d = decoder /\ d = At(pos, at, prev_dc, block) /\ d.prev_dc = prev_dc
    BY <1>1
  <1>8. decoder' = At(Onward(pos, 2), 1, dc, [block EXCEPT ![0] = dc])
    <2>1. Predicted(d, v) = [d EXCEPT !.block[0] = dc, !.prev_dc = dc]
      BY <1>6, <1>7 DEF Predicted
    <2>2. decoder' = [Predicted(d, v) EXCEPT !.pos = Onward(@, 2), !.at = 1]
      BY <1>3, <1>5, <1>7
    <2>3. decoder' = DcDone(d, dc)
      BY <2>1, <2>2 DEF DcDone
    <2> QED BY <1>7, <2>3, DcDoneIs
  <1> QED BY <1>2, <1>5, <1>6, <1>8

LEMMA DecodeDcKeeps == BlocksInv /\ DecodeDc => BlocksInv'
  <1> SUFFICES ASSUME BlocksInv, DecodeDc PROVE BlocksInv'
    OBVIOUS
  <1>1. BlocksTyped
    BY DEF BlocksInv
  <1>2. PICK pos \in Nat, at \in 0..(kBlockElements - 1), prev_dc \in Int16, block \in Block :
            decoder = At(pos, at, prev_dc, block)
    BY <1>1, DecoderIs
  <1>3. Decoding /\ at = 0 /\ UNCHANGED <<picture, coded, encoded, decoded>>
    BY <1>1, <1>2, DcStep
  <1>4. PICK s \in Received(2), dc \in Int16 :
            /\ dc = Wrap(prev_dc + Value(s[1], s[2]))
            /\ decoder' = At(Onward(pos, 2), 1, dc, [block EXCEPT ![0] = dc])
    BY <1>1, <1>2, DcStep
  <1>5. PICK pos2 \in Nat, block2 \in Block :
            /\ pos2 = Onward(pos, 2) /\ block2 = [block EXCEPT ![0] = dc]
            /\ decoder' = At(pos2, 1, dc, block2)
    <2>1. Onward(pos, 2) \in Nat
      BY <1>1, OnwardIs
    <2>2. [block EXCEPT ![0] = dc] \in Block
      BY DEF Block
    <2> QED BY <1>4, <2>1, <2>2
  <1>6. decoder'.pos = pos2 /\ decoder'.at = 1 /\ decoder'.prev_dc = dc /\ decoder'.block = block2
    BY <1>5 DEF At
  <1>7. BlocksTyped'
    <2>1. 1 \in 0..(kBlockElements - 1)
      BY SizesAre
    <2>2. decoder' \in [pos : Nat, at : 0..(kBlockElements - 1), prev_dc : Int16, block : Block]
      BY <1>5, <2>1 DEF At
    <2> QED BY <1>1, <1>3, <2>2, OnlyDecodes DEF BlocksTyped
  <1>8. BlocksWritten' /\ DecoderWaits'
    BY <1>3, OnlyDecodes DEF BlocksInv
  <1>9. BlocksRead'
    <2> SUFFICES ASSUME picture # <<>> PROVE BlocksRead'
      BY <1>3 DEF BlocksRead
    <2>1. PICK len \in Nat, n \in Nat :
            /\ len = Len(picture) /\ len = encoded.blocks /\ n = Len(decoded) /\ n < len
            /\ n + 1 \in Nat /\ picture[n + 1] \in Block
            /\ DcBefore(n) \in Int16 /\ Ends(n) \in Nat /\ Ends(n + 1) \in Nat /\ Written(n + 1)
      BY <1>3, AllWritten
    <2>2. picture' = picture /\ decoded' = decoded
      BY <1>3
    <2>3. \A k : Ends(k)' = Ends(k) /\ DcBefore(k)' = DcBefore(k) /\ Clear(k)' = Clear(k)
      BY <1>3, OnlyDecodes
    <2>4. \A k \in 1..n : Clear(k - 1) => decoded[k] = picture[k]
      BY <2>1 DEF BlocksInv, BlocksRead
    <2>5. ASSUME Clear(n) PROVE Within(n + 1)'
      <3>1. pos = Ends(n) /\ prev_dc = DcBefore(n) /\ block = Blank
        BY <1>2, <1>3, <2>1, <2>5 DEF BlocksInv, BlocksRead, Between, At
      <3>2. PICK b \in Block : b = picture[n + 1]
        BY <2>1
      <3>3. PICK out : out = BlockSymbols(b, prev_dc)
        OBVIOUS
      <3>4. PICK high \in Symbol, low \in Symbol, l \in Nat :
                /\ out[1] = high /\ out[2] = low /\ Value(high, low) = Wrap(b[0] - prev_dc)
                /\ Len(out) = l + 3
        <4>1. Spelling(out, b, prev_dc) /\ AcSymbols(b) \in Seq(Symbol)
          BY <3>3, BlockSymbolsAre
        <4>2. Len(AcSymbols(b)) \in Nat
          BY <4>1, LenProperties
        <4> QED BY <4>1, <4>2 DEF Spelling
      <3>5. PICK e \in Nat, c \in Nat :
                /\ e = Ends(n + 1) /\ c = Len(coded) /\ e = pos + (l + 3) /\ e <= c
                /\ coded[pos + 1] = high /\ coded[pos + 2] = low
        <4>1. PICK k \in Nat : k = n + 1 /\ k - 1 = n /\ Written(k)
          BY <2>1
        <4>2. out = BlockSymbols(picture[k], DcBefore(k - 1)) /\ pos = Ends(k - 1)
          BY <3>1, <3>2, <3>3, <4>1
        <4>3. /\ Ends(k) = pos + Len(out) /\ Ends(k) <= Len(coded)
              /\ \A j \in 1..Len(out) : coded[pos + j] = out[j]
          BY <4>1, <4>2 DEF Written
        <4>4. 1 \in 1..Len(out) /\ 2 \in 1..Len(out)
          BY <3>4
        <4>5. Len(coded) \in Nat
          BY <1>1, LenProperties DEF BlocksTyped
        <4> QED BY <2>1, <3>4, <4>1, <4>3, <4>4, <4>5
      <3>6. s[1] = high /\ s[2] = low
        <4>1. decoder.pos = pos
          BY <1>2 DEF At
        <4>2. pos + 1 <= Len(coded) /\ pos + 2 <= Len(coded) /\ 1 \in 1..2 /\ 2 \in 1..2
          BY <3>5
        <4>3. \A i \in 1..2 : pos + i <= Len(coded) => s[i] = coded[pos + i]
          BY <1>1, <4>1, ReceivedIs, 2 \in Nat
        <4> QED BY <3>5, <4>2, <4>3
      <3>7. dc = b[0] /\ b[0] \in Int16
        <4>1. b[0] \in Int16
          BY SizesAre
        <4>2. prev_dc \in Int
          BY HalfIs DEF Int16
        <4>3. Wrap(prev_dc + Wrap(b[0] - prev_dc)) = b[0]
          BY <4>1, <4>2, WrapReturns
        <4> QED BY <1>4, <3>4, <3>6, <4>1, <4>3
      <3>8. pos2 = pos + 2
        <4>1. pos + 2 <= Len(coded)
          BY <3>5
        <4> QED BY <1>1, <1>5, <4>1, OnwardIs, 2 \in Nat
      <3>9. Turns(b)[0] = [run |-> 0, out |-> <<>>]
        BY TurnsTyped
      <3>10. Agrees(block2, 1, b)
        <4>1. PICK k \in Nat \ {0, 1} : k = kBlockElements
          BY SizesAre
        <4>2. ASSUME NEW i \in 0..(k - 1) PROVE block2[i] = IF i < 1 THEN b[i] ELSE 0
          <5>1. block = [j \in 0..(k - 1) |-> 0]
            BY <3>1, <4>1 DEF Blank
          <5>2. block2[i] = IF i = 0 THEN dc ELSE 0
            BY <1>5, <5>1
          <5> QED BY <3>7, <5>2
        <4> QED BY <4>1, <4>2 DEF Agrees
      <3>11. PICK m \in Nat : m = n + 1 /\ m - 1 = n /\ m <= Len(picture)
        BY <2>1
      <3>12. 1 - 1 = 0 /\ 0 \in 0..LastNonzero(b)
        BY LastIs, SizesAre
      <3>13. Len(Turns(b)[0].out) = 0 /\ Turns(b)[0].run = 0
        BY <3>9
      <3>14. pos2 = (Ends(n) + 2) + 0 /\ Ends(m - 1)' = Ends(n)
        BY <2>1, <2>3, <3>1, <3>8, <3>11
      <3>15. picture'[m] = b
        BY <2>2, <3>2, <3>11
      <3>16. Within(m)'
        BY <1>6, <2>2, <3>7, <3>10, <3>11, <3>12, <3>13, <3>14, <3>15 DEF Within
      <3> QED BY <3>11, <3>16
    <2> QED BY <1>6, <2>1, <2>2, <2>3, <2>4, <2>5 DEF BlocksRead
  <1> QED BY <1>7, <1>8, <1>9 DEF BlocksInv

\* One turn of the decoder's loop: it stores the block at the marker or past the end,
\* or it takes a value.
Stores(pos, prev_dc, block) ==
    decoded' = Append(decoded, block) /\ decoder' = At(pos, 0, prev_dc, Blank)

Takes(pos, i, prev_dc, block) ==
    IF i >= kBlockElements THEN Stores(pos, prev_dc, block)
    ELSE decoder' = At(pos, i, prev_dc, block) /\ UNCHANGED decoded

Ended(e) == IF Past(e.at) THEN Stored(e) ELSE decoder' = e /\ UNCHANGED decoded

Turn(d, r) ==
    IF r[1] = EOB \/ Past(d.at + r[1]) THEN Stored(d)
    ELSE \E s \in Received(3) :
            s[1] = r[1] /\ Ended(ValueDone(d, d.at + r[1], Value(s[2], s[3])))

\* DecodeAc as it is used below.
LEMMA AcStep ==
  ASSUME BlocksTyped, NEW pos \in Nat, NEW at \in Nat, NEW prev_dc, NEW block,
         decoder = At(pos, at, prev_dc, block), DecodeAc
  PROVE  /\ Decoding /\ at > 0 /\ UNCHANGED <<picture, coded, encoded>>
         /\ \E r \in Received(1) :
               \/ (r[1] = EOB \/ at + r[1] >= kBlockElements) /\ Stores(Onward(pos, 1), prev_dc, block)
               \/ /\ r[1] # EOB /\ at + r[1] < kBlockElements
                  /\ \E s \in Received(3), v \in Int16 :
                        /\ v = Value(s[2], s[3])
                        /\ Takes(Onward(Onward(pos, 1), 2),
                                 IF v = 0 THEN at + r[1] ELSE (at + r[1]) + 1, prev_dc,
                                 Filled(block, at + r[1], v))
  <1>1. decoder.at = at /\ decoder.pos = pos
    BY DEF At
  <1>2. Decoding /\ at > 0 /\ UNCHANGED <<picture, coded, encoded>>
    BY <1>1 DEF DecodeAc
  <1>3. PICK r \in Received(1) : Turn(RunDone(decoder), r)
    BY DEF DecodeAc, Turn, Ended, RunDone, ValueDone
  <1>4. PICK pos1 : pos1 = Onward(pos, 1)
    OBVIOUS
  <1>5. PICK d : d = RunDone(decoder) /\ d = At(pos1, at, prev_dc, block)
    BY <1>4, RunDoneIs
  <1>6. d.at = at
    BY <1>5 DEF At
  <1>7. PICK k \in Nat, x \in Nat : k = kBlockElements /\ x = r[1] /\ x \in Symbol
    <2>1. r[1] \in Symbol
      BY ReceivedIs, 1 \in Nat, 1 \in 1..1
    <2> QED BY <2>1, SizesAre
  <1>8. PICK i \in Nat : i = at + x
    OBVIOUS
  <1>9. IF x = EOB \/ i >= k THEN Stored(d)
        ELSE \E s \in Received(3) : Ended(ValueDone(d, i, Value(s[2], s[3])))
    BY <1>3, <1>5, <1>6, <1>7, <1>8 DEF Past, Turn
  <1>10. ASSUME NEW q, NEW a, NEW p, NEW b, NEW e, e = At(q, a, p, b), Stored(e) PROVE Stores(q, p, b)
    <2>1. e.block = b
      BY <1>10 DEF At
    <2>2. decoder' = StoreDone(e) /\ decoded' = Append(decoded, b)
      BY <1>10, <2>1 DEF Stored, StoreDone
    <2>3. StoreDone(e) = At(q, 0, p, Blank)
      BY <1>10, StoreDoneIs
    <2> QED BY <2>2, <2>3 DEF Stores
  <1>11. CASE x = EOB \/ i >= k
    <2>1. Stored(d)
      BY <1>9, <1>11
    <2>2. Stores(pos1, prev_dc, block)
      BY <1>5, <1>10, <2>1
    <2> QED BY <1>2, <1>4, <1>7, <1>8, <1>11, <2>2
  <1>12. CASE ~(x = EOB \/ i >= k)
    <2>1. PICK s \in Received(3) : Ended(ValueDone(d, i, Value(s[2], s[3])))
      BY <1>9, <1>12
    <2>2. PICK v \in Int16 : v = Value(s[2], s[3])
      <3>1. s[2] \in Symbol /\ s[3] \in Symbol
        BY ReceivedIs, 3 \in Nat, 2 \in 1..3, 3 \in 1..3
      <3> QED BY <3>1, ValueIs
    <2>3. PICK y \in Nat : y = IF v = 0 THEN i ELSE i + 1
      OBVIOUS
    <2>4. PICK q, b : q = Onward(pos1, 2) /\ b = Filled(block, i, v)
      OBVIOUS
    <2>5. PICK e : e = ValueDone(d, i, v) /\ e = At(q, y, prev_dc, b)
      <3>1. ValueDone(d, i, v)
            = At(Onward(pos1, 2), IF v = 0 THEN i ELSE i + 1, prev_dc, Filled(block, i, v))
        BY <1>5, ValueDoneIs
      <3>2. ValueDone(d, i, v) = At(q, y, prev_dc, b)
        BY <2>3, <2>4, <3>1
      <3> QED BY <3>2
    <2>6. IF e.at >= k THEN Stored(e) ELSE decoder' = e /\ UNCHANGED decoded
      BY <1>7, <2>1, <2>2, <2>5 DEF Ended, Past
    <2>7. e.at = y
      BY <2>5 DEF At
    <2>8. Takes(q, y, prev_dc, b)
      <3>1. CASE y >= k
        <4>1. Stored(e)
          BY <2>6, <2>7, <3>1
        <4>2. Stores(q, prev_dc, b)
          BY <1>10, <2>5, <4>1
        <4> QED BY <1>7, <3>1, <4>2 DEF Takes
      <3>2. CASE ~(y >= k)
        BY <1>7, <2>5, <2>6, <2>7, <3>2 DEF Takes
      <3> QED BY <3>1, <3>2
    <2>9. r[1] # EOB /\ at + r[1] < kBlockElements
      BY <1>7, <1>8, <1>12
    <2>10. Takes(Onward(Onward(pos, 1), 2), IF v = 0 THEN at + r[1] ELSE (at + r[1]) + 1, prev_dc,
                 Filled(block, at + r[1], v))
      BY <1>4, <1>7, <1>8, <2>3, <2>4, <2>8
    <2> QED BY <1>2, <2>2, <2>9, <2>10
  <1> QED BY <1>11, <1>12

\* What the decoder reads next of a block it is in, and where that leaves it: the next
\* coefficient that is not zero, or the marker.
NextIsValue(pos, at, n, i, high, low) ==
    /\ coded[pos + 1] = i - at /\ coded[pos + 2] = high /\ coded[pos + 3] = low
    /\ Value(high, low) = picture[n][i] /\ picture[n][i] # 0
    /\ \A j \in at..(i - 1) : picture[n][j] = 0
    /\ Turns(picture[n])[i].run = 0
    /\ pos + 3 = Ends(n - 1) + 2 + Len(Turns(picture[n])[i].out)
    /\ pos + 3 <= Len(coded)
    /\ i = kBlockElements - 1 => pos + 3 = Ends(n) - 1

NextIsMarker(pos, at, n) ==
    /\ coded[pos + 1] = EOB /\ pos + 1 <= Len(coded) /\ pos + 1 = Ends(n)
    /\ \A j \in at..(kBlockElements - 1) : picture[n][j] = 0

\* The two cases, by the symbols the encoder wrote.
LEMMA BlockReads ==
  ASSUME BlocksInv, NEW n \in Nat \ {0}, picture[n] \in Block, DcBefore(n - 1) \in Int16,
         Ends(n - 1) \in Nat, Ends(n) \in Nat, Written(n), Within(n),
         NEW pos \in Nat, NEW at \in Nat, pos = decoder.pos, at = decoder.at, at > 0
  PROVE  \/ NextIsMarker(pos, at, n)
         \/ \E i \in at..LastNonzero(picture[n]), high \in Symbol, low \in Symbol :
               NextIsValue(pos, at, n, i, high, low)
  <1>1. PICK b \in Block : b = picture[n]
    OBVIOUS
  <1>2. PICK last \in Nat, k \in Nat \ {0, 1} :
            last = LastNonzero(b) /\ k = kBlockElements /\ last <= k - 1
    BY LastIs, SizesAre
  <1>3. PICK pdc \in Int16 : pdc = DcBefore(n - 1)
    OBVIOUS
  <1>4. PICK out : out = BlockSymbols(b, pdc)
    OBVIOUS
  <1>5. PICK ac \in Seq(Symbol), l \in Nat : ac = AcSymbols(b) /\ l = Len(ac)
    <2>1. AcSymbols(b) \in Seq(Symbol)
      BY BlockSymbolsAre
    <2> QED BY <2>1, LenProperties
  <1>6. /\ Len(out) = l + 3 /\ out[l + 3] = EOB
        /\ \A j \in 1..l : out[2 + j] = ac[j]
    <2>1. Spelling(out, b, pdc)
      BY <1>4, BlockSymbolsAre
    <2> QED BY <1>5, <2>1 DEF Spelling
  <1>7. PICK c \in Nat, e \in Nat, f \in Nat :
            /\ c = Len(coded) /\ e = Ends(n) /\ f = Ends(n - 1) /\ e = f + (l + 3) /\ e <= c
            /\ \A j \in 1..(l + 3) : coded[f + j] = out[j]
    <2>1. Len(coded) \in Nat
      BY LenProperties DEF BlocksInv, BlocksTyped
    <2>2. out = BlockSymbols(picture[n], DcBefore(n - 1))
      BY <1>1, <1>3, <1>4
    <2>3. /\ Ends(n) = Ends(n - 1) + Len(out) /\ Ends(n) <= Len(coded)
          /\ \A j \in 1..Len(out) : coded[Ends(n - 1) + j] = out[j]
      BY <2>2 DEF Written
    <2>4. Ends(n) = Ends(n - 1) + (l + 3) /\ \A j \in 1..(l + 3) : coded[Ends(n - 1) + j] = out[j]
      BY <1>6, <2>3
    <2> QED BY <2>1, <2>3, <2>4
  <1>8. PICK turn : turn = Turns(b)
    OBVIOUS
  <1>9. at - 1 \in 0..last /\ turn[at - 1].run = 0 /\ pos = (f + 2) + Len(turn[at - 1].out)
    BY <1>1, <1>2, <1>7, <1>8 DEF Within
  <1>10. turn[last].out = ac
    BY <1>2, <1>5, <1>8 DEF AcSymbols
  <1>11. PICK m \in Nat : m = Len(turn[at - 1].out) /\ pos = (f + 2) + m
    <2>1. turn[at - 1] \in Coding
      BY <1>2, <1>8, <1>9, TurnsTyped
    <2>2. turn[at - 1].out \in Seq(Symbol)
      BY <2>1 DEF Coding
    <2>3. Len(turn[at - 1].out) \in Nat
      BY <2>2, LenProperties
    <2> QED BY <1>9, <2>3
  <1>12. CASE at - 1 = last
    <2>1. m = l
      BY <1>5, <1>10, <1>11, <1>12
    <2>2. l + 3 \in 1..(l + 3) /\ f + (l + 3) = pos + 1
      BY <1>11, <2>1
    <2>3. coded[pos + 1] = EOB /\ pos + 1 <= Len(coded) /\ pos + 1 = Ends(n)
      BY <1>6, <1>7, <2>2
    <2>4. \A j \in at..(k - 1) : b[j] = 0
      <3>1. \A j \in at..(k - 1) : j \in 1..(k - 1) /\ ~(j <= last)
        BY <1>12
      <3> QED BY <1>2, <3>1, LastIs
    <2> QED BY <1>1, <1>2, <2>3, <2>4 DEF NextIsMarker
  <1>13. CASE at - 1 # last
    <2>1. at \in 1..last
      <3>1. at - 1 \in 0..last
        BY <1>9
      <3> QED BY <1>13, <3>1
    <2>2. PICK i \in at..last : Onwards(b, at, i)
      BY <1>2, <1>8, <1>9, <2>1, NextNonzero
    <2>3. PICK high \in Symbol, low \in Symbol :
              /\ Three(turn[at - 1].out, turn[i].out, i - at, high, low)
              /\ Value(high, low) = b[i]
      BY <1>8, <2>2 DEF Onwards
    <2>4. Starts(turn[i].out, ac)
      <3>1. i \in 0..last /\ last \in i..last
        BY <2>1
      <3> QED BY <1>2, <1>8, <1>10, <3>1, TurnsStart
    <2>5. /\ Len(turn[i].out) = m + 3 /\ m + 3 <= l
          /\ ac[m + 1] = i - at /\ ac[m + 2] = high /\ ac[m + 3] = low
      <3>1. /\ Len(turn[i].out) = m + 3
            /\ turn[i].out[m + 1] = i - at /\ turn[i].out[m + 2] = high /\ turn[i].out[m + 3] = low
        BY <1>11, <2>3 DEF Three
      <3>2. m + 1 \in 1..(m + 3) /\ m + 2 \in 1..(m + 3) /\ m + 3 \in 1..(m + 3)
        OBVIOUS
      <3> QED BY <1>5, <2>4, <3>1, <3>2 DEF Starts
    <2>6. coded[pos + 1] = i - at /\ coded[pos + 2] = high /\ coded[pos + 3] = low
      <3>1. ASSUME NEW j \in {1, 2, 3} PROVE coded[pos + j] = ac[m + j]
        <4>1. m + 3 <= l /\ pos = (f + 2) + m
          BY <1>11, <2>5
        <4>2. m + j \in 1..l /\ 2 + (m + j) \in 1..(l + 3) /\ f + (2 + (m + j)) = pos + j
          BY <4>1
        <4> QED BY <1>6, <1>7, <4>2
      <3>2. coded[pos + 1] = ac[m + 1] /\ coded[pos + 2] = ac[m + 2] /\ coded[pos + 3] = ac[m + 3]
        BY <3>1
      <3> QED BY <2>5, <3>2
    <2>7. pos + 3 = (f + 2) + (m + 3) /\ pos + 3 <= c
      <3>1. m + 3 <= l /\ pos = (f + 2) + m /\ e = f + (l + 3) /\ e <= c
        BY <1>7, <1>11, <2>5
      <3> QED BY <3>1
    <2>8. i = k - 1 => pos + 3 = e - 1
      <3> SUFFICES ASSUME i = k - 1 PROVE pos + 3 = e - 1
        OBVIOUS
      <3>1. i = last
        BY <1>2
      <3>2. m + 3 = l
        BY <1>5, <1>10, <2>5, <3>1
      <3>3. pos = (f + 2) + m /\ e = f + (l + 3)
        BY <1>7, <1>11
      <3> QED BY <3>2, <3>3
    <2>9. b[i] # 0 /\ \A j \in at..(i - 1) : b[j] = 0
      BY <2>2 DEF Onwards
    <2>10. turn[i].run = 0
      BY <1>8, <2>2 DEF Onwards
    <2>11. NextIsValue(pos, at, n, i, high, low)
      BY <1>1, <1>2, <1>7, <1>8, <2>3, <2>5, <2>6, <2>7, <2>8, <2>9, <2>10 DEF NextIsValue
    <2> QED BY <1>1, <1>2, <2>11
  <1> QED BY <1>12, <1>13

\* Storing a block keeps the invariant when the block is the one due.
Due(pos, prev_dc, block) ==
    picture # <<>> /\ Clear(Len(decoded)) =>
        /\ block = picture[Len(decoded) + 1] /\ prev_dc = block[0]
        /\ pos = IF Full(block) THEN Ends(Len(decoded) + 1) - 1 ELSE Ends(Len(decoded) + 1)

LEMMA StoresKeeps ==
  ASSUME BlocksInv, Decoding, UNCHANGED <<picture, coded, encoded>>,
         NEW pos \in Nat, NEW prev_dc \in Int16, NEW block \in Block,
         Stores(pos, prev_dc, block), Due(pos, prev_dc, block)
  PROVE  BlocksInv'
  <1>1. decoder' = At(pos, 0, prev_dc, Blank) /\ decoded' = Append(decoded, block)
    BY DEF Stores
  <1>2. decoder'.pos = pos /\ decoder'.at = 0 /\ decoder'.prev_dc = prev_dc /\ decoder'.block = Blank
    BY <1>1 DEF At
  <1>3. PICK n \in Nat : n = Len(decoded) /\ decoded \in Seq(Block) /\ n < Blocks /\ Blocks \in Nat
    <2>1. decoded \in Seq(Block) /\ picture \in Seq(Block)
      BY DEF BlocksInv, BlocksTyped
    <2>2. Len(decoded) \in Nat /\ Len(picture) \in Nat
      BY <2>1, LenProperties
    <2> QED BY <2>1, <2>2, BlockAssumption DEF Decoding, Blocks
  <1>4. PICK more : more = Append(decoded, block)
    OBVIOUS
  <1>5. /\ more \in Seq(Block) /\ Len(more) = n + 1 /\ more[n + 1] = block
        /\ \A i \in 1..n : more[i] = decoded[i]
    BY <1>3, <1>4, AppendProperties
  <1>6. decoded' = more /\ picture' = picture /\ coded' = coded /\ encoded' = encoded
    BY <1>1, <1>4
  <1>7. BlocksTyped'
    <2>1. 0 \in 0..(kBlockElements - 1)
      BY SizesAre
    <2>2. decoder' \in [pos : Nat, at : 0..(kBlockElements - 1), prev_dc : Int16, block : Block]
      BY <1>1, <2>1, BlankIs DEF At
    <2>3. Len(more) <= Blocks
      BY <1>3, <1>5
    <2>4. Blocks' = Blocks
      BY OnlyDecodes
    <2> QED BY <1>5, <1>6, <2>2, <2>3, <2>4 DEF BlocksInv, BlocksTyped
  <1>8. BlocksWritten' /\ DecoderWaits'
    BY OnlyDecodes DEF BlocksInv
  <1>9. BlocksRead'
    <2> SUFFICES ASSUME picture # <<>> PROVE BlocksRead'
      BY <1>6 DEF BlocksRead
    <2>1. \A k : Ends(k)' = Ends(k) /\ DcBefore(k)' = DcBefore(k) /\ Clear(k)' = Clear(k)
      BY OnlyDecodes
    <2>2. PICK m \in Nat : m = n + 1 /\ m - 1 = n
      OBVIOUS
    <2>3. Clear(n) =>
              /\ block = picture[m] /\ prev_dc = block[0]
              /\ pos = IF Full(block) THEN Ends(m) - 1 ELSE Ends(m)
      BY <1>3, <2>2 DEF Due
    <2>4. \A k \in 1..m : Clear(k - 1)' => decoded'[k] = picture'[k]
      <3>1. ASSUME NEW k \in 1..m, Clear(k - 1) PROVE more[k] = picture[k]
        <4>1. CASE k = m
          BY <1>5, <2>2, <2>3, <3>1, <4>1
        <4>2. CASE k # m
          <5>1. k \in 1..n
            BY <2>2, <4>2
          <5>2. decoded[k] = picture[k]
            BY <1>3, <3>1, <5>1 DEF BlocksInv, BlocksRead
          <5> QED BY <1>5, <5>1, <5>2
        <4> QED BY <4>1, <4>2
      <3> QED BY <1>6, <2>1, <3>1
    <2>5. Clear(m - 1)' /\ Full(picture'[m]) => decoder'.pos = Ends(m)' - 1
      BY <1>2, <1>6, <2>1, <2>2, <2>3
    <2>6. Clear(m)' => Between(m)'
      <3> SUFFICES ASSUME Clear(m) PROVE Between(m)'
        BY <2>1
      <3>1. Clear(n) /\ ~Full(picture[m])
        BY <2>2 DEF Clear
      <3>2. m # 0
        BY <2>2
      <3>3. DcBefore(m) = picture[m][0]
        BY <3>2 DEF DcBefore
      <3> QED BY <1>2, <2>1, <2>3, <3>1, <3>3 DEF Between
    <2>7. Len(decoded') = m
      BY <1>5, <1>6, <2>2
    <2> QED BY <1>2, <2>4, <2>5, <2>6, <2>7 DEF BlocksRead
  <1> QED BY <1>7, <1>8, <1>9 DEF BlocksInv

\* Going on in a block keeps the invariant when the block is the one due.
LEMMA StaysKeeps ==
  ASSUME BlocksInv, Decoding, UNCHANGED <<picture, coded, encoded, decoded>>,
         NEW pos \in Nat, NEW at \in 1..(kBlockElements - 1), NEW prev_dc \in Int16,
         NEW block \in Block, decoder' = At(pos, at, prev_dc, block),
         picture # <<>> /\ Clear(Len(decoded)) => Within(Len(decoded) + 1)'
  PROVE  BlocksInv'
  <1>1. decoder'.at = at /\ at > 0 /\ at \in 0..(kBlockElements - 1) /\ at # 0
    BY SizesAre DEF At
  <1>2. decoded' = decoded /\ picture' = picture /\ coded' = coded /\ encoded' = encoded
    OBVIOUS
  <1>3. BlocksTyped'
    <2>1. decoder' \in [pos : Nat, at : 0..(kBlockElements - 1), prev_dc : Int16, block : Block]
      BY <1>1 DEF At
    <2>2. Blocks' = Blocks
      BY OnlyDecodes
    <2> QED BY <1>2, <2>1, <2>2 DEF BlocksInv, BlocksTyped
  <1>4. BlocksWritten' /\ DecoderWaits'
    BY OnlyDecodes DEF BlocksInv
  <1>5. BlocksRead'
    <2>1. \A k : Clear(k)' = Clear(k)
      BY OnlyDecodes
    <2> QED BY <1>1, <1>2, <2>1 DEF BlocksInv, BlocksRead
  <1> QED BY <1>3, <1>4, <1>5 DEF BlocksInv

LEMMA DecodeAcKeeps == BlocksInv /\ DecodeAc => BlocksInv'
  <1> SUFFICES ASSUME BlocksInv, DecodeAc PROVE BlocksInv'
    OBVIOUS
  <1>1. BlocksTyped
    BY DEF BlocksInv
  <1>2. PICK pos \in Nat, at \in 0..(kBlockElements - 1), prev_dc \in Int16, block \in Block :
            decoder = At(pos, at, prev_dc, block)
    BY <1>1, DecoderIs
  <1>3. at \in Nat /\ decoder.pos = pos /\ decoder.at = at /\ decoder.prev_dc = prev_dc /\ decoder.block = block
    BY <1>2, SizesAre DEF At
  <1>4. Decoding /\ at > 0 /\ UNCHANGED <<picture, coded, encoded>>
    BY <1>1, <1>2, <1>3, AcStep
  <1>5. PICK r \in Received(1) :
               \/ (r[1] = EOB \/ at + r[1] >= kBlockElements) /\ Stores(Onward(pos, 1), prev_dc, block)
               \/ /\ r[1] # EOB /\ at + r[1] < kBlockElements
                  /\ \E s \in Received(3), v \in Int16 :
                        /\ v = Value(s[2], s[3])
                        /\ Takes(Onward(Onward(pos, 1), 2),
                                 IF v = 0 THEN at + r[1] ELSE (at + r[1]) + 1, prev_dc,
                                 Filled(block, at + r[1], v))
    BY <1>1, <1>2, <1>3, AcStep
  <1>6. PICK k \in Nat \ {0, 1}, b \in Nat :
            k = kBlockElements /\ k < b /\ EOB = b - 1 /\ Symbol = 0..(b - 1) /\ Block = [0..(k - 1) -> Int16]
    BY SizesAre
  <1>7. PICK x \in Nat : x = r[1]
    <2>1. r[1] \in Symbol
      BY <1>1, ReceivedIs, 1 \in Nat, 1 \in 1..1
    <2> QED BY <1>6, <2>1
  <1>8. PICK pos1 \in Nat, pos3 \in Nat :
            /\ pos1 = Onward(pos, 1) /\ pos3 = Onward(pos1, 2)
            /\ pos + 1 <= Len(coded) => pos1 = pos + 1
            /\ pos + 3 <= Len(coded) => pos3 = pos + 3
    <2>1. PICK p \in Nat : p = Onward(pos, 1) /\ (pos + 1 <= Len(coded) => p = pos + 1)
      BY <1>1, OnwardIs, 1 \in Nat
    <2>2. PICK q \in Nat : q = Onward(p, 2) /\ (p + 2 <= Len(coded) => q = p + 2)
      BY <1>1, OnwardIs, 2 \in Nat
    <2>3. Len(coded) \in Nat
      BY <1>1, LenProperties DEF BlocksTyped
    <2> QED BY <2>1, <2>2, <2>3
  \* What the invariant says of a block that is returned.
  <1>9. ASSUME picture # <<>>, Clear(Len(decoded))
        PROVE  \E n \in Nat \ {0}, other \in Block :
                  /\ n = Len(decoded) + 1 /\ other = picture[n] /\ n <= Len(picture)
                  /\ prev_dc = other[0] /\ Agrees(block, at, other)
                  /\ \/ NextIsMarker(pos, at, n)
                     \/ \E i \in at..LastNonzero(other), high \in Symbol, low \in Symbol :
                           NextIsValue(pos, at, n, i, high, low)
    <2>1. PICK len \in Nat, m \in Nat :
            /\ len = Len(picture) /\ len = encoded.blocks /\ m = Len(decoded) /\ m < len
            /\ m + 1 \in Nat /\ picture[m + 1] \in Block
            /\ DcBefore(m) \in Int16 /\ Ends(m) \in Nat /\ Ends(m + 1) \in Nat /\ Written(m + 1)
      BY <1>4, <1>9, AllWritten
    <2>2. PICK n \in Nat \ {0} : n = m + 1 /\ n - 1 = m
      <3>1. m + 1 \in Nat \ {0} /\ (m + 1) - 1 = m
        OBVIOUS
      <3> QED BY <3>1
    <2>3. Within(n)
      BY <1>3, <1>4, <1>9, <2>1, <2>2 DEF BlocksInv, BlocksRead
    <2>4. n <= Len(picture) /\ prev_dc = picture[n][0] /\ Agrees(block, at, picture[n])
      BY <1>3, <2>3 DEF Within
    <2>5. /\ picture[n] \in Block /\ DcBefore(n - 1) \in Int16 /\ Ends(n - 1) \in Nat /\ Ends(n) \in Nat
          /\ Written(n)
      BY <2>1, <2>2
    <2>6. \/ NextIsMarker(pos, at, n)
          \/ \E i \in at..LastNonzero(picture[n]), high \in Symbol, low \in Symbol :
                NextIsValue(pos, at, n, i, high, low)
      BY <1>3, <1>4, <2>3, <2>5, BlockReads
    <2> QED BY <2>1, <2>2, <2>4, <2>5, <2>6
  <1>10. pos + 1 <= Len(coded) => r[1] = coded[pos + 1]
    BY <1>1, <1>3, ReceivedIs, 1 \in Nat, 1 \in 1..1
  <1>11. CASE (x = EOB \/ at + x >= k) /\ Stores(pos1, prev_dc, block)
    <2>1. Due(pos1, prev_dc, block)
      <3> SUFFICES ASSUME picture # <<>>, Clear(Len(decoded))
                   PROVE  /\ block = picture[Len(decoded) + 1] /\ prev_dc = block[0]
                          /\ pos1 = IF Full(block) THEN Ends(Len(decoded) + 1) - 1
                                    ELSE Ends(Len(decoded) + 1)
        BY DEF Due
      <3>1. PICK n \in Nat \ {0}, other \in Block :
                  /\ n = Len(decoded) + 1 /\ other = picture[n] /\ n <= Len(picture)
                  /\ prev_dc = other[0] /\ Agrees(block, at, other)
                  /\ \/ NextIsMarker(pos, at, n)
                     \/ \E i \in at..LastNonzero(other), high \in Symbol, low \in Symbol :
                           NextIsValue(pos, at, n, i, high, low)
        BY <1>9
      <3>2. NextIsMarker(pos, at, n)
        <4> SUFFICES ASSUME NEW i \in at..LastNonzero(other), NEW high, NEW low,
                            NextIsValue(pos, at, n, i, high, low)
                     PROVE  FALSE
          BY <3>1
        <4>1. coded[pos + 1] = i - at /\ pos + 3 <= Len(coded)
          BY DEF NextIsValue
        <4>2. LastNonzero(other) \in 0..(k - 1) /\ Len(coded) \in Nat
          BY <1>1, <1>6, LastIs, LenProperties DEF BlocksTyped
        <4>3. x = i - at /\ i <= k - 1
          BY <1>7, <1>10, <4>1, <4>2
        <4> QED BY <1>3, <1>6, <1>11, <4>2, <4>3
      <3>3. /\ pos + 1 <= Len(coded) /\ pos + 1 = Ends(n)
            /\ \A j \in at..(k - 1) : other[j] = 0
        BY <1>6, <3>1, <3>2 DEF NextIsMarker
      <3>4. block = other
        <4>1. ASSUME NEW j \in 0..(k - 1) PROVE block[j] = other[j]
          <5>1. block[j] = IF j < at THEN other[j] ELSE 0
            BY <1>6, <3>1 DEF Agrees
          <5>2. ~(j < at) => j \in at..(k - 1)
            BY <1>3
          <5> QED BY <3>3, <5>1, <5>2
        <4> QED BY <1>6, <4>1
      <3>5. ~Full(block)
        <4>1. k - 1 \in at..(k - 1)
          BY <1>2, <1>3, <1>6
        <4> QED BY <1>6, <3>3, <3>4, <4>1 DEF Full
      <3>6. pos1 = Ends(n)
        BY <1>8, <3>3
      <3> QED BY <3>1, <3>4, <3>5, <3>6
    <2> QED BY <1>4, <1>11, <2>1, StoresKeeps
  <1>12. ASSUME x # EOB, at + x < k, NEW s \in Received(3), NEW v \in Int16, v = Value(s[2], s[3]),
                Takes(pos3, IF v = 0 THEN at + x ELSE (at + x) + 1, prev_dc, Filled(block, at + x, v))
         PROVE  BlocksInv'
    <2>1. PICK i \in 0..(k - 1), y \in Nat \ {0} :
              i = at + x /\ y = (IF v = 0 THEN i ELSE i + 1) /\ y <= k
      <3>1. PICK i \in 0..(k - 1) : i = at + x /\ i > 0
        BY <1>3, <1>4, <1>6, <1>12
      <3>2. (IF v = 0 THEN i ELSE i + 1) \in Nat \ {0} /\ (IF v = 0 THEN i ELSE i + 1) <= k
        BY <3>1
      <3> QED BY <3>1, <3>2
    <2>2. PICK block2 \in Block :
              /\ block2 = Filled(block, i, v)
              /\ \A j \in 0..(k - 1) : block2[j] = IF j = i /\ v # 0 THEN v ELSE block[j]
      <3>1. PICK c : c = Filled(block, i, v)
        OBVIOUS
      <3>2. c = [block EXCEPT ![i] = IF v = 0 THEN block[i] ELSE v]
        BY <3>1 DEF Filled
      <3>3. c \in Block /\ \A j \in 0..(k - 1) : c[j] = IF j = i /\ v # 0 THEN v ELSE block[j]
        BY <1>6, <3>2
      <3> QED BY <3>1, <3>3
    <2>3. Takes(pos3, y, prev_dc, block2)
      BY <1>12, <2>1, <2>2
    \* What is so of a block that is returned: this is its next coefficient.
    <2>4. ASSUME picture # <<>>, Clear(Len(decoded))
          PROVE  \E n \in Nat \ {0}, other \in Block :
                    /\ n = Len(decoded) + 1 /\ n - 1 = Len(decoded)
                    /\ other = picture[n] /\ n <= Len(picture)
                    /\ prev_dc = other[0] /\ i <= LastNonzero(other) /\ y = i + 1 /\ other[i] # 0
                    /\ Agrees(block2, y, other) /\ Turns(other)[i].run = 0
                    /\ pos3 = Ends(n - 1) + 2 + Len(Turns(other)[i].out)
                    /\ (i = k - 1 => pos3 = Ends(n) - 1)
      <3>1. PICK n \in Nat \ {0}, other \in Block :
                  /\ n = Len(decoded) + 1 /\ other = picture[n] /\ n <= Len(picture)
                  /\ prev_dc = other[0] /\ Agrees(block, at, other)
                  /\ \/ NextIsMarker(pos, at, n)
                     \/ \E j \in at..LastNonzero(other), high \in Symbol, low \in Symbol :
                           NextIsValue(pos, at, n, j, high, low)
        BY <1>9, <2>4
      <3>2. PICK j \in at..LastNonzero(other), high \in Symbol, low \in Symbol :
                NextIsValue(pos, at, n, j, high, low)
        <4>1. ~NextIsMarker(pos, at, n)
          BY <1>7, <1>10, <1>12 DEF NextIsMarker
        <4> QED BY <3>1, <4>1
      <3>3. /\ coded[pos + 1] = j - at /\ coded[pos + 2] = high /\ coded[pos + 3] = low
            /\ Value(high, low) = other[j] /\ other[j] # 0
            /\ \A h \in at..(j - 1) : other[h] = 0
            /\ Turns(other)[j].run = 0
            /\ pos + 3 = Ends(n - 1) + 2 + Len(Turns(other)[j].out)
            /\ pos + 3 <= Len(coded)
            /\ (j = k - 1 => pos + 3 = Ends(n) - 1)
        BY <1>6, <3>1, <3>2 DEF NextIsValue
      <3>4. PICK c \in Nat : c = Len(coded) /\ pos + 1 <= c /\ pos + 2 <= c /\ pos + 3 <= c
        <4>1. Len(coded) \in Nat
          BY <1>1, LenProperties DEF BlocksTyped
        <4>2. pos + 3 <= Len(coded)
          BY <3>3
        <4> QED BY <4>1, <4>2
      <3>5. s[2] = high /\ s[3] = low
        <4>1. \A h \in 1..3 : decoder.pos + h <= Len(coded) => s[h] = coded[decoder.pos + h]
          BY <1>1, ReceivedIs, 3 \in Nat
        <4>2. 2 \in 1..3 /\ 3 \in 1..3
          OBVIOUS
        <4>3. s[2] = coded[pos + 2] /\ s[3] = coded[pos + 3]
          BY <1>3, <3>4, <4>1, <4>2
        <4> QED BY <3>3, <4>3
      <3>6. j = i
        <4>1. x = j - at
          BY <1>7, <1>10, <3>3, <3>4
        <4>2. LastNonzero(other) \in Nat
          BY LastIs, SizesAre
        <4> QED BY <1>3, <2>1, <4>1, <4>2
      <3>7. v = other[i] /\ v # 0 /\ y = i + 1
        BY <1>12, <2>1, <3>3, <3>5, <3>6
      <3>8. pos3 = pos + 3
        BY <1>8, <3>4
      <3>9. i <= LastNonzero(other)
        BY <3>2, <3>6
      <3>10. Agrees(block2, y, other)
        <4>1. ASSUME NEW h \in 0..(k - 1) PROVE block2[h] = IF h < y THEN other[h] ELSE 0
          <5>1. block[h] = IF h < at THEN other[h] ELSE 0
            BY <1>6, <3>1 DEF Agrees
          <5>2. block2[h] = IF h = i THEN v ELSE block[h]
            BY <2>2, <3>7
          <5>3. CASE h = i
            BY <3>7, <5>2, <5>3
          <5>4. CASE h < at
            <6>1. h # i /\ h < y
              BY <1>3, <2>1, <3>7, <5>4
            <6> QED BY <5>1, <5>2, <5>4, <6>1
          <5>5. CASE h \in at..(i - 1)
            <6>1. h # i /\ h < y /\ ~(h < at) /\ other[h] = 0
              BY <1>3, <3>3, <3>6, <3>7, <5>5
            <6> QED BY <5>1, <5>2, <6>1
          <5>6. CASE h > i
            <6>1. h # i /\ ~(h < y) /\ ~(h < at)
              BY <1>3, <2>1, <3>7, <5>6
            <6> QED BY <5>1, <5>2, <6>1
          <5> QED BY <1>3, <5>3, <5>4, <5>5, <5>6
        <4> QED BY <1>6, <4>1 DEF Agrees
      <3>11. n - 1 = Len(decoded)
        <4>1. Len(decoded) \in Nat
          BY <1>1, LenProperties DEF BlocksTyped
        <4> QED BY <3>1, <4>1
      <3> QED BY <3>1, <3>3, <3>6, <3>7, <3>8, <3>9, <3>10, <3>11
    <2>5. CASE y >= k
      <3>1. Stores(pos3, prev_dc, block2)
        BY <1>6, <2>3, <2>5 DEF Takes
      <3>2. Due(pos3, prev_dc, block2)
        <4> SUFFICES ASSUME picture # <<>>, Clear(Len(decoded))
                     PROVE  /\ block2 = picture[Len(decoded) + 1] /\ prev_dc = block2[0]
                            /\ pos3 = IF Full(block2) THEN Ends(Len(decoded) + 1) - 1
                                      ELSE Ends(Len(decoded) + 1)
          BY DEF Due
        <4>1. PICK n \in Nat \ {0}, other \in Block :
                    /\ n = Len(decoded) + 1 /\ n - 1 = Len(decoded)
                    /\ other = picture[n] /\ n <= Len(picture)
                    /\ prev_dc = other[0] /\ i <= LastNonzero(other) /\ y = i + 1 /\ other[i] # 0
                    /\ Agrees(block2, y, other) /\ Turns(other)[i].run = 0
                    /\ pos3 = Ends(n - 1) + 2 + Len(Turns(other)[i].out)
                    /\ (i = k - 1 => pos3 = Ends(n) - 1)
          BY <2>4
        <4>2. i = k - 1
          BY <2>1, <2>5, <4>1
        <4>3. block2 = other
          <5>1. ASSUME NEW h \in 0..(k - 1) PROVE block2[h] = other[h]
            <6>1. h < y
              BY <2>5
            <6> QED BY <1>6, <4>1, <6>1 DEF Agrees
          <5> QED BY <1>6, <5>1
        <4>4. Full(block2)
          BY <1>6, <4>1, <4>2, <4>3 DEF Full
        <4> QED BY <4>1, <4>2, <4>3, <4>4
      <3> QED BY <1>4, <3>1, <3>2, StoresKeeps
    <2>6. CASE ~(y >= k)
      <3>1. decoder' = At(pos3, y, prev_dc, block2) /\ decoded' = decoded
        BY <1>6, <2>3, <2>6 DEF Takes
      <3>2. y \in 1..(k - 1)
        BY <2>6
      <3>3. ASSUME picture # <<>>, Clear(Len(decoded)) PROVE Within(Len(decoded) + 1)'
        <4>1. PICK n \in Nat \ {0}, other \in Block :
                    /\ n = Len(decoded) + 1 /\ n - 1 = Len(decoded)
                    /\ other = picture[n] /\ n <= Len(picture)
                    /\ prev_dc = other[0] /\ i <= LastNonzero(other) /\ y = i + 1 /\ other[i] # 0
                    /\ Agrees(block2, y, other) /\ Turns(other)[i].run = 0
                    /\ pos3 = Ends(n - 1) + 2 + Len(Turns(other)[i].out)
                    /\ (i = k - 1 => pos3 = Ends(n) - 1)
          BY <2>4, <3>3
        <4>2. decoder'.pos = pos3 /\ decoder'.at = y /\ decoder'.prev_dc = prev_dc /\ decoder'.block = block2
          BY <3>1 DEF At
        <4>3. picture' = picture /\ Ends(n - 1)' = Ends(n - 1)
          BY <1>4, OnlyDecodes
        <4>4. y - 1 = i /\ i \in 0..LastNonzero(other)
          <5>1. LastNonzero(other) \in Nat
            BY LastIs, SizesAre
          <5> QED BY <4>1, <5>1
        <4>5. Within(n)'
          BY <4>1, <4>2, <4>3, <4>4 DEF Within
        <4> QED BY <3>1, <4>1, <4>5
      <3> QED BY <1>4, <1>6, <3>1, <3>2, <3>3, StaysKeeps
    <2> QED BY <2>5, <2>6
  <1> QED BY <1>5, <1>6, <1>7, <1>8, <1>11, <1>12

LEMMA BlocksStutter == BlocksInv /\ UNCHANGED blockVars => BlocksInv'
  <1> SUFFICES ASSUME BlocksInv, UNCHANGED blockVars PROVE BlocksInv'
    OBVIOUS
  <1>1. UNCHANGED <<picture, coded, encoded>> /\ decoder' = decoder /\ decoded' = decoded
    BY DEF blockVars
  <1>2. /\ \A n : Ends(n)' = Ends(n) /\ DcBefore(n)' = DcBefore(n) /\ Clear(n)' = Clear(n)
        /\ BlocksWritten' /\ Blocks' = Blocks
    BY <1>1, OnlyDecodes DEF BlocksInv
  <1>3. BlocksTyped' /\ DecoderWaits'
    BY <1>1, <1>2 DEF BlocksInv, BlocksTyped, DecoderWaits
  <1>4. BlocksRead'
    <2>1. \A n : Between(n)' = Between(n) /\ Within(n)' = Within(n)
      BY <1>1, <1>2 DEF Between, Within
    <2> QED BY <1>1, <1>2, <2>1 DEF BlocksInv, BlocksRead
  <1> QED BY <1>2, <1>3, <1>4 DEF BlocksInv

\* The inductive invariant of BlockCodec.
LEMMA BlocksInvHolds == BlockSpec => []BlocksInv
  <1>1. BlocksInv /\ [BlockNext]_blockVars => BlocksInv'
    BY EncodeBlockKeeps, DecodeDcKeeps, DecodeAcKeeps, BlocksStutter DEF BlockNext
  <1> QED BY <1>1, BlocksInvStarts, PTL DEF BlockSpec

\* On any stream of symbols, and whatever the arithmetic decoder returns behind the end
\* of one, the decoder of image_frame.cpp (lines 173-230) stays inside the block it
\* fills, and what it fills in are signed numbers of two symbols.
THEOREM BlockTypeCorrect == BlockSpec => []TypeOK
  <1>1. BlocksInv => TypeOK
    <2> SUFFICES ASSUME BlocksInv PROVE TypeOK
      OBVIOUS
    <2>1. PICK pos \in Nat, at \in 0..(kBlockElements - 1), prev_dc \in Int16, block \in Block :
              decoder = At(pos, at, prev_dc, block)
      BY DecoderIs DEF BlocksInv
    <2>2. decoder.at = at /\ decoder.prev_dc = prev_dc /\ decoder.block = block
      BY <2>1 DEF At
    <2> QED BY <2>2 DEF BlocksInv, BlocksTyped, TypeOK
  <1> QED BY <1>1, BlocksInvHolds, PTL

\* Blocks of any coefficients and of any size come back as they were, up to the first
\* full one, and the decoder stands where the encoder of lines 79-136 ended them.
THEOREM BlocksReturnHolds == BlockSpec => []BlocksReturn
  <1>1. BlocksInv => BlocksReturn
    <2> SUFFICES ASSUME BlocksInv, picture # <<>>, NEW n \in DOMAIN decoded,
                        \A k \in 1..(n - 1) : ~Full(picture[k])
                 PROVE  /\ decoded[n] = picture[n]
                        /\ n = Len(decoded) /\ decoder.at = 0 =>
                              decoder.pos = encoded.ends[n] - (IF Full(picture[n]) THEN 1 ELSE 0)
      BY DEF BlocksReturn
    <2>1. PICK len \in Nat : len = Len(decoded) /\ DOMAIN decoded = 1..len
      BY LenProperties DEF BlocksInv, BlocksTyped
    <2>2. n \in 1..len /\ n # 0 /\ n \in Nat
      BY <2>1
    <2>3. Clear(n - 1)
      BY DEF Clear
    <2>4. decoded[n] = picture[n]
      BY <2>1, <2>2, <2>3 DEF BlocksInv, BlocksRead
    <2>5. Ends(n) = encoded.ends[n]
      BY <2>2 DEF Ends
    <2>6. ASSUME n = Len(decoded), decoder.at = 0
          PROVE  decoder.pos = encoded.ends[n] - (IF Full(picture[n]) THEN 1 ELSE 0)
      <3>1. CASE Full(picture[n])
        <4>1. decoder.pos = Ends(n) - 1
          BY <2>1, <2>2, <2>3, <2>6, <3>1 DEF BlocksInv, BlocksRead
        <4> QED BY <2>5, <3>1, <4>1
      <3>2. CASE ~Full(picture[n])
        <4>1. Clear(n)
          <5>1. \A k \in 1..n : k \in 1..(n - 1) \/ k = n
            BY <2>2
          <5> QED BY <3>2, <5>1 DEF Clear
        <4>2. decoder.pos = Ends(n)
          BY <2>6, <4>1 DEF BlocksInv, BlocksRead, Between
        <4>3. Ends(n) \in Nat
          <5>1. PICK pos \in Nat, at \in 0..(kBlockElements - 1), prev_dc \in Int16, block \in Block :
              decoder = At(pos, at, prev_dc, block)
            BY DecoderIs DEF BlocksInv
          <5> QED BY <4>2, <5>1 DEF At
        <4> QED BY <2>5, <3>2, <4>2, <4>3
      <3> QED BY <3>1, <3>2
    <2> QED BY <2>4, <2>6
  <1> QED BY <1>1, BlocksInvHolds, PTL
=============================================================================
