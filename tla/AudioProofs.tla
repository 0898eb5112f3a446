---------------------------- MODULE AudioProofs -----------------------------
(***************************************************************************)
(* Proofs about AudioCodec and the arithmetic coder under it: the models'  *)
(* counters stay sound through every update and rescaling, and the         *)
(* intervals of encoder and decoder stay wide enough for every symbol,     *)
(* with the decoder's value in its interval.  From these follows the round *)
(* trip: every call that AudioEngine::encode returns bytes for decodes to  *)
(* the samples it was given.  The encoder's state is read as a place on    *)
(* the line of all bit streams, at a scale that a turn of either loop      *)
(* doubles; the decoder's state is the same place read from the stream.    *)
(***************************************************************************)
EXTENDS AudioCodec, WellFoundedInduction, NaturalsInduction, SequenceTheorems, TLAPS

\* A set of natural numbers that is not empty has a least element.
LEMMA Least ==
  ASSUME NEW T \in SUBSET Nat, T # {}
  PROVE  \E m \in T : \A k \in T : m <= k
  <1> DEFINE R == {p \in Nat \X Nat : p[1] < p[2]}
  <1>1. IsWellFoundedOn(R, Nat)
    BY NatLessThanWellFounded DEF OpToRel
  <1>2. \A k, m \in Nat : <<k, m>> \notin R => m <= k
    OBVIOUS
  <1> HIDE DEF R
  <1>3. PICK m \in T : \A k \in T : <<k, m>> \notin R
    BY <1>1, WFMin
  <1> QED BY <1>2, <1>3, Zenon

\* A set that has zero, and with each number the next, has them all.
LEMMA Induct ==
  ASSUME NEW T, 0 \in T, \A k \in Nat : k \in T => k + 1 \in T
  PROVE  \A n \in Nat : n \in T
  <1> DEFINE Bad == Nat \ T
  <1> SUFFICES ASSUME Bad # {} PROVE FALSE
    OBVIOUS
  <1>1. Bad \in SUBSET Nat
    OBVIOUS
  <1>2. PICK m \in Bad : \A k \in Bad : m <= k
    <2> HIDE DEF Bad
    <2> QED BY <1>1, Least
  <1>3. m # 0 /\ m - 1 \in Nat /\ m - 1 \notin Bad
    BY <1>1, <1>2
  <1> QED BY <1>3


(***************************************************************************)
(* Recursions over the numbers from zero.                                  *)
(***************************************************************************)
Recursion(S, base, step) == base \in S /\ step \in [S \X Nat -> S]

Result(S, base, step, n, g) ==
    g \in [0..n -> S] /\ g[0] = base /\ \A i \in 1..n : g[i] = step[<<g[i - 1], i>>]

LEMMA RecursionIs ==
  ASSUME NEW S, NEW base, NEW step, Recursion(S, base, step), NEW n \in Nat
  PROVE  \E g : Result(S, base, step, n, g)
  <1> DEFINE Is(g, k) == g[0] = base /\ \A i \in 1..k : g[i] = step[<<g[i - 1], i>>]
             T == {k \in Nat : \E g \in [0..k -> S] : Is(g, k)}
  <1> USE DEF Recursion
  <1>1. 0 \in T
    <2>1. [i \in 0..0 |-> base] \in [0..0 -> S] /\ Is([i \in 0..0 |-> base], 0)
      OBVIOUS
    <2> QED BY <2>1
  <1>2. ASSUME NEW k \in Nat, k \in T PROVE k + 1 \in T
    <2>1. PICK g \in [0..k -> S] : Is(g, k)
      BY <1>2
    <2>2. PICK new \in S : new = step[<<g[k], k + 1>>]
      OBVIOUS
    <2>3. PICK h : h = [i \in 0..(k + 1) |-> IF i = k + 1 THEN new ELSE g[i]]
      OBVIOUS
    <2>4. h[k + 1] = new /\ \A i \in 0..k : h[i] = g[i]
      BY <2>3
    <2>5. h \in [0..(k + 1) -> S]
      <3> SUFFICES ASSUME NEW i \in 0..(k + 1) PROVE h[i] \in S
        BY <2>3
      <3>1. i = k + 1 \/ i \in 0..k
        OBVIOUS
      <3> QED BY <2>4, <3>1
    <2>6. ASSUME NEW i \in 1..(k + 1) PROVE h[i] = step[<<h[i - 1], i>>]
      <3>1. CASE i = k + 1
        <4>1. h[i - 1] = g[k]
          BY <2>4, <3>1
        <4> QED BY <2>2, <2>4, <3>1, <4>1
      <3>2. CASE i # k + 1
        <4>1. i \in 1..k /\ i - 1 \in 0..k /\ i \in 0..k
          BY <3>2
        <4> QED BY <2>1, <2>4, <4>1
      <3> QED BY <3>1, <3>2
    <2>7. Is(h, k + 1)
      BY <2>1, <2>4, <2>6
    <2> HIDE DEF Is
    <2> QED BY <2>5, <2>7
  <1> HIDE DEF T
  <1>3. n \in T
    BY <1>1, <1>2, Induct
  <1>4. PICK g \in [0..n -> S] : Is(g, n)
    BY <1>3 DEF T
  <1>5. Result(S, base, step, n, g)
    BY <1>4 DEF Result
  <1> QED BY <1>5

-----------------------------------------------------------------------------
(***************************************************************************)
(* Division.                                                               *)
(***************************************************************************)
\* Division with a remainder.
LEMMA DivideIs ==
  ASSUME NEW m \in Nat \ {0}, NEW a \in Nat
  PROVE  a \div m \in Nat /\ a % m \in 0..(m - 1) /\ a = m * (a \div m) + (a % m)
  <1>1. PICK r \in 0..(m - 1) : r = a % m
    OBVIOUS
  <1>2. PICK q \in Int : q = a \div m
    OBVIOUS
  <1>3. a = m * q + r
    BY <1>1, <1>2, Z3
  <1>4. a \div m \in Nat
    OBVIOUS
  <1> QED BY <1>1, <1>2, <1>3, <1>4

LEMMA Monotone ==
  ASSUME NEW k \in Nat \ {0}, NEW m \in Nat, NEW n \in Nat
  PROVE  (m <= n => k * m <= k * n) /\ (k * m < k * n => m < n)
  <1>1. \A a, b, c \in Nat : a <= b => c * a <= c * b
    BY Z3
  <1>2. m <= n => k * m <= k * n
    BY <1>1
  <1>3. n <= m => k * n <= k * m
    BY <1>1
  <1>4. k * m \in Nat /\ k * n \in Nat
    OBVIOUS
  <1> QED BY <1>2, <1>3, <1>4

\* A quotient is the largest number of times the divisor fits.
LEMMA QuotientIs ==
  ASSUME NEW m \in Nat \ {0}, NEW a \in Nat
  PROVE  /\ a \div m \in Nat
         /\ m * (a \div m) <= a
         /\ a < m * (a \div m + 1)
  <1>1. PICK r \in 0..(m - 1) : r = a % m
    OBVIOUS
  <1>2. PICK q \in Nat : q = a \div m /\ a = m * q + r
    BY <1>1, DivideIs
  <1>3. m * (q + 1) = m * q + m
    BY Z3
  <1>4. m * q \in Nat
    OBVIOUS
  <1> QED BY <1>1, <1>2, <1>3, <1>4

-----------------------------------------------------------------------------
(***************************************************************************)
(* The sums of a table of frequencies.                                     *)
(***************************************************************************)
LEMMA SumsAre ==
  ASSUME NEW table \in [Symbol -> Nat]
  PROVE  /\ Sums(table) \in [0..kAlphabetSize -> Nat]
         /\ Sums(table)[0] = 0
         /\ \A i \in Symbol : Sums(table)[i + 1] = Sums(table)[i] + table[i]
  <1> DEFINE n == kAlphabetSize
             turned(r, i) == r + table[i - 1]
             step == [p \in Nat \X Nat |-> IF p[2] \in 1..n THEN turned(p[1], p[2]) ELSE p[1]]
  <1>1. n \in Nat \ {0} /\ Symbol = 0..(n - 1)
    BY ContextModelAssumption DEF Symbol
  <1> HIDE DEF n
  <1>2. ASSUME NEW r \in Nat, NEW i \in 1..n PROVE turned(r, i) \in Nat
    <2>1. i - 1 \in Symbol
      BY <1>1
    <2> QED BY <2>1
  <1> HIDE DEF turned
  <1>3. Recursion(Nat, 0, step)
    <2>1. step \in [Nat \X Nat -> Nat]
      BY <1>2
    <2> QED BY <2>1 DEF Recursion
  <1>4. PICK g : Result(Nat, 0, step, n, g)
    BY <1>1, <1>3, RecursionIs
  <1>5. g \in [0..n -> Nat] /\ g[0] = 0 /\ \A i \in 1..n : g[i] = turned(g[i - 1], i)
    <2>1. g \in [0..n -> Nat] /\ g[0] = 0 /\ \A i \in 1..n : g[i] = step[<<g[i - 1], i>>]
      BY <1>4 DEF Result
    <2>2. ASSUME NEW i \in 1..n PROVE g[i] = turned(g[i - 1], i)
      <3>1. g[i - 1] \in Nat /\ i \in Nat
        BY <1>1, <2>1
      <3>2. g[i] = step[<<g[i - 1], i>>]
        <4> HIDE DEF step
        <4> QED BY <2>1
      <3> QED BY <3>1, <3>2
    <2> QED BY <2>1, <2>2
  <1> HIDE DEF step
  <1> DEFINE sum == CHOOSE f : f = [i \in 0..n |-> IF i = 0 THEN 0 ELSE turned(f[i - 1], i)]
  <1>6. g = [i \in 0..n |-> IF i = 0 THEN 0 ELSE turned(g[i - 1], i)]
    <2>1. \A i \in 0..n : i = 0 \/ i \in 1..n
      BY <1>1
    <2> QED BY <1>5, <2>1
  <1>7. sum = [i \in 0..n |-> IF i = 0 THEN 0 ELSE turned(sum[i - 1], i)]
    BY <1>6, Zenon
  <1>8. Sums(table) = sum
    BY DEF Sums, turned, n
  <1> HIDE DEF sum
  <1>9. \A i \in 0..n : sum[i] = IF i = 0 THEN 0 ELSE turned(sum[i - 1], i)
    BY <1>7, Zenon
  <1> DEFINE T == {i \in Nat : i <= n => sum[i] \in Nat}
  <1>10. 0 \in T
    BY <1>1, <1>9
  <1>11. ASSUME NEW i \in Nat, i \in T PROVE i + 1 \in T
    <2> SUFFICES ASSUME i + 1 <= n PROVE sum[i + 1] \in Nat
      OBVIOUS
    <2>1. i + 1 \in 0..n /\ i + 1 # 0 /\ i + 1 \in 1..n /\ (i + 1) - 1 = i /\ i <= n
      BY <1>1
    <2>2. sum[i] \in Nat
      BY <1>11, <2>1
    <2> QED BY <1>2, <1>9, <2>1, <2>2
  <1>12. \A i \in Nat : i \in T
    <2> HIDE DEF T
    <2> QED BY <1>10, <1>11, Induct
  <1>13. \A i \in 0..n : sum[i] \in Nat
    BY <1>1, <1>12
  <1>14. DOMAIN sum = 0..n
    BY <1>7, Zenon
  <1>15. sum = [i \in 0..n |-> sum[i]]
    BY <1>7, <1>14, Zenon
  <1>16. sum \in [0..n -> Nat]
    BY <1>13, <1>15
  <1>17. ASSUME NEW i \in Symbol PROVE sum[i + 1] = sum[i] + table[i]
    <2>1. i + 1 \in 0..n /\ i + 1 # 0 /\ (i + 1) - 1 = i
      BY <1>1
    <2>2. sum[i + 1] = turned(sum[i], i + 1)
      BY <1>9, <2>1
    <2> QED BY <2>1, <2>2 DEF turned
  <1>18. sum[0] = 0
    BY <1>1, <1>9
  <1> QED BY <1>8, <1>16, <1>17, <1>18 DEF n

\* They grow by at least one for each symbol that has been counted.
LEMMA SumsGrow ==
  ASSUME NEW table \in [Symbol -> Nat], \A s \in Symbol : table[s] >= 1
  PROVE  \A i, j \in 0..kAlphabetSize : i <= j => Sums(table)[i] + (j - i) <= Sums(table)[j]
  <1>1. PICK n \in Nat \ {0} : n = kAlphabetSize /\ Symbol = 0..(n - 1)
    BY ContextModelAssumption DEF Symbol
  <1>2. PICK sum : sum = Sums(table)
    OBVIOUS
  <1>3. /\ sum \in [0..n -> Nat]
        /\ \A i \in 0..(n - 1) : sum[i + 1] = sum[i] + table[i]
    BY <1>1, <1>2, SumsAre
  <1> SUFFICES ASSUME NEW i \in 0..n
               PROVE  \A j \in 0..n : i <= j => sum[i] + (j - i) <= sum[j]
    BY <1>1, <1>2
  <1> DEFINE T == {j \in Nat : i <= j /\ j <= n => sum[i] + (j - i) <= sum[j]}
  <1>4. 0 \in T
    BY <1>3
  <1>5. ASSUME NEW j \in Nat, j \in T PROVE j + 1 \in T
    <2> SUFFICES ASSUME i <= j + 1, j + 1 <= n PROVE sum[i] + ((j + 1) - i) <= sum[j + 1]
      OBVIOUS
    <2>1. CASE i = j + 1
      BY <1>3, <2>1
    <2>2. CASE i <= j
      <3>1. sum[i] + (j - i) <= sum[j]
        BY <1>5, <2>2
      <3>2. j \in 0..(n - 1) /\ j \in 0..n
        OBVIOUS
      <3>3. sum[j + 1] = sum[j] + table[j] /\ table[j] >= 1 /\ table[j] \in Nat
        BY <1>1, <1>3, <3>2
      <3>4. sum[i] \in Nat /\ sum[j] \in Nat
        BY <1>3, <3>2
      <3> QED BY <3>1, <3>3, <3>4
    <2> QED BY <2>1, <2>2
  <1>6. \A j \in Nat : j \in T
    <2> HIDE DEF T
    <2> QED BY <1>4, <1>5, Induct
  <1> QED BY <1>6

\* One symbol counted twice more.
LEMMA SumCounted ==
  ASSUME NEW table \in [Symbol -> Nat], NEW s \in Symbol,
         NEW new \in [Symbol -> Nat], new[s] = table[s] + 2,
         \A i \in Symbol : i # s => new[i] = table[i]
  PROVE  SumOf(new) = SumOf(table) + 2
  <1>1. PICK n \in Nat \ {0} : n = kAlphabetSize /\ Symbol = 0..(n - 1)
    BY ContextModelAssumption DEF Symbol
  <1>2. PICK a, b : a = Sums(table) /\ b = Sums(new)
    OBVIOUS
  <1>3. /\ a \in [0..n -> Nat] /\ a[0] = 0
        /\ \A i \in 0..(n - 1) : a[i + 1] = a[i] + table[i]
    BY <1>1, <1>2, SumsAre
  <1>4. /\ b \in [0..n -> Nat] /\ b[0] = 0
        /\ \A i \in 0..(n - 1) : b[i + 1] = b[i] + new[i]
    BY <1>1, <1>2, SumsAre
  <1> DEFINE T == {i \in Nat : i <= n => b[i] = a[i] + (IF i > s THEN 2 ELSE 0)}
  <1>5. 0 \in T
    BY <1>1, <1>3, <1>4
  <1>6. ASSUME NEW i \in Nat, i \in T PROVE i + 1 \in T
    <2> SUFFICES ASSUME i + 1 <= n PROVE b[i + 1] = a[i + 1] + (IF i + 1 > s THEN 2 ELSE 0)
      OBVIOUS
    <2>1. i \in 0..(n - 1) /\ i \in 0..n /\ i \in Symbol
      BY <1>1
    <2>2. b[i] = a[i] + (IF i > s THEN 2 ELSE 0)
      BY <1>6
    <2>3. a[i + 1] = a[i] + table[i] /\ b[i + 1] = b[i] + new[i]
      BY <1>3, <1>4, <2>1
    <2>4. a[i] \in Nat /\ b[i] \in Nat /\ table[i] \in Nat /\ new[i] \in Nat /\ s \in Nat
      <3>1. a[i] \in Nat /\ b[i] \in Nat
        BY <1>3, <1>4, <2>1
      <3>2. table[i] \in Nat /\ new[i] \in Nat
        BY <2>1
      <3>3. s \in Nat
        BY <1>1
      <3> QED BY <3>1, <3>2, <3>3
    <2>5. CASE i = s
      BY <2>2, <2>3, <2>4, <2>5
    <2>6. CASE i # s
      <3>1. new[i] = table[i]
        BY <2>1, <2>6
      <3> QED BY <2>2, <2>3, <2>4, <2>6, <3>1
    <2> QED BY <2>5, <2>6
  <1>7. \A i \in Nat : i \in T
    <2> HIDE DEF T
    <2> QED BY <1>5, <1>6, Induct
  <1>8. b[n] = a[n] + 2
    BY <1>1, <1>7
  <1> QED BY <1>1, <1>2, <1>8 DEF SumOf

Odd(n) == n % 2 = 1

OddTables == {t \in [Symbol -> Nat] : \A s \in Symbol : Odd(t[s])}

\* Halving leaves an odd count odd, so that it loses no more than half of itself
\* (line 31 of context_model.cpp).
LEMMA HalvedIs ==
  ASSUME NEW n \in Nat, Odd(n)
  PROVE  /\ n >= 1 /\ Halved(n) \in Nat /\ Odd(Halved(n))
         /\ 2 * Halved(n) <= n + 1
  <1>1. PICK h \in Nat : h = n \div 2 /\ n = 2 * h + 1
    <2>1. n % 2 = 1
      BY DEF Odd
    <2> QED BY <2>1, DivideIs, 2 \in Nat \ {0}
  <1>2. Halved(n) = IF h % 2 = 0 THEN h + 1 ELSE h
    BY <1>1 DEF Halved
  <1>3. CASE h % 2 = 0
    BY <1>1, <1>2, <1>3 DEF Odd
  <1>4. CASE h % 2 # 0
    BY <1>1, <1>2, <1>4 DEF Odd
  <1> QED BY <1>3, <1>4

LEMMA SumRescaled ==
  ASSUME NEW table \in OddTables
  PROVE  /\ Rescaled(table) \in OddTables
         /\ 2 * SumOf(Rescaled(table)) <= SumOf(table) + kAlphabetSize
  <1>1. PICK n \in Nat \ {0} : n = kAlphabetSize /\ Symbol = 0..(n - 1)
    BY ContextModelAssumption DEF Symbol
  <1>2. table \in [Symbol -> Nat] /\ \A s \in Symbol : Odd(table[s])
    BY DEF OddTables
  <1>3. PICK new : new = Rescaled(table)
    OBVIOUS
  <1>4. \A s \in Symbol : new[s] = Halved(table[s])
    BY <1>3 DEF Rescaled
  <1>5. \A s \in Symbol : new[s] \in Nat /\ Odd(new[s]) /\ 2 * new[s] <= table[s] + 1
    <2> SUFFICES ASSUME NEW s \in Symbol
                 PROVE  new[s] \in Nat /\ Odd(new[s]) /\ 2 * new[s] <= table[s] + 1
      OBVIOUS
    <2>1. PICK k \in Nat : k = table[s] /\ Odd(k)
      BY <1>2
    <2> QED BY <1>4, <2>1, HalvedIs
  <1>6. new \in [Symbol -> Nat] /\ new \in OddTables
    <2>1. DOMAIN new = Symbol /\ new = [s \in Symbol |-> new[s]]
      BY <1>3 DEF Rescaled
    <2>2. new \in [Symbol -> Nat]
      BY <1>5, <2>1
    <2> QED BY <1>5, <2>2 DEF OddTables
  <1>7. PICK a, b : a = Sums(table) /\ b = Sums(new)
    OBVIOUS
  <1>8. /\ a \in [0..n -> Nat] /\ a[0] = 0
        /\ \A i \in 0..(n - 1) : a[i + 1] = a[i] + table[i]
    BY <1>1, <1>2, <1>7, SumsAre
  <1>9. /\ b \in [0..n -> Nat] /\ b[0] = 0
        /\ \A i \in 0..(n - 1) : b[i + 1] = b[i] + new[i]
    BY <1>1, <1>6, <1>7, SumsAre
  <1> DEFINE T == {i \in Nat : i <= n => 2 * b[i] <= a[i] + i}
  <1>10. 0 \in T
    BY <1>8, <1>9
  <1>11. ASSUME NEW i \in Nat, i \in T PROVE i + 1 \in T
    <2> SUFFICES ASSUME i + 1 <= n PROVE 2 * b[i + 1] <= a[i + 1] + (i + 1)
      OBVIOUS
    <2>1. i \in 0..(n - 1) /\ i \in 0..n /\ i \in Symbol
      BY <1>1
    <2>2. 2 * b[i] <= a[i] + i
      BY <1>11
    <2>3. a[i + 1] = a[i] + table[i] /\ b[i + 1] = b[i] + new[i]
      BY <1>8, <1>9, <2>1
    <2>4. a[i] \in Nat /\ b[i] \in Nat /\ table[i] \in Nat /\ new[i] \in Nat
      BY <1>2, <1>5, <1>8, <1>9, <2>1
    <2>5. 2 * new[i] <= table[i] + 1
      BY <1>5, <2>1
    <2> QED BY <2>2, <2>3, <2>4, <2>5
  <1>12. \A i \in Nat : i \in T
    <2> HIDE DEF T
    <2> QED BY <1>10, <1>11, Induct
  <1>13. 2 * b[n] <= a[n] + n
    BY <1>1, <1>12
  <1> QED BY <1>1, <1>3, <1>6, <1>7, <1>13 DEF SumOf

-----------------------------------------------------------------------------
(***************************************************************************)
(* The model of the context.                                               *)
(***************************************************************************)
\* What holds of a model between updates: every count is odd, which is why a
\* rescaling takes enough away from a total that is full.
Good(m) ==
    /\ m.history \in [1..Order -> Symbol]
    /\ m.freq \in [Contexts -> OddTables]
    /\ m.total \in [Contexts -> Nat]
    /\ \A c \in Contexts : m.total[c] = SumOf(m.freq[c]) /\ m.total[c] < kMaxFrequency

LEMMA GoodIsSound ==
  ASSUME NEW m, Good(m)
  PROVE  Sound(m)
  <1> SUFFICES ASSUME NEW c \in Contexts, NEW s \in Symbol PROVE m.freq[c][s] > 0
    BY DEF Sound, Good
  <1>1. m.freq[c] \in OddTables
    BY DEF Good
  <1>2. PICK n \in Nat : n = m.freq[c][s] /\ Odd(n)
    BY <1>1 DEF OddTables
  <1>3. n >= 1
    BY <1>2, HalvedIs
  <1> QED BY <1>2, <1>3

LEMMA FreshIsGood == Good(FreshModel)
  <1>1. PICK n \in Nat \ {0} : n = kAlphabetSize /\ Symbol = 0..(n - 1)
    BY ContextModelAssumption DEF Symbol
  <1>2. PICK ones : ones = [s \in Symbol |-> 1]
    OBVIOUS
  <1>3. ones \in [Symbol -> Nat] /\ \A s \in Symbol : ones[s] = 1
    BY <1>2
  <1>4. ones \in OddTables
    BY <1>3 DEF OddTables, Odd
  <1>5. SumOf(ones) = n
    <2>1. PICK a : a = Sums(ones)
      OBVIOUS
    <2>2. /\ a \in [0..n -> Nat] /\ a[0] = 0
          /\ \A i \in 0..(n - 1) : a[i + 1] = a[i] + ones[i]
      BY <1>1, <1>3, <2>1, SumsAre
    <2> DEFINE T == {i \in Nat : i <= n => a[i] = i}
    <2>3. 0 \in T
      BY <2>2
    <2>4. ASSUME NEW i \in Nat, i \in T PROVE i + 1 \in T
      <3> SUFFICES ASSUME i + 1 <= n PROVE a[i + 1] = i + 1
        OBVIOUS
      <3>1. i \in 0..(n - 1) /\ i \in Symbol /\ a[i] = i
        BY <1>1, <2>4
      <3> QED BY <1>3, <2>2, <3>1
    <2>5. \A i \in Nat : i \in T
      <3> HIDE DEF T
      <3> QED BY <2>3, <2>4, Induct
    <2>6. a[n] = n
      BY <2>5
    <2> QED BY <1>1, <2>1, <2>6 DEF SumOf
  <1>6. PICK m : m = FreshModel
    OBVIOUS
  <1>7. /\ m.history = [i \in 1..Order |-> 0]
        /\ m.freq = [c \in Contexts |-> ones]
        /\ m.total = [c \in Contexts |-> n]
    BY <1>1, <1>2, <1>6 DEF FreshModel
  <1>8. m.history \in [1..Order -> Symbol]
    BY <1>1, <1>7
  <1>9. m.freq \in [Contexts -> OddTables] /\ m.total \in [Contexts -> Nat]
    BY <1>4, <1>7
  <1>10. n < kMaxFrequency
    BY <1>1, ContextModelAssumption
  <1>11. \A c \in Contexts : m.total[c] = SumOf(m.freq[c]) /\ m.total[c] < kMaxFrequency
    BY <1>5, <1>7, <1>10
  <1> QED BY <1>6, <1>8, <1>9, <1>11 DEF Good

LEMMA ContextIs ==
  ASSUME NEW m, Good(m)
  PROVE  get_context_index(m) \in Contexts
  BY ContextModelAssumption DEF Good, get_context_index, Symbol

\* An update keeps the model good: a total that is not full has room for two more,
\* and one that is full has after the rescaling (lines 26-53 of context_model.cpp).
LEMMA UpdatedIsGood ==
  ASSUME NEW m, Good(m), NEW symbol \in Symbol
  PROVE  Good(Updated(m, symbol))
  <1>1. PICK c \in Contexts : c = get_context_index(m)
    BY ContextIs
  <1>2. /\ m.history \in [1..Order -> Symbol] /\ m.freq \in [Contexts -> OddTables]
        /\ m.total \in [Contexts -> Nat]
        /\ \A d \in Contexts : m.total[d] = SumOf(m.freq[d]) /\ m.total[d] < kMaxFrequency
    BY DEF Good
  <1>3. PICK n \in Nat \ {0}, k \in Nat : n = kAlphabetSize /\ k = kMaxFrequency /\ k > n + 3
    BY ContextModelAssumption
  <1>4. PICK old \in OddTables : old = m.freq[c]
    BY <1>2
  <1>5. PICK t \in Nat : t = m.total[c] /\ t = SumOf(old) /\ t < k
    BY <1>2, <1>3, <1>4
  <1>6. PICK table \in OddTables :
            /\ table = IF Full(m.total[c]) THEN Rescaled(m.freq[c]) ELSE m.freq[c]
            /\ Full(t) => table = Rescaled(old)
            /\ ~Full(t) => table = old
    BY <1>4, <1>5, SumRescaled
  <1>7. PICK total \in Nat :
            /\ total = IF Full(m.total[c]) THEN SumOf(table) ELSE m.total[c]
            /\ total = SumOf(table) /\ total + 2 < k
    <2>1. CASE Full(t)
      <3>1. 2 * SumOf(table) <= t + n
        BY <1>3, <1>5, <1>6, <2>1, SumRescaled
      <3>2. SumOf(table) \in Nat
        <4>1. Sums(table) \in [0..n -> Nat]
          BY <1>3, SumsAre DEF OddTables
        <4> QED BY <1>3, <4>1 DEF SumOf
      <3>3. SumOf(table) + 2 < k
        BY <1>3, <1>5, <3>1, <3>2
      <3> QED BY <1>5, <2>1, <3>2, <3>3
    <2>2. CASE ~Full(t)
      <3>1. t + 2 < k
        BY <1>3, <1>5, <2>2 DEF Full
      <3>2. t = SumOf(table)
        BY <1>5, <1>6, <2>2
      <3> QED BY <1>5, <2>2, <3>1, <3>2
    <2> QED BY <2>1, <2>2
  <1>8. PICK counted : counted = [table EXCEPT ![symbol] = U16(@ + 2)]
    OBVIOUS
  <1>9. counted[symbol] = table[symbol] + 2 /\ \A i \in Symbol : i # symbol => counted[i] = table[i]
    <2>1. table \in [Symbol -> Nat] /\ \A s \in Symbol : Odd(table[s])
      BY DEF OddTables
    <2>2. counted[symbol] = U16(table[symbol] + 2) /\ \A i \in Symbol : i # symbol => counted[i] = table[i]
      BY <1>8, <2>1
    <2>3. table[symbol] <= total
      <3>1. \A s \in Symbol : table[s] >= 1
        BY <2>1, HalvedIs
      <3>2. PICK sum : sum = Sums(table)
        OBVIOUS
      <3>3. symbol \in 0..(n - 1) /\ symbol \in 0..n /\ symbol + 1 \in 0..n /\ n \in 0..n
        BY <1>3 DEF Symbol
      <3>4. sum \in [0..n -> Nat] /\ sum[symbol + 1] = sum[symbol] + table[symbol]
        BY <1>3, <2>1, <3>2, SumsAre
      <3>5. \A i, j \in 0..n : i <= j => sum[i] + (j - i) <= sum[j]
        BY <1>3, <2>1, <3>1, <3>2, SumsGrow
      <3>6. sum[symbol + 1] + (n - (symbol + 1)) <= sum[n]
        BY <3>3, <3>5
      <3>7. table[symbol] \in Nat /\ sum[symbol] \in Nat /\ sum[n] \in Nat
        BY <2>1, <3>3, <3>4
      <3>8. table[symbol] <= sum[n]
        BY <3>3, <3>4, <3>6, <3>7
      <3> QED BY <1>3, <1>7, <3>2, <3>8 DEF SumOf
    <2>4. PICK x \in Nat : x = table[symbol] + 2 /\ x < k
      BY <1>7, <2>1, <2>3
    <2>5. U16(x) = x
      BY <1>3, <2>4 DEF U16
    <2> QED BY <2>2, <2>4, <2>5
  <1>10. counted \in [Symbol -> Nat] /\ counted \in OddTables
    <2>1. table \in [Symbol -> Nat] /\ \A s \in Symbol : Odd(table[s])
      BY DEF OddTables
    <2>2. \A i \in Symbol : counted[i] \in Nat /\ Odd(counted[i])
      <3> SUFFICES ASSUME NEW i \in Symbol PROVE counted[i] \in Nat /\ Odd(counted[i])
        OBVIOUS
      <3>1. PICK x \in Nat : x = table[i] /\ x % 2 = 1
        BY <2>1 DEF Odd
      <3>2. counted[i] = x \/ counted[i] = x + 2
        BY <1>9, <3>1
      <3>3. (x + 2) % 2 = 1
        BY <3>1
      <3> QED BY <3>1, <3>2, <3>3 DEF Odd
    <2>3. counted \in [Symbol -> Nat]
      <3>1. DOMAIN counted = Symbol /\ counted = [i \in Symbol |-> counted[i]]
        BY <1>8, <2>1
      <3> QED BY <2>2, <3>1
    <2> QED BY <2>2, <2>3 DEF OddTables
  <1>11. SumOf(counted) = total + 2
    <2>1. table \in [Symbol -> Nat]
      BY DEF OddTables
    <2> QED BY <1>7, <1>9, <1>10, <2>1, SumCounted
  <1>12. PICK u : u = Updated(m, symbol)
    OBVIOUS
  <1>13. /\ u.history = <<symbol>> \o SubSeq(m.history, 1, Order - 1)
         /\ u.freq = [m.freq EXCEPT ![c] = counted]
         /\ u.total = [m.total EXCEPT ![c] = total + 2]
    BY <1>1, <1>6, <1>7, <1>8, <1>12 DEF Updated
  <1>14. u.history \in [1..Order -> Symbol]
    <2>1. PICK o \in Nat \ {0} : o = Order
      BY ContextModelAssumption
    <2>2. m.history \in Seq(Symbol) /\ Len(m.history) = o
      BY <1>2, <2>1, SeqDef
    <2>3. \A i \in 1..(o - 1) : m.history[i] \in Symbol
      BY <1>2, <2>1
    <2>4. PICK rest : rest = SubSeq(m.history, 1, o - 1)
      OBVIOUS
    <2>5. rest \in Seq(Symbol) /\ Len(rest) = o - 1
      <3>1. PICK p \in Int : p = o - 1
        OBVIOUS
      <3>2. rest \in Seq(Symbol) /\ Len(rest) = IF 1 <= p THEN p - 1 + 1 ELSE 0
        BY <2>3, <2>4, <3>1, SubSeqProperties
      <3> QED BY <3>1, <3>2
    <2>6. <<symbol>> \in Seq(Symbol) /\ Len(<<symbol>>) = 1
      OBVIOUS
    <2>7. <<symbol>> \o rest \in Seq(Symbol) /\ Len(<<symbol>> \o rest) = o
      <3>1. /\ <<symbol>> \o rest \in Seq(Symbol)
            /\ Len(<<symbol>> \o rest) = Len(<<symbol>>) + Len(rest)
        BY <2>5, <2>6, ConcatProperties
      <3> QED BY <2>5, <2>6, <3>1
    <2>8. u.history \in Seq(Symbol) /\ Len(u.history) = o
      BY <1>13, <2>1, <2>4, <2>7
    <2> QED BY <2>1, <2>8, LenProperties
  <1>15. u.freq \in [Contexts -> OddTables] /\ u.total \in [Contexts -> Nat]
    BY <1>2, <1>10, <1>13
  <1>16. ASSUME NEW d \in Contexts PROVE u.total[d] = SumOf(u.freq[d]) /\ u.total[d] < kMaxFrequency
    <2>1. CASE d = c
      BY <1>2, <1>3, <1>7, <1>11, <1>13, <2>1
    <2>2. CASE d # c
      BY <1>2, <1>13, <2>2
    <2> QED BY <2>1, <2>2
  <1> QED BY <1>12, <1>14, <1>15, <1>16 DEF Good

\* The part of the total that a symbol takes.
LEMMA StatsAre ==
  ASSUME NEW m, Good(m)
  PROVE  \E sum \in [0..kAlphabetSize -> Nat], t \in Nat :
            /\ t >= 1 /\ t < kMaxFrequency
            /\ sum[0] = 0 /\ sum[kAlphabetSize] = t /\ total_frequency(m) = t
            /\ \A s \in Symbol :
                  /\ get_stats(m, s) = [low |-> sum[s], high |-> sum[s + 1], total |-> t]
                  /\ sum[s] < sum[s + 1] /\ sum[s + 1] <= t
  <1>1. PICK c \in Contexts : c = get_context_index(m)
    BY ContextIs
  <1>2. PICK n \in Nat \ {0}, k \in Nat : n = kAlphabetSize /\ k = kMaxFrequency
    BY ContextModelAssumption
  <1>3. Symbol = 0..(n - 1)
    BY <1>2 DEF Symbol
  <1>4. PICK table \in OddTables, t \in Nat :
            table = m.freq[c] /\ t = m.total[c] /\ t = SumOf(table) /\ t < k
    BY <1>2 DEF Good
  <1>5. table \in [Symbol -> Nat] /\ \A s \in Symbol : table[s] >= 1
    BY HalvedIs DEF OddTables
  <1>6. PICK sum : sum = Sums(table)
    OBVIOUS
  <1>7. /\ sum \in [0..n -> Nat] /\ sum[0] = 0
        /\ \A s \in Symbol : sum[s + 1] = sum[s] + table[s]
    BY <1>2, <1>5, <1>6, SumsAre
  <1>8. \A i, j \in 0..n : i <= j => sum[i] + (j - i) <= sum[j]
    BY <1>2, <1>5, <1>6, SumsGrow
  <1>9. sum[n] = t
    BY <1>2, <1>4, <1>6 DEF SumOf
  <1>10. t >= 1
    <2>1. 0 \in 0..n /\ n \in 0..n
      BY <1>2
    <2>2. sum[0] + (n - 0) <= sum[n]
      BY <1>8, <2>1
    <2> QED BY <1>7, <1>9, <2>2
  <1>11. \A i \in 0..n : sum[i] <= t
    <2> SUFFICES ASSUME NEW i \in 0..n PROVE sum[i] <= t
      OBVIOUS
    <2>1. sum[i] + (n - i) <= sum[n]
      BY <1>8
    <2> QED BY <1>7, <1>9, <2>1
  <1>12. \A x \in 0..t : U16(x) = x
    BY <1>2, <1>4 DEF U16
  <1>13. total_frequency(m) = t
    BY <1>1, <1>4, <1>12 DEF total_frequency
  <1>14. ASSUME NEW s \in Symbol
         PROVE  /\ get_stats(m, s) = [low |-> sum[s], high |-> sum[s + 1], total |-> t]
                /\ sum[s] < sum[s + 1] /\ sum[s + 1] <= t
    <2>1. s \in 0..n /\ s + 1 \in 0..n
      BY <1>3
    <2>2. sum[s] \in 0..t /\ sum[s + 1] \in 0..t
      BY <1>7, <1>11, <2>1
    <2>3. Below(m, s) = sum[s]
      BY <1>1, <1>4, <1>6, <1>12, <2>2 DEF Below
    <2>4. table[s] \in Nat /\ table[s] >= 1 /\ sum[s + 1] = sum[s] + table[s]
      BY <1>5, <1>7
    <2>5. U16(Below(m, s) + m.freq[get_context_index(m)][s]) = sum[s + 1]
      BY <1>1, <1>4, <1>12, <2>2, <2>3, <2>4
    <2>6. get_stats(m, s) = [low |-> sum[s], high |-> sum[s + 1], total |-> t]
      BY <1>13, <2>3, <2>5 DEF get_stats
    <2> QED BY <2>2, <2>4, <2>6
  <1> QED BY <1>2, <1>4, <1>7, <1>9, <1>10, <1>13, <1>14

\* Every count below the total has its symbol, and the fallback is not needed
\* (lines 74-87 of context_model.cpp).
LEMMA SymbolAtIs ==
  ASSUME NEW m, Good(m), NEW target \in Nat, target < total_frequency(m)
  PROVE  /\ SymbolAt(m, target) \in Symbol
         /\ get_stats(m, SymbolAt(m, target)).low <= target
         /\ target < get_stats(m, SymbolAt(m, target)).high
  <1>1. PICK n \in Nat \ {0} : n = kAlphabetSize /\ Symbol = 0..(n - 1)
    BY ContextModelAssumption DEF Symbol
  <1>2. PICK sum \in [0..n -> Nat], t \in Nat :
            /\ sum[0] = 0 /\ sum[n] = t /\ total_frequency(m) = t
            /\ \A s \in Symbol :
                  get_stats(m, s) = [low |-> sum[s], high |-> sum[s + 1], total |-> t]
    <2>1. PICK sum \in [0..kAlphabetSize -> Nat], t \in Nat :
              /\ sum[0] = 0 /\ sum[kAlphabetSize] = t /\ total_frequency(m) = t
              /\ \A s \in Symbol :
                    get_stats(m, s) = [low |-> sum[s], high |-> sum[s + 1], total |-> t]
      BY StatsAre
    <2>2. sum \in [0..n -> Nat] /\ sum[n] = t
      BY <1>1, <2>1
    <2> QED BY <2>1, <2>2
  <1>3. \A s \in Symbol : get_stats(m, s).low = sum[s] /\ get_stats(m, s).high = sum[s + 1]
    BY <1>2
  <1> DEFINE beyond == {s \in Symbol : target < get_stats(m, s).high}
  <1>4. n - 1 \in Symbol /\ (n - 1) + 1 = n
    BY <1>1
  <1>5. n - 1 \in beyond
    BY <1>2, <1>3, <1>4
  <1>6. PICK s \in beyond : \A r \in beyond : s <= r
    <2>1. beyond \in SUBSET Nat /\ beyond # {}
      BY <1>1, <1>5
    <2> HIDE DEF beyond
    <2> QED BY <2>1, Least
  <1>7. PICK f \in beyond : f = Min(beyond) /\ \A r \in beyond : f <= r
    <2> HIDE DEF beyond
    <2> QED BY <1>6 DEF Min
  <1>8. SymbolAt(m, target) = f
    <2>1. SymbolAt(m, target) = IF beyond = {} THEN kAlphabetSize - 1 ELSE Min(beyond)
      BY DEF SymbolAt
    <2> HIDE DEF beyond
    <2> QED BY <1>5, <1>7, <2>1
  <1>9. f \in Symbol /\ target < sum[f + 1]
    BY <1>3, <1>7
  <1>10. sum[f] <= target
    <2>1. CASE f = 0
      BY <1>2, <2>1
    <2>2. CASE f # 0
      <3>1. f - 1 \in Symbol /\ (f - 1) + 1 = f /\ f - 1 < f
        BY <1>1, <1>9, <2>2
      <3>2. f - 1 \notin beyond
        <4> HIDE DEF beyond
        <4> QED BY <1>1, <1>7, <1>9, <3>1
      <3>3. ~(target < sum[f])
        BY <1>3, <3>1, <3>2
      <3>4. sum[f] \in Nat
        BY <1>1, <1>2, <1>9
      <3> QED BY <3>3, <3>4
    <2> QED BY <2>1, <2>2
  <1> QED BY <1>3, <1>8, <1>9, <1>10

-----------------------------------------------------------------------------
(***************************************************************************)
(* The interval of a coder.                                                *)
(***************************************************************************)
LEMMA PowersAre ==
  /\ Power \in [0..Width -> Nat]
  /\ Power[0] = 1
  /\ \A i \in Nat : i < Width => Power[i + 1] = 2 * Power[i]
  <1> DEFINE step == [p \in Nat \X Nat |-> 2 * p[1]]
             twice(r) == 2 * r
             power == CHOOSE f : f = [i \in 0..Width |-> IF i = 0 THEN 1 ELSE twice(f[i - 1])]
  <1>1. PICK w \in Nat : w = Width
    BY CoderAssumption
  <1>2. Recursion(Nat, 1, step)
    BY DEF Recursion
  <1>3. PICK g : Result(Nat, 1, step, w, g)
    BY <1>2, RecursionIs
  <1>4. g \in [0..w -> Nat] /\ g[0] = 1 /\ \A i \in 1..w : g[i] = twice(g[i - 1])
    <2>1. g \in [0..w -> Nat] /\ g[0] = 1 /\ \A i \in 1..w : g[i] = step[<<g[i - 1], i>>]
      <3> HIDE DEF step
      <3> QED BY <1>3 DEF Result
    <2>2. ASSUME NEW i \in 1..w PROVE g[i] = twice(g[i - 1])
      <3>1. g[i - 1] \in Nat /\ i \in Nat
        BY <2>1
      <3>2. g[i] = step[<<g[i - 1], i>>]
        <4> HIDE DEF step
        <4> QED BY <2>1
      <3> QED BY <3>1, <3>2
    <2> QED BY <2>1, <2>2
  <1>5. Power = power
    BY DEF Power
  <1>6. g = [i \in 0..Width |-> IF i = 0 THEN 1 ELSE twice(g[i - 1])]
    <2>1. \A i \in 0..w : i = 0 \/ i \in 1..w
      OBVIOUS
    <2> HIDE DEF twice
    <2> QED BY <1>1, <1>4, <2>1
  <1>7. power = [i \in 0..Width |-> IF i = 0 THEN 1 ELSE twice(power[i - 1])]
    <2> HIDE DEF twice
    <2> QED BY <1>6, Zenon
  <1> HIDE DEF power
  <1>8. \A i \in 0..w : power[i] = IF i = 0 THEN 1 ELSE twice(power[i - 1])
    <2> HIDE DEF twice
    <2> QED BY <1>1, <1>7, Zenon
  <1> DEFINE T == {i \in Nat : i <= w => power[i] = g[i]}
  <1>9. 0 \in T
    BY <1>4, <1>8
  <1>10. ASSUME NEW i \in Nat, i \in T PROVE i + 1 \in T
    <2> SUFFICES ASSUME i + 1 <= w PROVE power[i + 1] = g[i + 1]
      OBVIOUS
    <2>1. i + 1 \in 0..w /\ i + 1 # 0 /\ i + 1 \in 1..w /\ (i + 1) - 1 = i /\ i <= w
      OBVIOUS
    <2>2. power[i] = g[i]
      BY <1>10, <2>1
    <2> HIDE DEF twice
    <2> QED BY <1>4, <1>8, <2>1, <2>2
  <1>11. \A i \in Nat : i \in T
    <2> HIDE DEF T
    <2> QED BY <1>9, <1>10, Induct
  <1>12. \A i \in 0..w : power[i] = g[i]
    BY <1>11
  <1>13. power \in [0..w -> Nat]
    <2>1. power = [i \in 0..w |-> power[i]]
      <3>1. DOMAIN power = 0..w
        BY <1>1, <1>7, Zenon
      <3> QED BY <1>1, <1>7, <3>1, Zenon
    <2> QED BY <1>4, <1>12, <2>1
  <1>14. ASSUME NEW i \in Nat, i < w PROVE power[i + 1] = 2 * power[i]
    <2>1. i + 1 \in 0..w /\ i + 1 # 0 /\ (i + 1) - 1 = i
      BY <1>14
    <2> QED BY <1>8, <2>1
  <1>15. power[0] = 1
    BY <1>8
  <1> QED BY <1>1, <1>5, <1>13, <1>14, <1>15

\* The whole interval, its half and its quarters.
LEMMA QuarterIs ==
  \E q \in Nat \ {0} :
     /\ kFirstQtr = q /\ kHalf = 2 * q /\ kThirdQtr = 3 * q /\ kTopValue = 4 * q - 1
     /\ Power[Width] = 4 * q
     /\ kMaxFrequency <= q
  <1>1. PICK w \in Nat : w = Width /\ w > 2
    BY CoderAssumption
  <1>2. w - 2 \in Nat /\ w - 1 \in Nat /\ (w - 2) + 1 = w - 1 /\ (w - 1) + 1 = w
    BY <1>1
  <1>3. PICK q \in Nat : q = Power[w - 2]
    BY <1>1, <1>2, PowersAre
  <1>4. Power[w - 1] = 2 * q
    <2>1. Power[(w - 2) + 1] = 2 * Power[w - 2]
      BY <1>1, <1>2, PowersAre
    <2> QED BY <1>2, <1>3, <2>1
  <1>5. Power[w] = 4 * q
    <2>1. Power[(w - 1) + 1] = 2 * Power[w - 1]
      BY <1>1, <1>2, PowersAre
    <2> QED BY <1>2, <1>4, <2>1
  <1>6. kMaxFrequency <= q
    BY <1>1, <1>3, CoderAssumption
  <1>7. q # 0
    BY <1>6, ContextModelAssumption
  <1> QED BY <1>1, <1>3, <1>5, <1>6, <1>7 DEF kFirstQtr, kHalf, kThirdQtr, kTopValue

Proper(x) ==
    x.low \in Nat /\ x.high \in Nat /\ x.low <= x.high /\ x.high <= kTopValue

LEMMA SettledIsWide ==
  ASSUME NEW x, Proper(x), Settled(x)
  PROVE  x.high - x.low >= kFirstQtr
  <1>1. PICK q \in Nat \ {0} :
            kFirstQtr = q /\ kHalf = 2 * q /\ kThirdQtr = 3 * q /\ kTopValue = 4 * q - 1
    BY QuarterIs
  <1>2. PICK l \in Nat, h \in Nat : l = x.low /\ h = x.high
    BY DEF Proper
  <1>3. h >= 2 * q /\ l < 2 * q /\ ~(l >= q /\ h < 3 * q)
    BY <1>1, <1>2 DEF Settled, InMiddle
  <1>4. h - l >= q
    BY <1>3
  <1> QED BY <1>1, <1>2, <1>4

\* The whole interval is settled.
LEMMA WholeIsSettled ==
  ASSUME NEW x, Proper(x), (x.high - x.low) + 1 >= Power[Width]
  PROVE  Settled(x)
  <1>1. PICK q \in Nat \ {0} :
            /\ kFirstQtr = q /\ kHalf = 2 * q /\ kThirdQtr = 3 * q /\ kTopValue = 4 * q - 1
            /\ Power[Width] = 4 * q
    BY QuarterIs
  <1>2. PICK l \in Nat, h \in Nat : l = x.low /\ h = x.high /\ l <= h /\ h <= 4 * q - 1
    BY <1>1 DEF Proper
  <1>3. (h - l) + 1 >= 4 * q
    BY <1>1, <1>2
  <1>4. l = 0 /\ h = 4 * q - 1
    BY <1>2, <1>3
  <1> QED BY <1>1, <1>2, <1>4 DEF Settled, InMiddle

-----------------------------------------------------------------------------
(***************************************************************************)
(* The part of the interval that a symbol takes.                           *)
(***************************************************************************)
Share(range, low, high, total) ==
    /\ range \in Nat \ {0} /\ total \in Nat \ {0} /\ total <= range
    /\ low \in Nat /\ high \in Nat /\ low < high /\ high <= total

\* It is not empty, because the range is no smaller than the total.
LEMMA PartIs ==
  ASSUME NEW range, NEW low, NEW high, NEW total, Share(range, low, high, total)
  PROVE  /\ (range * low) \div total \in Nat /\ (range * high) \div total \in Nat
         /\ (range * low) \div total < (range * high) \div total
         /\ (range * high) \div total <= range
  <1>1. PICK r \in Nat \ {0}, t \in Nat \ {0}, l \in Nat, h \in Nat :
            /\ r = range /\ t = total /\ l = low /\ h = high
            /\ t <= r /\ l < h /\ h <= t
    BY DEF Share
  <1>2. PICK x \in Nat, y \in Nat : x = r * l /\ y = r * h
    <2>1. r * l \in Nat /\ r * h \in Nat
      OBVIOUS
    <2> QED BY <2>1
  <1>3. x + r <= y
    <2>1. \A a, b, c \in Nat : b + 1 <= c => a * b + a <= a * c
      BY Z3
    <2> QED BY <1>1, <1>2, <2>1
  <1>4. y <= t * r
    <2>1. \A a, b, c \in Nat : b <= c => a * b <= c * a
      BY Z3
    <2> QED BY <1>1, <1>2, <2>1
  <1>5. PICK a \in Nat : a = x \div t /\ t * a <= x /\ x < t * (a + 1)
    BY <1>2, QuotientIs
  <1>6. PICK b \in Nat : b = y \div t /\ t * b <= y /\ y < t * (b + 1)
    BY <1>2, QuotientIs
  <1>7. a < b
    <2>1. t * (a + 1) = t * a + t
      BY Z3
    <2>2. t * a \in Nat /\ t * (b + 1) \in Nat /\ t * (a + 1) \in Nat
      OBVIOUS
    <2>3. t * (a + 1) < t * (b + 1)
      <3> HIDE DEF Share
      <3> QED BY <1>1, <1>3, <1>5, <1>6, <2>1, <2>2
    <2>4. a + 1 < b + 1
      BY <2>3, Monotone
    <2> QED BY <2>4
  <1>8. b <= r
    <2>1. t * b \in Nat /\ t * r \in Nat
      OBVIOUS
    <2>2. t * b <= t * r
      BY <1>4, <1>6, <2>1
    <2>3. t * b < t * (r + 1)
      <3>1. t * (r + 1) = t * r + t
        BY Z3
      <3> QED BY <2>1, <2>2, <3>1
    <2>4. b < r + 1
      BY <2>3, Monotone
    <2> QED BY <2>4
  <1> QED BY <1>1, <1>2, <1>5, <1>6, <1>7, <1>8

\* Which symbol a point of the interval belongs to: the count is below the total,
\* and the point lies in the part of the symbol that has the count (lines 105-114
\* of comp_engine.cpp).
LEMMA CountIs ==
  ASSUME NEW range \in Nat \ {0}, NEW total \in Nat \ {0}, NEW point \in 1..range
  PROVE  \E count \in Nat :
            /\ count = (point * total - 1) \div range
            /\ count < total
            /\ \A low, high \in Nat : low <= count /\ count < high =>
                  /\ (range * low) \div total < point
                  /\ point <= (range * high) \div total
  <1>1. PICK w \in Nat : w = point * total - 1 /\ w + 1 = point * total
    <2>1. \A a, b \in Nat \ {0} : a * b - 1 \in Nat /\ (a * b - 1) + 1 = a * b
      BY Z3
    <2> QED BY <2>1
  <1>2. PICK c \in Nat : c = w \div range /\ range * c <= w /\ w < range * (c + 1)
    BY <1>1, QuotientIs
  <1>3. c < total
    <2>1. point * total <= range * total
      <3>1. \A a, b, d \in Nat : a <= b => a * d <= b * d
        BY Z3
      <3> QED BY <3>1
    <2>2. range * c \in Nat /\ range * total \in Nat
      BY <1>2
    <2>3. range * c < range * total
      BY <1>1, <1>2, <2>1, <2>2
    <2> QED BY <2>3, Monotone
  <1>4. ASSUME NEW low \in Nat, NEW high \in Nat, low <= c, c < high
        PROVE  (range * low) \div total < point /\ point <= (range * high) \div total
    <2>1. PICK x \in Nat, y \in Nat, z \in Nat :
              x = range * low /\ y = range * high /\ z = total * point
      <3>1. range * low \in Nat /\ range * high \in Nat /\ total * point \in Nat
        OBVIOUS
      <3> QED BY <3>1
    <2>2. z = w + 1
      <3>1. \A a, b \in Nat : a * b = b * a
        BY Z3
      <3> QED BY <1>1, <2>1, <3>1
    <2>3. x <= w
      <3>1. range * low <= range * c
        BY <1>4, Monotone
      <3>2. range * c \in Nat
        BY <1>2
      <3> QED BY <1>2, <2>1, <3>1, <3>2
    <2>4. w < y
      <3>1. range * (c + 1) <= range * high
        <4>1. c + 1 \in Nat /\ c + 1 <= high
          BY <1>4
        <4> QED BY <4>1, Monotone
      <3>2. range * (c + 1) \in Nat
        BY <1>2
      <3> QED BY <1>2, <2>1, <3>1, <3>2
    <2>5. PICK a \in Nat : a = x \div total /\ total * a <= x
      BY QuotientIs
    <2>6. PICK b \in Nat : b = y \div total /\ y < total * (b + 1)
      BY QuotientIs
    <2>7. a < point
      <3>1. total * a \in Nat
        OBVIOUS
      <3>2. total * a < total * point
        BY <2>1, <2>2, <2>3, <2>5, <3>1
      <3> QED BY <3>2, Monotone
    <2>8. point < b + 1
      <3>1. total * (b + 1) \in Nat
        OBVIOUS
      <3>2. total * point < total * (b + 1)
        BY <2>1, <2>2, <2>4, <2>6, <3>1
      <3> QED BY <3>2, Monotone
    <2> QED BY <2>1, <2>5, <2>6, <2>7, <2>8
  <1> QED BY <1>1, <1>2, <1>3, <1>4

Encoders == [low : Nat, high : Nat, follow : Nat, out : Seq({0, 1}), ok : BOOLEAN]
Decoders == [low : Nat, high : Nat, value : Nat, pos : Nat]

\* The interval that a symbol leaves is not empty, and no arithmetic wraps around
\* (lines 30-34 of comp_engine.cpp).
LEMMA NarrowedIs ==
  ASSUME NEW x \in Encoders \cup Decoders, Proper(x), Settled(x),
         NEW m, Good(m), NEW s \in Symbol
  PROVE  LET stats == get_stats(m, s)
             range == (x.high - x.low) + 1
             y     == Narrowed(x, stats)
         IN  /\ y = [x EXCEPT !.low = x.low + (range * stats.low) \div stats.total,
                              !.high = x.low + (range * stats.high) \div stats.total - 1]
             /\ Proper(y)
             /\ x.low <= y.low /\ y.high <= x.high
  <1>1. PICK q \in Nat \ {0} :
            kFirstQtr = q /\ kTopValue = 4 * q - 1 /\ kMaxFrequency <= q
    BY QuarterIs
  <1>2. PICK l \in Nat, h \in Nat :
            l = x.low /\ h = x.high /\ l <= h /\ h <= 4 * q - 1 /\ h - l >= q
    BY <1>1, SettledIsWide DEF Proper
  <1>3. PICK range \in Nat \ {0} : range = (h - l) + 1 /\ range > q
    BY <1>2
  <1>4. PICK stats : stats = get_stats(m, s)
    OBVIOUS
  <1>5. PICK lo \in Nat, hi \in Nat, t \in Nat \ {0} :
            /\ lo = stats.low /\ hi = stats.high /\ t = stats.total
            /\ lo < hi /\ hi <= t /\ t < kMaxFrequency
    <2>1. PICK sum \in [0..kAlphabetSize -> Nat], t \in Nat :
              /\ t >= 1 /\ t < kMaxFrequency
              /\ \A r \in Symbol :
                    /\ get_stats(m, r) = [low |-> sum[r], high |-> sum[r + 1], total |-> t]
                    /\ sum[r] < sum[r + 1] /\ sum[r + 1] <= t
      BY StatsAre
    <2>2. s \in 0..kAlphabetSize /\ s + 1 \in 0..kAlphabetSize
      BY ContextModelAssumption DEF Symbol
    <2>3. sum[s] \in Nat /\ sum[s + 1] \in Nat
      BY <2>1, <2>2
    <2>4. stats.low = sum[s] /\ stats.high = sum[s + 1] /\ stats.total = t
      BY <1>4, <2>1
    <2> QED BY <2>1, <2>3, <2>4
  <1>6. t <= range
    <2>1. kMaxFrequency \in Nat
      BY ContextModelAssumption
    <2> QED BY <1>1, <1>3, <1>5, <2>1
  <1>7. PICK a \in Nat, b \in Nat :
            a = (range * lo) \div t /\ b = (range * hi) \div t /\ a < b /\ b <= range
    <2>1. Share(range, lo, hi, t)
      BY <1>3, <1>5, <1>6 DEF Share
    <2> QED BY <2>1, PartIs
  <1>8. /\ l + a \in Nat /\ l + b - 1 \in Nat
        /\ l + a <= l + b - 1 /\ l + b - 1 <= h
    BY <1>2, <1>3, <1>7
  <1>9. \A n \in Nat : n <= h => Wrapped(n) = n
    BY <1>1, <1>2 DEF Wrapped
  <1>10. Wrapped(l + a) = l + a /\ Wrapped(l + b - 1) = l + b - 1
    BY <1>2, <1>8, <1>9
  <1>11. PICK y : y = Narrowed(x, stats)
    OBVIOUS
  <1>12. y = [x EXCEPT !.low = l + a, !.high = l + b - 1]
    <2>1. y = [x EXCEPT !.low = Wrapped(l + (range * lo) \div t),
                        !.high = Wrapped(l + (range * hi) \div t - 1)]
      BY <1>2, <1>3, <1>5, <1>11 DEF Narrowed
    <2> QED BY <1>7, <1>10, <2>1
  <1>13. y.low = l + a /\ y.high = l + b - 1
    <2>1. CASE x \in Encoders
      BY <1>12, <2>1 DEF Encoders
    <2>2. CASE x \in Decoders
      BY <1>12, <2>2 DEF Decoders
    <2> QED BY <2>1, <2>2
  <1>14. Proper(y)
    BY <1>1, <1>2, <1>8, <1>13 DEF Proper
  <1>15. x.low <= y.low /\ y.high <= x.high
    BY <1>2, <1>8, <1>13
  <1> QED BY <1>2, <1>3, <1>4, <1>5, <1>7, <1>11, <1>12, <1>14, <1>15

-----------------------------------------------------------------------------
(***************************************************************************)
(* The loop that doubles the interval.                                     *)
(***************************************************************************)
\* What the loop takes off for an interval that is not settled: nothing below the
\* middle, the half above it, the quarter around it.
Shift(x, offset) ==
    \/ x.high < kHalf /\ offset = 0
    \/ ~(x.high < kHalf) /\ x.low >= kHalf /\ offset = kHalf
    \/ ~(x.high < kHalf) /\ ~(x.low >= kHalf) /\ offset = kFirstQtr

\* It doubles, within the register (lines 36-54 and 116-131 of comp_engine.cpp).
LEMMA DoubledIs ==
  ASSUME NEW x \in Encoders \cup Decoders, Proper(x), ~Settled(x),
         NEW offset, Shift(x, offset)
  PROVE  /\ offset \in Nat /\ offset <= x.low
         /\ 2 * (x.high - offset) + 1 <= kTopValue
         /\ Doubled(x, offset) = [x EXCEPT !.low = 2 * (x.low - offset),
                                           !.high = 2 * (x.high - offset) + 1]
         /\ Doubled(x, offset).low = 2 * (x.low - offset)
         /\ Doubled(x, offset).high = 2 * (x.high - offset) + 1
         /\ Proper(Doubled(x, offset))
         /\ (Doubled(x, offset).high - Doubled(x, offset).low) + 1
                = 2 * ((x.high - x.low) + 1)
  <1>1. PICK q \in Nat \ {0} :
            kFirstQtr = q /\ kHalf = 2 * q /\ kThirdQtr = 3 * q /\ kTopValue = 4 * q - 1
    BY QuarterIs
  <1>2. PICK l \in Nat, h \in Nat : l = x.low /\ h = x.high /\ l <= h /\ h <= 4 * q - 1
    BY <1>1 DEF Proper
  <1>3. PICK o \in Nat : o = offset /\ o <= l /\ 2 * (h - o) + 1 <= 4 * q - 1
    <2>1. ~(h >= 2 * q /\ l < 2 * q /\ ~(l >= q /\ h < 3 * q))
      BY <1>1, <1>2 DEF Settled, InMiddle
    <2>2. CASE x.high < kHalf /\ offset = 0
      BY <1>1, <1>2, <2>2
    <2>3. CASE ~(x.high < kHalf) /\ x.low >= kHalf /\ offset = kHalf
      BY <1>1, <1>2, <2>3
    <2>4. CASE ~(x.high < kHalf) /\ ~(x.low >= kHalf) /\ offset = kFirstQtr
      BY <1>1, <1>2, <2>1, <2>4
    <2> QED BY <2>2, <2>3, <2>4 DEF Shift
  <1>4. PICK a \in Nat, b \in Nat : a = 2 * (l - o) /\ b = 2 * (h - o) + 1
    BY <1>2, <1>3
  <1>5. a <= b /\ b <= 4 * q - 1 /\ (b - a) + 1 = 2 * ((h - l) + 1)
    BY <1>2, <1>3, <1>4
  <1>6. \A n \in Nat : n <= b => Wrapped(n) = n
    BY <1>1, <1>5 DEF Wrapped
  <1>7. Wrapped(a) = a /\ Wrapped(b) = b
    BY <1>5, <1>6
  <1>8. PICK y : y = Doubled(x, offset)
    OBVIOUS
  <1>9. y = [x EXCEPT !.low = a, !.high = b]
    BY <1>2, <1>3, <1>4, <1>7, <1>8 DEF Doubled
  <1>10. y.low = a /\ y.high = b
    <2>1. CASE x \in Encoders
      BY <1>9, <2>1 DEF Encoders
    <2>2. CASE x \in Decoders
      BY <1>9, <2>2 DEF Decoders
    <2> QED BY <2>1, <2>2
  <1>11. Proper(y)
    BY <1>1, <1>5, <1>10 DEF Proper
  <1>12. (y.high - y.low) + 1 = 2 * ((x.high - x.low) + 1)
    BY <1>2, <1>5, <1>10
  <1>13. 2 * (x.high - offset) + 1 <= kTopValue
    BY <1>1, <1>2, <1>3
  <1> QED BY <1>2, <1>3, <1>4, <1>8, <1>9, <1>10, <1>11, <1>12, <1>13

\* The encoder's states, whose bits fit the buffer.
Fitting(e) == e \in Encoders /\ Len(e.out) <= Capacity

\* Bits go out, as far as they fit; the interval stays.
LEMMA EmittedIs ==
  ASSUME NEW e, Fitting(e), NEW bit \in {0, 1}
  PROVE  /\ Fitting(Emitted(e, bit))
         /\ Emitted(e, bit).low = e.low /\ Emitted(e, bit).high = e.high
  <1>1. PICK room \in Nat : room = Capacity - Len(e.out)
    <2>1. PICK n \in Nat : n = Len(e.out) /\ n <= Capacity
      BY DEF Fitting, Encoders
    <2>2. Capacity - n \in Nat
      BY <2>1, CoderAssumption
    <2> QED BY <2>1, <2>2
  <1>2. PICK f \in Nat : f = e.follow
    BY DEF Fitting, Encoders
  <1>3. PICK out \in Seq({0, 1}) : out = e.out
    BY DEF Fitting, Encoders
  <1>4. PICK bits \in Seq({0, 1}) :
            bits = <<bit>> \o [i \in 1..e.follow |-> 1 - bit] /\ Len(bits) = f + 1
    <2>1. PICK opposite : opposite = [i \in 1..f |-> 1 - bit]
      OBVIOUS
    <2>2. opposite \in Seq({0, 1}) /\ Len(opposite) = f
      <3>1. opposite \in [1..f -> {0, 1}]
        <4>1. 1 - bit \in {0, 1}
          OBVIOUS
        <4> QED BY <2>1, <4>1
      <3>2. opposite \in Seq({0, 1})
        BY <3>1, SeqDef
      <3>3. DOMAIN opposite = 1..f
        BY <3>1
      <3> QED BY <3>2, <3>3, LenProperties
    <2>3. <<bit>> \in Seq({0, 1}) /\ Len(<<bit>>) = 1
      OBVIOUS
    <2>4. /\ <<bit>> \o opposite \in Seq({0, 1})
          /\ Len(<<bit>> \o opposite) = Len(<<bit>>) + Len(opposite)
      BY <2>2, <2>3, ConcatProperties
    <2>5. Len(<<bit>> \o opposite) = f + 1
      BY <2>2, <2>3, <2>4
    <2> QED BY <1>2, <2>1, <2>4, <2>5
  <1>5. PICK w : w = Emitted(e, bit)
    OBVIOUS
  <1>6. PICK n \in Nat : n = Len(bits) /\ n = f + 1
    <2>1. Len(bits) = f + 1
      BY <1>4, Zenon
    <2>2. f + 1 \in Nat
      OBVIOUS
    <2> QED BY <2>1, <2>2
  <1>7. CASE Len(bits) <= room
    <2>1. w = [e EXCEPT !.out = out \o bits, !.follow = 0]
      BY <1>1, <1>3, <1>4, <1>5, <1>7 DEF Emitted
    <2>2. out \o bits \in Seq({0, 1}) /\ Len(out \o bits) = Len(out) + Len(bits)
      BY ConcatProperties
    <2>3. Len(out \o bits) <= Capacity
      <3>1. Len(out) \in Nat /\ Len(bits) \in Nat /\ Capacity \in Nat
        BY CoderAssumption
      <3> QED BY <1>1, <1>3, <1>7, <2>2, <3>1
    <2>4. w \in Encoders /\ w.out = out \o bits /\ w.low = e.low /\ w.high = e.high
      BY <2>1, <2>2 DEF Fitting, Encoders
    <2> QED BY <1>5, <2>3, <2>4 DEF Fitting
  <1>8. CASE ~(Len(bits) <= room)
    <2>1. PICK part : part = SubSeq(bits, 1, room)
      OBVIOUS
    <2>2. part \in Seq({0, 1}) /\ Len(part) = room
      <3>1. \A i \in 1..room : bits[i] \in {0, 1}
        <4> SUFFICES ASSUME NEW i \in 1..room PROVE bits[i] \in {0, 1}
          OBVIOUS
        <4>1. i \in 1..Len(bits)
          <5>1. n > room
            BY <1>8, <1>6
          <5> QED BY <1>6, <5>1
        <4> QED BY <4>1, ElementOfSeq
      <3>2. part \in Seq({0, 1}) /\ Len(part) = IF 1 <= room THEN room - 1 + 1 ELSE 0
        BY <2>1, <3>1, SubSeqProperties
      <3> QED BY <3>2
    <2>3. PICK rest \in Nat : rest = IF room = 0 THEN f ELSE f - (room - 1)
      <3>1. n > room
        BY <1>8, <1>6
      <3>2. room < f + 1
        BY <1>6, <3>1
      <3>3. (IF room = 0 THEN f ELSE f - (room - 1)) \in Nat
        BY <3>2
      <3> QED BY <3>3
    <2>4. w = [e EXCEPT !.out = out \o part, !.ok = FALSE, !.follow = rest]
      BY <1>1, <1>2, <1>3, <1>4, <1>5, <1>8, <2>1, <2>3 DEF Emitted
    <2>5. out \o part \in Seq({0, 1}) /\ Len(out \o part) = Len(out) + Len(part)
      BY <2>2, ConcatProperties
    <2>6. Len(out \o part) <= Capacity
      <3>1. Len(out) \in Nat /\ Capacity \in Nat
        BY CoderAssumption
      <3> QED BY <1>1, <1>3, <2>2, <2>5, <3>1
    <2>7. w \in Encoders /\ w.out = out \o part /\ w.low = e.low /\ w.high = e.high
      BY <2>4, <2>5 DEF Fitting, Encoders
    <2> QED BY <1>5, <2>6, <2>7 DEF Fitting
  <1> QED BY <1>7, <1>8

\* The encoder after a symbol has taken its part.
LEMMA NarrowedFits ==
  ASSUME NEW e, Fitting(e), Proper(e), Settled(e), NEW m, Good(m), NEW s \in Symbol,
         NEW n, n = Narrowed(e, get_stats(m, s))
  PROVE  /\ Fitting(n) /\ Proper(n)
         /\ n.out = e.out /\ n.follow = e.follow /\ n.ok = e.ok
         /\ e.low <= n.low /\ n.high <= e.high
  <1>1. e \in Encoders /\ e \in Encoders \cup Decoders
    BY DEF Fitting
  <1>2. Proper(n) /\ e.low <= n.low /\ n.high <= e.high
    BY <1>1, NarrowedIs
  <1>3. PICK a, b : n = [e EXCEPT !.low = a, !.high = b]
    BY DEF Narrowed
  <1>4. n.low = a /\ n.high = b /\ n.out = e.out /\ n.follow = e.follow /\ n.ok = e.ok
    BY <1>1, <1>3 DEF Encoders
  <1>5. a \in Nat /\ b \in Nat
    BY <1>2, <1>4 DEF Proper
  <1>6. n \in Encoders
    BY <1>1, <1>3, <1>5 DEF Encoders
  <1> QED BY <1>2, <1>4, <1>6 DEF Fitting

\* One turn: without a failed write the range doubles.
Turned(e, f) ==
    /\ Fitting(f) /\ Proper(f)
    /\ f.ok => (f.high - f.low) + 1 = 2 * ((e.high - e.low) + 1)

LEMMA EncoderDoubledIs ==
  ASSUME NEW e, Fitting(e), Proper(e), ~Settled(e), NEW offset, Shift(e, offset)
  PROVE  Turned(e, Doubled(e, offset))
  <1>1. e \in Encoders /\ e \in Encoders \cup Decoders
    BY DEF Fitting
  <1>2. PICK f : f = Doubled(e, offset)
    OBVIOUS
  <1>3. PICK o \in Nat, l \in Nat, h \in Nat :
            o = offset /\ l = e.low /\ h = e.high /\ o <= l /\ l <= h
    BY <1>1, DoubledIs DEF Proper
  <1>4. /\ f = [e EXCEPT !.low = 2 * (l - o), !.high = 2 * (h - o) + 1]
        /\ Proper(f)
        /\ (f.high - f.low) + 1 = 2 * ((e.high - e.low) + 1)
    BY <1>1, <1>2, <1>3, DoubledIs
  <1>5. PICK a \in Nat, b \in Nat : a = 2 * (l - o) /\ b = 2 * (h - o) + 1
    BY <1>3
  <1>6. f \in Encoders /\ f.out = e.out
    BY <1>1, <1>4, <1>5 DEF Encoders
  <1> QED BY <1>2, <1>4, <1>6 DEF Turned, Fitting

LEMMA HalfwayIs ==
  ASSUME NEW e, Fitting(e), Proper(e), ~Settled(e), NEW bit \in {0, 1},
         NEW offset, Shift(e, offset)
  PROVE  Turned(e, Halfway(e, bit, offset))
  <1>1. PICK w : w = Emitted(e, bit)
    OBVIOUS
  <1>2. Fitting(w) /\ w.low = e.low /\ w.high = e.high
    BY <1>1, EmittedIs
  <1>3. Proper(w)
    BY <1>2 DEF Proper
  <1>4. ~Settled(w)
    BY <1>2 DEF Settled, InMiddle
  <1>5. Shift(w, offset)
    BY <1>2 DEF Shift
  <1>6. Turned(w, Doubled(w, offset))
    BY <1>2, <1>3, <1>4, <1>5, EncoderDoubledIs
  <1>7. CASE w.ok
    <2>1. Halfway(e, bit, offset) = Doubled(w, offset)
      BY <1>1, <1>7 DEF Halfway
    <2> QED BY <1>2, <1>6, <2>1 DEF Turned
  <1>8. CASE ~w.ok
    <2>1. Halfway(e, bit, offset) = w
      BY <1>1, <1>8 DEF Halfway
    <2> QED BY <1>2, <1>3, <1>8, <2>1 DEF Turned
  <1> QED BY <1>7, <1>8

LEMMA EncoderShiftIs ==
  ASSUME NEW e, Fitting(e), Proper(e), ~Settled(e)
  PROVE  Turned(e, EncoderShift(e))
  <1>1. CASE e.high < kHalf
    <2>1. EncoderShift(e) = Halfway(e, 0, 0)
      <3>1. kHalf \in Nat
        BY QuarterIs
      <3>2. ~(e.low >= kHalf)
        BY <1>1, <3>1 DEF Proper
      <3> QED BY <1>1, <3>2 DEF EncoderShift
    <2>2. Shift(e, 0)
      BY <1>1 DEF Shift
    <2> QED BY <2>1, <2>2, HalfwayIs
  <1>2. CASE ~(e.high < kHalf) /\ e.low >= kHalf
    <2>1. EncoderShift(e) = Halfway(e, 1, kHalf)
      BY <1>2 DEF EncoderShift
    <2>2. Shift(e, kHalf)
      BY <1>2 DEF Shift
    <2> QED BY <2>1, <2>2, HalfwayIs
  <1>3. CASE ~(e.high < kHalf) /\ ~(e.low >= kHalf)
    <2>1. PICK w : w = [e EXCEPT !.follow = @ + 1]
      OBVIOUS
    <2>2. EncoderShift(e) = Doubled(w, kFirstQtr)
      BY <1>3, <2>1 DEF EncoderShift
    <2>3. w \in Encoders /\ w.out = e.out /\ w.low = e.low /\ w.high = e.high
      BY <2>1 DEF Fitting, Encoders
    <2>4. Fitting(w) /\ Proper(w) /\ ~Settled(w) /\ Shift(w, kFirstQtr)
      <3>1. Fitting(w)
        BY <2>3 DEF Fitting
      <3>2. Proper(w)
        BY <2>3 DEF Proper
      <3>3. ~Settled(w)
        BY <2>3 DEF Settled, InMiddle
      <3>4. Shift(w, kFirstQtr)
        BY <1>3, <2>3 DEF Shift
      <3> QED BY <3>1, <3>2, <3>3, <3>4
    <2>5. Turned(w, Doubled(w, kFirstQtr))
      BY <2>4, EncoderDoubledIs
    <2> QED BY <2>2, <2>3, <2>5 DEF Turned
  <1> QED BY <1>1, <1>2, <1>3

EncoderTurn(f) == IF Settled(f) \/ ~f.ok THEN f ELSE EncoderShift(f)

\* The encoder's states after each turn of its loop.
EncoderTurns(turn, e) ==
    /\ turn[0] = e /\ turn[Width] = EncoderSettled(e)
    /\ \A i \in 0..Width : Fitting(turn[i]) /\ Proper(turn[i])
    /\ \A i \in 1..Width : turn[i] = EncoderTurn(turn[i - 1])

LEMMA EncoderTurnIs ==
  ASSUME NEW f, Fitting(f), Proper(f)
  PROVE  /\ Fitting(EncoderTurn(f)) /\ Proper(EncoderTurn(f))
         /\ Settled(f) => Settled(EncoderTurn(f))
         /\ EncoderTurn(f).ok => f.ok
         /\ EncoderTurn(f).ok /\ ~Settled(EncoderTurn(f)) =>
               (EncoderTurn(f).high - EncoderTurn(f).low) + 1 = 2 * ((f.high - f.low) + 1)
  <1>1. CASE Settled(f) \/ ~f.ok
    BY <1>1 DEF EncoderTurn
  <1>2. CASE ~(Settled(f) \/ ~f.ok)
    <2>1. Turned(f, EncoderShift(f))
      BY <1>2, EncoderShiftIs
    <2>2. EncoderTurn(f) = EncoderShift(f)
      BY <1>2 DEF EncoderTurn
    <2> QED BY <1>2, <2>1, <2>2 DEF Turned
  <1> QED BY <1>1, <1>2

LEMMA EncoderTurnsAre ==
  ASSUME NEW e, Fitting(e), Proper(e)
  PROVE  \E turn : EncoderTurns(turn, e)
  <1> DEFINE S == {f \in Encoders : Fitting(f) /\ Proper(f)}
             step == [p \in S \X Nat |-> EncoderTurn(p[1])]
             turn == CHOOSE g : g = [n \in 0..Width |-> IF n = 0 THEN e ELSE EncoderTurn(g[n - 1])]
  <1>1. PICK w \in Nat : w = Width
    BY CoderAssumption
  <1>2. ASSUME NEW f \in S PROVE EncoderTurn(f) \in S
    BY EncoderTurnIs DEF Fitting
  <1>3. e \in S
    BY DEF Fitting
  <1>4. Recursion(S, e, step)
    <2>1. step \in [S \X Nat -> S]
      <3> HIDE DEF S
      <3> QED BY <1>2
    <2> QED BY <1>3, <2>1 DEF Recursion
  <1>5. PICK g : Result(S, e, step, w, g)
    <2> HIDE DEF S, step
    <2> QED BY <1>4, RecursionIs
  <1>6. g \in [0..w -> S] /\ g[0] = e /\ \A i \in 1..w : g[i] = EncoderTurn(g[i - 1])
    <2>1. g \in [0..w -> S] /\ g[0] = e /\ \A i \in 1..w : g[i] = step[<<g[i - 1], i>>]
      <3> HIDE DEF S, step
      <3> QED BY <1>5 DEF Result
    <2>2. ASSUME NEW i \in 1..w PROVE g[i] = EncoderTurn(g[i - 1])
      <3> HIDE DEF S
      <3>1. g[i - 1] \in S /\ i \in Nat
        BY <2>1
      <3>2. g[i] = step[<<g[i - 1], i>>]
        <4> HIDE DEF step
        <4> QED BY <2>1
      <3> QED BY <3>1, <3>2
    <2> HIDE DEF S
    <2> QED BY <2>1, <2>2
  <1> HIDE DEF S, step
  <1>7. EncoderSettled(e) = turn[Width]
    BY DEF EncoderSettled, EncoderTurn
  <1>8. g = [n \in 0..Width |-> IF n = 0 THEN e ELSE EncoderTurn(g[n - 1])]
    <2>1. \A i \in 0..w : i = 0 \/ i \in 1..w
      OBVIOUS
    <2> QED BY <1>1, <1>6, <2>1
  <1>9. turn = [n \in 0..Width |-> IF n = 0 THEN e ELSE EncoderTurn(turn[n - 1])]
    BY <1>8, Zenon
  <1> HIDE DEF turn
  <1>10. \A i \in 0..w : turn[i] = IF i = 0 THEN e ELSE EncoderTurn(turn[i - 1])
    BY <1>1, <1>9, Zenon
  <1> DEFINE T == {i \in Nat : i <= w => turn[i] \in S}
  <1>11. 0 \in T
    BY <1>3, <1>10
  <1>12. ASSUME NEW i \in Nat, i \in T PROVE i + 1 \in T
    <2> SUFFICES ASSUME i + 1 <= w PROVE turn[i + 1] \in S
      OBVIOUS
    <2>1. i + 1 \in 0..w /\ i + 1 # 0 /\ (i + 1) - 1 = i /\ i <= w
      OBVIOUS
    <2>2. PICK f \in S : f = turn[i]
      BY <1>12, <2>1
    <2>3. turn[i + 1] = EncoderTurn(f)
      BY <1>10, <2>1, <2>2
    <2> QED BY <1>2, <2>3
  <1>13. \A i \in Nat : i \in T
    <2> HIDE DEF T
    <2> QED BY <1>11, <1>12, Induct
  <1>14. \A i \in 0..w : Fitting(turn[i]) /\ Proper(turn[i])
    BY <1>13 DEF S
  <1>15. \A i \in 1..w : turn[i] = EncoderTurn(turn[i - 1])
    BY <1>10
  <1>16. turn[0] = e
    BY <1>10
  <1> QED BY <1>1, <1>7, <1>14, <1>15, <1>16 DEF EncoderTurns

\* After Width turns the range is the whole interval, if it was not wide enough
\* before: the loop ends with a settled interval, or with a failed write.
LEMMA EncoderSettledIs ==
  ASSUME NEW e, Fitting(e), Proper(e)
  PROVE  /\ Fitting(EncoderSettled(e)) /\ Proper(EncoderSettled(e))
         /\ EncoderSettled(e).ok => Settled(EncoderSettled(e))
  <1>1. PICK turn : EncoderTurns(turn, e)
    BY EncoderTurnsAre
  <1>2. PICK w \in Nat : w = Width
    BY CoderAssumption
  <1>3. /\ turn[0] = e /\ turn[w] = EncoderSettled(e)
        /\ \A i \in 0..w : Fitting(turn[i]) /\ Proper(turn[i])
        /\ \A i \in 1..w : turn[i] = EncoderTurn(turn[i - 1])
    BY <1>1, <1>2 DEF EncoderTurns
  <1> DEFINE T == {i \in Nat : i <= w =>
                      (turn[i].ok /\ ~Settled(turn[i]) =>
                            (turn[i].high - turn[i].low) + 1 >= Power[i])}
  <1>4. 0 \in T
    <2>1. (e.high - e.low) + 1 >= Power[0]
      BY PowersAre DEF Proper
    <2> QED BY <1>3, <2>1
  <1>5. ASSUME NEW i \in Nat, i \in T PROVE i + 1 \in T
    <2> SUFFICES ASSUME i + 1 <= w, turn[i + 1].ok, ~Settled(turn[i + 1])
                 PROVE  (turn[i + 1].high - turn[i + 1].low) + 1 >= Power[i + 1]
      OBVIOUS
    <2>1. i + 1 \in 1..w /\ (i + 1) - 1 = i /\ i \in 0..w
      OBVIOUS
    <2>2. PICK f : f = turn[i] /\ Fitting(f) /\ Proper(f)
      BY <1>3, <2>1
    <2>3. turn[i + 1] = EncoderTurn(f)
      BY <1>3, <2>1, <2>2
    <2>4. f.ok /\ ~Settled(f)
      BY <2>2, <2>3, EncoderTurnIs
    <2>5. (turn[i + 1].high - turn[i + 1].low) + 1 = 2 * ((f.high - f.low) + 1)
      BY <2>2, <2>3, EncoderTurnIs
    <2>6. (f.high - f.low) + 1 >= Power[i]
      BY <1>5, <2>1, <2>2, <2>4
    <2>7. PICK p \in Nat : p = Power[i] /\ Power[i + 1] = 2 * p
      <3>1. Power[i] \in Nat
        <4>1. i \in 0..Width
          BY <1>2, <2>1
        <4> QED BY <4>1, PowersAre
      <3>2. Power[i + 1] = 2 * Power[i]
        <4>1. i < Width
          BY <1>2, <2>1
        <4> QED BY <4>1, PowersAre
      <3> QED BY <3>1, <3>2
    <2>8. PICK r \in Int : r = (f.high - f.low) + 1
      <3>1. f.high \in Nat /\ f.low \in Nat
        BY <2>2 DEF Proper
      <3> QED BY <3>1
    <2> QED BY <2>5, <2>6, <2>7, <2>8
  <1>6. \A i \in Nat : i \in T
    <2> HIDE DEF T
    <2> QED BY <1>4, <1>5, Induct
  <1>7. PICK f : f = EncoderSettled(e) /\ f = turn[w] /\ Fitting(f) /\ Proper(f)
    BY <1>3
  <1>8. f.ok /\ ~Settled(f) => (f.high - f.low) + 1 >= Power[Width]
    BY <1>2, <1>6, <1>7
  <1> QED BY <1>7, <1>8, WholeIsSettled

-----------------------------------------------------------------------------
(***************************************************************************)
(* The decoder, with its value.                                            *)
(***************************************************************************)
\* The value is in the interval.
Inside(d) ==
    d \in Decoders /\ Proper(d) /\ d.low <= d.value /\ d.value <= d.high

StreamIsBits == stream \in Seq({0, 1})

LEMMA BitAtIs ==
  ASSUME StreamIsBits, NEW i \in Nat
  PROVE  BitAt(i) \in {0, 1}
  <1>1. CASE i < Len(stream)
    <2>1. i + 1 \in 1..Len(stream)
      BY <1>1 DEF StreamIsBits
    <2>2. stream[i + 1] \in {0, 1}
      BY <2>1, ElementOfSeq DEF StreamIsBits
    <2> QED BY <1>1, <2>2 DEF BitAt
  <1>2. CASE ~(i < Len(stream))
    BY <1>2 DEF BitAt
  <1> QED BY <1>1, <1>2

LEMMA OffsetIs ==
  ASSUME NEW d, Proper(d)
  PROVE  Shift(d, Offset(d))
  <1>1. PICK q \in Nat \ {0} : kHalf = 2 * q
    BY QuarterIs
  <1>2. CASE d.high < kHalf
    <2>1. ~(d.low >= kHalf)
      BY <1>1, <1>2 DEF Proper
    <2>2. Offset(d) = 0
      BY <1>2, <2>1 DEF Offset
    <2> QED BY <1>2, <2>2 DEF Shift
  <1>3. CASE ~(d.high < kHalf) /\ d.low >= kHalf
    <2>1. Offset(d) = kHalf
      BY <1>3 DEF Offset
    <2> QED BY <1>3, <2>1 DEF Shift
  <1>4. CASE ~(d.high < kHalf) /\ ~(d.low >= kHalf)
    <2>1. Offset(d) = kFirstQtr
      BY <1>4 DEF Offset
    <2> QED BY <1>4, <2>1 DEF Shift
  <1> QED BY <1>2, <1>3, <1>4

\* A turn doubles the range and keeps the value in it, whatever bit comes
\* (lines 116-138 of comp_engine.cpp).
LEMMA DoubledInIs ==
  ASSUME StreamIsBits, NEW d, Inside(d), ~Settled(d)
  PROVE  LET f == DoubledIn(d, Offset(d))
         IN  /\ Inside(f) /\ (f.high - f.low) + 1 = 2 * ((d.high - d.low) + 1)
             /\ f.low = 2 * (d.low - Offset(d)) /\ f.high = 2 * (d.high - Offset(d)) + 1
             /\ f.value = 2 * (d.value - Offset(d)) + BitAt(d.pos) /\ f.pos = d.pos + 1
  <1>1. PICK q \in Nat \ {0} : kTopValue = 4 * q - 1
    BY QuarterIs
  <1>2. d \in Decoders /\ d \in Encoders \cup Decoders /\ Proper(d)
    BY DEF Inside
  <1>3. PICK offset : offset = Offset(d) /\ Shift(d, offset)
    BY <1>2, OffsetIs
  <1>4. PICK o \in Nat, l \in Nat, h \in Nat, v \in Nat :
            /\ o = offset /\ l = d.low /\ h = d.high /\ v = d.value
            /\ o <= l /\ l <= v /\ v <= h /\ 2 * (h - o) + 1 <= 4 * q - 1
    <2>1. offset \in Nat /\ offset <= d.low /\ 2 * (d.high - offset) + 1 <= kTopValue
      BY <1>2, <1>3, DoubledIs
    <2>2. d.low \in Nat /\ d.high \in Nat /\ d.value \in Nat /\ d.low <= d.value /\ d.value <= d.high
      BY DEF Inside, Decoders
    <2> QED BY <1>1, <2>1, <2>2
  <1>5. PICK x : x = Doubled(d, offset)
    OBVIOUS
  <1>6. /\ x = [d EXCEPT !.low = 2 * (l - o), !.high = 2 * (h - o) + 1]
        /\ Proper(x)
        /\ (x.high - x.low) + 1 = 2 * ((d.high - d.low) + 1)
    BY <1>2, <1>3, <1>4, <1>5, DoubledIs
  <1>7. PICK b \in {0, 1} : b = BitAt(d.pos)
    BY <1>2, BitAtIs DEF Decoders
  <1>8. PICK w \in Nat : w = 2 * (v - o) + b /\ 2 * (l - o) <= w /\ w <= 2 * (h - o) + 1
    BY <1>4
  <1>9. Wrapped(w) = w
    <2>1. PICK m \in Nat \ {0} : m = 4 * q /\ kTopValue + 1 = m
      BY <1>1
    <2>2. w < m
      BY <1>4, <1>8, <2>1
    <2>3. w % m = w
      BY <2>2
    <2> QED BY <2>1, <2>3 DEF Wrapped
  <1>10. PICK f : f = DoubledIn(d, Offset(d))
    OBVIOUS
  <1>11. f = [x EXCEPT !.value = w, !.pos = d.pos + 1] /\ d.pos + 1 \in Nat
    <2>1. d.pos + 1 \in Nat
      BY <1>2 DEF Decoders
    <2> QED BY <2>1, <1>3, <1>4, <1>5, <1>7, <1>8, <1>9, <1>10 DEF DoubledIn
  <1>12. PICK low \in Nat, high \in Nat : low = 2 * (l - o) /\ high = 2 * (h - o) + 1
    BY <1>4
  <1>13. x \in Decoders /\ x.low = low /\ x.high = high
    BY <1>2, <1>6, <1>12 DEF Decoders
  <1>14. /\ f \in Decoders /\ f.low = low /\ f.high = high /\ f.value = w /\ f.pos = d.pos + 1
    <2>1. PICK p \in Nat : p = d.pos + 1
      BY <1>11
    <2>2. f = [x EXCEPT !.value = w, !.pos = p]
      BY <1>11, <2>1
    <2>3. f \in Decoders /\ f.low = low /\ f.high = high /\ f.value = w /\ f.pos = p
      BY <1>13, <2>2 DEF Decoders
    <2> QED BY <2>1, <2>3
  <1>15. Proper(f)
    BY <1>6, <1>13, <1>14 DEF Proper
  <1>16. Inside(f)
    BY <1>8, <1>12, <1>14, <1>15 DEF Inside
  <1>17. /\ f.low = 2 * (d.low - Offset(d)) /\ f.high = 2 * (d.high - Offset(d)) + 1
         /\ f.value = 2 * (d.value - Offset(d)) + BitAt(d.pos)
    BY <1>3, <1>4, <1>7, <1>8, <1>12, <1>14
  <1>18. (f.high - f.low) + 1 = 2 * ((d.high - d.low) + 1)
    BY <1>6, <1>13, <1>14
  <1> QED BY <1>10, <1>14, <1>16, <1>17, <1>18

DecoderTurn(f) == IF Settled(f) THEN f ELSE DoubledIn(f, Offset(f))

\* The decoder's states after each turn of its loop.
DecoderTurns(turn, d) ==
    /\ turn[0] = d /\ turn[Width] = DecoderSettled(d)
    /\ \A i \in 0..Width : Inside(turn[i])
    /\ \A i \in 1..Width : turn[i] = DecoderTurn(turn[i - 1])

LEMMA DecoderTurnIs ==
  ASSUME StreamIsBits, NEW f, Inside(f)
  PROVE  /\ Inside(DecoderTurn(f))
         /\ ~Settled(DecoderTurn(f)) =>
               /\ ~Settled(f)
               /\ (DecoderTurn(f).high - DecoderTurn(f).low) + 1 = 2 * ((f.high - f.low) + 1)
  <1>1. CASE Settled(f)
    BY <1>1 DEF DecoderTurn
  <1>2. CASE ~Settled(f)
    <2>1. PICK h : h = DoubledIn(f, Offset(f))
      OBVIOUS
    <2>2. Inside(h) /\ (h.high - h.low) + 1 = 2 * ((f.high - f.low) + 1)
      BY <1>2, <2>1, DoubledInIs
    <2>3. DecoderTurn(f) = h
      BY <1>2, <2>1 DEF DecoderTurn
    <2> QED BY <1>2, <2>2, <2>3
  <1> QED BY <1>1, <1>2

LEMMA DecoderTurnsAre ==
  ASSUME StreamIsBits, NEW d, Inside(d)
  PROVE  \E turn : DecoderTurns(turn, d)
  <1> DEFINE S == {f \in Decoders : Inside(f)}
             step == [p \in S \X Nat |-> DecoderTurn(p[1])]
             turn == CHOOSE g : g = [n \in 0..Width |-> IF n = 0 THEN d ELSE DecoderTurn(g[n - 1])]
  <1>1. PICK w \in Nat : w = Width
    BY CoderAssumption
  <1>2. ASSUME NEW f \in S PROVE DecoderTurn(f) \in S
    BY DecoderTurnIs DEF Inside
  <1>3. d \in S
    BY DEF Inside
  <1>4. Recursion(S, d, step)
    <2>1. step \in [S \X Nat -> S]
      <3> HIDE DEF S
      <3> QED BY <1>2
    <2> QED BY <1>3, <2>1 DEF Recursion
  <1>5. PICK g : Result(S, d, step, w, g)
    <2> HIDE DEF S, step
    <2> QED BY <1>4, RecursionIs
  <1>6. g \in [0..w -> S] /\ g[0] = d /\ \A i \in 1..w : g[i] = DecoderTurn(g[i - 1])
    <2>1. g \in [0..w -> S] /\ g[0] = d /\ \A i \in 1..w : g[i] = step[<<g[i - 1], i>>]
      <3> HIDE DEF S, step
      <3> QED BY <1>5 DEF Result
    <2>2. ASSUME NEW i \in 1..w PROVE g[i] = DecoderTurn(g[i - 1])
      <3> HIDE DEF S
      <3>1. g[i - 1] \in S /\ i \in Nat
        BY <2>1
      <3>2. g[i] = step[<<g[i - 1], i>>]
        <4> HIDE DEF step
        <4> QED BY <2>1
      <3> QED BY <3>1, <3>2
    <2> HIDE DEF S
    <2> QED BY <2>1, <2>2
  <1> HIDE DEF S, step
  <1>7. DecoderSettled(d) = turn[Width]
    BY DEF DecoderSettled, DecoderTurn
  <1>8. g = [n \in 0..Width |-> IF n = 0 THEN d ELSE DecoderTurn(g[n - 1])]
    <2>1. \A i \in 0..w : i = 0 \/ i \in 1..w
      OBVIOUS
    <2> QED BY <1>1, <1>6, <2>1
  <1>9. turn = [n \in 0..Width |-> IF n = 0 THEN d ELSE DecoderTurn(turn[n - 1])]
    BY <1>8, Zenon
  <1> HIDE DEF turn
  <1>10. \A i \in 0..w : turn[i] = IF i = 0 THEN d ELSE DecoderTurn(turn[i - 1])
    BY <1>1, <1>9, Zenon
  <1> DEFINE T == {i \in Nat : i <= w => turn[i] \in S}
  <1>11. 0 \in T
    BY <1>3, <1>10
  <1>12. ASSUME NEW i \in Nat, i \in T PROVE i + 1 \in T
    <2> SUFFICES ASSUME i + 1 <= w PROVE turn[i + 1] \in S
      OBVIOUS
    <2>1. i + 1 \in 0..w /\ i + 1 # 0 /\ (i + 1) - 1 = i /\ i <= w
      OBVIOUS
    <2>2. PICK f \in S : f = turn[i]
      BY <1>12, <2>1
    <2>3. turn[i + 1] = DecoderTurn(f)
      BY <1>10, <2>1, <2>2
    <2> QED BY <1>2, <2>3
  <1>13. \A i \in Nat : i \in T
    <2> HIDE DEF T
    <2> QED BY <1>11, <1>12, Induct
  <1>14. \A i \in 0..w : Inside(turn[i])
    BY <1>13 DEF S
  <1>15. \A i \in 1..w : turn[i] = DecoderTurn(turn[i - 1])
    BY <1>10
  <1>16. turn[0] = d
    BY <1>10
  <1> QED BY <1>1, <1>7, <1>14, <1>15, <1>16 DEF DecoderTurns

LEMMA DecoderSettledIs ==
  ASSUME StreamIsBits, NEW d, Inside(d)
  PROVE  Inside(DecoderSettled(d)) /\ Settled(DecoderSettled(d))
  <1>1. PICK turn : DecoderTurns(turn, d)
    BY DecoderTurnsAre
  <1>2. PICK w \in Nat : w = Width
    BY CoderAssumption
  <1>3. /\ turn[0] = d /\ turn[w] = DecoderSettled(d)
        /\ \A i \in 0..w : Inside(turn[i])
        /\ \A i \in 1..w : turn[i] = DecoderTurn(turn[i - 1])
    BY <1>1, <1>2 DEF DecoderTurns
  <1> DEFINE T == {i \in Nat : i <= w =>
                      (~Settled(turn[i]) =>
                            (turn[i].high - turn[i].low) + 1 >= Power[i])}
  <1>4. 0 \in T
    <2>1. (d.high - d.low) + 1 >= Power[0]
      BY PowersAre DEF Inside, Proper
    <2> QED BY <1>3, <2>1
  <1>5. ASSUME NEW i \in Nat, i \in T PROVE i + 1 \in T
    <2> SUFFICES ASSUME i + 1 <= w, ~Settled(turn[i + 1])
                 PROVE  (turn[i + 1].high - turn[i + 1].low) + 1 >= Power[i + 1]
      OBVIOUS
    <2>1. i + 1 \in 1..w /\ (i + 1) - 1 = i /\ i \in 0..w
      OBVIOUS
    <2>2. PICK f : f = turn[i] /\ Inside(f)
      BY <1>3, <2>1
    <2>3. turn[i + 1] = DecoderTurn(f)
      BY <1>3, <2>1, <2>2
    <2>4. ~Settled(f)
      BY <2>2, <2>3, DecoderTurnIs
    <2>5. (turn[i + 1].high - turn[i + 1].low) + 1 = 2 * ((f.high - f.low) + 1)
      BY <2>2, <2>3, DecoderTurnIs
    <2>6. (f.high - f.low) + 1 >= Power[i]
      BY <1>5, <2>1, <2>2, <2>4
    <2>7. PICK p \in Nat : p = Power[i] /\ Power[i + 1] = 2 * p
      <3>1. Power[i] \in Nat
        <4>1. i \in 0..Width
          BY <1>2, <2>1
        <4> QED BY <4>1, PowersAre
      <3>2. Power[i + 1] = 2 * Power[i]
        <4>1. i < Width
          BY <1>2, <2>1
        <4> QED BY <4>1, PowersAre
      <3> QED BY <3>1, <3>2
    <2>8. PICK r \in Int : r = (f.high - f.low) + 1
      <3>1. f.high \in Nat /\ f.low \in Nat
        BY <2>2 DEF Inside, Proper
      <3> QED BY <3>1
    <2> QED BY <2>5, <2>6, <2>7, <2>8
  <1>6. \A i \in Nat : i \in T
    <2> HIDE DEF T
    <2> QED BY <1>4, <1>5, Induct
  <1>7. PICK f : f = DecoderSettled(d) /\ f = turn[w] /\ Inside(f) /\ Proper(f)
    BY <1>3 DEF Inside
  <1>8. ~Settled(f) => (f.high - f.low) + 1 >= Power[Width]
    BY <1>2, <1>6, <1>7
  <1> QED BY <1>7, <1>8, WholeIsSettled

\* The symbol that decode_symbol finds has the value in its part of the interval
\* (lines 102-114 of comp_engine.cpp).
LEMMA NextIs ==
  ASSUME NEW d, Inside(d), Settled(d), NEW m, Good(m)
  PROVE  LET count == Count(d, total_frequency(m))
             s     == SymbolAt(m, U16(count))
         IN  /\ count < total_frequency(m)
             /\ s \in Symbol
             /\ Inside(Narrowed(d, get_stats(m, s)))
  <1>1. d \in Decoders /\ d \in Encoders \cup Decoders /\ Proper(d)
    BY DEF Inside
  <1>2. PICK l \in Nat, h \in Nat, v \in Nat :
            l = d.low /\ h = d.high /\ v = d.value /\ l <= v /\ v <= h
    BY DEF Inside, Decoders
  <1>3. PICK range \in Nat \ {0}, point \in Nat :
            range = (h - l) + 1 /\ point = (v - l) + 1 /\ point \in 1..range
    <2>1. (h - l) + 1 \in Nat \ {0} /\ (v - l) + 1 \in Nat
      BY <1>2
    <2>2. (v - l) + 1 \in 1..((h - l) + 1)
      BY <1>2
    <2> QED BY <2>1, <2>2
  <1>4. PICK t \in Nat \ {0} : t = total_frequency(m) /\ t < kMaxFrequency
    BY StatsAre
  <1>5. PICK count \in Nat :
            /\ count = (point * t - 1) \div range
            /\ count < t
            /\ \A low, high \in Nat : low <= count /\ count < high =>
                  /\ (range * low) \div t < point
                  /\ point <= (range * high) \div t
    BY <1>3, CountIs
  <1>6. Count(d, total_frequency(m)) = count
    BY <1>2, <1>3, <1>4, <1>5 DEF Count
  <1>7. U16(count) = count
    <2>1. PICK k \in Nat : k = kMaxFrequency
      BY ContextModelAssumption
    <2>2. count < k + 1
      BY <1>4, <1>5, <2>1
    <2>3. count % (k + 1) = count
      BY <2>2
    <2> QED BY <2>1, <2>3 DEF U16
  <1>8. PICK s \in Symbol :
            /\ s = SymbolAt(m, count)
            /\ get_stats(m, s).low <= count /\ count < get_stats(m, s).high
    BY <1>4, <1>5, SymbolAtIs
  <1>9. PICK stats : stats = get_stats(m, s)
    OBVIOUS
  <1>10. PICK lo \in Nat, hi \in Nat : lo = stats.low /\ hi = stats.high /\ stats.total = t
    <2>1. PICK sum \in [0..kAlphabetSize -> Nat], u \in Nat :
              /\ total_frequency(m) = u
              /\ \A r \in Symbol :
                    get_stats(m, r) = [low |-> sum[r], high |-> sum[r + 1], total |-> u]
      BY StatsAre
    <2>2. s \in 0..kAlphabetSize /\ s + 1 \in 0..kAlphabetSize
      BY ContextModelAssumption DEF Symbol
    <2>3. sum[s] \in Nat /\ sum[s + 1] \in Nat
      BY <2>1, <2>2
    <2>4. stats.low = sum[s] /\ stats.high = sum[s + 1] /\ stats.total = u
      BY <1>9, <2>1
    <2> QED BY <1>4, <2>1, <2>3, <2>4
  <1>11. (range * lo) \div t < point /\ point <= (range * hi) \div t
    BY <1>5, <1>8, <1>9, <1>10
  <1>12. PICK y : y = Narrowed(d, stats)
    OBVIOUS
  <1>13. /\ y = [d EXCEPT !.low = l + (range * lo) \div t,
                          !.high = l + (range * hi) \div t - 1]
         /\ Proper(y)
    <2>1. LET given == get_stats(m, s)
              r     == (d.high - d.low) + 1
              z     == Narrowed(d, given)
          IN  /\ z = [d EXCEPT !.low = d.low + (r * given.low) \div given.total,
                               !.high = d.low + (r * given.high) \div given.total - 1]
              /\ Proper(z)
              /\ d.low <= z.low /\ z.high <= d.high
      BY <1>1, NarrowedIs, Zenon
    <2> QED BY <1>2, <1>3, <1>9, <1>10, <1>12, <2>1
  <1>14. PICK a \in Int, b \in Int : a = (range * lo) \div t /\ b = (range * hi) \div t
    <2>1. range * lo \in Nat /\ range * hi \in Nat
      OBVIOUS
    <2> QED BY <2>1
  <1>15. y.low = l + a /\ y.high = l + b - 1 /\ y.value = v
    BY <1>1, <1>2, <1>13, <1>14 DEF Decoders
  <1>16. y.low <= y.value /\ y.value <= y.high
    BY <1>2, <1>3, <1>11, <1>14, <1>15
  <1>17. y \in Decoders
    <2>1. PICK low \in Nat, high \in Nat : low = y.low /\ high = y.high
      BY <1>13 DEF Proper
    <2>2. y = [d EXCEPT !.low = low, !.high = high]
      BY <1>13, <1>14, <1>15, <2>1
    <2> QED BY <1>1, <2>2 DEF Decoders
  <1> QED BY <1>4, <1>5, <1>6, <1>7, <1>8, <1>9, <1>12, <1>13, <1>16, <1>17 DEF Inside

-----------------------------------------------------------------------------
(***************************************************************************)
(* The numbers that bits spell.                                            *)
(***************************************************************************)
\* The numbers that the beginnings of a sequence of bits spell.
Spells(number, bits) ==
    /\ number \in [0..Len(bits) -> Nat] /\ number[0] = 0
    /\ \A i \in 1..Len(bits) : number[i] = 2 * number[i - 1] + bits[i]

LEMMA NumbersAre ==
  ASSUME NEW bits \in Seq({0, 1})
  PROVE  \E number : Spells(number, bits) /\ Number(bits) = number[Len(bits)]
  <1> DEFINE turned(r, n) == 2 * r + bits[n]
             step == [p \in Nat \X Nat |-> IF p[2] \in 1..Len(bits) THEN turned(p[1], p[2]) ELSE p[1]]
             number == CHOOSE f : f = [n \in 0..Len(bits) |-> IF n = 0 THEN 0 ELSE turned(f[n - 1], n)]
  <1>1. PICK w \in Nat : w = Len(bits)
    <2>1. Len(bits) \in Nat
      OBVIOUS
    <2> QED BY <2>1
  <1>2. \A n \in 1..w : bits[n] \in {0, 1}
    BY <1>1, ElementOfSeq
  <1>3. ASSUME NEW r \in Nat, NEW n \in 1..w PROVE turned(r, n) \in Nat
    BY <1>2
  <1> HIDE DEF turned
  <1>4. Recursion(Nat, 0, step)
    <2>1. step \in [Nat \X Nat -> Nat]
      BY <1>1, <1>3
    <2> QED BY <2>1 DEF Recursion
  <1>5. PICK g : Result(Nat, 0, step, w, g)
    <2> HIDE DEF step
    <2> QED BY <1>4, RecursionIs
  <1>6. g \in [0..w -> Nat] /\ g[0] = 0 /\ \A i \in 1..w : g[i] = turned(g[i - 1], i)
    <2>1. g \in [0..w -> Nat] /\ g[0] = 0 /\ \A i \in 1..w : g[i] = step[<<g[i - 1], i>>]
      <3> HIDE DEF step
      <3> QED BY <1>5 DEF Result
    <2>2. ASSUME NEW i \in 1..w PROVE g[i] = turned(g[i - 1], i)
      <3>1. g[i - 1] \in Nat /\ i \in Nat
        BY <2>1
      <3>2. g[i] = step[<<g[i - 1], i>>]
        <4> HIDE DEF step
        <4> QED BY <2>1
      <3> QED BY <1>1, <3>1, <3>2
    <2> QED BY <2>1, <2>2
  <1> HIDE DEF step
  <1>7. Number(bits) = number[Len(bits)]
    BY DEF Number, turned
  <1>8. g = [n \in 0..Len(bits) |-> IF n = 0 THEN 0 ELSE turned(g[n - 1], n)]
    <2>1. \A i \in 0..w : i = 0 \/ i \in 1..w
      OBVIOUS
    <2> QED BY <1>1, <1>6, <2>1
  <1>9. number = [n \in 0..Len(bits) |-> IF n = 0 THEN 0 ELSE turned(number[n - 1], n)]
    BY <1>8, Zenon
  <1> HIDE DEF number
  <1>10. \A i \in 0..w : number[i] = IF i = 0 THEN 0 ELSE turned(number[i - 1], i)
    BY <1>1, <1>9, Zenon
  <1> DEFINE T == {i \in Nat : i <= w => number[i] \in Nat}
  <1>11. 0 \in T
    BY <1>10
  <1>12. ASSUME NEW i \in Nat, i \in T PROVE i + 1 \in T
    <2> SUFFICES ASSUME i + 1 <= w PROVE number[i + 1] \in Nat
      OBVIOUS
    <2>1. i + 1 \in 0..w /\ i + 1 # 0 /\ i + 1 \in 1..w /\ (i + 1) - 1 = i /\ i <= w
      OBVIOUS
    <2>2. PICK r \in Nat : r = number[i]
      BY <1>12, <2>1
    <2>3. number[i + 1] = turned(r, i + 1)
      BY <1>10, <2>1, <2>2
    <2> QED BY <1>3, <2>1, <2>3
  <1>13. \A i \in Nat : i \in T
    <2> HIDE DEF T
    <2> QED BY <1>11, <1>12, Induct
  <1>14. number \in [0..w -> Nat]
    <2>1. DOMAIN number = 0..w
      BY <1>1, <1>9, Zenon
    <2>2. number = [i \in 0..w |-> number[i]]
      BY <1>1, <1>9, <2>1, Zenon
    <2>3. \A i \in 0..w : number[i] \in Nat
      BY <1>13
    <2> QED BY <2>2, <2>3
  <1>15. \A i \in 1..w : number[i] = turned(number[i - 1], i)
    <2>1. \A i \in 1..w : i \in 0..w /\ i # 0
      OBVIOUS
    <2> QED BY <1>10, <2>1
  <1>16. number[0] = 0
    <2>1. 0 \in 0..w
      OBVIOUS
    <2> QED BY <1>10, <2>1
  <1>17. Spells(number, bits)
    BY <1>1, <1>14, <1>15, <1>16 DEF Spells, turned
  <1> QED BY <1>7, <1>17

\* Beginnings that agree spell the same numbers.
LEMMA SameNumber ==
  ASSUME NEW a \in Seq({0, 1}), NEW b \in Seq({0, 1}), NEW n \in Nat,
         n <= Len(a), n <= Len(b), \A i \in 1..n : a[i] = b[i],
         NEW f, NEW g, Spells(f, a), Spells(g, b)
  PROVE  f[n] = g[n]
  <1>1. PICK p \in Nat, q \in Nat : p = Len(a) /\ q = Len(b) /\ n <= p /\ n <= q
    <2>1. Len(a) \in Nat /\ Len(b) \in Nat
      OBVIOUS
    <2> QED BY <2>1
  <1>2. /\ f[0] = 0 /\ \A i \in 1..p : f[i] = 2 * f[i - 1] + a[i]
        /\ g[0] = 0 /\ \A i \in 1..q : g[i] = 2 * g[i - 1] + b[i]
    BY <1>1 DEF Spells
  <1> DEFINE T == {i \in Nat : i <= n => f[i] = g[i]}
  <1>3. 0 \in T
    BY <1>2
  <1>4. ASSUME NEW i \in Nat, i \in T PROVE i + 1 \in T
    <2> SUFFICES ASSUME i + 1 <= n PROVE f[i + 1] = g[i + 1]
      OBVIOUS
    <2>1. i + 1 \in 1..p /\ i + 1 \in 1..q /\ i + 1 \in 1..n /\ (i + 1) - 1 = i /\ i <= n
      BY <1>1
    <2>2. f[i] = g[i] /\ a[i + 1] = b[i + 1]
      BY <1>4, <2>1
    <2>3. f[i + 1] = 2 * f[i] + a[i + 1] /\ g[i + 1] = 2 * g[i] + b[i + 1]
      BY <1>2, <2>1
    <2> QED BY <2>2, <2>3
  <1>5. \A i \in Nat : i \in T
    <2> HIDE DEF T
    <2> QED BY <1>3, <1>4, Induct
  <1> QED BY <1>5

\* One more bit doubles the number and adds itself.
LEMMA NumberGrows ==
  ASSUME NEW bits \in Seq({0, 1}), NEW b \in {0, 1}
  PROVE  /\ Number(bits) \in Nat
         /\ Append(bits, b) \in Seq({0, 1})
         /\ Number(Append(bits, b)) = 2 * Number(bits) + b
  <1>1. PICK n \in Nat : n = Len(bits)
    <2>1. Len(bits) \in Nat
      OBVIOUS
    <2> QED BY <2>1
  <1>2. PICK more \in Seq({0, 1}) : more = Append(bits, b)
    <2>1. Append(bits, b) \in Seq({0, 1})
      BY AppendProperties
    <2> QED BY <2>1
  <1>3. Len(more) = n + 1 /\ more[n + 1] = b /\ \A i \in 1..n : more[i] = bits[i]
    BY <1>1, <1>2, AppendProperties
  <1>4. PICK f : Spells(f, bits) /\ Number(bits) = f[n]
    BY <1>1, NumbersAre
  <1>5. PICK g : Spells(g, more) /\ Number(more) = g[n + 1]
    BY <1>2, <1>3, NumbersAre
  <1>6. f[n] \in Nat
    BY <1>1, <1>4 DEF Spells
  <1>7. f[n] = g[n]
    <2>1. n <= Len(bits) /\ n <= Len(more)
      BY <1>1, <1>3
    <2> QED BY <1>3, <1>4, <1>5, <2>1, SameNumber
  <1>8. g[n + 1] = 2 * g[n] + b
    <2>1. n + 1 \in 1..Len(more) /\ (n + 1) - 1 = n
      BY <1>3
    <2>2. g[n + 1] = 2 * g[(n + 1) - 1] + more[n + 1]
      BY <1>5, <2>1 DEF Spells
    <2> QED BY <1>3, <2>1, <2>2
  <1> QED BY <1>2, <1>4, <1>5, <1>6, <1>7, <1>8

LEMMA NumberOfNone == Number(<<>>) = 0
  <1>1. <<>> \in Seq({0, 1}) /\ Len(<<>>) = 0
    OBVIOUS
  <1>2. PICK f : Spells(f, <<>>) /\ Number(<<>>) = f[0]
    BY <1>1, NumbersAre
  <1> QED BY <1>2 DEF Spells

\* The first bits are a number that fits the register.
LEMMA NumberIs ==
  ASSUME NEW bits \in Seq({0, 1}), Len(bits) = Width
  PROVE  Number(bits) \in Nat /\ Number(bits) <= kTopValue
  <1>1. PICK w \in Nat : w = Width /\ w = Len(bits)
    BY CoderAssumption
  <1>2. \A i \in 1..w : bits[i] \in {0, 1}
    BY <1>1, ElementOfSeq
  <1>3. PICK number : Spells(number, bits) /\ Number(bits) = number[w]
    BY <1>1, NumbersAre
  <1>4. /\ number \in [0..w -> Nat] /\ number[0] = 0
        /\ \A i \in 1..w : number[i] = 2 * number[i - 1] + bits[i]
    BY <1>1, <1>3 DEF Spells
  <1> DEFINE T == {i \in Nat : i <= w => number[i] < Power[i]}
  <1>5. 0 \in T
    BY <1>4, PowersAre
  <1>6. ASSUME NEW i \in Nat, i \in T PROVE i + 1 \in T
    <2> SUFFICES ASSUME i + 1 <= w PROVE number[i + 1] < Power[i + 1]
      OBVIOUS
    <2>1. i + 1 \in 1..w /\ (i + 1) - 1 = i /\ i <= w /\ i \in 0..w
      OBVIOUS
    <2>2. PICK r \in Nat, b \in {0, 1} :
              r = number[i] /\ b = bits[i + 1] /\ number[i + 1] = 2 * r + b
      BY <1>2, <1>4, <2>1
    <2>3. PICK p \in Nat : p = Power[i] /\ Power[i + 1] = 2 * p
      <3>1. i \in 0..Width /\ i < Width
        BY <1>1, <2>1
      <3> QED BY <3>1, PowersAre
    <2>4. r < p
      <3>1. number[i] < Power[i]
        BY <1>6, <2>1
      <3> QED BY <2>2, <2>3, <3>1
    <2>5. 2 * r + b < 2 * p
      BY <2>4
    <2> QED BY <2>2, <2>3, <2>5
  <1>7. \A i \in Nat : i \in T
    <2> HIDE DEF T
    <2> QED BY <1>5, <1>6, Induct
  <1>8. PICK n \in Nat : n = Number(bits) /\ n < Power[w]
    <2>1. number[w] \in Nat /\ number[w] < Power[w]
      BY <1>4, <1>7
    <2> QED BY <1>3, <2>1
  <1>9. PICK q \in Nat \ {0} : kTopValue = 4 * q - 1 /\ Power[Width] = 4 * q
    BY QuarterIs
  <1> QED BY <1>1, <1>8, <1>9

-----------------------------------------------------------------------------
(***************************************************************************)
(* The symbols of a sample.                                                *)
(***************************************************************************)
LEMMA HalfIs ==
  \E a \in Nat \ {0}, h \in Nat \ {0} :
     a = kAlphabetSize /\ h = Half /\ 2 * h = a * a /\ Symbol = 0..(a - 1)
  <1>1. PICK a \in Nat \ {0} : a = kAlphabetSize /\ a % 2 = 0
    BY ContextModelAssumption, AudioAssumption
  <1>2. PICK j \in Nat \ {0} : a = 2 * j
    <2>1. a = 2 * (a \div 2) + (a % 2) /\ a \div 2 \in Nat
      BY DivideIs, 2 \in Nat \ {0}
    <2> QED BY <1>1, <2>1
  <1>3. PICK h \in Nat \ {0} : h = 2 * (j * j)
    <2>1. \A i \in Nat \ {0} : 2 * (i * i) \in Nat \ {0}
      BY Z3
    <2> QED BY <2>1
  <1>4. a * a = 2 * h
    <2>1. \A i \in Nat : (2 * i) * (2 * i) = 2 * (2 * (i * i))
      BY Z3
    <2> QED BY <1>2, <1>3, <2>1
  <1>5. (2 * h) \div 2 = h
    OBVIOUS
  <1>6. h = Half
    BY <1>1, <1>4, <1>5 DEF Half
  <1> QED BY <1>1, <1>4, <1>6 DEF Symbol

\* A difference wraps around to a signed number.
LEMMA WrapIs ==
  ASSUME NEW n \in Int
  PROVE  Wrap(n) \in Int16
  <1>1. PICK h \in Nat \ {0} : h = Half
    BY HalfIs
  <1>2. PICK m \in Nat \ {0} : m = 2 * h
    <2>1. 2 * h \in Nat \ {0}
      OBVIOUS
    <2> QED BY <2>1
  <1>3. PICK x \in Int : x = n + h
    OBVIOUS
  <1>4. PICK r \in 0..(m - 1) : r = x % m
    OBVIOUS
  <1>5. Wrap(n) = r - h
    BY <1>1, <1>2, <1>3, <1>4 DEF Wrap
  <1>6. r - h \in (-h)..(h - 1)
    BY <1>2
  <1> QED BY <1>1, <1>5, <1>6 DEF Int16

\* Both halves of a residual's unsigned number are symbols.
LEMMA SymbolsAre ==
  ASSUME NEW n \in Int
  PROVE  /\ map_int16_to_uint16(Wrap(n)) \div kAlphabetSize \in Symbol
         /\ map_int16_to_uint16(Wrap(n)) % kAlphabetSize \in Symbol
  <1>1. PICK a \in Nat \ {0}, h \in Nat \ {0} :
            a = kAlphabetSize /\ h = Half /\ 2 * h = a * a /\ Symbol = 0..(a - 1)
    BY HalfIs
  <1>2. PICK v \in Int : v = Wrap(n) /\ -h <= v /\ v <= h - 1
    <2>1. Wrap(n) \in (-h)..(h - 1)
      BY <1>1, WrapIs DEF Int16
    <2> QED BY <2>1
  <1>3. PICK u \in Nat : u = map_int16_to_uint16(v) /\ u < 2 * h
    <2>1. CASE v >= 0
      <3>1. map_int16_to_uint16(v) = 2 * v
        BY <2>1 DEF map_int16_to_uint16
      <3> QED BY <1>2, <2>1, <3>1
    <2>2. CASE ~(v >= 0)
      <3>1. map_int16_to_uint16(v) = -2 * v - 1
        BY <2>2 DEF map_int16_to_uint16
      <3>2. -2 * v - 1 \in Nat /\ -2 * v - 1 < 2 * h
        BY <1>2, <2>2
      <3> QED BY <3>1, <3>2
    <2> QED BY <2>1, <2>2
  <1>4. PICK s \in Nat : s = u \div a /\ a * s <= u
    BY QuotientIs
  <1>5. s < a
    <2>1. a * s \in Nat /\ a * a \in Nat
      OBVIOUS
    <2>2. a * s < a * a
      BY <1>1, <1>3, <1>4, <2>1
    <2> QED BY <2>2, Monotone
  <1>6. u % a \in 0..(a - 1)
    OBVIOUS
  <1>7. s \in 0..(a - 1)
    BY <1>5
  <1> QED BY <1>1, <1>2, <1>3, <1>4, <1>6, <1>7

-----------------------------------------------------------------------------
(***************************************************************************)
(* The invariant.                                                          *)
(***************************************************************************)
\* Both models are good.
InvModels == Good(enc_model) /\ Good(dec_model)

\* The encoder's interval is settled unless a write failed, and nothing is encoded
\* after one.
InvEncoder ==
    /\ Fitting(enc) /\ Proper(enc)
    /\ enc.ok => Settled(enc)
    /\ phase = "encode" => enc.ok

\* The decoder has its value in its interval from the start, whatever the stream.
InvDecoder == StreamIsBits /\ Inside(dec) /\ Settled(dec)

\* Samples come under a valid header only, and the predictor has numbers.
InvAudio ==
    /\ header \in Headers
    /\ pcm \in Seq(Int16) /\ message \in Seq(Symbol)
    /\ pcm # <<>> => Valid
    /\ prev_enc \in [0..(kMaxAudioChannels - 1) -> Int]

Inv == InvModels /\ InvEncoder /\ InvDecoder /\ InvAudio

LEMMA NewAreSettled ==
  /\ Fitting(NewEncoder) /\ Proper(NewEncoder) /\ Settled(NewEncoder) /\ NewEncoder.ok
  /\ Inside(NewDecoder) /\ Settled(NewDecoder)
  <1>1. PICK q \in Nat \ {0} :
            kFirstQtr = q /\ kHalf = 2 * q /\ kThirdQtr = 3 * q /\ kTopValue = 4 * q - 1
    BY QuarterIs
  <1>2. PICK top \in Nat : top = kTopValue /\ top = 4 * q - 1
    BY <1>1
  <1>3. /\ NewEncoder = [low |-> 0, high |-> top, follow |-> 0, out |-> <<>>, ok |-> TRUE]
        /\ NewDecoder = [low |-> 0, high |-> top, value |-> 0, pos |-> 0]
    BY <1>2 DEF NewEncoder, NewDecoder
  <1>4. /\ NewEncoder.low = 0 /\ NewEncoder.high = top /\ NewEncoder.out = <<>> /\ NewEncoder.ok
        /\ NewDecoder.low = 0 /\ NewDecoder.high = top /\ NewDecoder.value = 0
    BY <1>3
  <1>5. Fitting(NewEncoder)
    <2>1. <<>> \in Seq({0, 1}) /\ Len(<<>>) = 0
      OBVIOUS
    <2>2. NewEncoder \in Encoders
      BY <1>3, <2>1 DEF Encoders
    <2> QED BY <1>4, <2>1, <2>2, CoderAssumption DEF Fitting
  <1>6. Proper(NewEncoder) /\ Proper(NewDecoder)
    BY <1>2, <1>4 DEF Proper
  <1>7. Settled(NewEncoder) /\ Settled(NewDecoder)
    BY <1>1, <1>2, <1>4 DEF Settled, InMiddle
  <1>8. Inside(NewDecoder)
    <2>1. NewDecoder \in Decoders
      BY <1>3 DEF Decoders
    <2> QED BY <1>2, <1>4, <1>6, <2>1 DEF Inside
  <1> QED BY <1>4, <1>5, <1>6, <1>7, <1>8

LEMMA InitInv == Init => Inv
  <1> SUFFICES ASSUME Init PROVE Inv
    OBVIOUS
  <1>1. /\ enc = NewEncoder /\ dec = NewDecoder
        /\ enc_model = FreshModel /\ dec_model = FreshModel
        /\ message = <<>> /\ stream \in Seq({0, 1})
    <2>1. CASE CoderInit
      BY <2>1 DEF CoderInit
    <2>2. CASE \E bits \in Streams : InitStream(bits)
      BY <2>2, AudioAssumption DEF InitStream
    <2> QED BY <2>1, <2>2 DEF Init
  <1>2. InvModels
    BY <1>1, FreshIsGood DEF InvModels
  <1>3. InvEncoder
    BY <1>1, NewAreSettled DEF InvEncoder
  <1>4. InvDecoder
    BY <1>1, NewAreSettled DEF InvDecoder, StreamIsBits
  <1>5. InvAudio
    <2>1. prev_enc \in [0..(kMaxAudioChannels - 1) -> Int]
      BY DEF Init, Silence
    <2> QED BY <1>1, <2>1 DEF Init, InvAudio
  <1> QED BY <1>2, <1>3, <1>4, <1>5 DEF Inv

\* The message's symbol of encode_symbol.
LEMMA EncodeKeeps ==
  ASSUME Inv, NEW symbol \in Symbol, Encode(symbol)
  PROVE  InvModels' /\ InvEncoder' /\ InvDecoder' /\ message' \in Seq(Symbol)
  <1>1. /\ Good(enc_model) /\ Good(dec_model)
        /\ Fitting(enc) /\ Proper(enc) /\ Settled(enc)
        /\ message \in Seq(Symbol)
    BY DEF Inv, InvModels, InvEncoder, InvAudio, Encode
  <1>2. PICK n : n = Narrowed(enc, get_stats(enc_model, symbol))
    OBVIOUS
  <1>3. Fitting(n) /\ Proper(n)
    BY <1>1, <1>2, NarrowedFits
  <1>4. /\ enc' = EncoderSettled(n)
        /\ Fitting(enc') /\ Proper(enc') /\ (enc'.ok => Settled(enc'))
    <2>1. enc' = EncoderSettled(n)
      BY <1>2 DEF Encode
    <2> QED BY <1>3, <2>1, EncoderSettledIs
  <1>5. Good(dec_model') /\ UNCHANGED <<stream, dec>>
    BY <1>1 DEF Encode
  <1>6. InvDecoder'
    BY <1>5 DEF Inv, InvDecoder, StreamIsBits, Inside, Proper, Settled, InMiddle
  <1>7. CASE enc'.ok
    <2>1. enc_model' = Updated(enc_model, symbol) /\ message' = Append(message, symbol)
      BY <1>7 DEF Encode
    <2>2. Good(enc_model')
      BY <1>1, <2>1, UpdatedIsGood
    <2>3. message' \in Seq(Symbol)
      BY <1>1, <2>1, AppendProperties
    <2>4. InvEncoder'
      BY <1>4, <1>7 DEF InvEncoder, Fitting, Proper, Settled, InMiddle
    <2> QED BY <1>5, <1>6, <2>2, <2>3, <2>4 DEF InvModels, Good, SumOf
  <1>8. CASE ~enc'.ok
    <2>1. enc_model' = enc_model /\ message' = message /\ phase' = "overflow"
      BY <1>8 DEF Encode
    <2>2. InvEncoder'
      BY <1>4, <1>8, <2>1 DEF InvEncoder, Fitting, Proper, Settled, InMiddle
    <2> QED BY <1>1, <1>5, <1>6, <2>1, <2>2 DEF InvModels
  <1> QED BY <1>7, <1>8

LEMMA PaddedIs ==
  ASSUME NEW bits \in Seq({0, 1})
  PROVE  Padded(bits) \in Seq({0, 1})
  <1>1. PICK b \in Nat \ {0}, n \in Nat : b = ByteBits /\ n = Len(bits)
    <2>1. Len(bits) \in Nat
      OBVIOUS
    <2>2. ByteBits \in Nat \ {0}
      BY CoderAssumption
    <2> QED BY <2>1, <2>2
  <1>2. PICK k \in Nat : k = (b - (n % b)) % b
    <2>1. PICK r \in 0..(b - 1) : r = n % b
      OBVIOUS
    <2>2. b - r \in Nat
      OBVIOUS
    <2>3. (b - r) % b \in Nat
      BY <2>2
    <2> QED BY <2>1, <2>3
  <1>3. PICK zeros : zeros = [i \in 1..k |-> 0]
    OBVIOUS
  <1>4. zeros \in Seq({0, 1})
    <2>1. zeros \in [1..k -> {0, 1}]
      BY <1>3
    <2> QED BY <2>1, SeqDef
  <1>5. Padded(bits) = bits \o zeros
    BY <1>1, <1>2, <1>3 DEF Padded
  <1> QED BY <1>4, <1>5, ConcatProperties

LEMMA FlushKeeps ==
  ASSUME Inv, Flush
  PROVE  InvModels' /\ InvEncoder' /\ InvDecoder'
  <1>1. PICK e : e = [enc EXCEPT !.follow = @ + 1]
    OBVIOUS
  <1>2. Fitting(enc) /\ Proper(enc) /\ Settled(enc)
    BY DEF Inv, InvEncoder, Flush
  <1>3. PICK q \in Nat \ {0} : kFirstQtr = q
    BY QuarterIs
  <1>4. Fitting(e) /\ e.low = enc.low /\ e.high = enc.high
    <2>1. enc.follow \in Nat
      BY <1>2 DEF Fitting, Encoders
    <2>2. PICK f \in Nat : f = enc.follow + 1
      BY <2>1
    <2>3. e = [enc EXCEPT !.follow = f]
      BY <1>1, <2>2
    <2>4. e \in Encoders /\ e.out = enc.out /\ e.low = enc.low /\ e.high = enc.high
      BY <1>2, <2>3 DEF Fitting, Encoders
    <2> QED BY <1>2, <2>4 DEF Fitting
  <1>5. PICK bit \in {0, 1} : enc' = Emitted(e, bit)
    <2>1. (IF enc.low < kFirstQtr THEN 0 ELSE 1) \in {0, 1}
      OBVIOUS
    <2>2. enc' = Emitted(e, IF enc.low < kFirstQtr THEN 0 ELSE 1)
      BY <1>1 DEF Flush, Final
    <2> QED BY <2>1, <2>2
  <1>6. Fitting(enc') /\ enc'.low = enc.low /\ enc'.high = enc.high
    BY <1>4, <1>5, EmittedIs
  <1>7. phase' # "encode"
    BY DEF Flush
  <1>8. InvEncoder'
    BY <1>2, <1>6, <1>7 DEF InvEncoder, Fitting, Proper, Settled, InMiddle
  <1>9. stream' \in Seq({0, 1})
    <2>1. stream' = Padded(enc'.out) \/ stream' = stream
      BY DEF Flush
    <2>2. enc'.out \in Seq({0, 1})
      BY <1>6 DEF Fitting, Encoders
    <2>3. stream \in Seq({0, 1})
      BY DEF Inv, InvDecoder, StreamIsBits
    <2> QED BY <2>1, <2>2, <2>3, PaddedIs
  <1>10. InvDecoder'
    BY <1>9 DEF Inv, Flush, InvDecoder, StreamIsBits, Inside, Proper, Settled, InMiddle
  <1>11. InvModels'
    BY DEF Inv, Flush, InvModels
  <1> QED BY <1>8, <1>10, <1>11

\* init takes in Width bits: any of them are a value in the whole interval.
LEMMA OpenKeeps ==
  ASSUME Inv, Open
  PROVE  InvModels' /\ InvEncoder' /\ InvDecoder'
  <1>1. InvModels'
    BY DEF Inv, Open, InvModels
  <1>2. InvEncoder'
    BY DEF Inv, Open, InvEncoder, Fitting, Proper, Settled, InMiddle
  <1>3. CASE Len(stream) < Width
    BY <1>1, <1>2, <1>3 DEF Inv, Open, InvDecoder, StreamIsBits, Inside, Proper, Settled, InMiddle
  <1>4. CASE ~(Len(stream) < Width)
    <2>1. PICK w \in Nat \ {0} : w = Width
      BY CoderAssumption
    <2>2. PICK bits : bits = SubSeq(stream, 1, Width)
      OBVIOUS
    <2>3. stream \in Seq({0, 1})
      BY DEF Inv, InvDecoder, StreamIsBits
    <2>4. bits \in Seq({0, 1}) /\ Len(bits) = Width
      <3>1. \A i \in 1..w : stream[i] \in {0, 1}
        <4> SUFFICES ASSUME NEW i \in 1..w PROVE stream[i] \in {0, 1}
          OBVIOUS
        <4>1. i \in 1..Len(stream)
          <5>1. PICK n \in Nat : n = Len(stream)
            BY <2>3
          <5>2. n >= w
            BY <1>4, <2>1, <5>1
          <5> QED BY <5>1, <5>2
        <4> QED BY <2>3, <4>1, ElementOfSeq
      <3>2. bits \in Seq({0, 1}) /\ Len(bits) = IF 1 <= w THEN w - 1 + 1 ELSE 0
        BY <2>1, <2>2, <3>1, SubSeqProperties
      <3> QED BY <2>1, <3>2
    <2>5. PICK v \in Nat : v = Number(bits) /\ v <= kTopValue
      BY <2>4, NumberIs
    <2>6. dec' = [NewDecoder EXCEPT !.value = v, !.pos = w] /\ stream' = stream
      BY <1>4, <2>1, <2>2, <2>5 DEF Open
    <2>7. PICK q \in Nat \ {0} :
              kFirstQtr = q /\ kHalf = 2 * q /\ kThirdQtr = 3 * q /\ kTopValue = 4 * q - 1
      BY QuarterIs
    <2>8. PICK top \in Nat : top = kTopValue /\ top = 4 * q - 1
      BY <2>7
    <2>9. dec' = [low |-> 0, high |-> top, value |-> v, pos |-> w]
      BY <2>6, <2>8 DEF NewDecoder
    <2>10. dec'.low = 0 /\ dec'.high = top /\ dec'.value = v
      BY <2>9
    <2>11. dec' \in Decoders
      BY <2>9 DEF Decoders
    <2>12. Settled(dec')
      BY <2>7, <2>8, <2>10 DEF Settled, InMiddle
    <2>13. Inside(dec')
      BY <2>5, <2>8, <2>10, <2>11 DEF Inside, Proper
    <2>14. InvDecoder'
      BY <2>3, <2>6, <2>12, <2>13 DEF InvDecoder, StreamIsBits, Inside, Proper, Settled, InMiddle
    <2> QED BY <1>1, <1>2, <2>14
  <1> QED BY <1>3, <1>4

LEMMA DecodeKeeps ==
  ASSUME Inv, Decode
  PROVE  InvModels' /\ InvEncoder' /\ InvDecoder'
  <1>1. PICK s : s = NextSymbol
    OBVIOUS
  <1>2. /\ Good(enc_model) /\ Good(dec_model)
        /\ StreamIsBits /\ Inside(dec) /\ Settled(dec)
    BY DEF Inv, InvModels, InvDecoder
  <1>3. s = SymbolAt(dec_model, U16(Count(dec, total_frequency(dec_model))))
    BY <1>1 DEF NextSymbol
  <1>4. s \in Symbol /\ Inside(Narrowed(dec, get_stats(dec_model, s)))
    BY <1>2, <1>3, NextIs
  <1>5. dec' = DecoderSettled(Narrowed(dec, get_stats(dec_model, s)))
    BY <1>1 DEF Decode
  <1>6. Inside(dec') /\ Settled(dec')
    BY <1>2, <1>4, <1>5, DecoderSettledIs
  <1>7. InvDecoder'
    BY <1>2, <1>6 DEF Decode, InvDecoder, StreamIsBits, Inside, Proper, Settled, InMiddle
  <1>8. Good(dec_model')
    <2>1. dec_model' = Updated(dec_model, s)
      BY <1>1 DEF Decode
    <2> QED BY <1>2, <1>4, <2>1, UpdatedIsGood
  <1>9. InvModels'
    BY <1>2, <1>8 DEF Decode, InvModels, Good, SumOf
  <1>10. InvEncoder'
    BY DEF Inv, Decode, InvEncoder, Fitting, Proper, Settled, InMiddle
  <1> QED BY <1>7, <1>9, <1>10

\* The channel of a sample is one of the predictor's.
LEMMA ChannelIs ==
  ASSUME Inv, Valid, NEW i \in Nat \ {0}
  PROVE  prev_enc[Channel(i)] \in Int
  <1>1. PICK c \in Nat \ {0} : c = header.channels /\ c <= kMaxAudioChannels
    BY DEF Inv, InvAudio, Valid
  <1>2. PICK k \in Nat \ {0} : k = kMaxAudioChannels
    BY AudioAssumption
  <1>3. PICK j \in Nat : j = i - 1
    OBVIOUS
  <1>4. PICK r \in 0..(c - 1) : r = j % c
    OBVIOUS
  <1>5. Channel(i) = r
    BY <1>1, <1>3, <1>4 DEF Channel
  <1>6. r \in 0..(k - 1)
    BY <1>1, <1>2
  <1>7. prev_enc \in [0..(k - 1) -> Int]
    BY <1>2 DEF Inv, InvAudio
  <1> QED BY <1>5, <1>6, <1>7

LEMMA NextInv == Inv /\ [Next]_vars => Inv'
  <1> SUFFICES ASSUME Inv, [Next]_vars PROVE Inv'
    OBVIOUS
  <1>1. /\ header \in Headers /\ pcm \in Seq(Int16) /\ message \in Seq(Symbol)
        /\ pcm # <<>> => Valid
        /\ prev_enc \in [0..(kMaxAudioChannels - 1) -> Int]
    BY DEF Inv, InvAudio
  <1>2. \A n \in Int16 : n \in Int
    BY HalfIs DEF Int16
  <1>3. ASSUME NEW sample \in Samples, EncodeHigh(sample) PROVE Inv'
    <2>1. PICK i \in Nat \ {0} : i = Len(pcm) + 1
      <3>1. Len(pcm) + 1 \in Nat \ {0}
        BY <1>1
      <3> QED BY <3>1
    <2>2. PICK d \in Int : d = sample - prev_enc[Channel(i)]
      <3>1. prev_enc[Channel(i)] \in Int
        BY <1>3, ChannelIs DEF EncodeHigh
      <3>2. sample \in Int
        BY <1>2, AudioAssumption
      <3>3. sample - prev_enc[Channel(i)] \in Int
        BY <3>1, <3>2
      <3> QED BY <3>3
    <2>3. PICK symbol \in Symbol : symbol = map_int16_to_uint16(Wrap(d)) \div kAlphabetSize
      BY SymbolsAre
    <2>4. Encode(symbol)
      BY <1>3, <2>1, <2>2, <2>3 DEF EncodeHigh
    <2>5. InvModels' /\ InvEncoder' /\ InvDecoder' /\ message' \in Seq(Symbol)
      BY <2>4, EncodeKeeps
    <2>6. pcm' \in Seq(Int16)
      <3>1. sample \in Int16
        BY AudioAssumption
      <3>2. pcm' = Append(pcm, sample)
        BY <1>3 DEF EncodeHigh
      <3> QED BY <1>1, <3>1, <3>2, AppendProperties
    <2>7. Valid'
      BY <1>3 DEF EncodeHigh, Valid, Total
    <2>8. InvAudio'
      BY <1>1, <1>3, <2>5, <2>6, <2>7 DEF EncodeHigh, InvAudio
    <2> QED BY <2>5, <2>8 DEF Inv
  <1>4. ASSUME EncodeLow PROVE Inv'
    <2>1. PICK i \in Nat \ {0} : i = Len(pcm)
      <3>1. Len(pcm) \in Nat /\ Len(message) \in Nat /\ Len(message) < 2 * Len(pcm)
        BY <1>1, <1>4 DEF EncodeLow
      <3>2. Len(pcm) \in Nat \ {0}
        BY <3>1
      <3> QED BY <3>2
    <2>2. Valid
      <3>1. pcm # <<>>
        BY <2>1
      <3> QED BY <1>1, <3>1
    <2>3. PICK last \in Int : last = Last(pcm)
      <3>1. pcm[i] \in Int16
        BY <1>1, <2>1, ElementOfSeq
      <3>2. Last(pcm) = pcm[i]
        BY <2>1 DEF Last
      <3> QED BY <1>2, <3>1, <3>2
    <2>4. PICK d \in Int : d = last - prev_enc[Channel(i)]
      <3>1. prev_enc[Channel(i)] \in Int
        BY <2>2, ChannelIs
      <3>2. last - prev_enc[Channel(i)] \in Int
        BY <3>1
      <3> QED BY <3>2
    <2>5. PICK symbol \in Symbol : symbol = map_int16_to_uint16(Wrap(d)) % kAlphabetSize
      BY SymbolsAre
    <2>6. Encode(symbol)
      BY <1>4, <2>1, <2>3, <2>4, <2>5 DEF EncodeLow
    <2>7. InvModels' /\ InvEncoder' /\ InvDecoder' /\ message' \in Seq(Symbol)
      BY <2>6, EncodeKeeps
    <2>8. prev_enc' \in [0..(kMaxAudioChannels - 1) -> Int]
      <3>1. prev_enc' = [prev_enc EXCEPT ![Channel(i)] = last]
        BY <1>4, <2>1, <2>3 DEF EncodeLow
      <3> QED BY <1>1, <3>1
    <2>9. Valid' /\ pcm' = pcm /\ header' = header
      BY <1>4, <2>2 DEF EncodeLow, Valid, Total
    <2>10. InvAudio'
      BY <1>1, <2>7, <2>8, <2>9 DEF InvAudio
    <2> QED BY <2>7, <2>10 DEF Inv
  <1>5. ASSUME EncodeEnd PROVE Inv'
    <2>1. InvModels' /\ InvEncoder' /\ InvDecoder'
      BY <1>5, FlushKeeps DEF EncodeEnd
    <2>2. InvAudio'
      BY <1>1, <1>5 DEF EncodeEnd, Flush, InvAudio, Valid, Total
    <2> QED BY <2>1, <2>2 DEF Inv
  <1>6. ASSUME DecodeStart PROVE Inv'
    <2>1. InvModels' /\ InvEncoder' /\ InvDecoder'
      BY <1>6, OpenKeeps DEF DecodeStart
    <2>2. InvAudio'
      BY <1>1, <1>6 DEF DecodeStart, Open, InvAudio, Valid, Total
    <2> QED BY <2>1, <2>2 DEF Inv
  <1>7. ASSUME DecodeHigh PROVE Inv'
    <2>1. InvModels' /\ InvEncoder' /\ InvDecoder'
      BY <1>7, DecodeKeeps DEF DecodeHigh
    <2>2. InvAudio'
      BY <1>1, <1>7 DEF DecodeHigh, Decode, InvAudio, Valid, Total
    <2> QED BY <2>1, <2>2 DEF Inv
  <1>8. ASSUME DecodeLow PROVE Inv'
    <2>1. InvModels' /\ InvEncoder' /\ InvDecoder'
      BY <1>8, DecodeKeeps DEF DecodeLow
    <2>2. InvAudio'
      BY <1>1, <1>8 DEF DecodeLow, Decode, InvAudio, Valid, Total
    <2> QED BY <2>1, <2>2 DEF Inv
  <1>9. ASSUME UNCHANGED vars PROVE Inv'
    BY <1>9 DEF Inv, vars, coderVars, InvModels, InvEncoder, InvDecoder, InvAudio, Fitting,
       Proper, Settled, InMiddle, StreamIsBits, Inside, Valid, Total
  <1> QED BY <1>3, <1>4, <1>5, <1>6, <1>7, <1>8, <1>9 DEF Next

THEOREM InvHolds == Spec => []Inv
  <1> QED BY InitInv, NextInv, PTL DEF Spec

\* The counters of both models stay exact and within 16 bits through every update
\* and rescaling: no addition of update, get_stats and decode_symbol wraps around,
\* and no symbol loses its last count (lines 26-87 of context_model.cpp).
THEOREM ModelsSoundHolds == Spec => []ModelsSound
  <1>1. Inv => ModelsSound
    BY GoodIsSound DEF Inv, InvModels, ModelsSound
  <1> QED BY <1>1, InvHolds, PTL

\* Between calls both intervals straddle the middle and are wider than a quarter;
\* the decoder's value lies in its interval, also behind the end of a stream and on
\* one that no encoder wrote, and its count is below the total (lines 25-139 of
\* comp_engine.cpp).
THEOREM IntervalSoundHolds == Spec => []IntervalSound
  <1>1. Inv => IntervalSound
    <2> SUFFICES ASSUME Inv PROVE IntervalSound
      OBVIOUS
    <2>1. /\ Proper(enc) /\ (enc.ok => Settled(enc))
          /\ Inside(dec) /\ Settled(dec) /\ Good(dec_model)
      BY DEF Inv, InvModels, InvEncoder, InvDecoder
    <2>2. Proper(dec) /\ dec.low <= dec.value /\ dec.value <= dec.high
      BY <2>1 DEF Inside
    <2>3. Count(dec, total_frequency(dec_model)) < total_frequency(dec_model)
      BY <2>1, NextIs
    <2> QED BY <2>1, <2>2, <2>3, SettledIsWide DEF IntervalSound
  <1> QED BY <1>1, InvHolds, PTL

-----------------------------------------------------------------------------
(***************************************************************************)
(* Bits that wait.                                                         *)
(***************************************************************************)
\* Bits followed by the same bit a number of times.
Followed(bits, b, k) == bits \o [i \in 1..k |-> b]

Trailing(all, bits, b, k) ==
    /\ all \in Seq({0, 1}) /\ Len(all) = Len(bits) + k
    /\ \A i \in 1..Len(bits) : all[i] = bits[i]
    /\ \A i \in (Len(bits) + 1)..(Len(bits) + k) : all[i] = b

LEMMA FollowedIs ==
  ASSUME NEW bits \in Seq({0, 1}), NEW b \in {0, 1}, NEW k \in Nat
  PROVE  /\ Followed(bits, b, k) \in Seq({0, 1})
         /\ Trailing(Followed(bits, b, k), bits, b, k)
  <1>1. PICK tail : tail = [i \in 1..k |-> b]
    OBVIOUS
  <1>2. tail \in Seq({0, 1}) /\ Len(tail) = k /\ \A i \in 1..k : tail[i] = b
    <2>1. tail \in [1..k -> {0, 1}]
      BY <1>1
    <2>2. tail \in Seq({0, 1})
      BY <2>1, SeqDef
    <2>3. DOMAIN tail = 1..k
      BY <2>1
    <2> QED BY <1>1, <2>2, <2>3, LenProperties
  <1>3. PICK n \in Nat : n = Len(bits)
    <2>1. Len(bits) \in Nat
      OBVIOUS
    <2> QED BY <2>1
  <1>4. PICK all : all = bits \o tail
    OBVIOUS
  <1>5. /\ all \in Seq({0, 1}) /\ Len(all) = Len(bits) + Len(tail)
        /\ \A i \in 1..(Len(bits) + Len(tail)) :
              all[i] = IF i <= Len(bits) THEN bits[i] ELSE tail[i - Len(bits)]
    BY <1>2, <1>4, ConcatProperties
  <1>6. Len(all) = n + k /\ \A i \in 1..(n + k) : all[i] = IF i <= n THEN bits[i] ELSE tail[i - n]
    BY <1>2, <1>3, <1>5, Zenon
  <1>7. \A i \in 1..n : all[i] = bits[i]
    BY <1>6
  <1>8. ASSUME NEW i \in (n + 1)..(n + k) PROVE all[i] = b
    <2>1. i \in 1..(n + k) /\ ~(i <= n) /\ i - n \in 1..k
      OBVIOUS
    <2> QED BY <1>2, <1>6, <2>1
  <1>9. Followed(bits, b, k) = all
    BY <1>1, <1>4 DEF Followed
  <1>10. Trailing(all, bits, b, k)
    BY <1>3, <1>5, <1>6, <1>7, <1>8 DEF Trailing
  <1> QED BY <1>5, <1>9, <1>10

LEMMA FollowedGrows ==
  ASSUME NEW bits \in Seq({0, 1}), NEW b \in {0, 1}, NEW k \in Nat
  PROVE  /\ Followed(bits, b, 0) = bits
         /\ Followed(bits, b, k + 1) = Append(Followed(bits, b, k), b)
  <1>1. PICK n \in Nat : n = Len(bits)
    <2>1. Len(bits) \in Nat
      OBVIOUS
    <2> QED BY <2>1
  <1> DEFINE Is(s, j) ==
                /\ s = Followed(bits, b, j) /\ s \in Seq({0, 1}) /\ Len(s) = n + j
                /\ \A i \in 1..n : s[i] = bits[i]
                /\ \A i \in (n + 1)..(n + j) : s[i] = b
  <1>0. ASSUME NEW j \in Nat PROVE \E s : Is(s, j)
    <2>1. PICK s : s = Followed(bits, b, j) /\ Trailing(s, bits, b, j)
      BY FollowedIs
    <2>2. Is(s, j)
      BY <1>1, <2>1 DEF Trailing
    <2> QED BY <2>2
  <1>2. PICK all : Is(all, k)
    BY <1>0
  <1>3. PICK more : Is(more, k + 1)
    <2>1. k + 1 \in Nat
      OBVIOUS
    <2> QED BY <1>0, <2>1
  <1>4. PICK none : Is(none, 0)
    BY <1>0
  <1>5. PICK app :
            /\ app = Append(all, b) /\ app \in Seq({0, 1}) /\ Len(app) = (n + k) + 1
            /\ \A i \in 1..(n + k) : app[i] = all[i]
            /\ app[(n + k) + 1] = b
    <2>1. PICK app : app = Append(all, b)
      OBVIOUS
    <2>2. app \in Seq({0, 1}) /\ Len(app) = Len(all) + 1
      BY <1>2, <2>1, AppendProperties
    <2>3. (\A i \in 1..Len(all) : app[i] = all[i]) /\ app[Len(all) + 1] = b
      BY <1>2, <2>1, AppendProperties
    <2> QED BY <1>2, <2>1, <2>2, <2>3
  <1>6. none = bits
    BY <1>1, <1>4, SeqEqual
  <1>7. ASSUME NEW i \in 1..((n + k) + 1) PROVE more[i] = app[i]
    <2>1. CASE i \in 1..n
      BY <1>2, <1>3, <1>5, <2>1
    <2>2. CASE i \in (n + 1)..(n + k)
      BY <1>2, <1>3, <1>5, <2>2
    <2>3. CASE i = (n + k) + 1
      BY <1>3, <1>5, <2>3
    <2> QED BY <2>1, <2>2, <2>3
  <1>8. more = app
    <2>1. Len(more) = Len(app) /\ Len(more) = (n + k) + 1
      BY <1>3, <1>5
    <2>2. more \in Seq({0, 1}) /\ app \in Seq({0, 1})
      BY <1>3, <1>5
    <2>3. \A i \in 1..Len(more) : more[i] = app[i]
      BY <1>7, <2>1
    <2> HIDE DEF Is
    <2> QED BY <2>1, <2>2, <2>3, SeqEqual
  <1> QED BY <1>2, <1>3, <1>4, <1>5, <1>6, <1>8

\* Zeros multiply.
LEMMA ZerosMultiply ==
  ASSUME NEW bits \in Seq({0, 1}), NEW k \in 0..Width
  PROVE  Number(Followed(bits, 0, k)) = Number(bits) * Power[k]
  <1>1. PICK w \in Nat : w = Width
    BY CoderAssumption
  <1>2. PICK m \in Nat : m = Number(bits)
    BY NumberGrows
  <1> DEFINE T == {i \in Nat : i <= w => Number(Followed(bits, 0, i)) = m * Power[i]}
  <1>3. 0 \in T
    <2>1. Followed(bits, 0, 0) = bits
      BY FollowedGrows
    <2>2. Power[0] = 1
      BY PowersAre
    <2> QED BY <1>2, <2>1, <2>2
  <1>4. ASSUME NEW i \in Nat, i \in T PROVE i + 1 \in T
    <2> SUFFICES ASSUME i + 1 <= w PROVE Number(Followed(bits, 0, i + 1)) = m * Power[i + 1]
      OBVIOUS
    <2>1. PICK part \in Seq({0, 1}) : part = Followed(bits, 0, i)
      BY FollowedIs
    <2>2. Followed(bits, 0, i + 1) = Append(part, 0)
      BY <2>1, FollowedGrows
    <2>3. Number(Append(part, 0)) = 2 * Number(part) + 0
      BY NumberGrows
    <2>4. PICK p \in Nat : p = Power[i] /\ Power[i + 1] = 2 * p
      <3>1. i \in 0..Width /\ i < Width
        BY <1>1
      <3> QED BY <3>1, PowersAre
    <2>5. PICK x \in Nat : x = m * p /\ m * (2 * p) = 2 * x
      <3>1. \A a, b \in Nat : a * (2 * b) = 2 * (a * b) /\ a * b \in Nat
        BY Z3
      <3> QED BY <3>1
    <2>6. Number(part) = x
      BY <1>4, <2>1, <2>4, <2>5
    <2>7. Number(Append(part, 0)) = 2 * x
      BY <2>3, <2>6
    <2> QED BY <2>2, <2>4, <2>5, <2>7
  <1>5. \A i \in Nat : i \in T
    <2> HIDE DEF T
    <2> QED BY <1>3, <1>4, Induct
  <1>6. k \in Nat /\ k <= w
    BY <1>1
  <1> QED BY <1>2, <1>5, <1>6

\* A one and zeros are one more than a zero and ones.
LEMMA Carried ==
  ASSUME NEW bits \in Seq({0, 1}), NEW k \in Nat
  PROVE  /\ Number(Followed(Append(bits, 0), 1, k)) \in Nat
         /\ Number(Followed(Append(bits, 1), 0, k)) = Number(Followed(Append(bits, 0), 1, k)) + 1
  <1>1. PICK zero \in Seq({0, 1}), one \in Seq({0, 1}) :
            zero = Append(bits, 0) /\ one = Append(bits, 1)
    BY NumberGrows
  <1> DEFINE T == {i \in Nat : Number(Followed(one, 0, i)) = Number(Followed(zero, 1, i)) + 1}
  <1>2. 0 \in T
    <2>1. Number(one) = 2 * Number(bits) + 1 /\ Number(zero) = 2 * Number(bits) + 0
          /\ Number(bits) \in Nat
      BY <1>1, NumberGrows
    <2>2. Followed(one, 0, 0) = one /\ Followed(zero, 1, 0) = zero
      BY FollowedGrows
    <2> QED BY <2>1, <2>2
  <1>3. ASSUME NEW i \in Nat, i \in T PROVE i + 1 \in T
    <2>1. PICK a \in Seq({0, 1}), b \in Seq({0, 1}) :
              a = Followed(zero, 1, i) /\ b = Followed(one, 0, i)
      BY FollowedIs
    <2>2. Followed(zero, 1, i + 1) = Append(a, 1) /\ Followed(one, 0, i + 1) = Append(b, 0)
      BY <2>1, FollowedGrows
    <2>3. /\ Number(Append(a, 1)) = 2 * Number(a) + 1 /\ Number(Append(b, 0)) = 2 * Number(b) + 0
          /\ Number(a) \in Nat /\ Number(b) \in Nat
      BY NumberGrows
    <2>4. Number(b) = Number(a) + 1
      BY <1>3, <2>1
    <2>5. Number(Append(b, 0)) = Number(Append(a, 1)) + 1
      BY <2>3, <2>4
    <2>6. Number(Followed(one, 0, i + 1)) = Number(Followed(zero, 1, i + 1)) + 1
      BY <2>2, <2>5, Zenon
    <2> QED BY <2>6
  <1>4. k \in T
    <2> HIDE DEF T
    <2> QED BY <1>2, <1>3, Induct
  <1>5. Number(Followed(zero, 1, k)) \in Nat
    <2>1. PICK a \in Seq({0, 1}) : a = Followed(zero, 1, k)
      BY FollowedIs
    <2> QED BY <2>1, NumberGrows
  <1> QED BY <1>1, <1>4, <1>5

-----------------------------------------------------------------------------
(***************************************************************************)
(* The place of the encoder's interval on the line of all streams.         *)
(***************************************************************************)
\* The bits written, and those that wait as if no carry came.
Waiting(e) == Number(Followed(Append(e.out, 0), 1, e.follow))

\* The first number of the interval, in as many bits as the decoder has read.
Place(e) == Waiting(e) * kHalf + e.low
Reach(e) == (Len(e.out) + e.follow) + Width

LEMMA PlaceIs ==
  ASSUME NEW e, Fitting(e), Proper(e)
  PROVE  Waiting(e) \in Nat /\ Place(e) \in Nat /\ Reach(e) \in Nat
  <1>1. PICK out \in Seq({0, 1}), f \in Nat : out = e.out /\ f = e.follow
    BY DEF Fitting, Encoders
  <1>2. PICK k \in Nat : k = Waiting(e)
    <2>1. Number(Followed(Append(out, 0), 1, f)) \in Nat
      BY Carried
    <2> QED BY <1>1, <2>1 DEF Waiting
  <1>3. PICK h \in Nat : h = kHalf
    <2>1. PICK q \in Nat \ {0} : kHalf = 2 * q
      BY QuarterIs
    <2>2. 2 * q \in Nat
      OBVIOUS
    <2> QED BY <2>1, <2>2
  <1>4. PICK l \in Nat : l = e.low
    BY DEF Proper
  <1>5. k * h \in Nat
    OBVIOUS
  <1>6. k * h + l \in Nat
    BY <1>5
  <1>7. PICK n \in Nat, w \in Nat : n = Len(out) /\ w = Width
    <2>1. Len(out) \in Nat /\ Width \in Nat
      BY CoderAssumption
    <2> QED BY <2>1
  <1>8. (n + f) + w \in Nat
    OBVIOUS
  <1>9. Reach(e) \in Nat
    BY <1>1, <1>7, <1>8 DEF Reach
  <1>10. Place(e) \in Nat
    BY <1>2, <1>3, <1>4, <1>6 DEF Place
  <1> QED BY <1>2, <1>9, <1>10

Grows(bits, b, k) == Followed(bits, b, k + 1) = Append(Followed(bits, b, k), b)

LEMMA OneMore ==
  ASSUME NEW bits \in Seq({0, 1}), NEW b \in {0, 1}, NEW k \in Nat
  PROVE  Grows(bits, b, k)
  BY FollowedGrows DEF Grows

Opposite(bit, other) == bit \in {0, 1} /\ other \in {0, 1} /\ other = 1 - bit

\* A half that fits: the bit and all that wait for it.
LEMMA WholeEmitted ==
  ASSUME NEW e, Fitting(e), e.ok, NEW bit, NEW other, Opposite(bit, other),
         NEW w, w = Emitted(e, bit), w.ok
  PROVE  /\ w.out = Followed(Append(e.out, bit), other, e.follow) /\ w.follow = 0
         /\ Len(w.out) = (Len(e.out) + 1) + e.follow
         /\ w = [e EXCEPT !.out = w.out, !.follow = 0]
  <1> USE DEF Opposite
  <1>1. PICK out \in Seq({0, 1}), f \in Nat : out = e.out /\ f = e.follow /\ e \in Encoders
    BY DEF Fitting, Encoders
  <1>2. PICK opposite : opposite = [i \in 1..f |-> 1 - bit]
    OBVIOUS
  <1>3. opposite \in Seq({0, 1})
    <2>1. 1 - bit \in {0, 1}
      OBVIOUS
    <2>2. opposite \in [1..f -> {0, 1}]
      BY <1>2, <2>1
    <2> QED BY <2>2, SeqDef
  <1>4. PICK bits : bits = <<bit>> \o opposite
    OBVIOUS
  <1>5. out \o bits = Followed(Append(out, bit), 1 - bit, f)
    <2>1. <<bit>> \in Seq({0, 1})
      OBVIOUS
    <2>2. (out \o <<bit>>) \o opposite = out \o bits
      BY <1>3, <1>4, <2>1, ConcatAssociative
    <2>3. Append(out, bit) = out \o <<bit>>
      BY AppendIsConcat
    <2> QED BY <1>2, <2>2, <2>3 DEF Followed
  <1>6. Len(bits) <= Capacity - Len(e.out)
    <2> SUFFICES ASSUME ~(Len(bits) <= Capacity - Len(e.out)) PROVE FALSE
      OBVIOUS
    <2>1. \E part, rest : w = [e EXCEPT !.out = part, !.ok = FALSE, !.follow = rest]
      BY <1>1, <1>2, <1>4 DEF Emitted
    <2>2. ~w.ok
      BY <1>1, <2>1 DEF Encoders
    <2> QED BY <2>2
  <1>7. w = [e EXCEPT !.out = out \o bits, !.follow = 0]
    BY <1>1, <1>2, <1>4, <1>6 DEF Emitted
  <1>8. w.out = out \o bits /\ w.follow = 0
    BY <1>1, <1>7 DEF Encoders
  <1>9. Len(Followed(Append(out, bit), 1 - bit, f)) = (Len(out) + 1) + f
    <2>1. PICK c \in {0, 1}, start \in Seq({0, 1}) : c = 1 - bit /\ start = Append(out, bit)
      BY AppendProperties
    <2>2. Len(start) = Len(out) + 1
      BY <2>1, AppendProperties
    <2>3. Trailing(Followed(start, c, f), start, c, f)
      BY FollowedIs
    <2> QED BY <2>1, <2>2, <2>3 DEF Trailing
  <1> QED BY <1>1, <1>5, <1>7, <1>8, <1>9

\* A half that fits, and what it writes.
Whole(e, bit, other, w) ==
    Fitting(e) /\ e.ok /\ Opposite(bit, other) /\ w = Emitted(e, bit) /\ w.ok

Writes(e, bit, other, w) ==
    /\ w.out = Followed(Append(e.out, bit), other, e.follow)
    /\ Len(w.out) = (Len(e.out) + 1) + e.follow /\ w.follow = 0

LEMMA WholeWrites ==
  ASSUME NEW e, NEW bit, NEW other, NEW w, Whole(e, bit, other, w)
  PROVE  Writes(e, bit, other, w)
  BY WholeEmitted DEF Whole, Writes

\* What a turn of the loop does to the interval and to its place.
Moved(e, f, offset) ==
    /\ f.low = 2 * (e.low - offset) /\ f.high = 2 * (e.high - offset) + 1
    /\ Reach(f) = Reach(e) + 1
    /\ Place(f) = 2 * Place(e)

LEMMA HalfwayMoves ==
  ASSUME NEW e, Fitting(e), Proper(e), ~Settled(e), e.ok,
         NEW bit, NEW other, Opposite(bit, other),
         NEW offset, Shift(e, offset), NEW f, f = Halfway(e, bit, offset), f.ok
  PROVE  /\ f.low = 2 * (e.low - offset) /\ f.high = 2 * (e.high - offset) + 1
         /\ Reach(f) = Reach(e) + 1
         /\ Waiting(f) = 2 * (Waiting(e) + bit)
  <1>1. PICK w : w = Emitted(e, bit)
    OBVIOUS
  <1>2. Fitting(w) /\ w \in Encoders /\ w.low = e.low /\ w.high = e.high
    <2>1. PICK b \in {0, 1} : b = bit
      BY DEF Opposite
    <2>2. Fitting(Emitted(e, b)) /\ Emitted(e, b).low = e.low /\ Emitted(e, b).high = e.high
      BY EmittedIs
    <2> QED BY <1>1, <2>1, <2>2 DEF Fitting
  <1>3. w.ok /\ f = Doubled(w, offset)
    <2>1. f = IF w.ok THEN Doubled(w, offset) ELSE w
      BY <1>1 DEF Halfway
    <2> QED BY <2>1
  <1>4. Proper(w) /\ ~Settled(w) /\ Shift(w, offset)
    <2>1. Proper(w)
      BY <1>2 DEF Proper
    <2>2. ~Settled(w)
      BY <1>2 DEF Settled, InMiddle
    <2>3. Shift(w, offset)
      BY <1>2 DEF Shift
    <2> QED BY <2>1, <2>2, <2>3
  <1>5. \E a, b : f = [w EXCEPT !.low = a, !.high = b]
    BY <1>3 DEF Doubled
  <1>6. f.out = w.out /\ f.follow = w.follow
    BY <1>2, <1>5 DEF Encoders
  <1>7. f.low = 2 * (e.low - offset) /\ f.high = 2 * (e.high - offset) + 1
    <2>1. w \in Encoders \cup Decoders
      BY <1>2
    <2>2. /\ Doubled(w, offset).low = 2 * (w.low - offset)
          /\ Doubled(w, offset).high = 2 * (w.high - offset) + 1
      BY <1>4, <2>1, DoubledIs
    <2> QED BY <1>2, <1>3, <2>2

  <1>8. /\ w.out = Followed(Append(e.out, bit), other, e.follow) /\ w.follow = 0
        /\ Len(w.out) = (Len(e.out) + 1) + e.follow
    <2>1. Whole(e, bit, other, w)
      BY <1>1, <1>3 DEF Whole
    <2>2. Writes(e, bit, other, w)
      BY <2>1, WholeWrites
    <2> QED BY <2>2 DEF Writes
  <1>9. PICK out \in Seq({0, 1}), k \in Nat : out = e.out /\ k = e.follow
    BY DEF Fitting, Encoders
  <1>10. Reach(f) = Reach(e) + 1
    <2>1. PICK n \in Nat, width \in Nat : n = Len(e.out) /\ width = Width
      <3>1. Len(out) \in Nat /\ Width \in Nat
        BY CoderAssumption
      <3> QED BY <1>9, <3>1
    <2>2. Reach(f) = (((n + 1) + k) + 0) + width
      BY <1>6, <1>8, <1>9, <2>1 DEF Reach
    <2>3. Reach(e) = (n + k) + width
      BY <1>9, <2>1 DEF Reach
    <2> QED BY <2>2, <2>3
  <1>11. PICK written \in Seq({0, 1}) : written = w.out
    BY <1>2 DEF Encoders
  <1>12. Waiting(f) = 2 * Number(written)
    <2>1. PICK more \in Seq({0, 1}) : more = Append(written, 0)
      BY NumberGrows
    <2>2. Number(more) = 2 * Number(written) + 0 /\ Number(written) \in Nat
      BY <2>1, NumberGrows
    <2>3. Followed(more, 1, 0) = more
      BY FollowedGrows
    <2>4. Waiting(f) = Number(more)
      BY <1>6, <1>8, <1>11, <2>1, <2>3 DEF Waiting
    <2> QED BY <2>2, <2>4
  <1>13. Number(written) = Waiting(e) + bit
    <2>1. Waiting(e) = Number(Followed(Append(out, 0), 1, k))
      BY <1>9 DEF Waiting
    <2>2. /\ Number(Followed(Append(out, 0), 1, k)) \in Nat
          /\ Number(Followed(Append(out, 1), 0, k)) = Number(Followed(Append(out, 0), 1, k)) + 1
      BY Carried
    <2>3. CASE bit = 0
      <3>1. other = 1
        BY <2>3 DEF Opposite
      <3>2. Number(written) = Number(Followed(Append(out, 0), 1, k))
        BY <1>8, <1>9, <1>11, <2>3, <3>1
      <3> QED BY <2>1, <2>2, <2>3, <3>2
    <2>4. CASE bit = 1
      <3>1. other = 0
        BY <2>4 DEF Opposite
      <3>2. Number(written) = Number(Followed(Append(out, 1), 0, k))
        BY <1>8, <1>9, <1>11, <2>4, <3>1
      <3> QED BY <2>1, <2>2, <2>4, <3>2
    <2> QED BY <2>3, <2>4 DEF Opposite
  <1> QED BY <1>7, <1>10, <1>12, <1>13

LEMMA MiddleMoves ==
  ASSUME NEW e, Fitting(e), Proper(e), ~Settled(e), Shift(e, kFirstQtr),
         NEW f, f = Doubled([e EXCEPT !.follow = @ + 1], kFirstQtr)
  PROVE  /\ f.low = 2 * (e.low - kFirstQtr) /\ f.high = 2 * (e.high - kFirstQtr) + 1
         /\ Reach(f) = Reach(e) + 1
         /\ Waiting(f) = 2 * Waiting(e) + 1
  <1>1. PICK w : w = [e EXCEPT !.follow = @ + 1]
    OBVIOUS
  <1>2. PICK out \in Seq({0, 1}), k \in Nat : out = e.out /\ k = e.follow /\ e \in Encoders
    BY DEF Fitting, Encoders
  <1>3. w \in Encoders /\ w.low = e.low /\ w.high = e.high /\ w.out = out /\ w.follow = k + 1
    <2>1. PICK j \in Nat : j = k + 1
      OBVIOUS
    <2>2. w = [e EXCEPT !.follow = j]
      BY <1>1, <1>2, <2>1
    <2> QED BY <1>2, <2>1, <2>2 DEF Encoders
  <1>4. Proper(w) /\ ~Settled(w) /\ Shift(w, kFirstQtr)
    <2>1. Proper(w)
      BY <1>3 DEF Proper
    <2>2. ~Settled(w)
      BY <1>3 DEF Settled, InMiddle
    <2>3. Shift(w, kFirstQtr)
      BY <1>3 DEF Shift
    <2> QED BY <2>1, <2>2, <2>3
  <1>5. f = Doubled(w, kFirstQtr)
    BY <1>1
  <1>6. \E a, b : f = [w EXCEPT !.low = a, !.high = b]
    BY <1>5 DEF Doubled
  <1>7. f.out = out /\ f.follow = k + 1
    BY <1>3, <1>6 DEF Encoders
  <1>8. f.low = 2 * (e.low - kFirstQtr) /\ f.high = 2 * (e.high - kFirstQtr) + 1
    <2>1. w \in Encoders \cup Decoders
      BY <1>3
    <2>2. /\ Doubled(w, kFirstQtr).low = 2 * (w.low - kFirstQtr)
          /\ Doubled(w, kFirstQtr).high = 2 * (w.high - kFirstQtr) + 1
      BY <1>4, <2>1, DoubledIs
    <2> QED BY <1>3, <1>5, <2>2
  <1>9. Reach(f) = Reach(e) + 1
    <2>1. PICK n \in Nat, width \in Nat : n = Len(out) /\ width = Width
      <3>1. Len(out) \in Nat /\ Width \in Nat
        BY CoderAssumption
      <3> QED BY <3>1
    <2> QED BY <1>2, <1>7, <2>1 DEF Reach
  <1>10. Waiting(f) = 2 * Waiting(e) + 1
    <2>1. PICK zero \in Seq({0, 1}) : zero = Append(out, 0)
      BY NumberGrows
    <2>2. PICK waits \in Seq({0, 1}) : waits = Followed(zero, 1, k)
      BY FollowedIs
    <2>3. Followed(zero, 1, k + 1) = Append(waits, 1)
      BY <2>2, FollowedGrows
    <2>4. Number(Append(waits, 1)) = 2 * Number(waits) + 1
      BY NumberGrows
    <2>5. Waiting(e) = Number(waits)
      BY <1>2, <2>1, <2>2 DEF Waiting
    <2>6. Waiting(f) = Number(Append(waits, 1))
      BY <1>7, <2>1, <2>3 DEF Waiting
    <2> QED BY <2>4, <2>5, <2>6
  <1> QED BY <1>8, <1>9, <1>10

\* Each turn of the loop doubles the place with the interval (lines 36-54 of
\* comp_engine.cpp): the bits written and those that wait lose nothing.
LEMMA ShiftMoves ==
  ASSUME NEW e, Fitting(e), Proper(e), ~Settled(e), e.ok,
         NEW f, f = EncoderShift(e), f.ok, NEW offset, Shift(e, offset)
  PROVE  Moved(e, f, offset)
  <1>1. PICK q \in Nat \ {0}, h \in Nat : kFirstQtr = q /\ kHalf = h /\ h = 2 * q
    <2>1. PICK q \in Nat \ {0} : kFirstQtr = q /\ kHalf = 2 * q
      BY QuarterIs
    <2>2. 2 * q \in Nat
      OBVIOUS
    <2> QED BY <2>1, <2>2
  <1>2. PICK l \in Nat : l = e.low /\ e.high \in Nat /\ l <= e.high
    BY DEF Proper
  <1>3. PICK k \in Nat : k = Waiting(e)
    BY PlaceIs
  <1>4. PICK x \in Nat : x = k * h
    <2>1. k * h \in Nat
      OBVIOUS
    <2> QED BY <2>1
  <1>5. Place(e) = x + l
    BY <1>1, <1>2, <1>3, <1>4 DEF Place
  <1>6. (2 * (k + 0)) * h = 2 * x /\ (2 * (k + 1)) * h = 2 * x + 2 * h /\ (2 * k + 1) * h = 2 * x + h
    <2>1. \A a, b \in Nat : /\ (2 * (a + 0)) * b = 2 * (a * b)
                            /\ (2 * (a + 1)) * b = 2 * (a * b) + 2 * b
                            /\ (2 * a + 1) * b = 2 * (a * b) + b
      BY Z3
    <2> QED BY <1>4, <2>1
  <1>7. CASE e.high < kHalf
    <2>1. offset = 0 /\ ~(e.low >= kHalf)
      BY <1>1, <1>2, <1>7 DEF Shift
    <2>2. f = Halfway(e, 0, offset)
      BY <1>7, <2>1 DEF EncoderShift
    <2>3. /\ f.low = 2 * (e.low - offset) /\ f.high = 2 * (e.high - offset) + 1
          /\ Reach(f) = Reach(e) + 1
          /\ Waiting(f) = 2 * (Waiting(e) + 0)
      <3>1. Opposite(0, 1)
        BY DEF Opposite
      <3> QED BY <2>2, <3>1, HalfwayMoves
    <2>4. Place(f) = 2 * x + 2 * (l - 0)
      BY <1>1, <1>2, <1>3, <1>6, <2>1, <2>3 DEF Place
    <2>5. Place(f) = 2 * Place(e)
      BY <1>5, <2>4
    <2> QED BY <2>3, <2>5 DEF Moved
  <1>8. CASE ~(e.high < kHalf) /\ e.low >= kHalf
    <2>1. offset = kHalf
      BY <1>8 DEF Shift
    <2>2. f = Halfway(e, 1, offset)
      BY <1>8, <2>1 DEF EncoderShift
    <2>3. /\ f.low = 2 * (e.low - offset) /\ f.high = 2 * (e.high - offset) + 1
          /\ Reach(f) = Reach(e) + 1
          /\ Waiting(f) = 2 * (Waiting(e) + 1)
      <3>1. Opposite(1, 0)
        BY DEF Opposite
      <3> QED BY <2>2, <3>1, HalfwayMoves
    <2>4. Place(f) = (2 * x + 2 * h) + 2 * (l - h)
      BY <1>1, <1>2, <1>3, <1>6, <2>1, <2>3 DEF Place
    <2>5. Place(f) = 2 * Place(e)
      BY <1>5, <2>4
    <2> QED BY <2>3, <2>5 DEF Moved
  <1>9. CASE ~(e.high < kHalf) /\ ~(e.low >= kHalf)
    <2>1. offset = kFirstQtr
      BY <1>9 DEF Shift
    <2>2. f = Doubled([e EXCEPT !.follow = @ + 1], kFirstQtr)
      BY <1>9 DEF EncoderShift
    <2>3. /\ f.low = 2 * (e.low - offset) /\ f.high = 2 * (e.high - offset) + 1
          /\ Reach(f) = Reach(e) + 1
          /\ Waiting(f) = 2 * Waiting(e) + 1
      BY <2>1, <2>2, MiddleMoves
    <2>4. Place(f) = (2 * x + h) + 2 * (l - q)
      BY <1>1, <1>2, <1>3, <1>6, <2>1, <2>3 DEF Place
    <2>5. Place(f) = 2 * Place(e)
      BY <1>1, <1>5, <2>4
    <2> QED BY <2>3, <2>5 DEF Moved
  <1> QED BY <1>7, <1>8, <1>9

-----------------------------------------------------------------------------
(***************************************************************************)
(* What the decoder has read of a stream.                                  *)
(***************************************************************************)
BitOf(s, i) == IF i < Len(s) THEN s[i + 1] ELSE 0

FirstBits(s, p) == [i \in 1..p |-> BitOf(s, i - 1)]

\* The number that the first bits are, behind the end zeros.
ReadOf(s, p) == Number(FirstBits(s, p))

Streaming(s) == s \in Seq({0, 1})

LEMMA BitOfIs ==
  ASSUME NEW s, Streaming(s), NEW i \in Nat
  PROVE  BitOf(s, i) \in {0, 1}
  <1>1. CASE i < Len(s)
    <2>1. i + 1 \in 1..Len(s)
      BY <1>1 DEF Streaming
    <2>2. s[i + 1] \in {0, 1}
      BY <2>1, ElementOfSeq DEF Streaming
    <2> QED BY <1>1, <2>2 DEF BitOf
  <1>2. CASE ~(i < Len(s))
    BY <1>2 DEF BitOf
  <1> QED BY <1>1, <1>2

LEMMA FirstBitsAre ==
  ASSUME NEW s, Streaming(s), NEW p \in Nat
  PROVE  /\ FirstBits(s, p) \in Seq({0, 1}) /\ Len(FirstBits(s, p)) = p
         /\ \A i \in 1..p : FirstBits(s, p)[i] = BitOf(s, i - 1)
  <1>1. PICK first : first = FirstBits(s, p)
    OBVIOUS
  <1>2. \A i \in 1..p : first[i] = BitOf(s, i - 1)
    BY <1>1 DEF FirstBits
  <1>3. \A i \in 1..p : first[i] \in {0, 1}
    <2> SUFFICES ASSUME NEW i \in 1..p PROVE first[i] \in {0, 1}
      OBVIOUS
    <2>1. i - 1 \in Nat
      OBVIOUS
    <2> QED BY <1>2, <2>1, BitOfIs
  <1>4. first \in [1..p -> {0, 1}] /\ DOMAIN first = 1..p
    <2>1. DOMAIN first = 1..p /\ first = [i \in 1..p |-> first[i]]
      BY <1>1 DEF FirstBits
    <2> QED BY <1>3, <2>1
  <1>5. first \in Seq({0, 1})
    BY <1>4, SeqDef
  <1>6. Len(first) = p
    BY <1>4, <1>5, LenProperties
  <1> QED BY <1>1, <1>2, <1>5, <1>6

LEMMA ReadGrows ==
  ASSUME NEW s, Streaming(s), NEW p \in Nat
  PROVE  /\ ReadOf(s, p) \in Nat /\ BitOf(s, p) \in {0, 1}
         /\ ReadOf(s, p + 1) = 2 * ReadOf(s, p) + BitOf(s, p)
  <1>1. PICK b \in {0, 1} : b = BitOf(s, p)
    BY BitOfIs
  <1>2. PICK first \in Seq({0, 1}) :
            /\ first = FirstBits(s, p) /\ Len(first) = p
            /\ \A i \in 1..p : first[i] = BitOf(s, i - 1)
    BY FirstBitsAre, Zenon
  <1>3. PICK next \in Seq({0, 1}) :
            /\ next = FirstBits(s, p + 1) /\ Len(next) = p + 1
            /\ \A i \in 1..(p + 1) : next[i] = BitOf(s, i - 1)
    <2>1. PICK r \in Nat : r = p + 1
      OBVIOUS
    <2>2. \E next \in Seq({0, 1}) :
            /\ next = FirstBits(s, r) /\ Len(next) = r
            /\ \A i \in 1..r : next[i] = BitOf(s, i - 1)
      BY FirstBitsAre, Zenon
    <2> QED BY <2>1, <2>2
  <1>4. PICK more \in Seq({0, 1}) :
            /\ more = Append(first, b) /\ Len(more) = p + 1
            /\ \A i \in 1..p : more[i] = first[i]
            /\ more[p + 1] = b
    <2>1. /\ Append(first, b) \in Seq({0, 1}) /\ Len(Append(first, b)) = Len(first) + 1
          /\ \A i \in 1..Len(first) : Append(first, b)[i] = first[i]
          /\ Append(first, b)[Len(first) + 1] = b
      BY AppendProperties
    <2>2. Len(first) = p
      BY <1>2
    <2> QED BY <2>1, <2>2
  <1>5. next = more
    <2>1. \A i \in 1..(p + 1) : next[i] = more[i]
      <3> SUFFICES ASSUME NEW i \in 1..(p + 1) PROVE next[i] = more[i]
        OBVIOUS
      <3>1. CASE i \in 1..p
        BY <1>2, <1>3, <1>4, <3>1
      <3>2. CASE i = p + 1
        <4>1. next[i] = BitOf(s, (p + 1) - 1) /\ (p + 1) - 1 = p
          BY <1>3, <3>2
        <4> QED BY <1>1, <1>4, <3>2, <4>1
      <3> QED BY <3>1, <3>2
    <2>2. Len(next) = Len(more) /\ \A i \in 1..Len(next) : next[i] = more[i]
      BY <1>3, <1>4, <2>1
    <2> QED BY <2>2, SeqEqual
  <1>6. Number(first) \in Nat /\ Number(Append(first, b)) = 2 * Number(first) + b
    BY NumberGrows
  <1> QED BY <1>1, <1>2, <1>3, <1>4, <1>5, <1>6 DEF ReadOf

\* The value that init takes in.
LEMMA FirstIsSubSeq ==
  ASSUME NEW s, Streaming(s), NEW p \in Nat, p <= Len(s)
  PROVE  SubSeq(s, 1, p) = FirstBits(s, p)
  <1>1. PICK n \in Nat : n = Len(s) /\ p <= n
    <2>1. Len(s) \in Nat
      BY DEF Streaming
    <2> QED BY <2>1
  <1>2. PICK first \in Seq({0, 1}) :
            /\ first = FirstBits(s, p) /\ Len(first) = p
            /\ \A i \in 1..p : first[i] = BitOf(s, i - 1)
    BY FirstBitsAre, Zenon
  <1>3. \A i \in 1..p : s[i] \in {0, 1}
    <2> SUFFICES ASSUME NEW i \in 1..p PROVE s[i] \in {0, 1}
      OBVIOUS
    <2>1. i \in 1..Len(s)
      BY <1>1
    <2> QED BY <2>1, ElementOfSeq DEF Streaming
  <1>4. PICK sub : sub = SubSeq(s, 1, p)
    OBVIOUS
  <1>5. sub \in Seq({0, 1}) /\ Len(sub) = p /\ \A i \in 1..p : sub[i] = s[i]
    <2>1. /\ sub \in Seq({0, 1}) /\ Len(sub) = IF 1 <= p THEN p - 1 + 1 ELSE 0
          /\ \A i \in 1..(p - 1 + 1) : sub[i] = s[1 + i - 1]
      BY <1>3, <1>4, SubSeqProperties
    <2>2. Len(sub) = p
      BY <2>1
    <2>3. \A i \in 1..p : i \in 1..(p - 1 + 1) /\ 1 + i - 1 = i
      OBVIOUS
    <2> QED BY <2>1, <2>2, <2>3
  <1>6. \A i \in 1..p : sub[i] = first[i]
    <2> SUFFICES ASSUME NEW i \in 1..p PROVE sub[i] = first[i]
      OBVIOUS
    <2>1. i - 1 < Len(s) /\ (i - 1) + 1 = i
      BY <1>1
    <2>2. BitOf(s, i - 1) = s[i]
      BY <2>1 DEF BitOf
    <2> QED BY <1>2, <1>5, <2>2
  <1>7. sub = first
    <2>1. Len(sub) = Len(first) /\ \A i \in 1..Len(sub) : sub[i] = first[i]
      BY <1>2, <1>5, <1>6
    <2> QED BY <1>2, <1>5, <2>1, SeqEqual
  <1> QED BY <1>2, <1>4, <1>7

\* The stream leads into the encoder's interval.
Within(e, s) ==
    /\ Place(e) <= ReadOf(s, Reach(e))
    /\ ReadOf(s, Reach(e)) <= Place(e) + (e.high - e.low)

\* The decoder has the encoder's interval, and its value is where the stream is in it.
Tracks(d, e, s) ==
    /\ d.low = e.low /\ d.high = e.high /\ d.pos = Reach(e)
    /\ (d.value - d.low) + Place(e) = ReadOf(s, Reach(e))

\* A turn in numbers: what it takes off, the interval, its place, how far the decoder
\* has read, what it has read and the bit that comes.
Turning(e, f, s, o, l, h, p, r, n, b) ==
    /\ o \in Nat /\ l \in Nat /\ h \in Nat /\ p \in Nat /\ r \in Nat /\ n \in Nat /\ b \in {0, 1}
    /\ o = Offset(e) /\ o <= l /\ l <= h
    /\ l = e.low /\ h = e.high /\ p = Place(e) /\ r = Reach(e) /\ n = ReadOf(s, r)
    /\ b = BitOf(s, r)
    /\ f.low = 2 * (l - o) /\ f.high = 2 * (h - o) + 1
    /\ Place(f) = 2 * p /\ Reach(f) = r + 1 /\ ReadOf(s, Reach(f)) = 2 * n + b

LEMMA MovedIs ==
  ASSUME NEW e, Fitting(e), Proper(e), ~Settled(e), e.ok, NEW f, f = EncoderShift(e), f.ok,
         NEW s, Streaming(s)
  PROVE  \E o, l, h, p, r, n, b : Turning(e, f, s, o, l, h, p, r, n, b)
  <1>1. PICK offset : offset = Offset(e) /\ Shift(e, offset)
    BY OffsetIs
  <1>2. Moved(e, f, offset)
    BY <1>1, ShiftMoves
  <1>3. PICK o \in Nat, l \in Nat, h \in Nat : o = offset /\ l = e.low /\ h = e.high /\ o <= l /\ l <= h
    <2>1. e \in Encoders \cup Decoders
      BY DEF Fitting
    <2>2. offset \in Nat /\ offset <= e.low
      BY <1>1, <2>1, DoubledIs
    <2> QED BY <2>2 DEF Proper
  <1>4. PICK p \in Nat, r \in Nat : p = Place(e) /\ r = Reach(e)
    BY PlaceIs
  <1>5. PICK n \in Nat, b \in {0, 1} : n = ReadOf(s, r) /\ b = BitOf(s, r) /\ ReadOf(s, r + 1) = 2 * n + b
    BY ReadGrows
  <1>6. /\ f.low = 2 * (l - o) /\ f.high = 2 * (h - o) + 1
        /\ Place(f) = 2 * p /\ Reach(f) = r + 1 /\ ReadOf(s, Reach(f)) = 2 * n + b
    BY <1>2, <1>3, <1>4, <1>5 DEF Moved
  <1>7. Turning(e, f, s, o, l, h, p, r, n, b)
    BY <1>1, <1>3, <1>4, <1>5, <1>6 DEF Turning
  <1> QED BY <1>7

\* A stream that leads into the doubled interval led into the interval.
LEMMA WithinBefore ==
  ASSUME NEW e, Fitting(e), Proper(e), ~Settled(e), e.ok, NEW f, f = EncoderShift(e), f.ok,
         NEW s, Streaming(s), Within(f, s)
  PROVE  Within(e, s)
  <1>1. PICK o, l, h, p, r, n, b : Turning(e, f, s, o, l, h, p, r, n, b)
    BY MovedIs
  <1>2. 2 * p <= 2 * n + b /\ 2 * n + b <= 2 * p + ((2 * (h - o) + 1) - 2 * (l - o))
    BY <1>1 DEF Within, Turning
  <1>3. p <= n /\ n <= p + (h - l)
    BY <1>1, <1>2 DEF Turning
  <1> QED BY <1>1, <1>3 DEF Within, Turning

\* The decoder doubles with the encoder (lines 36-54 and 116-138 of comp_engine.cpp).
LEMMA TracksNext ==
  ASSUME NEW e, Fitting(e), Proper(e), ~Settled(e), e.ok, NEW f, f = EncoderShift(e), f.ok,
         StreamIsBits, NEW d, Inside(d), Tracks(d, e, stream)
  PROVE  ~Settled(d) /\ Tracks(DoubledIn(d, Offset(d)), f, stream)
  <1>1. Streaming(stream)
    BY DEF StreamIsBits, Streaming
  <1>2. PICK o, l, h, p, r, n, b : Turning(e, f, stream, o, l, h, p, r, n, b)
    BY <1>1, MovedIs
  <1> USE DEF Turning
  <1>3. PICK v \in Nat : v = d.value /\ d.low = l /\ d.high = h /\ d.pos = r /\ (v - l) + p = n
    BY <1>2 DEF Tracks, Inside, Decoders
  <1>4. ~Settled(d)
    BY <1>2, <1>3 DEF Settled, InMiddle
  <1>5. Offset(d) = o
    BY <1>2, <1>3 DEF Offset
  <1>6. BitAt(r) = b
    BY <1>2 DEF BitAt, BitOf
  <1>7. PICK g : g = DoubledIn(d, Offset(d))
    OBVIOUS
  <1>8. /\ g.low = 2 * (d.low - Offset(d)) /\ g.high = 2 * (d.high - Offset(d)) + 1
        /\ g.value = 2 * (d.value - Offset(d)) + BitAt(d.pos) /\ g.pos = d.pos + 1
    BY <1>4, <1>7, DoubledInIs
  <1>9. /\ g.low = 2 * (l - o) /\ g.high = 2 * (h - o) + 1
        /\ g.value = 2 * (v - o) + b /\ g.pos = r + 1
    BY <1>3, <1>5, <1>6, <1>8
  <1>10. ((2 * (v - o) + b) - 2 * (l - o)) + 2 * p = 2 * n + b
    BY <1>2, <1>3
  <1>11. Tracks(g, f, stream)
    BY <1>2, <1>9, <1>10 DEF Tracks
  <1> QED BY <1>4, <1>7, <1>11

\* If the loop ends without a failed write, and the stream leads into the interval
\* it ends with, no turn failed and the stream led into every interval.
LEMMA TurnsWithin ==
  ASSUME NEW e, NEW turn, EncoderTurns(turn, e), EncoderSettled(e).ok,
         NEW s, Streaming(s), Within(EncoderSettled(e), s)
  PROVE  \A i \in 0..Width : turn[i].ok /\ Within(turn[i], s)
  <1>1. PICK w \in Nat : w = Width
    BY CoderAssumption
  <1>2. /\ turn[w] = EncoderSettled(e)
        /\ \A i \in 0..w : Fitting(turn[i]) /\ Proper(turn[i])
        /\ \A i \in 1..w : turn[i] = EncoderTurn(turn[i - 1])
    BY <1>1 DEF EncoderTurns
  <1> DEFINE T == {j \in Nat : j <= w => turn[w - j].ok /\ Within(turn[w - j], s)}
  <1>3. 0 \in T
    BY <1>2
  <1>4. ASSUME NEW j \in Nat, j \in T PROVE j + 1 \in T
    <2> SUFFICES ASSUME j + 1 <= w PROVE turn[w - (j + 1)].ok /\ Within(turn[w - (j + 1)], s)
      OBVIOUS
    <2>1. w - j \in 1..w /\ w - (j + 1) \in 0..w /\ (w - j) - 1 = w - (j + 1)
      OBVIOUS
    <2>2. PICK f : f = turn[w - (j + 1)] /\ Fitting(f) /\ Proper(f)
      BY <1>2, <2>1
    <2>3. PICK g : g = turn[w - j] /\ g = EncoderTurn(f) /\ g.ok /\ Within(g, s)
      <3>1. turn[w - j] = EncoderTurn(f)
        BY <1>2, <2>1, <2>2
      <3>2. turn[w - j].ok /\ Within(turn[w - j], s)
        BY <1>4, <2>1
      <3> QED BY <3>1, <3>2
    <2>4. CASE Settled(f) \/ ~f.ok
      <3>1. g = f
        BY <2>3, <2>4 DEF EncoderTurn
      <3> QED BY <2>2, <2>3, <3>1
    <2>5. CASE ~(Settled(f) \/ ~f.ok)
      <3>1. g = EncoderShift(f)
        BY <2>3, <2>5 DEF EncoderTurn
      <3>2. Within(f, s)
        BY <2>2, <2>3, <2>5, <3>1, WithinBefore
      <3> QED BY <2>2, <2>5, <3>2
    <2> QED BY <2>4, <2>5
  <1>5. \A j \in Nat : j \in T
    <2> HIDE DEF T
    <2> QED BY <1>3, <1>4, Induct
  <1>6. ASSUME NEW i \in 0..w PROVE turn[i].ok /\ Within(turn[i], s)
    <2>1. w - i \in Nat /\ w - i <= w /\ w - (w - i) = i
      OBVIOUS
    <2>2. w - i \in T
      BY <1>5, <2>1
    <2>3. turn[w - (w - i)].ok /\ Within(turn[w - (w - i)], s)
      BY <2>1, <2>2
    <2> QED BY <2>1, <2>3
  <1> QED BY <1>1, <1>6

LEMMA SettledWithin ==
  ASSUME NEW e, Fitting(e), Proper(e), EncoderSettled(e).ok,
         NEW s, Streaming(s), Within(EncoderSettled(e), s)
  PROVE  e.ok /\ Within(e, s)
  <1>1. PICK turn : EncoderTurns(turn, e)
    BY EncoderTurnsAre
  <1>2. turn[0] = e /\ 0 \in 0..Width
    BY <1>1, CoderAssumption DEF EncoderTurns
  <1>3. turn[0].ok /\ Within(turn[0], s)
    BY <1>1, <1>2, TurnsWithin
  <1> QED BY <1>2, <1>3

\* The two loops turn together.
LEMMA SettledTracks ==
  ASSUME NEW e, Fitting(e), Proper(e), EncoderSettled(e).ok,
         StreamIsBits, Within(EncoderSettled(e), stream),
         NEW d, Inside(d), Tracks(d, e, stream)
  PROVE  Tracks(DecoderSettled(d), EncoderSettled(e), stream)
  <1>1. Streaming(stream)
    BY DEF StreamIsBits, Streaming
  <1>2. PICK w \in Nat : w = Width
    BY CoderAssumption
  <1>3. PICK x : EncoderTurns(x, e)
    BY EncoderTurnsAre
  <1>4. PICK y : DecoderTurns(y, d)
    BY DecoderTurnsAre
  <1>5. \A i \in 0..w : x[i].ok
    BY <1>1, <1>2, <1>3, TurnsWithin
  <1>6. /\ x[0] = e /\ x[w] = EncoderSettled(e)
        /\ \A i \in 0..w : Fitting(x[i]) /\ Proper(x[i])
        /\ \A i \in 1..w : x[i] = EncoderTurn(x[i - 1])
    BY <1>2, <1>3 DEF EncoderTurns
  <1>7. /\ y[0] = d /\ y[w] = DecoderSettled(d)
        /\ \A i \in 0..w : Inside(y[i])
        /\ \A i \in 1..w : y[i] = DecoderTurn(y[i - 1])
    BY <1>2, <1>4 DEF DecoderTurns
  <1> DEFINE T == {i \in Nat : i <= w => Tracks(y[i], x[i], stream)}
  <1>8. 0 \in T
    BY <1>6, <1>7
  <1>9. ASSUME NEW i \in Nat, i \in T PROVE i + 1 \in T
    <2> SUFFICES ASSUME i + 1 <= w PROVE Tracks(y[i + 1], x[i + 1], stream)
      OBVIOUS
    <2>1. i + 1 \in 1..w /\ (i + 1) - 1 = i /\ i \in 0..w /\ i + 1 \in 0..w
      OBVIOUS
    <2>2. PICK f : f = x[i] /\ Fitting(f) /\ Proper(f) /\ f.ok
      BY <1>5, <1>6, <2>1
    <2>3. PICK g : g = y[i] /\ Inside(g) /\ Tracks(g, f, stream)
      BY <1>7, <1>9, <2>1, <2>2
    <2>4. x[i + 1] = EncoderTurn(f) /\ y[i + 1] = DecoderTurn(g) /\ x[i + 1].ok
      BY <1>5, <1>6, <1>7, <2>1, <2>2, <2>3
    <2>5. CASE Settled(f)
      <3>1. Settled(g)
        BY <2>3, <2>5 DEF Tracks, Settled, InMiddle
      <3>2. x[i + 1] = f /\ y[i + 1] = g
        BY <2>4, <2>5, <3>1 DEF EncoderTurn, DecoderTurn
      <3> QED BY <2>3, <3>2
    <2>6. CASE ~Settled(f)
      <3>1. x[i + 1] = EncoderShift(f)
        BY <2>2, <2>4, <2>6 DEF EncoderTurn
      <3>2. ~Settled(g) /\ Tracks(DoubledIn(g, Offset(g)), EncoderShift(f), stream)
        BY <2>2, <2>3, <2>4, <2>6, <3>1, TracksNext
      <3>3. y[i + 1] = DoubledIn(g, Offset(g))
        BY <2>4, <3>2 DEF DecoderTurn
      <3> QED BY <3>1, <3>2, <3>3
    <2> QED BY <2>5, <2>6
  <1>10. \A i \in Nat : i \in T
    <2> HIDE DEF T
    <2> QED BY <1>8, <1>9, Induct
  <1>11. Tracks(y[w], x[w], stream)
    BY <1>10
  <1> QED BY <1>6, <1>7, <1>11

-----------------------------------------------------------------------------
(***************************************************************************)
(* The decoder finds the encoder's symbol.                                 *)
(***************************************************************************)
LEMMA Increasing ==
  ASSUME NEW n \in Nat, NEW f \in [0..n -> Nat], \A i \in 0..(n - 1) : f[i] <= f[i + 1]
  PROVE  \A i, j \in 0..n : i <= j => f[i] <= f[j]
  <1> SUFFICES ASSUME NEW i \in 0..n PROVE \A j \in 0..n : i <= j => f[i] <= f[j]
    OBVIOUS
  <1> DEFINE T == {j \in Nat : i <= j /\ j <= n => f[i] <= f[j]}
  <1>1. 0 \in T
    OBVIOUS
  <1>2. ASSUME NEW j \in Nat, j \in T PROVE j + 1 \in T
    <2> SUFFICES ASSUME i <= j + 1, j + 1 <= n PROVE f[i] <= f[j + 1]
      OBVIOUS
    <2>1. CASE i = j + 1
      BY <2>1
    <2>2. CASE i <= j
      <3>1. f[i] <= f[j] /\ j \in 0..(n - 1)
        BY <1>2, <2>2
      <3>2. f[i] \in Nat /\ f[j] \in Nat /\ f[j + 1] \in Nat /\ f[j] <= f[j + 1]
        BY <3>1
      <3> QED BY <3>1, <3>2
    <2> QED BY <2>1, <2>2
  <1>3. \A j \in Nat : j \in T
    <2> HIDE DEF T
    <2> QED BY <1>1, <1>2, Induct
  <1> QED BY <1>3

LEMMA DivideGrows ==
  ASSUME NEW m \in Nat \ {0}, NEW a \in Nat, NEW b \in Nat, a <= b
  PROVE  a \div m <= b \div m
  <1>1. PICK x \in Nat : x = a \div m /\ m * x <= a
    BY QuotientIs
  <1>2. PICK y \in Nat : y = b \div m /\ b < m * (y + 1)
    BY QuotientIs
  <1>3. m * x \in Nat /\ m * (y + 1) \in Nat
    OBVIOUS
  <1>4. m * x < m * (y + 1)
    BY <1>1, <1>2, <1>3
  <1>5. x < y + 1
    BY <1>4, Monotone
  <1> QED BY <1>1, <1>2, <1>5

\* The parts of two symbols have nothing in common.
LEMMA PartsDisjoint ==
  ASSUME NEW x \in Encoders \cup Decoders, Proper(x), Settled(x), NEW m, Good(m),
         NEW s \in Symbol, NEW t \in Symbol, s < t
  PROVE  Narrowed(x, get_stats(m, s)).high < Narrowed(x, get_stats(m, t)).low
  <1>1. PICK n \in Nat \ {0} : n = kAlphabetSize /\ Symbol = 0..(n - 1)
    BY ContextModelAssumption DEF Symbol
  <1>2. PICK sum \in [0..n -> Nat], total \in Nat \ {0} :
            \A i \in Symbol :
               /\ get_stats(m, i) = [low |-> sum[i], high |-> sum[i + 1], total |-> total]
               /\ sum[i] < sum[i + 1]
    <2>1. PICK sum \in [0..kAlphabetSize -> Nat], total \in Nat :
              /\ total >= 1
              /\ \A i \in Symbol :
                    /\ get_stats(m, i) = [low |-> sum[i], high |-> sum[i + 1], total |-> total]
                    /\ sum[i] < sum[i + 1]
      BY StatsAre
    <2>2. sum \in [0..n -> Nat] /\ total \in Nat \ {0}
      BY <1>1, <2>1
    <2> QED BY <2>1, <2>2
  <1>3. sum[s + 1] <= sum[t]
    <2>1. \A i \in 0..(n - 1) : sum[i] <= sum[i + 1]
      <3> SUFFICES ASSUME NEW i \in 0..(n - 1) PROVE sum[i] <= sum[i + 1]
        OBVIOUS
      <3>1. sum[i] < sum[i + 1] /\ i \in 0..n /\ i + 1 \in 0..n
        BY <1>1, <1>2
      <3>2. sum[i] \in Nat /\ sum[i + 1] \in Nat
        BY <3>1
      <3> QED BY <3>1, <3>2
    <2>2. \A i, j \in 0..n : i <= j => sum[i] <= sum[j]
      BY <2>1, Increasing
    <2>3. s + 1 \in 0..n /\ t \in 0..n /\ s + 1 <= t
      BY <1>1
    <2> QED BY <2>2, <2>3
  <1>4. PICK range \in Nat, l \in Nat : range = (x.high - x.low) + 1 /\ l = x.low
    <2>1. PICK l \in Nat, h \in Nat : l = x.low /\ h = x.high /\ l <= h
      BY DEF Proper
    <2>2. (h - l) + 1 \in Nat
      BY <2>1
    <2> QED BY <2>1, <2>2
  <1>5. PICK a \in Nat, b \in Nat : a = range * sum[s + 1] /\ b = range * sum[t] /\ a <= b
    <2>1. s + 1 \in 0..n /\ t \in 0..n
      BY <1>1
    <2>2. PICK p \in Nat, q \in Nat : p = sum[s + 1] /\ q = sum[t] /\ p <= q
      BY <1>3, <2>1
    <2>3. range * p \in Nat /\ range * q \in Nat
      OBVIOUS
    <2>4. range * p <= range * q
      <3>1. \A i, j, k \in Nat : j <= k => i * j <= i * k
        BY Z3
      <3> QED BY <2>2, <3>1
    <2> QED BY <2>2, <2>3, <2>4
  <1>6. PICK u \in Nat, v \in Nat : u = a \div total /\ v = b \div total /\ u <= v
    <2>1. a \div total \in Nat /\ b \div total \in Nat
      BY QuotientIs
    <2>2. a \div total <= b \div total
      BY <1>5, DivideGrows
    <2> QED BY <2>1, <2>2
  <1>7. Narrowed(x, get_stats(m, s)).high = l + u - 1
    <2>1. PICK y : y = Narrowed(x, get_stats(m, s))
      OBVIOUS
    <2>2. y = [x EXCEPT
                 !.low = x.low + (((x.high - x.low) + 1) * get_stats(m, s).low) \div get_stats(m, s).total,
                 !.high = x.low + (((x.high - x.low) + 1) * get_stats(m, s).high) \div get_stats(m, s).total - 1]
      BY <2>1, NarrowedIs
    <2>5. get_stats(m, s).high = sum[s + 1] /\ get_stats(m, s).total = total
      BY <1>2
    <2>6. (((x.high - x.low) + 1) * get_stats(m, s).high) \div get_stats(m, s).total = u
      BY <1>4, <1>5, <1>6, <2>5, Zenon
    <2>3. \E low : y = [x EXCEPT !.low = low, !.high = l + u - 1]
      BY <1>4, <2>2, <2>6, Zenon
    <2>4. y.high = l + u - 1
      BY <2>3 DEF Encoders, Decoders
    <2> QED BY <2>1, <2>4
  <1>8. Narrowed(x, get_stats(m, t)).low = l + v
    <2>1. PICK y : y = Narrowed(x, get_stats(m, t))
      OBVIOUS
    <2>2. y = [x EXCEPT
                 !.low = x.low + (((x.high - x.low) + 1) * get_stats(m, t).low) \div get_stats(m, t).total,
                 !.high = x.low + (((x.high - x.low) + 1) * get_stats(m, t).high) \div get_stats(m, t).total - 1]
      BY <2>1, NarrowedIs
    <2>5. get_stats(m, t).low = sum[t] /\ get_stats(m, t).total = total
      BY <1>2
    <2>6. (((x.high - x.low) + 1) * get_stats(m, t).low) \div get_stats(m, t).total = v
      BY <1>4, <1>5, <1>6, <2>5, Zenon
    <2>3. \E high : y = [x EXCEPT !.low = l + v, !.high = high]
      BY <1>4, <2>2, <2>6, Zenon
    <2>4. y.low = l + v
      BY <2>3 DEF Encoders, Decoders
    <2> QED BY <2>1, <2>4
  <1> QED BY <1>6, <1>7, <1>8

\* Its part is in the interval.
LEMMA NarrowedWithin ==
  ASSUME NEW e, Fitting(e), Proper(e), Settled(e), NEW m, Good(m), NEW s \in Symbol,
         NEW n, n = Narrowed(e, get_stats(m, s)), NEW x, Streaming(x)
  PROVE  /\ Place(n) = Place(e) + (n.low - e.low) /\ Reach(n) = Reach(e)
         /\ Within(n, x) => Within(e, x)
  <1>1. /\ Fitting(n) /\ Proper(n) /\ n.out = e.out /\ n.follow = e.follow
        /\ e.low <= n.low /\ n.high <= e.high
    BY NarrowedFits
  <1>2. PICK l \in Nat, h \in Nat, a \in Nat, b \in Nat :
            l = e.low /\ h = e.high /\ a = n.low /\ b = n.high /\ l <= a /\ a <= b /\ b <= h
    BY <1>1 DEF Proper
  <1>3. Waiting(n) = Waiting(e) /\ Reach(n) = Reach(e)
    BY <1>1 DEF Waiting, Reach
  <1>4. PICK p \in Nat, r \in Nat : p = Place(e) /\ r = Reach(e)
    BY PlaceIs
  <1>5. PICK k \in Nat : k = Waiting(e) * kHalf
    <2>1. PICK q \in Nat \ {0} : kHalf = 2 * q
      BY QuarterIs
    <2>2. PICK w \in Nat : w = Waiting(e)
      BY PlaceIs
    <2>3. w * (2 * q) \in Nat
      OBVIOUS
    <2> QED BY <2>1, <2>2, <2>3
  <1>6. p = k + l /\ Place(n) = k + a
    BY <1>2, <1>3, <1>4, <1>5 DEF Place
  <1>7. PICK v \in Nat : v = ReadOf(x, r)
    BY ReadGrows
  <1>8. ASSUME Within(n, x) PROVE Within(e, x)
    <2>1. k + a <= v /\ v <= (k + a) + (b - a)
      BY <1>2, <1>3, <1>4, <1>6, <1>7, <1>8 DEF Within
    <2>2. p <= v /\ v <= p + (h - l)
      BY <1>2, <1>6, <2>1
    <2> QED BY <1>2, <1>4, <1>7, <2>2 DEF Within
  <1> QED BY <1>2, <1>3, <1>4, <1>6, <1>8

\* A decoder that tracks the encoder finds the symbol whose part the stream leads
\* into, and tracks it into that part (lines 105-114 of comp_engine.cpp).
LEMMA CodedIsNext ==
  ASSUME NEW e, Fitting(e), Proper(e), Settled(e), NEW m, Good(m), NEW s \in Symbol,
         NEW n, n = Narrowed(e, get_stats(m, s)), Within(n, stream),
         StreamIsBits, NEW d, Inside(d), Tracks(d, e, stream)
  PROVE  LET y == Narrowed(d, get_stats(m, s))
         IN  /\ SymbolAt(m, U16(Count(d, total_frequency(m)))) = s
             /\ Inside(y) /\ Tracks(y, n, stream)
  <1>1. /\ Fitting(n) /\ Proper(n) /\ n.out = e.out /\ n.follow = e.follow
        /\ e.low <= n.low /\ n.high <= e.high
    BY NarrowedFits
  <1>2. Streaming(stream)
    BY DEF StreamIsBits, Streaming
  <1>3. Place(n) = Place(e) + (n.low - e.low) /\ Reach(n) = Reach(e)
    BY <1>2, NarrowedWithin
  <1>4. PICK l \in Nat, a \in Nat, b \in Nat :
            l = e.low /\ a = n.low /\ b = n.high /\ l <= a /\ a <= b
    BY <1>1 DEF Proper
  <1>5. PICK p \in Nat, r \in Nat : p = Place(e) /\ r = Reach(e)
    BY PlaceIs
  <1>6. PICK c \in Nat : c = ReadOf(stream, r)
    BY <1>2, ReadGrows
  <1>7. PICK v \in Nat : v = d.value /\ d.low = l /\ d.high = e.high /\ d.pos = r /\ (v - l) + p = c
    BY <1>4, <1>5, <1>6 DEF Tracks, Inside, Decoders
  <1>8. a <= v /\ v <= b
    <2>1. p + (a - l) <= c /\ c <= (p + (a - l)) + (b - a)
      BY <1>3, <1>4, <1>5, <1>6 DEF Within
    <2> QED BY <1>4, <1>7, <2>1
  <1>9. d \in Decoders /\ d \in Encoders \cup Decoders /\ Proper(d) /\ Settled(d)
    BY <1>4, <1>7 DEF Inside, Settled, InMiddle
  <1>10. PICK y : y = Narrowed(d, get_stats(m, s))
    OBVIOUS
  <1>11. y.low = a /\ y.high = b /\ y.value = v /\ y.pos = r
    <2>1. e \in Encoders
      BY DEF Fitting
    <2> DEFINE range == e.high - e.low + 1
               low   == Wrapped(e.low + (range * get_stats(m, s).low) \div get_stats(m, s).total)
               high  == Wrapped(e.low + (range * get_stats(m, s).high) \div get_stats(m, s).total - 1)
    <2>2. n = [e EXCEPT !.low = low, !.high = high]
      BY DEF Narrowed
    <2>3. y = [d EXCEPT !.low = low, !.high = high]
      BY <1>4, <1>7, <1>10 DEF Narrowed
    <2> HIDE DEF low, high
    <2>4. n.low = low /\ n.high = high
      BY <2>1, <2>2 DEF Encoders
    <2>5. y.low = low /\ y.high = high /\ y.value = d.value /\ y.pos = d.pos
      BY <1>9, <2>3 DEF Decoders
    <2> QED BY <1>4, <1>7, <2>4, <2>5
  <1>12. PICK t : t = SymbolAt(m, U16(Count(d, total_frequency(m))))
    OBVIOUS
  <1>13. t \in Symbol /\ Inside(Narrowed(d, get_stats(m, t)))
    BY <1>9, <1>12, NextIs
  <1>14. PICK z : z = Narrowed(d, get_stats(m, t))
    OBVIOUS
  <1>15. z.low \in Nat /\ z.high \in Nat /\ z.low <= v /\ v <= z.high
    <2>1. z.low \in Nat /\ z.high \in Nat /\ z.low <= z.value /\ z.value <= z.high
      BY <1>13, <1>14 DEF Inside, Proper
    <2>2. \E low, high : z = [d EXCEPT !.low = low, !.high = high]
      BY <1>14 DEF Narrowed
    <2>3. z.value = v
      BY <1>7, <1>9, <2>2 DEF Decoders
    <2> QED BY <2>1, <2>3
  <1>16. t = s
    <2>1. s \in Nat /\ t \in Nat
      BY <1>13, ContextModelAssumption DEF Symbol
    <2>2. CASE t < s
      <3>1. z.high < y.low
        BY <1>9, <1>10, <1>13, <1>14, <2>2, PartsDisjoint
      <3> QED BY <1>8, <1>11, <1>15, <3>1
    <2>3. CASE s < t
      <3>1. y.high < z.low
        BY <1>9, <1>10, <1>13, <1>14, <2>3, PartsDisjoint
      <3> QED BY <1>8, <1>11, <1>15, <3>1
    <2> QED BY <2>1, <2>2, <2>3
  <1>17. Inside(y)
    BY <1>10, <1>13, <1>16
  <1>18. Tracks(y, n, stream)
    <2>1. (v - a) + (p + (a - l)) = c
      BY <1>4, <1>7
    <2> QED BY <1>3, <1>4, <1>5, <1>6, <1>11, <2>1 DEF Tracks
  <1> QED BY <1>10, <1>12, <1>16, <1>17, <1>18

-----------------------------------------------------------------------------
(***************************************************************************)
(* The end of the stream.                                                  *)
(***************************************************************************)
\* The stream reads as the bits written and zeros, also behind its end.
LEMMA PaddedReads ==
  ASSUME NEW out \in Seq({0, 1}), NEW k \in 0..Width
  PROVE  /\ Streaming(Padded(out))
         /\ ReadOf(Padded(out), Len(out) + k) = Number(out) * Power[k]
  <1>1. PICK n \in Nat : n = Len(out)
    BY LenProperties
  <1>2. PICK pad \in Nat : pad = (ByteBits - (n % ByteBits)) % ByteBits
    <2>1. PICK m \in Nat \ {0} : m = ByteBits
      BY CoderAssumption
    <2>2. (m - (n % m)) % m \in Nat
      <3>1. n % m \in 0..(m - 1)
        BY DivideIs
      <3>2. m - (n % m) \in Nat
        BY <3>1
      <3> QED BY <3>2, DivideIs
    <2> QED BY <2>1, <2>2
  <1>3. Padded(out) = Followed(out, 0, pad)
    BY <1>1, <1>2 DEF Padded, Followed
  <1>4. PICK s \in Seq({0, 1}) :
            /\ s = Padded(out) /\ Len(s) = n + pad
            /\ \A i \in 1..n : s[i] = out[i]
            /\ \A i \in (n + 1)..(n + pad) : s[i] = 0
    <2>1. PICK s : s = Followed(out, 0, pad) /\ Trailing(s, out, 0, pad)
      BY FollowedIs
    <2> QED BY <1>1, <1>3, <2>1 DEF Trailing
  <1>5. Streaming(s)
    BY <1>4 DEF Streaming
  <1>6. PICK w \in Nat : w = Width
    BY CoderAssumption
  <1>7. k \in Nat /\ n + k \in Nat
    BY <1>6
  <1>8. PICK p \in Nat : p = n + k
    BY <1>7
  <1>9. PICK first \in Seq({0, 1}) :
            /\ first = FirstBits(s, p) /\ Len(first) = p
            /\ \A i \in 1..p : first[i] = BitOf(s, i - 1)
    BY <1>5, FirstBitsAre, Zenon
  <1>10. PICK more \in Seq({0, 1}) :
            /\ more = Followed(out, 0, k) /\ Len(more) = n + k
            /\ \A i \in 1..n : more[i] = out[i]
            /\ \A i \in (n + 1)..(n + k) : more[i] = 0
    <2>1. PICK more : more = Followed(out, 0, k) /\ Trailing(more, out, 0, k)
      BY <1>7, FollowedIs
    <2> QED BY <1>1, <2>1 DEF Trailing
  <1>11. \A i \in 1..p : first[i] = more[i]
    <2> SUFFICES ASSUME NEW i \in 1..p PROVE first[i] = more[i]
      OBVIOUS
    <2>1. first[i] = IF i - 1 < n + pad THEN s[(i - 1) + 1] ELSE 0
      BY <1>4, <1>9 DEF BitOf
    <2>2. (i - 1) + 1 = i /\ i \in 1..(n + k)
      BY <1>8
    <2>3. CASE i <= n
      <3>1. i - 1 < n + pad /\ i \in 1..n
        BY <1>2, <2>3
      <3> QED BY <1>4, <1>10, <2>1, <2>2, <3>1
    <2>4. CASE i > n
      <3>1. i \in (n + 1)..(n + k)
        BY <1>7, <2>2, <2>4
      <3>2. more[i] = 0
        BY <1>10, <3>1
      <3>3. CASE i - 1 < n + pad
        <4>1. i \in (n + 1)..(n + pad)
          BY <2>4, <3>3
        <4> QED BY <1>4, <2>1, <2>2, <3>2, <3>3, <4>1
      <3>4. CASE ~(i - 1 < n + pad)
        BY <2>1, <3>2, <3>4
      <3> QED BY <3>3, <3>4
    <2> QED BY <2>3, <2>4
  <1>12. first = more
    <2>1. Len(first) = Len(more) /\ \A i \in 1..Len(first) : first[i] = more[i]
      BY <1>8, <1>9, <1>10, <1>11
    <2> QED BY <2>1, SeqEqual
  <1>13. Number(Followed(out, 0, k)) = Number(out) * Power[k]
    BY ZerosMultiply
  <1>14. ReadOf(s, p) = Number(out) * Power[k]
    BY <1>9, <1>10, <1>12, <1>13 DEF ReadOf
  <1> QED BY <1>1, <1>4, <1>5, <1>8, <1>14

\* The last bits lead into the second quarter or the upper half.
LEMMA FinalIs ==
  ASSUME NEW e, Fitting(e), Proper(e), e.ok, NEW w, w = Final(e), w.ok
  PROVE  /\ w.out \in Seq({0, 1}) /\ Len(w.out) + Width = Reach(e) + 2
         /\ Number(w.out) = IF e.low < kFirstQtr THEN 2 * Waiting(e) + 1
                            ELSE 2 * (Waiting(e) + 1)
  <1>1. PICK out \in Seq({0, 1}), k \in Nat : out = e.out /\ k = e.follow
    BY DEF Fitting, Encoders
  <1>2. PICK x : x = [e EXCEPT !.follow = @ + 1]
    OBVIOUS
  <1>3. x.out = out /\ x.follow = k + 1 /\ x.ok /\ Fitting(x)
    <2>1. e \in Encoders /\ Len(e.out) <= Capacity
      BY DEF Fitting
    <2>2. x.out = out /\ x.follow = k + 1 /\ x.ok = e.ok
      BY <1>1, <1>2, <2>1 DEF Encoders
    <2>3. x \in Encoders
      <3>1. k + 1 \in Nat /\ x = [e EXCEPT !.follow = k + 1]
        BY <1>1, <1>2
      <3> QED BY <2>1, <3>1 DEF Encoders
    <2> QED BY <1>1, <2>1, <2>2, <2>3 DEF Fitting
  <1>4. PICK n \in Nat, width \in Nat : n = Len(out) /\ width = Width
    <2>1. Len(out) \in Nat /\ Width \in Nat
      BY CoderAssumption
    <2> QED BY <2>1
  <1>5. Reach(e) = (n + k) + width
    BY <1>1, <1>4 DEF Reach
  <1>6. PICK wait \in Nat :
            /\ wait = Waiting(e) /\ wait = Number(Followed(Append(out, 0), 1, k))
            /\ Number(Followed(Append(out, 1), 0, k)) = wait + 1
    BY <1>1, Carried DEF Waiting
  <1>7. ASSUME NEW bit, NEW other, Opposite(bit, other), w = Emitted(x, bit)
        PROVE  /\ w.out = Append(Followed(Append(out, bit), other, k), other)
               /\ w.out \in Seq({0, 1}) /\ Len(w.out) = (n + 1) + (k + 1)
               /\ Number(w.out) = 2 * Number(Followed(Append(out, bit), other, k)) + other
    <2>1. PICK b \in {0, 1}, c \in {0, 1} : b = bit /\ c = other
      BY <1>7 DEF Opposite
    <2>2. /\ w.out = Followed(Append(out, bit), other, k + 1)
          /\ Len(w.out) = (n + 1) + (k + 1)
      <3>1. Whole(x, bit, other, w)
        BY <1>3, <1>7 DEF Whole
      <3>2. Writes(x, bit, other, w)
        BY <3>1, WholeWrites
      <3> QED BY <1>3, <1>4, <3>2 DEF Writes
    <2>3. PICK start \in Seq({0, 1}) : start = Append(out, b)
      BY AppendProperties
    <2>4. PICK all \in Seq({0, 1}) : all = Followed(start, c, k)
      BY FollowedIs
    <2>5. Followed(start, c, k + 1) = Append(all, c)
      <3>1. Followed(start, c, k + 1) = Append(Followed(start, c, k), c)
        <4>1. Grows(start, c, k)
          BY OneMore
        <4> QED BY <4>1 DEF Grows
      <3> QED BY <2>4, <3>1
    <2>6. Append(all, c) \in Seq({0, 1}) /\ Number(Append(all, c)) = 2 * Number(all) + c
      BY NumberGrows
    <2> QED BY <2>1, <2>2, <2>3, <2>4, <2>5, <2>6
  <1>8. CASE e.low < kFirstQtr
    <2>1. w = Emitted(x, 0) /\ Opposite(0, 1)
      BY <1>2, <1>8 DEF Final, Opposite
    <2>2. /\ w.out \in Seq({0, 1}) /\ Len(w.out) = (n + 1) + (k + 1)
          /\ Number(w.out) = 2 * Number(Followed(Append(out, 0), 1, k)) + 1
      BY <1>7, <2>1
    <2> QED BY <1>4, <1>5, <1>6, <1>8, <2>2
  <1>9. CASE ~(e.low < kFirstQtr)
    <2>1. w = Emitted(x, 1) /\ Opposite(1, 0)
      BY <1>2, <1>9 DEF Final, Opposite
    <2>2. /\ w.out \in Seq({0, 1}) /\ Len(w.out) = (n + 1) + (k + 1)
          /\ Number(w.out) = 2 * Number(Followed(Append(out, 1), 0, k)) + 0
      BY <1>7, <2>1
    <2>3. Number(w.out) = 2 * (wait + 1)
      BY <1>6, <2>2
    <2>4. Len(w.out) + Width = Reach(e) + 2
      BY <1>4, <1>5, <2>2
    <2> QED BY <1>6, <1>9, <2>2, <2>3, <2>4
  <1> QED BY <1>8, <1>9

\* The stream that flush writes leads into the interval (lines 60-75 of comp_engine.cpp).
LEMMA FlushWithin ==
  ASSUME NEW e, Fitting(e), Proper(e), Settled(e), e.ok, NEW w, w = Final(e), w.ok
  PROVE  Streaming(Padded(w.out)) /\ Within(e, Padded(w.out))
  <1>1. PICK q \in Nat \ {0} :
            kFirstQtr = q /\ kHalf = 2 * q /\ kThirdQtr = 3 * q /\ kTopValue = 4 * q - 1
    BY QuarterIs
  <1>2. PICK l \in Nat, h \in Nat : l = e.low /\ h = e.high
    BY DEF Proper
  <1>3. l < 2 * q /\ 2 * q <= h
    BY <1>1, <1>2 DEF Settled
  <1>4. PICK k \in Nat, r \in Nat : k = Waiting(e) /\ r = Reach(e)
    BY PlaceIs
  <1>5. PICK width \in Nat : width = Width /\ width > 2
    BY CoderAssumption
  <1>6. width - 2 \in 0..Width /\ Power[width - 2] = q
    BY <1>1, <1>5 DEF kFirstQtr
  <1>7. /\ w.out \in Seq({0, 1}) /\ Len(w.out) + width = r + 2
        /\ Number(w.out) = IF l < q THEN 2 * k + 1 ELSE 2 * (k + 1)
    BY <1>1, <1>2, <1>4, <1>5, FinalIs
  <1>8. PICK n \in Nat : n = Len(w.out)
    BY <1>7, LenProperties
  <1>9. n + (width - 2) = r
    BY <1>5, <1>7, <1>8
  <1>10. PICK s : s = Padded(w.out) /\ Streaming(s) /\ ReadOf(s, r) = Number(w.out) * q
    BY <1>6, <1>7, <1>8, <1>9, PaddedReads
  <1>11. PICK p \in Nat : p = k * (2 * q)
    <2>1. k * (2 * q) \in Nat
      OBVIOUS
    <2> QED BY <2>1
  <1>12. Place(e) = p + l
    BY <1>1, <1>2, <1>4, <1>11 DEF Place
  <1>13. (2 * k + 1) * q = p + q /\ (2 * (k + 1)) * q = p + 2 * q
    <2>1. \A i \in Nat, j \in Nat : (2 * i + 1) * j = i * (2 * j) + j /\ (2 * (i + 1)) * j = i * (2 * j) + 2 * j
      BY Z3
    <2> QED BY <1>11, <2>1
  <1>14. CASE l < q
    <2>1. ReadOf(s, r) = p + q
      BY <1>7, <1>10, <1>13, <1>14
    <2>2. p + l <= p + q /\ p + q <= (p + l) + (h - l)
      BY <1>3, <1>14
    <2> QED BY <1>2, <1>4, <1>10, <1>12, <2>1, <2>2 DEF Within
  <1>15. CASE ~(l < q)
    <2>1. ReadOf(s, r) = p + 2 * q
      BY <1>7, <1>10, <1>13, <1>15
    <2>2. p + l <= p + 2 * q /\ p + 2 * q <= (p + l) + (h - l)
      BY <1>3
    <2> QED BY <1>2, <1>4, <1>10, <1>12, <2>1, <2>2 DEF Within
  <1> QED BY <1>14, <1>15

-----------------------------------------------------------------------------
(***************************************************************************)
(* A message through the coder.                                            *)
(***************************************************************************)
Steady(e) == Fitting(e) /\ Proper(e) /\ Settled(e) /\ e.ok

\* encode_symbol in a state of the encoder and the model.
Coded(e, m, s) == EncoderSettled(Narrowed(e, get_stats(m, s)))

\* The states of the encoder and of the model after each symbol of the message.
Encoded(E, M, symbols) ==
    /\ E[0] = NewEncoder /\ M[0] = FreshModel
    /\ \A k \in 0..Len(symbols) : Steady(E[k]) /\ Good(M[k])
    /\ \A k \in 1..Len(symbols) :
          E[k] = Coded(E[k - 1], M[k - 1], symbols[k]) /\ M[k] = Updated(M[k - 1], symbols[k])

\* The states that a message leads to.
Leads(symbols, e, m) ==
    \E E, M : Encoded(E, M, symbols) /\ e = E[Len(symbols)] /\ m = M[Len(symbols)]

LEMMA NothingLeads == Leads(<<>>, NewEncoder, FreshModel)
  <1>1. PICK E, M : E = [k \in {0} |-> NewEncoder] /\ M = [k \in {0} |-> FreshModel]
    OBVIOUS
  <1>2. E[0] = NewEncoder /\ M[0] = FreshModel
    BY <1>1
  <1>3. Steady(NewEncoder) /\ Good(FreshModel)
    BY NewAreSettled, FreshIsGood DEF Steady
  <1>4. Len(<<>>) = 0 /\ \A k \in 0..0 : k = 0
    OBVIOUS
  <1>5. \A k \in 0..0 : Steady(E[k]) /\ Good(M[k])
    BY <1>2, <1>3, <1>4
  <1>6. Encoded(E, M, <<>>)
    BY <1>2, <1>4, <1>5 DEF Encoded
  <1> QED BY <1>2, <1>4, <1>6 DEF Leads

LEMMA OneMoreLeads ==
  ASSUME NEW symbols \in Seq(Symbol), NEW e, NEW m, Leads(symbols, e, m),
         NEW s \in Symbol, Coded(e, m, s).ok
  PROVE  Leads(Append(symbols, s), Coded(e, m, s), Updated(m, s))
  <1>1. PICK E, M : Encoded(E, M, symbols) /\ e = E[Len(symbols)] /\ m = M[Len(symbols)]
    BY DEF Leads
  <1>2. PICK n \in Nat : n = Len(symbols)
    BY LenProperties
  <1>3. PICK more \in Seq(Symbol) :
            /\ more = Append(symbols, s) /\ Len(more) = n + 1
            /\ \A k \in 1..n : more[k] = symbols[k]
            /\ more[n + 1] = s
    <2>1. /\ Append(symbols, s) \in Seq(Symbol) /\ Len(Append(symbols, s)) = Len(symbols) + 1
          /\ \A k \in 1..Len(symbols) : Append(symbols, s)[k] = symbols[k]
          /\ Append(symbols, s)[Len(symbols) + 1] = s
      BY AppendProperties
    <2> QED BY <1>2, <2>1
  <1>4. PICK f : f = Coded(e, m, s)
    OBVIOUS
  <1>5. PICK F, N :
            /\ F = [k \in 0..(n + 1) |-> IF k = n + 1 THEN f ELSE E[k]]
            /\ N = [k \in 0..(n + 1) |-> IF k = n + 1 THEN Updated(m, s) ELSE M[k]]
    OBVIOUS
  <1>6. /\ \A k \in 0..n : F[k] = E[k] /\ N[k] = M[k]
        /\ F[n + 1] = f /\ N[n + 1] = Updated(m, s)
    BY <1>5
  <1>7. /\ E[0] = NewEncoder /\ M[0] = FreshModel
        /\ \A k \in 0..n : Steady(E[k]) /\ Good(M[k])
        /\ \A k \in 1..n :
              E[k] = Coded(E[k - 1], M[k - 1], symbols[k]) /\ M[k] = Updated(M[k - 1], symbols[k])
        /\ e = E[n] /\ m = M[n]
    BY <1>1, <1>2 DEF Encoded
  <1>8. Steady(e) /\ Good(m)
    BY <1>7
  <1>9. Steady(f) /\ Good(Updated(m, s))
    <2>1. PICK x : x = Narrowed(e, get_stats(m, s))
      OBVIOUS
    <2>2. Fitting(x) /\ Proper(x)
      BY <1>8, <2>1, NarrowedFits DEF Steady
    <2>3. f = EncoderSettled(x) /\ f.ok
      BY <1>4, <2>1 DEF Coded
    <2>4. Steady(f)
      BY <2>2, <2>3, EncoderSettledIs DEF Steady
    <2> QED BY <1>8, <2>4, UpdatedIsGood
  <1>10. ASSUME NEW k \in 0..(n + 1) PROVE Steady(F[k]) /\ Good(N[k])
    <2>1. CASE k \in 0..n
      BY <1>6, <1>7, <2>1
    <2>2. CASE k = n + 1
      BY <1>6, <1>9, <2>2
    <2> QED BY <2>1, <2>2
  <1>11. ASSUME NEW k \in 1..(n + 1)
         PROVE  F[k] = Coded(F[k - 1], N[k - 1], more[k]) /\ N[k] = Updated(N[k - 1], more[k])
    <2>1. k - 1 \in 0..n
      OBVIOUS
    <2>2. F[k - 1] = E[k - 1] /\ N[k - 1] = M[k - 1]
      BY <1>6, <2>1
    <2>3. CASE k \in 1..n
      BY <1>3, <1>6, <1>7, <2>2, <2>3
    <2>4. CASE k = n + 1
      <3>1. k - 1 = n /\ F[k - 1] = e /\ N[k - 1] = m /\ more[k] = s
        BY <1>3, <1>7, <2>2, <2>4
      <3> QED BY <1>4, <1>6, <2>4, <3>1
    <2> QED BY <2>3, <2>4
  <1>12. Encoded(F, N, more)
    <2>1. F[0] = NewEncoder /\ N[0] = FreshModel
      BY <1>6, <1>7
    <2> QED BY <1>3, <1>10, <1>11, <2>1 DEF Encoded
  <1>13. f = F[Len(more)] /\ Updated(m, s) = N[Len(more)]
    BY <1>3, <1>6
  <1> QED BY <1>3, <1>4, <1>12, <1>13 DEF Leads

\* A stream that leads into the last interval leads into all before it.
LEMMA AllWithin ==
  ASSUME NEW symbols \in Seq(Symbol), NEW E, NEW M, Encoded(E, M, symbols),
         NEW x, Streaming(x), Within(E[Len(symbols)], x)
  PROVE  \A k \in 0..Len(symbols) : Within(E[k], x)
  <1>1. PICK n \in Nat : n = Len(symbols)
    BY LenProperties
  <1>2. /\ \A k \in 0..n : Steady(E[k]) /\ Good(M[k])
        /\ \A k \in 1..n : E[k] = Coded(E[k - 1], M[k - 1], symbols[k])
        /\ \A k \in 1..n : symbols[k] \in Symbol
    <2>1. \A k \in 1..n : symbols[k] \in Symbol
      BY <1>1, ElementOfSeq
    <2> QED BY <1>1, <2>1 DEF Encoded
  <1> DEFINE T == {j \in Nat : j <= n => Within(E[n - j], x)}
  <1>3. 0 \in T
    BY <1>1
  <1>4. ASSUME NEW j \in Nat, j \in T PROVE j + 1 \in T
    <2> SUFFICES ASSUME j + 1 <= n PROVE Within(E[n - (j + 1)], x)
      OBVIOUS
    <2>1. n - j \in 1..n /\ n - (j + 1) \in 0..n /\ (n - j) - 1 = n - (j + 1) /\ j <= n
      OBVIOUS
    <2>2. PICK s \in Symbol : s = symbols[n - j]
      BY <1>2, <2>1
    <2>3. PICK e, m : e = E[n - (j + 1)] /\ m = M[n - (j + 1)]
      OBVIOUS
    <2>4. PICK f : f = E[n - j] /\ f = Coded(e, m, s) /\ Within(f, x)
      BY <1>2, <1>4, <2>1, <2>2, <2>3
    <2>5. Steady(e) /\ Good(m) /\ f.ok
      <3>1. n - j \in 0..n
        BY <2>1
      <3>2. Steady(e) /\ Good(m) /\ Steady(f)
        BY <1>2, <2>1, <2>3, <2>4, <3>1
      <3> QED BY <3>2 DEF Steady
    <2>6. PICK y : y = Narrowed(e, get_stats(m, s))
      OBVIOUS
    <2>7. Fitting(y) /\ Proper(y)
      BY <2>5, <2>6, NarrowedFits DEF Steady
    <2>8. f = EncoderSettled(y)
      BY <2>4, <2>6 DEF Coded
    <2>9. Within(y, x)
      BY <2>4, <2>5, <2>7, <2>8, SettledWithin
    <2>10. Within(e, x)
      BY <2>5, <2>6, <2>9, NarrowedWithin DEF Steady
    <2> QED BY <2>3, <2>10
  <1>5. \A j \in Nat : j \in T
    <2> HIDE DEF T
    <2> QED BY <1>3, <1>4, Induct
  <1>6. ASSUME NEW k \in 0..n PROVE Within(E[k], x)
    <2>1. n - k \in Nat /\ n - k <= n /\ n - (n - k) = k
      OBVIOUS
    <2>2. n - k \in T
      BY <1>5, <2>1
    <2>3. Within(E[n - (n - k)], x)
      BY <2>1, <2>2
    <2> QED BY <2>1, <2>3
  <1> QED BY <1>1, <1>6

\* The decoder starts with the encoder (lines 81-98 of comp_engine.cpp).
LEMMA StartTracks ==
  ASSUME StreamIsBits, Width <= Len(stream), NEW d,
         d = [NewDecoder EXCEPT !.value = Number(SubSeq(stream, 1, Width)), !.pos = Width]
  PROVE  Tracks(d, NewEncoder, stream)
  <1>1. PICK w \in Nat : w = Width
    BY CoderAssumption
  <1>2. Streaming(stream)
    BY DEF StreamIsBits, Streaming
  <1>3. PICK v \in Nat : v = Number(SubSeq(stream, 1, Width)) /\ v = ReadOf(stream, w)
    <2>1. SubSeq(stream, 1, w) = FirstBits(stream, w)
      BY <1>1, <1>2, FirstIsSubSeq
    <2>2. ReadOf(stream, w) \in Nat
      BY <1>2, ReadGrows
    <2> QED BY <1>1, <2>1, <2>2 DEF ReadOf
  <1>4. PICK q \in Nat \ {0} : kHalf = 2 * q /\ kTopValue = 4 * q - 1
    BY QuarterIs
  <1>5. PICK top \in Nat : top = kTopValue
    BY <1>4
  <1>6. d = [low |-> 0, high |-> top, value |-> v, pos |-> w]
    BY <1>1, <1>3, <1>5 DEF NewDecoder
  <1>7. d.low = 0 /\ d.high = top /\ d.value = v /\ d.pos = w
    <2>1. PICK r : r = [low |-> 0, high |-> top, value |-> v, pos |-> w]
      OBVIOUS
    <2>2. r.low = 0 /\ r.high = top /\ r.value = v /\ r.pos = w
      BY <2>1
    <2>3. d = r
      BY <1>6, <2>1
    <2> QED BY <2>2, <2>3
  <1>8. NewEncoder = [low |-> 0, high |-> top, follow |-> 0, out |-> <<>>, ok |-> TRUE]
    BY <1>5 DEF NewEncoder
  <1>9. /\ NewEncoder.low = 0 /\ NewEncoder.high = top
        /\ NewEncoder.out = <<>> /\ NewEncoder.follow = 0
    BY <1>8
  <1>10. Reach(NewEncoder) = w
    <2>1. Len(<<>>) = 0 /\ (0 + 0) + w = w
      OBVIOUS
    <2> QED BY <1>1, <1>9, <2>1 DEF Reach
  <1>11. Waiting(NewEncoder) = 0
    <2>1. <<>> \in Seq({0, 1})
      OBVIOUS
    <2>2. Append(<<>>, 0) \in Seq({0, 1}) /\ Number(Append(<<>>, 0)) = 2 * Number(<<>>) + 0
      BY <2>1, NumberGrows
    <2>3. Followed(Append(<<>>, 0), 1, 0) = Append(<<>>, 0)
      BY <2>2, FollowedGrows
    <2> QED BY <1>9, <2>2, <2>3, NumberOfNone DEF Waiting
  <1>12. Place(NewEncoder) = 0
    <2>1. 0 * (2 * q) + 0 = 0
      OBVIOUS
    <2> QED BY <1>4, <1>9, <1>11, <2>1 DEF Place
  <1>13. (v - 0) + 0 = v
    OBVIOUS
  <1> QED BY <1>3, <1>7, <1>9, <1>10, <1>12, <1>13 DEF Tracks

\* A decoder that tracks the encoder after some symbols decodes the next, and tracks
\* it after that.
LEMMA DecodesNext ==
  ASSUME NEW symbols \in Seq(Symbol), NEW E, NEW M, Encoded(E, M, symbols),
         StreamIsBits, \A k \in 0..Len(symbols) : Within(E[k], stream),
         NEW k \in Nat, k < Len(symbols),
         NEW d, Inside(d), Tracks(d, E[k], stream)
  PROVE  LET s == SymbolAt(M[k], U16(Count(d, total_frequency(M[k]))))
         IN  /\ s = symbols[k + 1]
             /\ Tracks(DecoderSettled(Narrowed(d, get_stats(M[k], s))), E[k + 1], stream)
             /\ Updated(M[k], s) = M[k + 1]
  <1>1. PICK n \in Nat : n = Len(symbols) /\ k < n
    BY LenProperties
  <1>2. k \in 0..n /\ k + 1 \in 1..n /\ k + 1 \in 0..n /\ (k + 1) - 1 = k
    BY <1>1
  <1>3. PICK s \in Symbol : s = symbols[k + 1]
    BY <1>1, <1>2, ElementOfSeq
  <1>4. PICK e, m : e = E[k] /\ m = M[k]
    OBVIOUS
  <1>5. PICK f : f = E[k + 1]
    OBVIOUS
  <1>6. /\ Steady(e) /\ Good(m) /\ Steady(f) /\ Within(f, stream)
        /\ f = Coded(e, m, s) /\ M[k + 1] = Updated(m, s)
    BY <1>1, <1>2, <1>3, <1>4, <1>5 DEF Encoded
  <1>7. Streaming(stream)
    BY DEF StreamIsBits, Streaming
  <1>8. PICK x : x = Narrowed(e, get_stats(m, s))
    OBVIOUS
  <1>9. Fitting(x) /\ Proper(x)
    BY <1>6, <1>8, NarrowedFits DEF Steady
  <1>10. f = EncoderSettled(x) /\ f.ok
    BY <1>6, <1>8 DEF Coded, Steady
  <1>11. Within(x, stream)
    BY <1>6, <1>7, <1>9, <1>10, SettledWithin
  <1>12. PICK y : y = Narrowed(d, get_stats(m, s))
    OBVIOUS
  <1>13. /\ SymbolAt(m, U16(Count(d, total_frequency(m)))) = s
         /\ Inside(y) /\ Tracks(y, x, stream)
    <2>1. LET z == Narrowed(d, get_stats(m, s))
          IN  /\ SymbolAt(m, U16(Count(d, total_frequency(m)))) = s
              /\ Inside(z) /\ Tracks(z, x, stream)
      BY <1>4, <1>6, <1>8, <1>11, CodedIsNext DEF Steady
    <2> QED BY <1>12, <2>1
  <1>14. Tracks(DecoderSettled(y), f, stream)
    BY <1>6, <1>9, <1>10, <1>13, SettledTracks
  <1> QED BY <1>3, <1>4, <1>5, <1>6, <1>12, <1>13, <1>14

-----------------------------------------------------------------------------
(***************************************************************************)
(* A sample through its two symbols.                                       *)
(***************************************************************************)
\* A remainder is known by what it leaves.
LEMMA RemainderIs ==
  ASSUME NEW m \in Nat \ {0}, NEW x \in Int, NEW q \in Int, NEW r \in 0..(m - 1), x = m * q + r
  PROVE  x % m = r
  <1>1. PICK s \in 0..(m - 1) : s = x % m
    OBVIOUS
  <1>2. PICK p \in Int : p = x \div m
    OBVIOUS
  <1>3. x = m * p + s
    BY <1>1, <1>2, Z3
  <1>4. PICK t \in Int : t = q - p
    OBVIOUS
  <1>5. PICK a \in Int, b \in Int : a = m * q /\ b = m * p
    <2>1. m * q \in Int /\ m * p \in Int
      OBVIOUS
    <2> QED BY <2>1
  <1>6. m * t = a - b
    <2>1. \A i, j, k \in Int : i * (j - k) = i * j - i * k
      BY Z3
    <2> QED BY <1>4, <1>5, <2>1
  <1>7. a - b = s - r
    BY <1>3, <1>5
  <1>8. CASE t >= 1
    <2>1. \A i, j \in Int : i >= 1 /\ j >= 1 => i * j >= i
      BY Z3
    <2>2. m * t >= m
      BY <1>8, <2>1
    <2> QED BY <1>6, <1>7, <2>2
  <1>9. CASE t <= -1
    <2>1. \A i, j \in Int : i >= 1 /\ j <= -1 => i * j <= -i
      BY Z3
    <2>2. m * t <= -m
      BY <1>9, <2>1
    <2> QED BY <1>6, <1>7, <2>2
  <1>10. CASE t = 0
    <2>1. m * t = 0
      BY <1>10
    <2> QED BY <1>1, <1>6, <1>7, <2>1
  <1> QED BY <1>4, <1>8, <1>9, <1>10

LEMMA RemainderTurns ==
  ASSUME NEW m \in Nat \ {0}, NEW i \in Nat, NEW j \in Nat
  PROVE  /\ (i + m) % m = i % m
         /\ i < j /\ j < i + m => i % m # j % m
  <1>1. PICK q \in Nat, r \in 0..(m - 1) : q = i \div m /\ r = i % m /\ i = m * q + r
    BY DivideIs
  <1>2. PICK p \in Nat, s \in 0..(m - 1) : p = j \div m /\ s = j % m /\ j = m * p + s
    BY DivideIs
  <1>3. PICK a \in Nat, b \in Nat : a = m * q /\ b = m * p
    <2>1. m * q \in Nat /\ m * p \in Nat
      OBVIOUS
    <2> QED BY <2>1
  <1>4. (i + m) % m = r
    <2>1. m * (q + 1) = a + m
      <3>1. \A x, y \in Nat : x * (y + 1) = x * y + x
        BY Z3
      <3> QED BY <1>3, <3>1
    <2>2. i + m \in Int /\ q + 1 \in Int /\ i + m = m * (q + 1) + r
      BY <1>1, <1>3, <2>1
    <2> QED BY <2>2, RemainderIs
  <1>5. ASSUME i < j, j < i + m, r = s PROVE FALSE
    <2>1. a < b /\ b < a + m
      BY <1>1, <1>2, <1>3, <1>5
    <2>2. q < p
      BY <1>3, <2>1, Monotone
    <2>3. m * (q + 1) = a + m
      <3>1. \A x, y \in Nat : x * (y + 1) = x * y + x
        BY Z3
      <3> QED BY <1>3, <3>1
    <2>4. m * (q + 1) <= m * p
      <3>1. q + 1 \in Nat /\ q + 1 <= p
        BY <2>2
      <3> QED BY <3>1, Monotone
    <2> QED BY <1>3, <2>1, <2>3, <2>4
  <1> QED BY <1>1, <1>2, <1>4, <1>5

\* A difference that wrapped around comes back to the sample (lines 35 and 92 of
\* audio_engine.cpp).
LEMMA WrapReturns ==
  ASSUME NEW x \in Int16, NEW p \in Int
  PROVE  Wrap(p + Wrap(x - p)) = x
  <1>1. PICK h \in Nat \ {0} : h = Half
    BY HalfIs
  <1>2. PICK m \in Nat \ {0} : m = 2 * h
    <2>1. 2 * h \in Nat \ {0}
      OBVIOUS
    <2> QED BY <2>1
  <1>3. x \in Int /\ x + h \in 0..(m - 1)
    <2>1. x \in (-h)..(h - 1)
      BY <1>1 DEF Int16
    <2> QED BY <1>2, <2>1
  <1>4. PICK y \in Int : y = (x - p) + h
    BY <1>3
  <1>5. PICK r \in 0..(m - 1) : r = y % m
    OBVIOUS
  <1>6. PICK t \in Int : t = y \div m
    OBVIOUS
  <1>7. y = m * t + r
    BY <1>5, <1>6, Z3
  <1>8. PICK d \in Int : d = Wrap(x - p) /\ d = r - h
    <2>1. Wrap(x - p) = r - h
      BY <1>1, <1>2, <1>4, <1>5 DEF Wrap
    <2> QED BY <2>1
  <1>9. PICK a \in Int : a = m * t /\ m * (-t) = -a
    <2>1. m * t \in Int
      OBVIOUS
    <2>2. \A i, j \in Int : i * (-j) = -(i * j)
      BY Z3
    <2> QED BY <2>1, <2>2
  <1>10. PICK z \in Int : z = (p + d) + h
    OBVIOUS
  <1>11. z = m * (-t) + (x + h)
    BY <1>3, <1>4, <1>7, <1>8, <1>9, <1>10
  <1>12. z % m = x + h
    <2>1. -t \in Int
      OBVIOUS
    <2> QED BY <1>3, <1>11, <2>1, RemainderIs
  <1>13. Wrap(p + d) = (x + h) - h
    BY <1>1, <1>2, <1>10, <1>12 DEF Wrap
  <1> QED BY <1>3, <1>8, <1>13

\* The unsigned mapping loses nothing (lines 38-44 of audio_engine.hpp).
LEMMA MappingReturns ==
  ASSUME NEW v \in Int
  PROVE  /\ map_int16_to_uint16(v) \in Nat
         /\ unmap_uint16_to_int16(map_int16_to_uint16(v)) = v
  <1>1. CASE v >= 0
    <2>1. map_int16_to_uint16(v) = 2 * v /\ 2 * v \in Nat
      BY <1>1 DEF map_int16_to_uint16
    <2>2. (2 * v) % 2 = 0 /\ (2 * v) \div 2 = v
      OBVIOUS
    <2> QED BY <2>1, <2>2 DEF unmap_uint16_to_int16
  <1>2. CASE ~(v >= 0)
    <2>1. PICK u \in Nat : u = -2 * v - 1 /\ map_int16_to_uint16(v) = u
      <3>1. map_int16_to_uint16(v) = -2 * v - 1 /\ -2 * v - 1 \in Nat
        BY <1>2 DEF map_int16_to_uint16
      <3> QED BY <3>1
    <2>2. u % 2 # 0 /\ (u + 1) \div 2 = -v
      BY <2>1
    <2>3. -(-v) = v
      OBVIOUS
    <2> QED BY <2>1, <2>2, <2>3 DEF unmap_uint16_to_int16
  <1> QED BY <1>1, <1>2

\* The two symbols of a sample, and the sample of two symbols.
Difference(x, p) == map_int16_to_uint16(Wrap(x - p))
Together(high, low) == high * kAlphabetSize + low

LEMMA SampleReturns ==
  ASSUME NEW x \in Int16, NEW p \in Int
  PROVE  Wrap(p + unmap_uint16_to_int16(Together(Difference(x, p) \div kAlphabetSize,
                                                  Difference(x, p) % kAlphabetSize))) = x
  <1>1. PICK a \in Nat \ {0} : a = kAlphabetSize
    BY ContextModelAssumption
  <1>2. PICK v \in Int : v = Wrap(x - p)
    <2>1. x \in Int
      BY HalfIs DEF Int16
    <2>2. x - p \in Int
      BY <2>1
    <2>3. Wrap(x - p) \in Int
      BY <2>2, WrapIs, HalfIs DEF Int16
    <2> QED BY <2>3
  <1>3. PICK u \in Nat : u = Difference(x, p) /\ unmap_uint16_to_int16(u) = v
    BY <1>2, MappingReturns DEF Difference
  <1>4. u = Together(u \div a, u % a)
    <2>1. PICK q \in Nat, r \in 0..(a - 1) : q = u \div a /\ r = u % a /\ u = a * q + r
      BY DivideIs
    <2>2. a * q = q * a
      <3>1. \A i, j \in Nat : i * j = j * i
        BY Z3
      <3> QED BY <3>1
    <2> QED BY <1>1, <2>1, <2>2 DEF Together
  <1>5. Wrap(p + v) = x
    BY <1>2, WrapReturns
  <1> QED BY <1>1, <1>3, <1>4, <1>5

-----------------------------------------------------------------------------
(***************************************************************************)
(* A message through the stream.                                           *)
(***************************************************************************)
\* The stream leads into every interval that the message leads to.
Written(E, M, symbols, x) ==
    Encoded(E, M, symbols) /\ \A k \in 0..Len(symbols) : Within(E[k], x)

Ready(symbols, x) == \E E, M : Written(E, M, symbols, x)

\* The decoder has decoded what was encoded first, and is where the encoder was then.
Follows(symbols, x, d, m, done) ==
    /\ Len(done) <= Len(symbols)
    /\ \A i \in 1..Len(done) : done[i] = symbols[i]
    /\ \E E, M : /\ Written(E, M, symbols, x)
                 /\ Tracks(d, E[Len(done)], x) /\ m = M[Len(done)]

LEMMA FlushIsReady ==
  ASSUME NEW symbols \in Seq(Symbol), NEW e, NEW m, Leads(symbols, e, m),
         NEW w, w = Final(e), w.ok
  PROVE  Ready(symbols, Padded(w.out))
  <1>1. PICK E, M : Encoded(E, M, symbols) /\ e = E[Len(symbols)]
    BY DEF Leads
  <1>2. Steady(e)
    <2>1. PICK n \in Nat : n = Len(symbols)
      BY LenProperties
    <2>2. n \in 0..n
      OBVIOUS
    <2> QED BY <1>1, <2>1, <2>2 DEF Encoded
  <1>3. PICK x : x = Padded(w.out) /\ Streaming(x) /\ Within(e, x)
    BY <1>2, FlushWithin DEF Steady
  <1>4. \A k \in 0..Len(symbols) : Within(E[k], x)
    BY <1>1, <1>3, AllWithin
  <1>5. Written(E, M, symbols, x)
    BY <1>1, <1>4 DEF Written
  <1> QED BY <1>3, <1>5 DEF Ready

LEMMA OpenFollows ==
  ASSUME NEW symbols \in Seq(Symbol), StreamIsBits, Ready(symbols, stream),
         Width <= Len(stream), NEW d,
         d = [NewDecoder EXCEPT !.value = Number(SubSeq(stream, 1, Width)), !.pos = Width]
  PROVE  Follows(symbols, stream, d, FreshModel, <<>>)
  <1>1. PICK E, M : Written(E, M, symbols, stream)
    BY DEF Ready
  <1>2. E[0] = NewEncoder /\ M[0] = FreshModel
    BY <1>1 DEF Written, Encoded
  <1>3. Tracks(d, NewEncoder, stream)
    BY StartTracks
  <1>4. PICK none : none = <<>> /\ Len(none) = 0
    OBVIOUS
  <1>5. Len(none) <= Len(symbols) /\ \A i \in 1..Len(none) : none[i] = symbols[i]
    <2>1. Len(symbols) \in Nat
      BY LenProperties
    <2> QED BY <1>4, <2>1
  <1>6. Follows(symbols, stream, d, FreshModel, none)
    BY <1>1, <1>2, <1>3, <1>4, <1>5 DEF Follows
  <1> QED BY <1>4, <1>6

LEMMA FollowsNext ==
  ASSUME NEW symbols \in Seq(Symbol), StreamIsBits, NEW d, Inside(d), NEW m,
         NEW done \in Seq(Symbol), Follows(symbols, stream, d, m, done),
         Len(done) < Len(symbols),
         NEW s, s = SymbolAt(m, U16(Count(d, total_frequency(m))))
  PROVE  /\ s = symbols[Len(done) + 1]
         /\ Follows(symbols, stream, DecoderSettled(Narrowed(d, get_stats(m, s))),
                    Updated(m, s), Append(done, s))
  <1>1. PICK n \in Nat, k \in Nat : n = Len(symbols) /\ k = Len(done) /\ k < n
    <2>1. Len(symbols) \in Nat /\ Len(done) \in Nat
      BY LenProperties
    <2> QED BY <2>1
  <1>2. PICK E, M : /\ Written(E, M, symbols, stream)
                    /\ Tracks(d, E[k], stream) /\ m = M[k]
    BY <1>1 DEF Follows
  <1>3. /\ s = symbols[k + 1]
        /\ Tracks(DecoderSettled(Narrowed(d, get_stats(m, s))), E[k + 1], stream)
        /\ Updated(m, s) = M[k + 1]
    <2>1. LET t == SymbolAt(M[k], U16(Count(d, total_frequency(M[k]))))
          IN  /\ t = symbols[k + 1]
              /\ Tracks(DecoderSettled(Narrowed(d, get_stats(M[k], t))), E[k + 1], stream)
              /\ Updated(M[k], t) = M[k + 1]
      BY <1>1, <1>2, DecodesNext DEF Written
    <2> QED BY <1>2, <2>1
  <1>4. s \in Symbol
    <2>1. k + 1 \in 1..n
      BY <1>1
    <2> QED BY <1>1, <1>3, <2>1, ElementOfSeq
  <1>5. PICK more : /\ more = Append(done, s) /\ Len(more) = k + 1
                    /\ \A i \in 1..k : more[i] = done[i]
                    /\ more[k + 1] = s
    <2>1. /\ Len(Append(done, s)) = Len(done) + 1
          /\ \A i \in 1..Len(done) : Append(done, s)[i] = done[i]
          /\ Append(done, s)[Len(done) + 1] = s
      BY <1>4, AppendProperties
    <2> QED BY <1>1, <2>1
  <1>6. ASSUME NEW i \in 1..(k + 1) PROVE more[i] = symbols[i]
    <2>1. CASE i \in 1..k
      BY <1>1, <1>5, <2>1 DEF Follows
    <2>2. CASE i = k + 1
      BY <1>3, <1>5, <2>2
    <2> QED BY <2>1, <2>2
  <1>7. k + 1 <= n
    BY <1>1
  <1>8. PICK f : f = DecoderSettled(Narrowed(d, get_stats(m, s)))
    OBVIOUS
  <1>9. Follows(symbols, stream, f, Updated(m, s), more)
    BY <1>1, <1>2, <1>3, <1>5, <1>6, <1>7, <1>8 DEF Follows
  <1> QED BY <1>1, <1>3, <1>5, <1>8, <1>9

-----------------------------------------------------------------------------
(***************************************************************************)
(* The samples of a message.                                               *)
(***************************************************************************)
\* The sample before the i-th in its channel.
Prior(samples, i, c) == IF i > c THEN samples[i - c] ELSE 0

\* The predictor has, for each channel, the last of the first n samples.
Predicts(prev, samples, n, c) ==
    \A i \in (n + 1)..(n + c) : prev[(i - 1) % c] = Prior(samples, i, c)

LEMMA PredictsMore ==
  ASSUME NEW samples \in Seq(Int16), NEW n \in Nat, n <= Len(samples), NEW c \in Nat \ {0},
         NEW prev, Predicts(prev, samples, n, c), NEW x \in Int16
  PROVE  Predicts(prev, Append(samples, x), n, c)
  <1>1. PICK len \in Nat : len = Len(samples) /\ n <= len
    BY LenProperties
  <1>2. PICK more : more = Append(samples, x) /\ \A i \in 1..len : more[i] = samples[i]
    <2>1. \A i \in 1..Len(samples) : Append(samples, x)[i] = samples[i]
      BY AppendProperties
    <2> QED BY <1>1, <2>1
  <1>3. ASSUME NEW i \in (n + 1)..(n + c) PROVE prev[(i - 1) % c] = Prior(more, i, c)
    <2>1. prev[(i - 1) % c] = Prior(samples, i, c)
      BY DEF Predicts
    <2>2. i > c => i - c \in 1..len
      BY <1>1
    <2> QED BY <1>2, <2>1, <2>2 DEF Prior
  <1> QED BY <1>2, <1>3 DEF Predicts

LEMMA PredictsNext ==
  ASSUME NEW samples \in Seq(Int16), NEW n \in Nat, n < Len(samples),
         NEW k \in Nat \ {0}, NEW c \in Nat \ {0}, c <= k,
         NEW prev \in [0..(k - 1) -> Int], Predicts(prev, samples, n, c),
         NEW next, next = [prev EXCEPT ![n % c] = samples[n + 1]]
  PROVE  Predicts(next, samples, n + 1, c)
  <1>1. PICK ch \in 0..(c - 1) : ch = n % c
    BY DivideIs
  <1>2. ch \in 0..(k - 1)
    OBVIOUS
  <1>3. next[ch] = samples[n + 1] /\ \A j \in 0..(c - 1) : j # ch => next[j] = prev[j]
    BY <1>1, <1>2
  <1>4. ASSUME NEW i \in ((n + 1) + 1)..((n + 1) + c) PROVE next[(i - 1) % c] = Prior(samples, i, c)
    <2>1. PICK j \in Nat : j = i - 1 /\ n < j /\ j <= n + c
      OBVIOUS
    <2>2. CASE j = n + c
      <3>1. j % c = ch
        BY <1>1, <2>2, RemainderTurns
      <3>2. i > c /\ i - c = n + 1
        BY <2>1, <2>2
      <3> QED BY <1>3, <2>1, <3>1, <3>2 DEF Prior
    <2>3. CASE j # n + c
      <3>1. j < n + c
        BY <2>1, <2>3
      <3>2. j % c # ch
        BY <1>1, <2>1, <3>1, RemainderTurns
      <3>3. j % c \in 0..(c - 1)
        BY DivideIs
      <3>4. next[j % c] = prev[j % c]
        BY <1>3, <3>2, <3>3
      <3>5. i \in (n + 1)..(n + c)
        BY <2>1, <3>1
      <3>6. prev[(i - 1) % c] = Prior(samples, i, c)
        BY <3>5 DEF Predicts
      <3> QED BY <2>1, <3>4, <3>6
    <2> QED BY <2>2, <2>3
  <1> QED BY <1>4 DEF Predicts

\* Each sample is in the message as the two symbols of its residual.
Residual(samples, i, c) == Difference(samples[i], Prior(samples, i, c))

Spelled(symbols, samples, c) ==
    \A i \in 1..Len(samples) :
       /\ 2 * i - 1 <= Len(symbols) =>
             symbols[2 * i - 1] = Residual(samples, i, c) \div kAlphabetSize
       /\ 2 * i <= Len(symbols) =>
             symbols[2 * i] = Residual(samples, i, c) % kAlphabetSize

Encoding(symbols, samples, prev, c) ==
    /\ Len(symbols) \in {2 * Len(samples) - 1, 2 * Len(samples)}
    /\ Spelled(symbols, samples, c)
    /\ \A n \in Nat : Len(symbols) \in {2 * n, 2 * n + 1} => Predicts(prev, samples, n, c)

\* The high symbol of one more sample (lines 31-42 of audio_engine.cpp).
LEMMA HighSpells ==
  ASSUME NEW symbols \in Seq(Symbol), NEW samples \in Seq(Int16), NEW c \in Nat \ {0},
         NEW prev, Encoding(symbols, samples, prev, c), Len(symbols) = 2 * Len(samples),
         NEW x \in Int16, NEW s \in Symbol,
         s = Difference(x, prev[Len(samples) % c]) \div kAlphabetSize
  PROVE  Encoding(Append(symbols, s), Append(samples, x), prev, c)
  <1>1. PICK n \in Nat : n = Len(samples) /\ Len(symbols) = 2 * n
    BY LenProperties
  <1>2. PICK more : /\ more = Append(samples, x) /\ Len(more) = n + 1
                    /\ \A i \in 1..n : more[i] = samples[i]
                    /\ more[n + 1] = x
    <2>1. /\ Len(Append(samples, x)) = Len(samples) + 1
          /\ \A i \in 1..Len(samples) : Append(samples, x)[i] = samples[i]
          /\ Append(samples, x)[Len(samples) + 1] = x
      BY AppendProperties
    <2> QED BY <1>1, <2>1
  <1>3. PICK out : /\ out = Append(symbols, s) /\ Len(out) = 2 * n + 1
                   /\ \A i \in 1..(2 * n) : out[i] = symbols[i]
                   /\ out[2 * n + 1] = s
    <2>1. /\ Len(Append(symbols, s)) = Len(symbols) + 1
          /\ \A i \in 1..Len(symbols) : Append(symbols, s)[i] = symbols[i]
          /\ Append(symbols, s)[Len(symbols) + 1] = s
      BY AppendProperties
    <2> QED BY <1>1, <2>1
  <1>4. Predicts(prev, samples, n, c)
    BY <1>1 DEF Encoding
  <1>5. Predicts(prev, more, n, c)
    <2>1. n <= Len(samples)
      BY <1>1
    <2>2. Predicts(prev, Append(samples, x), n, c)
      BY <1>4, <2>1, PredictsMore
    <2> QED BY <1>2, <2>2
  <1>6. prev[n % c] = Prior(more, n + 1, c)
    <2>1. n + 1 \in (n + 1)..(n + c) /\ (n + 1) - 1 = n
      OBVIOUS
    <2> QED BY <1>5, <2>1 DEF Predicts
  <1>7. ASSUME NEW i \in 1..n PROVE Residual(more, i, c) = Residual(samples, i, c)
    <2>1. i > c => i - c \in 1..n
      OBVIOUS
    <2>2. Prior(more, i, c) = Prior(samples, i, c)
      BY <1>2, <2>1 DEF Prior
    <2> QED BY <1>2, <2>2 DEF Residual
  <1>8. ASSUME NEW i \in 1..(n + 1)
        PROVE  /\ 2 * i - 1 <= 2 * n + 1 => out[2 * i - 1] = Residual(more, i, c) \div kAlphabetSize
               /\ 2 * i <= 2 * n + 1 => out[2 * i] = Residual(more, i, c) % kAlphabetSize
    <2>1. CASE i \in 1..n
      <3>1. 2 * i - 1 \in 1..(2 * n) /\ 2 * i \in 1..(2 * n)
        BY <2>1
      <3>2. /\ symbols[2 * i - 1] = Residual(samples, i, c) \div kAlphabetSize
            /\ symbols[2 * i] = Residual(samples, i, c) % kAlphabetSize
        <4>1. i \in 1..Len(samples) /\ 2 * i - 1 <= Len(symbols) /\ 2 * i <= Len(symbols)
          BY <1>1, <2>1
        <4> QED BY <4>1 DEF Encoding, Spelled
      <3>3. out[2 * i - 1] = symbols[2 * i - 1] /\ out[2 * i] = symbols[2 * i]
        BY <1>3, <3>1
      <3> QED BY <1>7, <2>1, <3>2, <3>3
    <2>2. CASE i = n + 1
      <3>1. 2 * i - 1 = 2 * n + 1 /\ ~(2 * i <= 2 * n + 1)
        BY <2>2
      <3>2. Residual(more, i, c) = Difference(x, prev[n % c])
        BY <1>2, <1>6, <2>2 DEF Residual
      <3> QED BY <1>1, <1>3, <3>1, <3>2
    <2> QED BY <2>1, <2>2
  <1>9. Spelled(out, more, c)
    BY <1>2, <1>3, <1>8 DEF Spelled
  <1>10. Len(out) \in {2 * Len(more) - 1, 2 * Len(more)}
    <2>1. 2 * n + 1 = 2 * (n + 1) - 1
      OBVIOUS
    <2> QED BY <1>2, <1>3, <2>1
  <1>11. ASSUME NEW m \in Nat, Len(out) \in {2 * m, 2 * m + 1} PROVE Predicts(prev, more, m, c)
    <2>1. m = n
      BY <1>3, <1>11
    <2> QED BY <1>5, <2>1
  <1> QED BY <1>2, <1>3, <1>9, <1>10, <1>11 DEF Encoding

\* Its low symbol, and the predictor after it (lines 36-45 of audio_engine.cpp).
LEMMA LowSpells ==
  ASSUME NEW symbols \in Seq(Symbol), NEW samples \in Seq(Int16),
         NEW k \in Nat \ {0}, NEW c \in Nat \ {0}, c <= k,
         NEW prev \in [0..(k - 1) -> Int], Encoding(symbols, samples, prev, c),
         NEW n \in Nat, Len(samples) = n + 1, Len(symbols) < 2 * Len(samples),
         NEW s \in Symbol, s = Difference(samples[n + 1], prev[n % c]) % kAlphabetSize,
         NEW next, next = [prev EXCEPT ![n % c] = samples[n + 1]]
  PROVE  Encoding(Append(symbols, s), samples, next, c)
  <1>1. Len(symbols) = 2 * n + 1
    <2>1. Len(symbols) \in Nat
      BY LenProperties
    <2>2. Len(symbols) \in {2 * Len(samples) - 1, 2 * Len(samples)}
      BY DEF Encoding
    <2> QED BY <2>1, <2>2
  <1>2. PICK out : /\ out = Append(symbols, s) /\ Len(out) = 2 * (n + 1)
                   /\ \A i \in 1..(2 * n + 1) : out[i] = symbols[i]
                   /\ out[2 * (n + 1)] = s
    <2>1. /\ Len(Append(symbols, s)) = Len(symbols) + 1
          /\ \A i \in 1..Len(symbols) : Append(symbols, s)[i] = symbols[i]
          /\ Append(symbols, s)[Len(symbols) + 1] = s
      BY AppendProperties
    <2>2. (2 * n + 1) + 1 = 2 * (n + 1)
      OBVIOUS
    <2> QED BY <1>1, <2>1, <2>2
  <1>3. Predicts(prev, samples, n, c)
    BY <1>1 DEF Encoding
  <1>4. Predicts(next, samples, n + 1, c)
    <2>1. n < Len(samples)
      OBVIOUS
    <2> QED BY <1>3, <2>1, PredictsNext
  <1>5. prev[n % c] = Prior(samples, n + 1, c)
    <2>1. n + 1 \in (n + 1)..(n + c) /\ (n + 1) - 1 = n
      OBVIOUS
    <2> QED BY <1>3, <2>1 DEF Predicts
  <1>6. ASSUME NEW i \in 1..(n + 1)
        PROVE  /\ out[2 * i - 1] = Residual(samples, i, c) \div kAlphabetSize
               /\ out[2 * i] = Residual(samples, i, c) % kAlphabetSize
    <2>1. 2 * i - 1 \in 1..(2 * n + 1) /\ i \in 1..Len(samples) /\ 2 * i - 1 <= Len(symbols)
      BY <1>1
    <2>2. /\ symbols[2 * i - 1] = Residual(samples, i, c) \div kAlphabetSize
          /\ 2 * i <= Len(symbols) => symbols[2 * i] = Residual(samples, i, c) % kAlphabetSize
      BY <2>1 DEF Encoding, Spelled
    <2>3. CASE i <= n
      <3>1. 2 * i \in 1..(2 * n + 1) /\ 2 * i <= Len(symbols)
        BY <1>1, <2>3
      <3> QED BY <1>2, <2>1, <2>2, <3>1
    <2>4. CASE i = n + 1
      <3>1. Residual(samples, i, c) = Difference(samples[n + 1], prev[n % c])
        BY <1>5, <2>4 DEF Residual
      <3>2. out[2 * i] = s
        BY <1>2, <2>4
      <3> QED BY <1>2, <2>1, <2>2, <3>1, <3>2
    <2> QED BY <2>3, <2>4
  <1>7. Spelled(out, samples, c)
    BY <1>6 DEF Spelled
  <1>8. Len(out) \in {2 * Len(samples) - 1, 2 * Len(samples)}
    BY <1>2
  <1>9. ASSUME NEW m \in Nat, Len(out) \in {2 * m, 2 * m + 1} PROVE Predicts(next, samples, m, c)
    <2>1. m = n + 1
      BY <1>2, <1>9
    <2> QED BY <1>4, <2>1
  <1> QED BY <1>2, <1>7, <1>8, <1>9 DEF Encoding

\* A decoder that has the first n samples of a message, and its next two symbols.
Resumes(symbols, samples, done, prev, n, c) ==
    /\ Spelled(symbols, samples, c) /\ Len(symbols) = 2 * Len(samples)
    /\ n = Len(done) /\ n < Len(samples) /\ \A i \in 1..n : done[i] = samples[i]
    /\ Predicts(prev, done, n, c)

Pair(symbols, n) == Together(symbols[2 * n + 1], symbols[2 * n + 2])

Returned(symbols, prev, n, c) == Wrap(prev[n % c] + unmap_uint16_to_int16(Pair(symbols, n)))

\* They are the next sample (lines 81-94 of audio_engine.cpp).
LEMMA PairIsSample ==
  ASSUME NEW symbols, NEW samples \in Seq(Int16), NEW done \in Seq(Int16), NEW prev,
         NEW n \in Nat, NEW c \in Nat \ {0}, Resumes(symbols, samples, done, prev, n, c)
  PROVE  Returned(symbols, prev, n, c) = samples[n + 1]
  <1> USE DEF Resumes
  <1>1. PICK len \in Nat : len = Len(samples) /\ n < len
    BY LenProperties
  <1>2. samples[n + 1] \in Int16
    <2>1. n + 1 \in 1..Len(samples)
      BY <1>1
    <2> QED BY <2>1, ElementOfSeq
  <1>3. prev[n % c] = Prior(samples, n + 1, c)
    <2>1. n + 1 \in (n + 1)..(n + c) /\ (n + 1) - 1 = n
      OBVIOUS
    <2>2. prev[n % c] = Prior(done, n + 1, c)
      BY <2>1 DEF Predicts
    <2>3. n + 1 > c => (n + 1) - c \in 1..n
      OBVIOUS
    <2> QED BY <2>2, <2>3 DEF Prior
  <1>4. Prior(samples, n + 1, c) \in Int
    <2>1. CASE n + 1 > c
      <3>1. (n + 1) - c \in 1..Len(samples)
        BY <1>1, <2>1
      <3>2. samples[(n + 1) - c] \in Int16
        BY <3>1, ElementOfSeq
      <3> QED BY <2>1, <3>2, HalfIs DEF Prior, Int16
    <2>2. CASE ~(n + 1 > c)
      BY <2>2 DEF Prior
    <2> QED BY <2>1, <2>2
  <1>5. /\ symbols[2 * n + 1] = Difference(samples[n + 1], Prior(samples, n + 1, c)) \div kAlphabetSize
        /\ symbols[2 * n + 2] = Difference(samples[n + 1], Prior(samples, n + 1, c)) % kAlphabetSize
    <2>1. PICK i \in 1..Len(samples) : i = n + 1
      BY <1>1
    <2>2. 2 * i - 1 = 2 * n + 1 /\ 2 * i = 2 * n + 2
      BY <2>1
    <2>3. 2 * i - 1 <= Len(symbols) /\ 2 * i <= Len(symbols)
      BY <1>1, <2>1
    <2>4. /\ symbols[2 * i - 1] = Residual(samples, i, c) \div kAlphabetSize
          /\ symbols[2 * i] = Residual(samples, i, c) % kAlphabetSize
      BY <2>3 DEF Spelled
    <2> QED BY <2>1, <2>2, <2>4 DEF Residual
  <1> QED BY <1>2, <1>3, <1>4, <1>5, SampleReturns DEF Returned, Pair

-----------------------------------------------------------------------------
(***************************************************************************)
(* The invariant of the round trip.                                        *)
(***************************************************************************)
\* Until the end of encode_pcm16 the message spells the samples, and leads the encoder
\* and the model to where they are.
InvWritten ==
    phase = "encode" =>
       /\ Leads(message, enc, enc_model)
       /\ Valid => Encoding(message, pcm, prev_enc, header.channels)

\* After it the message is whole, the stream leads into every interval it lead to, and
\* the decoder follows.
InvReady ==
    pcm # <<>> =>
       /\ phase \in {"flushed", "decode"} =>
             /\ Len(pcm) = Total /\ Len(message) = 2 * Len(pcm)
             /\ Spelled(message, pcm, header.channels)
       /\ phase = "flushed" => Ready(message, stream)
       /\ phase = "decode" => Follows(message, stream, dec, dec_model, decoded)

\* The decoder's samples, and its predictor, whatever the stream.
InvDecoding ==
    /\ output \in Seq(Int16) /\ decoded \in Seq(Symbol)
    /\ prev_dec \in [0..(kMaxAudioChannels - 1) -> Int]
    /\ phase # "decode" =>
          output = <<>> /\ decoded = <<>> /\ prev_dec = Silence /\ dec_model = FreshModel
    /\ phase = "decode" =>
          /\ Valid
          /\ Len(decoded) \in {2 * Len(output), 2 * Len(output) + 1}
          /\ Predicts(prev_dec, output, Len(output), header.channels)

\* What is decoded is what was encoded first.
InvReturned ==
    pcm # <<>> => Len(output) <= Len(pcm) /\ \A i \in 1..Len(output) : output[i] = pcm[i]

RoundTrip == InvWritten /\ InvReady /\ InvDecoding /\ InvReturned

LEMMA ChannelsAre ==
  ASSUME Valid
  PROVE  \E k \in Nat \ {0}, c \in Nat \ {0} :
            k = kMaxAudioChannels /\ c = header.channels /\ c <= k
  <1>1. PICK k \in Nat \ {0} : k = kMaxAudioChannels
    BY AudioAssumption
  <1>2. header.channels \in 1..k
    BY <1>1 DEF Valid
  <1>3. PICK c \in Nat \ {0} : c = header.channels /\ c <= k
    BY <1>2
  <1> QED BY <1>1, <1>3

LEMMA SilencePredicts ==
  ASSUME NEW k \in Nat \ {0}, k = kMaxAudioChannels, NEW c \in Nat \ {0}, c <= k
  PROVE  Predicts(Silence, <<>>, 0, c)
  <1>1. ASSUME NEW i \in (0 + 1)..(0 + c) PROVE Silence[(i - 1) % c] = Prior(<<>>, i, c)
    <2>1. PICK j \in Nat : j = i - 1
      OBVIOUS
    <2>2. j % c \in 0..(k - 1)
      BY DivideIs
    <2>3. Silence[j % c] = 0
      BY <2>2 DEF Silence
    <2> QED BY <2>1, <2>3 DEF Prior
  <1> QED BY <1>1 DEF Predicts

LEMMA InitRoundTrip == Init => RoundTrip
  <1> SUFFICES ASSUME Init PROVE RoundTrip
    OBVIOUS
  <1>1. /\ enc = NewEncoder /\ enc_model = FreshModel /\ dec_model = FreshModel
        /\ message = <<>> /\ decoded = <<>> /\ phase \in {"encode", "flushed"}
    BY DEF Init, CoderInit, InitStream
  <1>2. pcm = <<>> /\ output = <<>> /\ prev_enc = Silence /\ prev_dec = Silence
    BY DEF Init
  <1>3. ASSUME Valid PROVE Encoding(<<>>, <<>>, Silence, header.channels)
    <2>1. PICK k \in Nat \ {0}, c \in Nat \ {0} :
              k = kMaxAudioChannels /\ c = header.channels /\ c <= k
      BY <1>3, ChannelsAre
    <2>2. Predicts(Silence, <<>>, 0, c)
      BY <2>1, SilencePredicts
    <2>3. PICK none : none = <<>> /\ Len(none) = 0
      OBVIOUS
    <2>4. Spelled(none, none, c)
      BY <2>3 DEF Spelled
    <2>5. ASSUME NEW n \in Nat, Len(none) \in {2 * n, 2 * n + 1} PROVE Predicts(Silence, none, n, c)
      <3>1. n = 0
        BY <2>3, <2>5
      <3> QED BY <2>2, <2>3, <3>1
    <2>6. Len(none) \in {2 * Len(none) - 1, 2 * Len(none)}
      BY <2>3
    <2>7. Encoding(none, none, Silence, c)
      BY <2>4, <2>5, <2>6 DEF Encoding
    <2> QED BY <2>1, <2>3, <2>7
  <1>4. InvWritten
    BY <1>1, <1>2, <1>3, NothingLeads DEF InvWritten
  <1>5. InvReady /\ InvReturned
    BY <1>2 DEF InvReady, InvReturned
  <1>6. InvDecoding
    <2>1. <<>> \in Seq(Int16) /\ <<>> \in Seq(Symbol)
      OBVIOUS
    <2>2. Silence \in [0..(kMaxAudioChannels - 1) -> Int]
      BY DEF Silence
    <2> QED BY <1>1, <1>2, <2>1, <2>2 DEF InvDecoding
  <1> QED BY <1>4, <1>5, <1>6 DEF RoundTrip

\* What encode_symbol writes.
LEMMA EncodeLeads ==
  ASSUME Inv, InvWritten, NEW symbol \in Symbol, Encode(symbol)
  PROVE  /\ phase' \in {"encode", "overflow"}
         /\ phase' = "encode" =>
               message' = Append(message, symbol) /\ Leads(message', enc', enc_model')
  <1>1. /\ phase = "encode" /\ message \in Seq(Symbol) /\ Leads(message, enc, enc_model)
        /\ enc' = Coded(enc, enc_model, symbol)
    BY DEF Encode, Inv, InvAudio, InvWritten, Coded
  <1>2. CASE enc'.ok
    <2>1. /\ enc_model' = Updated(enc_model, symbol) /\ message' = Append(message, symbol)
          /\ phase' = phase
      BY <1>2 DEF Encode
    <2>2. Leads(Append(message, symbol), Coded(enc, enc_model, symbol), Updated(enc_model, symbol))
      BY <1>1, <1>2, OneMoreLeads
    <2> QED BY <1>1, <2>1, <2>2
  <1>3. CASE ~enc'.ok
    BY <1>3 DEF Encode
  <1> QED BY <1>2, <1>3

\* As long as the decoder waits it has no samples.
LEMMA DecoderWaits ==
  ASSUME InvDecoding, InvReturned, phase # "decode", phase' # "decode", pcm' \in Seq(Int16),
         UNCHANGED <<output, decoded, prev_dec, dec_model>>
  PROVE  InvDecoding' /\ InvReturned'
  <1>1. output = <<>> /\ Len(<<>>) = 0
    BY DEF InvDecoding
  <1>2. InvDecoding'
    BY DEF InvDecoding
  <1>3. Len(output') <= Len(pcm') /\ \A i \in 1..Len(output') : output'[i] = pcm'[i]
    <2>1. output' = <<>> /\ Len(output') = 0
      BY <1>1
    <2>2. PICK n \in Nat : n = Len(pcm')
      BY LenProperties
    <2> QED BY <2>1, <2>2
  <1> QED BY <1>2, <1>3 DEF InvReturned

LEMMA HighKeeps ==
  ASSUME Inv, Inv', RoundTrip, NEW sample \in Samples, EncodeHigh(sample)
  PROVE  RoundTrip'
  <1>1. PICK k \in Nat \ {0}, c \in Nat \ {0} :
            k = kMaxAudioChannels /\ c = header.channels /\ c <= k
    BY ChannelsAre DEF EncodeHigh
  <1>2. PICK n \in Nat : n = Len(pcm) /\ n + 1 \in Nat \ {0} /\ (n + 1) - 1 = n
    <2>1. Len(pcm) \in Nat
      BY LenProperties DEF Inv, InvAudio
    <2> QED BY <2>1
  <1>3. PICK p \in Int : p = prev_enc[n % c] /\ p = prev_enc[Channel(n + 1)]
    <2>1. Channel(n + 1) = n % c
      BY <1>1, <1>2 DEF Channel
    <2>2. prev_enc[Channel(n + 1)] \in Int
      BY <1>2, ChannelIs DEF EncodeHigh
    <2> QED BY <2>1, <2>2
  <1>4. sample \in Int16 /\ sample \in Int
    BY AudioAssumption, HalfIs DEF Int16
  <1>5. PICK s \in Symbol : s = Difference(sample, p) \div kAlphabetSize
    <2>1. sample - p \in Int
      BY <1>4
    <2> QED BY <2>1, SymbolsAre DEF Difference
  <1>6. Encode(s)
    BY <1>2, <1>3, <1>5 DEF EncodeHigh, Difference
  <1>7. /\ phase' \in {"encode", "overflow"}
        /\ phase' = "encode" => message' = Append(message, s) /\ Leads(message', enc', enc_model')
    BY <1>5, <1>6, EncodeLeads DEF RoundTrip
  <1>8. pcm' = Append(pcm, sample) /\ UNCHANGED <<header, prev_enc, prev_dec, output>>
    BY DEF EncodeHigh
  <1>9. InvWritten'
    <2>1. SUFFICES ASSUME phase' = "encode"
                   PROVE  Encoding(message', pcm', prev_enc', header'.channels)
      BY <1>7 DEF InvWritten
    <2>2. /\ Encoding(message, pcm, prev_enc, c) /\ Len(message) = 2 * Len(pcm)
          /\ message \in Seq(Symbol) /\ pcm \in Seq(Int16)
      BY <1>1, <1>6 DEF RoundTrip, InvWritten, EncodeHigh, Encode, Inv, InvAudio
    <2>3. Encoding(Append(message, s), Append(pcm, sample), prev_enc, c)
      <3>1. s = Difference(sample, prev_enc[Len(pcm) % c]) \div kAlphabetSize
        BY <1>2, <1>3, <1>5
      <3> QED BY <1>4, <2>2, <3>1, HighSpells
    <2> QED BY <1>1, <1>7, <1>8, <2>1, <2>3
  <1>10. InvReady'
    BY <1>7 DEF InvReady
  <1>11. InvDecoding' /\ InvReturned'
    <2>1. phase # "decode" /\ UNCHANGED <<decoded, dec_model>>
      BY <1>6 DEF Encode
    <2>2. pcm' \in Seq(Int16)
      BY DEF Inv, InvAudio
    <2>3. phase' # "decode"
      BY <1>7
    <2> QED BY <1>8, <2>1, <2>2, <2>3, DecoderWaits DEF RoundTrip
  <1> QED BY <1>9, <1>10, <1>11 DEF RoundTrip

LEMMA LowKeeps ==
  ASSUME Inv, Inv', RoundTrip, EncodeLow
  PROVE  RoundTrip'
  <1>1. message \in Seq(Symbol) /\ pcm \in Seq(Int16)
    BY DEF Inv, InvAudio
  <1>2. PICK n \in Nat : Len(pcm) = n + 1
    <2>1. Len(pcm) \in Nat /\ Len(message) \in Nat /\ Len(message) < 2 * Len(pcm)
      BY <1>1, LenProperties DEF EncodeLow
    <2>2. Len(pcm) - 1 \in Nat /\ Len(pcm) = (Len(pcm) - 1) + 1
      BY <2>1
    <2> QED BY <2>2
  <1>3. Valid
    <2>1. pcm # <<>>
      BY <1>2
    <2> QED BY <2>1 DEF Inv, InvAudio
  <1>4. PICK k \in Nat \ {0}, c \in Nat \ {0} :
            k = kMaxAudioChannels /\ c = header.channels /\ c <= k
    BY <1>3, ChannelsAre
  <1>5. PICK x \in Int16 : x = pcm[n + 1] /\ x = Last(pcm)
    <2>1. n + 1 \in 1..Len(pcm)
      BY <1>2
    <2>2. pcm[n + 1] \in Int16
      BY <1>1, <2>1, ElementOfSeq
    <2> QED BY <1>2, <2>2 DEF Last
  <1>6. Channel(n + 1) = n % c
    <2>1. (n + 1) - 1 = n
      OBVIOUS
    <2> QED BY <1>4, <2>1 DEF Channel
  <1>7. PICK p \in Int : p = prev_enc[n % c]
    <2>1. n + 1 \in Nat \ {0}
      OBVIOUS
    <2>2. prev_enc[Channel(n + 1)] \in Int
      BY <1>3, <2>1, ChannelIs
    <2> QED BY <1>6, <2>2
  <1>8. PICK s \in Symbol : s = Difference(x, p) % kAlphabetSize
    <2>1. x \in Int
      BY HalfIs DEF Int16
    <2>2. x - p \in Int
      BY <2>1
    <2> QED BY <2>2, SymbolsAre DEF Difference
  <1>9. Encode(s)
    BY <1>2, <1>5, <1>6, <1>7, <1>8 DEF EncodeLow, Difference
  <1>10. /\ phase' \in {"encode", "overflow"}
         /\ phase' = "encode" => message' = Append(message, s) /\ Leads(message', enc', enc_model')
    BY <1>9, EncodeLeads DEF RoundTrip
  <1>11. /\ prev_enc' = [prev_enc EXCEPT ![n % c] = pcm[n + 1]]
         /\ UNCHANGED <<header, pcm, prev_dec, output>>
    BY <1>2, <1>5, <1>6 DEF EncodeLow
  <1>12. InvWritten'
    <2>1. SUFFICES ASSUME phase' = "encode"
                   PROVE  Encoding(message', pcm', prev_enc', header'.channels)
      BY <1>10 DEF InvWritten
    <2>2. /\ Encoding(message, pcm, prev_enc, c) /\ Len(message) < 2 * Len(pcm)
          /\ prev_enc \in [0..(k - 1) -> Int]
      BY <1>3, <1>4, <1>9 DEF RoundTrip, InvWritten, EncodeLow, Encode, Inv, InvAudio
    <2>3. PICK next : next = [prev_enc EXCEPT ![n % c] = pcm[n + 1]]
      OBVIOUS
    <2>4. s = Difference(pcm[n + 1], prev_enc[n % c]) % kAlphabetSize
      BY <1>5, <1>7, <1>8
    <2>5. Encoding(Append(message, s), pcm, next, c)
      BY <1>1, <1>2, <1>4, <2>2, <2>3, <2>4, LowSpells
    <2> QED BY <1>4, <1>10, <1>11, <2>1, <2>3, <2>5
  <1>13. InvReady'
    BY <1>10 DEF InvReady
  <1>14. InvDecoding' /\ InvReturned'
    <2>1. phase # "decode" /\ UNCHANGED <<decoded, dec_model>>
      BY <1>9 DEF Encode
    <2>2. phase' # "decode" /\ pcm' \in Seq(Int16)
      BY <1>1, <1>10, <1>11
    <2> QED BY <1>11, <2>1, <2>2, DecoderWaits DEF RoundTrip
  <1> QED BY <1>12, <1>13, <1>14 DEF RoundTrip

LEMMA EndKeeps ==
  ASSUME Inv, Inv', RoundTrip, EncodeEnd
  PROVE  RoundTrip'
  <1>1. /\ phase = "encode" /\ enc' = Final(enc)
        /\ phase' \in {"flushed", "overflow"}
        /\ phase' = "flushed" => enc'.ok /\ stream' = Padded(enc'.out)
        /\ UNCHANGED <<message, enc_model, dec, dec_model, decoded>>
        /\ UNCHANGED <<header, pcm, prev_enc, prev_dec, output>>
    BY DEF EncodeEnd, Flush
  <1>2. message \in Seq(Symbol) /\ pcm \in Seq(Int16) /\ header \in Headers
    BY DEF Inv, InvAudio
  <1>3. Leads(message, enc, enc_model) /\ Encoding(message, pcm, prev_enc, header.channels)
    BY <1>1 DEF RoundTrip, InvWritten, EncodeEnd
  <1>4. InvWritten'
    BY <1>1 DEF InvWritten
  <1>5. Len(pcm) = Total /\ Len(message) = 2 * Len(pcm)
    <2>1. PICK a \in Nat, b \in Nat : a = header.num_samples /\ b = header.channels
      BY <1>2, AudioAssumption
    <2>2. PICK t \in Nat : t = Total
      <3>1. a * b \in Nat
        OBVIOUS
      <3> QED BY <2>1, <3>1 DEF Total
    <2>3. PICK n \in Nat : n = Len(pcm)
      BY <1>2, LenProperties
    <2>4. Len(message) = 2 * t
      BY <2>2 DEF EncodeEnd
    <2>5. Len(message) \in {2 * n - 1, 2 * n}
      BY <1>3, <2>3 DEF Encoding
    <2>6. n = t
      BY <2>4, <2>5
    <2> QED BY <2>2, <2>3, <2>4, <2>6
  <1>6. InvReady'
    <2>1. Total' = Total
      BY <1>1 DEF Total
    <2>2. Spelled(message, pcm, header.channels)
      BY <1>3 DEF Encoding
    <2>3. ASSUME phase' = "flushed" PROVE Ready(message', stream')
      <3>1. enc'.ok /\ stream' = Padded(enc'.out)
        BY <1>1, <2>3
      <3>2. PICK w : w = enc' /\ w = Final(enc) /\ w.ok
        BY <1>1, <3>1
      <3>3. Ready(message, Padded(w.out))
        BY <1>2, <1>3, <3>2, FlushIsReady
      <3> QED BY <1>1, <3>1, <3>2, <3>3
    <2>4. phase' # "decode"
      BY <1>1
    <2> QED BY <1>1, <1>5, <2>1, <2>2, <2>3, <2>4 DEF InvReady
  <1>7. InvDecoding' /\ InvReturned'
    <2>1. phase # "decode" /\ phase' # "decode" /\ pcm' \in Seq(Int16)
      BY <1>1, <1>2
    <2> QED BY <1>1, <2>1, DecoderWaits DEF RoundTrip
  <1> QED BY <1>4, <1>6, <1>7 DEF RoundTrip

LEMMA StartKeeps ==
  ASSUME Inv, Inv', RoundTrip, DecodeStart
  PROVE  RoundTrip'
  <1>1. /\ phase = "flushed" /\ Valid
        /\ phase' \in {"decode", "no stream"}
        /\ UNCHANGED <<message, stream, enc, enc_model, dec_model, decoded>>
        /\ UNCHANGED <<header, pcm, prev_enc, prev_dec, output>>
    BY DEF DecodeStart, Open
  <1>2. /\ output = <<>> /\ decoded = <<>> /\ prev_dec = Silence /\ dec_model = FreshModel
        /\ output \in Seq(Int16) /\ decoded \in Seq(Symbol)
        /\ prev_dec \in [0..(kMaxAudioChannels - 1) -> Int]
    BY <1>1 DEF RoundTrip, InvDecoding
  <1>3. InvWritten'
    BY <1>1 DEF InvWritten
  <1>4. InvReturned'
    <2>1. InvReturned' <=> InvReturned
      BY <1>1 DEF InvReturned
    <2> QED BY <2>1 DEF RoundTrip
  <1>5. InvReady'
    <2> SUFFICES ASSUME pcm' # <<>> PROVE InvReady'
      BY DEF InvReady
    <2>1. /\ Len(pcm) = Total /\ Len(message) = 2 * Len(pcm)
          /\ Spelled(message, pcm, header.channels) /\ Ready(message, stream)
      BY <1>1 DEF RoundTrip, InvReady
    <2>2. Total' = Total
      BY <1>1 DEF Total
    <2>3. ASSUME phase' = "decode" PROVE Follows(message', stream', dec', dec_model', decoded')
      <3>1. /\ ~(Len(stream) < Width)
            /\ dec' = [NewDecoder EXCEPT !.value = Number(SubSeq(stream, 1, Width)), !.pos = Width]
        BY <2>3 DEF DecodeStart, Open
      <3>2. StreamIsBits /\ message \in Seq(Symbol)
        BY DEF Inv, InvDecoder, InvAudio
      <3>3. Width <= Len(stream)
        <4>1. Len(stream) \in Nat /\ Width \in Nat
          BY <3>2, CoderAssumption, LenProperties DEF StreamIsBits
        <4> QED BY <3>1, <4>1
      <3>4. PICK d : /\ d = dec'
                     /\ d = [NewDecoder EXCEPT !.value = Number(SubSeq(stream, 1, Width)), !.pos = Width]
        BY <3>1
      <3>5. Follows(message, stream, d, FreshModel, <<>>)
        BY <2>1, <3>2, <3>3, <3>4, OpenFollows
      <3> QED BY <1>1, <1>2, <3>4, <3>5
    <2>4. phase' # "flushed"
      BY <1>1
    <2> QED BY <1>1, <2>1, <2>2, <2>3, <2>4 DEF InvReady
  <1>6. InvDecoding'
    <2>1. Valid' <=> Valid
      BY <1>1 DEF Valid, Total
    <2>2. PICK k \in Nat \ {0}, c \in Nat \ {0} :
              k = kMaxAudioChannels /\ c = header.channels /\ c <= k
      BY <1>1, ChannelsAre
    <2>3. Predicts(Silence, <<>>, 0, c)
      BY <2>2, SilencePredicts
    <2>4. PICK none : none = <<>> /\ Len(none) = 0
      OBVIOUS
    <2>5. output' = none /\ decoded' = none /\ prev_dec' = Silence /\ header'.channels = c
      BY <1>1, <1>2, <2>2, <2>4
    <2>6. Len(decoded') \in {2 * Len(output'), 2 * Len(output') + 1}
      BY <2>4, <2>5
    <2>7. Predicts(prev_dec', output', Len(output'), header'.channels)
      BY <2>3, <2>4, <2>5
    <2> QED BY <1>1, <1>2, <2>1, <2>6, <2>7 DEF InvDecoding
  <1> QED BY <1>3, <1>4, <1>5, <1>6 DEF RoundTrip

\* What decode_symbol returns.
LEMMA DecodeFollows ==
  ASSUME Inv, RoundTrip, Decode, pcm # <<>> => Len(decoded) < Len(message)
  PROVE  /\ NextSymbol \in Symbol
         /\ pcm # <<>> =>
               /\ NextSymbol = message[Len(decoded) + 1]
               /\ Follows(message', stream', dec', dec_model', decoded')
  <1>1. /\ StreamIsBits /\ Inside(dec) /\ Settled(dec) /\ Good(dec_model)
        /\ message \in Seq(Symbol) /\ decoded \in Seq(Symbol) /\ phase = "decode"
    BY DEF Inv, InvModels, InvDecoder, InvAudio, RoundTrip, InvDecoding, Decode
  <1>2. PICK s : s = NextSymbol /\ s = SymbolAt(dec_model, U16(Count(dec, total_frequency(dec_model))))
    BY DEF NextSymbol
  <1>3. s \in Symbol
    BY <1>1, <1>2, NextIs
  <1>4. ASSUME pcm # <<>>
        PROVE  /\ s = message[Len(decoded) + 1]
               /\ Follows(message', stream', dec', dec_model', decoded')
    <2>1. Follows(message, stream, dec, dec_model, decoded) /\ Len(decoded) < Len(message)
      BY <1>1, <1>4 DEF RoundTrip, InvReady
    <2>2. /\ s = message[Len(decoded) + 1]
          /\ Follows(message, stream, DecoderSettled(Narrowed(dec, get_stats(dec_model, s))),
                     Updated(dec_model, s), Append(decoded, s))
      BY <1>1, <1>2, <2>1, FollowsNext
    <2>3. /\ dec' = DecoderSettled(Narrowed(dec, get_stats(dec_model, s)))
          /\ dec_model' = Updated(dec_model, s) /\ decoded' = Append(decoded, s)
          /\ message' = message /\ stream' = stream
      BY <1>2 DEF Decode
    <2> QED BY <2>2, <2>3
  <1> QED BY <1>2, <1>3, <1>4

LEMMA DecodeHighKeeps ==
  ASSUME Inv, Inv', RoundTrip, DecodeHigh
  PROVE  RoundTrip'
  <1>1. /\ phase = "decode" /\ phase' = "decode"
        /\ decoded' = Append(decoded, NextSymbol)
        /\ UNCHANGED <<message, stream>> /\ UNCHANGED <<header, pcm, prev_enc, prev_dec, output>>
        /\ Len(decoded) = 2 * Len(output)
    BY DEF DecodeHigh, Decode
  <1>2. /\ Valid /\ output \in Seq(Int16) /\ decoded \in Seq(Symbol)
        /\ prev_dec \in [0..(kMaxAudioChannels - 1) -> Int]
        /\ Predicts(prev_dec, output, Len(output), header.channels)
    BY <1>1 DEF RoundTrip, InvDecoding
  <1>3. ASSUME pcm # <<>> PROVE Len(decoded) < Len(message)
    <2>1. Len(pcm) = Total /\ Len(message) = 2 * Len(pcm)
      BY <1>1, <1>3 DEF RoundTrip, InvReady
    <2>2. Len(output) < Len(pcm)
      BY <2>1 DEF DecodeHigh
    <2>3. PICK n \in Nat, m \in Nat : n = Len(pcm) /\ m = Len(output)
      <3>1. Len(pcm) \in Nat /\ Len(output) \in Nat
        BY <1>2, LenProperties DEF Inv, InvAudio
      <3> QED BY <3>1
    <2> QED BY <1>1, <2>1, <2>2, <2>3
  <1>4. /\ NextSymbol \in Symbol
        /\ pcm # <<>> => Follows(message', stream', dec', dec_model', decoded')
    BY <1>3, DecodeFollows DEF DecodeHigh
  <1>5. InvWritten'
    BY <1>1 DEF InvWritten
  <1>6. InvReady'
    <2>1. Total' = Total
      BY <1>1 DEF Total
    <2>2. pcm # <<>> => /\ Len(pcm) = Total /\ Len(message) = 2 * Len(pcm)
                        /\ Spelled(message, pcm, header.channels)
      BY <1>1 DEF RoundTrip, InvReady
    <2> QED BY <1>1, <1>4, <2>1, <2>2 DEF InvReady
  <1>7. InvDecoding'
    <2>1. Valid'
      BY <1>1, <1>2 DEF Valid, Total
    <2>2. decoded' \in Seq(Symbol) /\ Len(decoded') = Len(decoded) + 1
      BY <1>1, <1>2, <1>4, AppendProperties
    <2>3. Len(decoded') \in {2 * Len(output'), 2 * Len(output') + 1}
      BY <1>1, <2>2
    <2>4. Predicts(prev_dec', output', Len(output'), header'.channels)
      BY <1>1, <1>2
    <2> QED BY <1>1, <1>2, <2>1, <2>2, <2>3, <2>4 DEF InvDecoding
  <1>8. InvReturned'
    <2>1. InvReturned' <=> InvReturned
      BY <1>1 DEF InvReturned
    <2> QED BY <2>1 DEF RoundTrip
  <1> QED BY <1>5, <1>6, <1>7, <1>8 DEF RoundTrip

LEMMA UnmappedIs ==
  ASSUME NEW u \in Nat
  PROVE  unmap_uint16_to_int16(u) \in Int
  BY DEF unmap_uint16_to_int16

LEMMA DecodeLowKeeps ==
  ASSUME Inv, Inv', RoundTrip, DecodeLow
  PROVE  RoundTrip'
  <1>1. /\ phase = "decode" /\ phase' = "decode"
        /\ decoded' = Append(decoded, NextSymbol)
        /\ UNCHANGED <<message, stream, header, pcm, prev_enc>>
        /\ Len(decoded) = 2 * Len(output) + 1
    BY DEF DecodeLow, Decode
  <1>2. /\ Valid /\ output \in Seq(Int16) /\ decoded \in Seq(Symbol)
        /\ prev_dec \in [0..(kMaxAudioChannels - 1) -> Int]
        /\ Predicts(prev_dec, output, Len(output), header.channels)
        /\ message \in Seq(Symbol) /\ pcm \in Seq(Int16)
    BY <1>1 DEF RoundTrip, InvDecoding, Inv, InvAudio
  <1>3. PICK k \in Nat \ {0}, c \in Nat \ {0} :
            k = kMaxAudioChannels /\ c = header.channels /\ c <= k
    BY <1>2, ChannelsAre
  <1>4. PICK n \in Nat : n = Len(output) /\ Len(decoded) = 2 * n + 1
    BY <1>1, <1>2, LenProperties
  <1>5. PICK ch \in 0..(k - 1) : ch = n % c /\ ch = DecoderChannel(Len(output) + 1)
    <2>1. (n + 1) - 1 = n
      OBVIOUS
    <2>2. n % c \in 0..(c - 1)
      BY DivideIs
    <2>3. n % c \in 0..(k - 1)
      BY <1>3, <2>2
    <2>4. DecoderChannel(Len(output) + 1) = n % c
      BY <1>3, <1>4, <2>1 DEF DecoderChannel, Channel
    <2> QED BY <2>3, <2>4
  <1>6. ASSUME pcm # <<>>
        PROVE  /\ Len(message) = 2 * Len(pcm) /\ Spelled(message, pcm, c)
               /\ n < Len(pcm) /\ Len(decoded) < Len(message)
               /\ \A i \in 1..n : output[i] = pcm[i]
               /\ \A i \in 1..(2 * n + 1) : decoded[i] = message[i]
    <2>1. /\ Len(message) = 2 * Len(pcm) /\ Spelled(message, pcm, c)
          /\ Follows(message, stream, dec, dec_model, decoded)
      BY <1>1, <1>3, <1>6 DEF RoundTrip, InvReady
    <2>2. PICK m \in Nat : m = Len(pcm)
      BY <1>2, LenProperties
    <2>3. 2 * n + 1 <= 2 * m
      BY <1>4, <2>1, <2>2 DEF Follows
    <2>4. n < m /\ 2 * n + 1 < 2 * m
      BY <2>3
    <2>5. \A i \in 1..n : output[i] = pcm[i]
      BY <1>4, <1>6 DEF RoundTrip, InvReturned
    <2>6. \A i \in 1..(2 * n + 1) : decoded[i] = message[i]
      BY <1>4, <2>1 DEF Follows
    <2> QED BY <1>4, <2>1, <2>2, <2>4, <2>5, <2>6
  <1>7. /\ NextSymbol \in Symbol
        /\ pcm # <<>> => /\ NextSymbol = message[Len(decoded) + 1]
                         /\ Follows(message', stream', dec', dec_model', decoded')
    BY <1>6, DecodeFollows DEF DecodeLow
  <1>8. PICK high \in Symbol : high = Last(decoded) /\ high = decoded[2 * n + 1]
    <2>1. 2 * n + 1 \in 1..Len(decoded)
      BY <1>4
    <2>2. decoded[2 * n + 1] \in Symbol
      BY <1>2, <2>1, ElementOfSeq
    <2> QED BY <1>4, <2>2 DEF Last
  <1>9. PICK low \in Symbol : low = NextSymbol
    BY <1>7
  <1>10. PICK v \in Int : v = prev_dec[ch] + unmap_uint16_to_int16(Together(high, low))
    <2>1. PICK a \in Nat : a = kAlphabetSize
      BY ContextModelAssumption
    <2>2. PICK x \in Nat, y \in Nat : x = high /\ y = low
      BY <2>1 DEF Symbol
    <2>3. x * a + y \in Nat
      <3>1. x * a \in Nat
        OBVIOUS
      <3> QED BY <3>1
    <2>4. Together(high, low) \in Nat
      BY <2>1, <2>2, <2>3 DEF Together
    <2>5. PICK u \in Int : u = unmap_uint16_to_int16(Together(high, low))
      BY <2>4, UnmappedIs
    <2>6. PICK p \in Int : p = prev_dec[ch]
      BY <1>2, <1>3
    <2>7. p + u \in Int
      OBVIOUS
    <2> QED BY <2>5, <2>6, <2>7
  <1>11. PICK sample \in Int16 : sample = Wrap(v)
    BY WrapIs
  <1>12. output' = Append(output, sample) /\ prev_dec' = [prev_dec EXCEPT ![ch] = sample]
    <2>1. sample = Reconstructed(prev_dec[ch],
                      unmap_uint16_to_int16(Last(decoded) * kAlphabetSize + NextSymbol))
      BY <1>8, <1>9, <1>10, <1>11 DEF Reconstructed, Together
    <2> QED BY <1>5, <2>1 DEF DecodeLow
  <1>13. PICK more \in Seq(Int16) :
            /\ more = output' /\ more = Append(output, sample) /\ Len(more) = n + 1
            /\ \A i \in 1..n : more[i] = output[i]
            /\ more[n + 1] = sample
    <2>1. /\ Append(output, sample) \in Seq(Int16) /\ Len(Append(output, sample)) = Len(output) + 1
          /\ \A i \in 1..Len(output) : Append(output, sample)[i] = output[i]
          /\ Append(output, sample)[Len(output) + 1] = sample
      BY <1>2, AppendProperties
    <2> QED BY <1>4, <1>12, <2>1
  <1>14. InvWritten'
    BY <1>1 DEF InvWritten
  <1>15. InvReady'
    <2>1. Total' = Total
      BY <1>1 DEF Total
    <2>2. pcm # <<>> => /\ Len(pcm) = Total /\ Len(message) = 2 * Len(pcm)
                        /\ Spelled(message, pcm, header.channels)
      BY <1>1 DEF RoundTrip, InvReady
    <2> QED BY <1>1, <1>7, <2>1, <2>2 DEF InvReady
  <1>16. InvDecoding'
    <2>1. Valid'
      BY <1>1, <1>2 DEF Valid, Total
    <2>2. decoded' \in Seq(Symbol) /\ Len(decoded') = 2 * (n + 1)
      <3>1. decoded' \in Seq(Symbol) /\ Len(decoded') = Len(decoded) + 1
        BY <1>1, <1>2, <1>7, AppendProperties
      <3> QED BY <1>4, <3>1
    <2>3. Len(decoded') \in {2 * Len(output'), 2 * Len(output') + 1}
      BY <1>13, <2>2
    <2>4. prev_dec' \in [0..(kMaxAudioChannels - 1) -> Int]
      <3>1. sample \in Int
        BY HalfIs DEF Int16
      <3> QED BY <1>2, <1>12, <3>1
    <2>5. Predicts(prev_dec, more, n, c)
      <3>1. Predicts(prev_dec, output, n, c) /\ n <= Len(output)
        BY <1>2, <1>3, <1>4
      <3> QED BY <1>2, <1>13, <3>1, PredictsMore
    <2>6. Predicts(prev_dec', more, n + 1, c)
      <3>1. prev_dec \in [0..(k - 1) -> Int] /\ n < Len(more)
        BY <1>2, <1>3, <1>13
      <3>2. PICK next : next = prev_dec' /\ next = [prev_dec EXCEPT ![n % c] = more[n + 1]]
        BY <1>5, <1>12, <1>13
      <3>3. Predicts(next, more, n + 1, c)
        BY <1>3, <2>5, <3>1, <3>2, PredictsNext
      <3> QED BY <3>2, <3>3
    <2>7. Predicts(prev_dec', output', Len(output'), header'.channels)
      BY <1>1, <1>3, <1>13, <2>6
    <2>8. output' \in Seq(Int16)
      BY <1>13
    <2> QED BY <1>1, <2>1, <2>2, <2>3, <2>4, <2>7, <2>8 DEF InvDecoding
  <1>17. InvReturned'
    <2> SUFFICES ASSUME pcm # <<>>
                 PROVE  Len(more) <= Len(pcm) /\ \A i \in 1..Len(more) : more[i] = pcm[i]
      BY <1>1, <1>13 DEF InvReturned
    <2>1. sample = pcm[n + 1]
      <3>1. high = message[2 * n + 1] /\ low = message[2 * n + 2]
        <4>1. 2 * n + 1 \in 1..(2 * n + 1) /\ (2 * n + 1) + 1 = 2 * n + 2
          OBVIOUS
        <4> QED BY <1>4, <1>6, <1>7, <1>8, <1>9, <4>1
      <3>2. Predicts(prev_dec, output, n, c)
        BY <1>2, <1>3, <1>4
      <3>3. Resumes(message, pcm, output, prev_dec, n, c)
        BY <1>4, <1>6, <3>2 DEF Resumes
      <3>4. Returned(message, prev_dec, n, c) = pcm[n + 1]
        BY <1>2, <3>3, PairIsSample
      <3>5. Pair(message, n) = Together(high, low)
        BY <3>1 DEF Pair
      <3> QED BY <1>5, <1>10, <1>11, <3>4, <3>5 DEF Returned
    <2>2. n + 1 <= Len(pcm)
      <3>1. Len(pcm) \in Nat
        BY <1>2, LenProperties
      <3> QED BY <1>6, <3>1
    <2>3. ASSUME NEW i \in 1..(n + 1) PROVE more[i] = pcm[i]
      <3>1. CASE i \in 1..n
        BY <1>6, <1>13, <3>1
      <3>2. CASE i = n + 1
        BY <1>13, <2>1, <3>2
      <3> QED BY <3>1, <3>2
    <2> QED BY <1>13, <2>2, <2>3
  <1> QED BY <1>14, <1>15, <1>16, <1>17 DEF RoundTrip

LEMMA NextRoundTrip == Inv /\ Inv' /\ RoundTrip /\ [Next]_vars => RoundTrip'
  <1> SUFFICES ASSUME Inv, Inv', RoundTrip, [Next]_vars PROVE RoundTrip'
    OBVIOUS
  <1>1. ASSUME UNCHANGED vars PROVE RoundTrip'
    BY <1>1 DEF RoundTrip, vars, coderVars, InvWritten, InvReady, InvDecoding, InvReturned,
       Valid, Total
  <1> QED BY <1>1, HighKeeps, LowKeeps, EndKeeps, StartKeeps, DecodeHighKeeps, DecodeLowKeeps
          DEF Next

\* What decode_pcm16 returns of a stream of encode_pcm16 is, sample by sample and
\* channel by channel, what was encoded, for every message and every header; and of any
\* other stream it is int16_t as well (lines 7-98 of audio_engine.cpp).
THEOREM LosslessHolds == Spec => []Lossless
  <1>1. Inv /\ RoundTrip => Lossless
    <2> SUFFICES ASSUME Inv, RoundTrip PROVE Lossless
      OBVIOUS
    <2>1. output \in Seq(Int16) /\ pcm \in Seq(Int16)
      BY DEF RoundTrip, InvDecoding, Inv, InvAudio
    <2>2. PICK n \in Nat, m \in Nat : n = Len(output) /\ m = Len(pcm)
      BY <2>1, LenProperties
    <2>3. \A i \in 1..n : output[i] \in Int16
      BY <2>1, <2>2, ElementOfSeq
    <2>4. ToSet(output) \subseteq Int16
      BY <2>1, <2>2, <2>3 DEF ToSet
    <2>5. ASSUME pcm # <<>> PROVE IsPrefix(output, pcm)
      <3>1. n <= m /\ \A i \in 1..n : output[i] = pcm[i]
        BY <2>2, <2>5 DEF RoundTrip, InvReturned
      <3>2. \A i \in 1..n : pcm[i] \in Int16
        BY <2>3, <3>1
      <3>3. PICK a : a = SubSeq(output, 1, n)
        OBVIOUS
      <3>4. PICK b : b = SubSeq(pcm, 1, n)
        OBVIOUS
      <3>5. a \in Seq(Int16) /\ Len(a) = n /\ \A i \in 1..n : a[i] = output[i]
        <4>1. /\ a \in Seq(Int16) /\ Len(a) = IF 1 <= n THEN n - 1 + 1 ELSE 0
              /\ \A i \in 1..(n - 1 + 1) : a[i] = output[1 + i - 1]
          BY <2>3, <3>3, SubSeqProperties
        <4>2. \A i \in 1..n : i \in 1..(n - 1 + 1) /\ 1 + i - 1 = i
          OBVIOUS
        <4>3. Len(a) = n
          BY <4>1
        <4> QED BY <4>1, <4>2, <4>3
      <3>6. b \in Seq(Int16) /\ Len(b) = n /\ \A i \in 1..n : b[i] = pcm[i]
        <4>1. /\ b \in Seq(Int16) /\ Len(b) = IF 1 <= n THEN n - 1 + 1 ELSE 0
              /\ \A i \in 1..(n - 1 + 1) : b[i] = pcm[1 + i - 1]
          BY <3>2, <3>4, SubSeqProperties
        <4>2. \A i \in 1..n : i \in 1..(n - 1 + 1) /\ 1 + i - 1 = i
          OBVIOUS
        <4>3. Len(b) = n
          BY <4>1
        <4> QED BY <4>1, <4>2, <4>3
      <3>7. a = b
        BY <3>1, <3>5, <3>6, SeqEqual
      <3> QED BY <2>2, <3>1, <3>3, <3>4, <3>7 DEF IsPrefix
    <2> QED BY <2>4, <2>5 DEF Lossless
  <1> QED BY <1>1, InvHolds, InitRoundTrip, NextRoundTrip, PTL DEF Spec
=============================================================================
