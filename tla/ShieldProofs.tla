---------------------------- MODULE ShieldProofs ----------------------------
(***************************************************************************)
(* Proofs about Shield: an exact verdict is deserved whatever changes      *)
(* during the analysis, what is unsafe has a type and a detector that      *)
(* flagged it, a semantic model is whole or gone, the slowest tempo, and   *)
(* the components of a mask are its connected classes.                     *)
(***************************************************************************)
EXTENDS Shield, WellFoundedInduction, NaturalsInduction, SequenceTheorems,
        FiniteSetTheorems, TLAPS

\* A set of natural numbers that is not empty has a least element.
LEMMA Least ==
  ASSUME NEW T \in SUBSET Nat, T # {}
  PROVE  \E m \in T : \A k \in T : m <= k
  <1> DEFINE R == {p \in Nat \X Nat : p[1] < p[2]}
  <1>1. IsWellFoundedOn(R, Nat)
    BY NatLessThanWellFounded DEF OpToRel
  <1>2. \A k, m \in Nat : <<k, m>> \notin R => m <= k
    OBVIOUS
  <1> HIDE DEF R
  <1>3. PICK m \in T : \A k \in T : <<k, m>> \notin R
    BY <1>1, WFMin
  <1> QED BY <1>2, <1>3, Zenon

\* A set that has zero, and with each number the next, has them all.
LEMMA Induct ==
  ASSUME NEW T, 0 \in T, \A k \in Nat : k \in T => k + 1 \in T
  PROVE  \A n \in Nat : n \in T
  <1> DEFINE Bad == Nat \ T
  <1> SUFFICES ASSUME Bad # {} PROVE FALSE
    OBVIOUS
  <1>1. Bad \in SUBSET Nat
    OBVIOUS
  <1>2. PICK m \in Bad : \A k \in Bad : m <= k
    <2> HIDE DEF Bad
    <2> QED BY <1>1, Least
  <1>3. m # 0 /\ m - 1 \in Nat /\ m - 1 \notin Bad
    BY <1>1, <1>2
  <1> QED BY <1>3


(***************************************************************************)
(* Recursions over the numbers from zero.                                  *)
(***************************************************************************)
Recursion(S, base, step) == base \in S /\ step \in [S \X Nat -> S]

Result(S, base, step, n, g) ==
    g \in [0..n -> S] /\ g[0] = base /\ \A i \in 1..n : g[i] = step[<<g[i - 1], i>>]

LEMMA RecursionIs ==
  ASSUME NEW S, NEW base, NEW step, Recursion(S, base, step), NEW n \in Nat
  PROVE  \E g : Result(S, base, step, n, g)
  <1> DEFINE Is(g, k) == g[0] = base /\ \A i \in 1..k : g[i] = step[<<g[i - 1], i>>]
             T == {k \in Nat : \E g \in [0..k -> S] : Is(g, k)}
  <1> USE DEF Recursion
  <1>1. 0 \in T
    <2>1. [i \in 0..0 |-> base] \in [0..0 -> S] /\ Is([i \in 0..0 |-> base], 0)
      OBVIOUS
    <2> QED BY <2>1
  <1>2. ASSUME NEW k \in Nat, k \in T PROVE k + 1 \in T
    <2>1. PICK g \in [0..k -> S] : Is(g, k)
      BY <1>2
    <2>2. PICK new \in S : new = step[<<g[k], k + 1>>]
      OBVIOUS
    <2>3. PICK h : h = [i \in 0..(k + 1) |-> IF i = k + 1 THEN new ELSE g[i]]
      OBVIOUS
    <2>4. h[k + 1] = new /\ \A i \in 0..k : h[i] = g[i]
      BY <2>3
    <2>5. h \in [0..(k + 1) -> S]
      <3> SUFFICES ASSUME NEW i \in 0..(k + 1) PROVE h[i] \in S
        BY <2>3
      <3>1. i = k + 1 \/ i \in 0..k
        OBVIOUS
      <3> QED BY <2>4, <3>1
    <2>6. ASSUME NEW i \in 1..(k + 1) PROVE h[i] = step[<<h[i - 1], i>>]
      <3>1. CASE i = k + 1
        <4>1. h[i - 1] = g[k]
          BY <2>4, <3>1
        <4> QED BY <2>2, <2>4, <3>1, <4>1
      <3>2. CASE i # k + 1
        <4>1. i \in 1..k /\ i - 1 \in 0..k /\ i \in 0..k
          BY <3>2
        <4> QED BY <2>1, <2>4, <4>1
      <3> QED BY <3>1, <3>2
    <2>7. Is(h, k + 1)
      BY <2>1, <2>4, <2>6
    <2> HIDE DEF Is
    <2> QED BY <2>5, <2>7
  <1> HIDE DEF T
  <1>3. n \in T
    BY <1>1, <1>2, Induct
  <1>4. PICK g \in [0..n -> S] : Is(g, n)
    BY <1>3 DEF T
  <1>5. Result(S, base, step, n, g)
    BY <1>4 DEF Result
  <1> QED BY <1>5

-----------------------------------------------------------------------------
(***************************************************************************)
(* Tempos.                                                                 *)
(***************************************************************************)
LEMMA PairIs ==
  ASSUME NEW a \in Int, NEW b \in Int
  PROVE  /\ Max({a, b}) = IF a >= b THEN a ELSE b
         /\ Min({a, b}) = IF a <= b THEN a ELSE b
  <1>1. \E x \in {a, b} : \A y \in {a, b} : x >= y
    OBVIOUS
  <1>2. \E x \in {a, b} : \A y \in {a, b} : x <= y
    OBVIOUS
  <1>3. Max({a, b}) \in {a, b} /\ \A y \in {a, b} : Max({a, b}) >= y
    BY <1>1 DEF Max
  <1>4. Min({a, b}) \in {a, b} /\ \A y \in {a, b} : Min({a, b}) <= y
    BY <1>2 DEF Min
  <1> QED BY <1>3, <1>4

\* Division with a remainder.
LEMMA DivideIs ==
  ASSUME NEW m \in Nat \ {0}, NEW a \in Nat
  PROVE  a \div m \in Nat /\ a % m \in 0..(m - 1) /\ a = m * (a \div m) + (a % m)
  <1>1. PICK r \in 0..(m - 1) : r = a % m
    OBVIOUS
  <1>2. PICK q \in Int : q = a \div m
    OBVIOUS
  <1>3. a = m * q + r
    BY <1>1, <1>2, Z3
  <1>4. a \div m \in Nat
    OBVIOUS
  <1> QED BY <1>1, <1>2, <1>3, <1>4

LEMMA Monotone ==
  ASSUME NEW k \in Nat \ {0}, NEW m \in Nat, NEW n \in Nat
  PROVE  (m <= n => k * m <= k * n) /\ (k * m < k * n => m < n)
  <1>1. \A a, b, c \in Nat : a <= b => c * a <= c * b
    BY Z3
  <1>2. m <= n => k * m <= k * n
    BY <1>1
  <1>3. n <= m => k * n <= k * m
    BY <1>1
  <1>4. k * m \in Nat /\ k * n \in Nat
    OBVIOUS
  <1> QED BY <1>2, <1>3, <1>4

\* A quotient is the largest number of times the divisor fits.
LEMMA QuotientIs ==
  ASSUME NEW m \in Nat \ {0}, NEW a \in Nat
  PROVE  /\ a \div m \in Nat
         /\ m * (a \div m) <= a
         /\ a < m * (a \div m + 1)
  <1>1. PICK r \in 0..(m - 1) : r = a % m
    OBVIOUS
  <1>2. PICK q \in Nat : q = a \div m /\ a = m * q + r
    BY <1>1, DivideIs
  <1>3. m * (q + 1) = m * q + m
    BY Z3
  <1>4. m * q \in Nat
    OBVIOUS
  <1> QED BY <1>1, <1>2, <1>3, <1>4

\* A lag that is tried stands for 60 beats per minute or more (lines 77-100 of
\* bpm_energy.cpp).
LEMMA TempoIs ==
  ASSUME NEW size \in Nat, NEW rate \in Nat, NEW lag \in Lags(size, rate)
  PROVE  /\ Tempo(rate, lag).bpm \in Nat /\ Tempo(rate, lag).bpm >= 60
         /\ Tempo(rate, lag).fast => Tempo(rate, lag).bpm >= 110
  <1>1. PICK h \in Nat \ {0} : h = hop_size
    BY DEF hop_size
  <1>2. PICK a \in Nat : a = rate * 60 /\ a = 60 * rate
    OBVIOUS
  <1>3. PICK w \in Nat \ {0} : w = h * 200
    OBVIOUS
  <1>4. PICK q \in Nat : q = a \div w /\ a < w * (q + 1)
    BY QuotientIs
  <1>5. PICK top \in Nat : top = rate \div h /\ h * top <= rate
    BY QuotientIs
  <1>6. PICK frames \in Nat : frames = size \div h
    BY QuotientIs
  <1>7. lag \in Max({1, q})..Min({frames - 1, top})
    <2>1. Lags(size, rate) = IF size < rate \/ frames < 10 THEN {}
                             ELSE Max({1, a \div w})..Min({frames - 1, top})
      <3> HIDE DEF hop_size
      <3> QED BY <1>1, <1>2, <1>3, <1>5, <1>6, ZenonT(60) DEF Lags, LagsUpTo
    <2> QED BY <1>4, <2>1
  <1>8. lag \in Nat /\ lag >= 1 /\ lag >= q /\ lag <= top
    <2>1. Max({1, q}) = IF 1 >= q THEN 1 ELSE q
      BY PairIs
    <2>2. Min({frames - 1, top}) = IF frames - 1 <= top THEN frames - 1 ELSE top
      <3>1. PICK e \in Int : e = frames - 1
        OBVIOUS
      <3>2. Min({e, top}) = IF e <= top THEN e ELSE top
        BY PairIs
      <3> QED BY <3>1, <3>2
    <2>3. PICK b \in Nat : b = Max({1, q}) /\ b >= 1 /\ b >= q
      BY <2>1
    <2>4. PICK c \in Int : c = Min({frames - 1, top}) /\ c <= top
      BY <2>2
    <2>5. lag \in b..c
      BY <1>7, <2>3, <2>4
    <2> QED BY <2>3, <2>4, <2>5
  <1>9. PICK d \in Nat \ {0} : d = h * lag
    <2>1. \A m, n \in Nat \ {0} : m * n \in Nat \ {0}
      BY Z3
    <2> QED BY <1>8, <2>1
  <1>10. d * 60 <= a
    <2>1. h * lag <= h * top
      BY <1>8, Monotone
    <2>2. d <= rate
      BY <1>5, <1>9, <2>1
    <2> QED BY <1>2, <2>2
  <1>12. PICK b \in Nat : b = a \div d /\ d * b <= a /\ a < d * (b + 1)
    BY QuotientIs
  <1>13. 60 <= b
    <2>1. d * (b + 1) \in Nat /\ d * 60 \in Nat
      OBVIOUS
    <2>2. d * 60 < d * (b + 1)
      BY <1>10, <1>12, <2>1
    <2>3. 60 < b + 1
      BY <2>2, Monotone, 60 \in Nat, b + 1 \in Nat
    <2> QED BY <2>3
  <1>14. a > 110 * d => b >= 110
    <2> SUFFICES ASSUME a > 110 * d PROVE b >= 110
      OBVIOUS
    <2>1. d * (b + 1) \in Nat /\ d * 110 \in Nat /\ 110 * d = d * 110
      OBVIOUS
    <2>2. d * 110 < d * (b + 1)
      BY <1>12, <2>1
    <2>3. 110 < b + 1
      BY <2>2, Monotone, 110 \in Nat, b + 1 \in Nat
    <2> QED BY <2>3
  <1>15. Tempo(rate, lag).bpm = b
    BY <1>1, <1>2, <1>9, <1>12 DEF Tempo
  <1>16. Tempo(rate, lag).fast => a > 110 * d
    <2>1. Tempo(rate, lag).fast = (60 * rate > 110 * h * lag)
      BY <1>1 DEF Tempo
    <2>2. 110 * h * lag = 110 * (h * lag)
      <3>1. \A m, n, k \in Nat : k * m * n = k * (m * n)
        BY Z3
      <3> QED BY <1>8, <3>1
    <2> QED BY <1>2, <1>9, <2>1, <2>2
  <1> QED BY <1>13, <1>14, <1>15, <1>16

-----------------------------------------------------------------------------
(***************************************************************************)
(* Texts, their tokens and the words in them.                              *)
(***************************************************************************)
Pieces(text) == {SubSeq(text, a, b) : a \in 1..Len(text), b \in 1..Len(text)}

Progress(text) == [start : Nat \ {0}, tokens : Seq(Pieces(text))]

LEMMA CutIs ==
  ASSUME NEW S, NEW text \in Seq(S), NEW r \in Progress(text), NEW end \in 1..(Len(text) + 1)
  PROVE  Cut(text, r, end) \in Seq(Pieces(text))
  <1>1. Len(text) \in Nat
    BY LenProperties
  <1>2. r.start \in Nat \ {0} /\ r.tokens \in Seq(Pieces(text))
    BY DEF Progress
  <1>3. CASE end > r.start
    <2>1. r.start \in 1..Len(text) /\ end - 1 \in 1..Len(text)
      BY <1>1, <1>2, <1>3
    <2>2. SubSeq(text, r.start, end - 1) \in Pieces(text)
      <3>1. PICK a \in 1..Len(text), b \in 1..Len(text) : a = r.start /\ b = end - 1
        BY <2>1
      <3>2. SubSeq(text, a, b) \in Pieces(text)
        BY DEF Pieces
      <3> QED BY <3>1, <3>2
    <2>3. Append(r.tokens, SubSeq(text, r.start, end - 1)) \in Seq(Pieces(text))
      BY <1>2, <2>2, AppendProperties
    <2> QED BY <1>3, <2>3 DEF Cut
  <1>4. CASE ~(end > r.start)
    BY <1>2, <1>4 DEF Cut
  <1> QED BY <1>3, <1>4

\* Every token is a piece of its text (lines 62-79 of sam_inference.cpp).
LEMMA SplitIs ==
  ASSUME NEW S, NEW text \in Seq(S), NEW separators
  PROVE  Split(text, separators) \in Seq(Pieces(text))
  <1> DEFINE n == Len(text)
             P == Progress(text)
             first == [start |-> 1, tokens |-> <<>>]
             turned(r, i) == IF text[i] \in separators
                             THEN [start |-> i + 1, tokens |-> Cut(text, r, i)] ELSE r
             step == [p \in P \X Nat |-> IF p[2] \in 1..n THEN turned(p[1], p[2]) ELSE p[1]]
  <1>1. n \in Nat
    BY LenProperties
  <1>2. first \in P
    BY EmptySeq DEF Progress
  <1>3. ASSUME NEW r \in P, NEW i \in 1..n PROVE turned(r, i) \in P
    <2>1. i \in 1..(Len(text) + 1) /\ i + 1 \in Nat \ {0}
      BY <1>1
    <2>2. Cut(text, r, i) \in Seq(Pieces(text))
      BY <2>1, CutIs
    <2>3. [start |-> i + 1, tokens |-> Cut(text, r, i)] \in P
      BY <2>1, <2>2 DEF Progress
    <2> QED BY <2>3
  <1> HIDE DEF turned, P, first, n
  <1>4. Recursion(P, first, step)
    <2>1. step \in [P \X Nat -> P]
      BY <1>3
    <2> QED BY <1>2, <2>1 DEF Recursion
  <1>5. PICK g : Result(P, first, step, n, g)
    BY <1>1, <1>4, RecursionIs
  <1>6. g \in [0..n -> P] /\ g[0] = first /\ \A i \in 1..n : g[i] = turned(g[i - 1], i)
    <2>1. g \in [0..n -> P] /\ g[0] = first /\ \A i \in 1..n : g[i] = step[<<g[i - 1], i>>]
      BY <1>5 DEF Result
    <2>2. ASSUME NEW i \in 1..n PROVE g[i] = turned(g[i - 1], i)
      <3>1. g[i - 1] \in P /\ i \in Nat
        BY <1>1, <2>1
      <3>2. g[i] = step[<<g[i - 1], i>>]
        <4> HIDE DEF step
        <4> QED BY <2>1
      <3> QED BY <3>1, <3>2
    <2> QED BY <2>1, <2>2
  <1> HIDE DEF step
  <1> DEFINE turn == CHOOSE f : f = [i \in 0..n |-> IF i = 0 THEN first ELSE turned(f[i - 1], i)]
  <1>7. g = [i \in 0..n |-> IF i = 0 THEN first ELSE turned(g[i - 1], i)]
    <2>1. \A i \in 0..n : i = 0 \/ i \in 1..n
      BY <1>1
    <2> QED BY <1>6, <2>1
  <1>8. turn = [i \in 0..n |-> IF i = 0 THEN first ELSE turned(turn[i - 1], i)]
    BY <1>7, Zenon
  <1>9. Split(text, separators) = Cut(text, turn[n], n + 1)
    BY DEF Split, turned, n, first
  <1> HIDE DEF turn
  <1>10. \A i \in 0..n : turn[i] = IF i = 0 THEN first ELSE turned(turn[i - 1], i)
    BY <1>8, Zenon
  <1> DEFINE T == {i \in Nat : i <= n => turn[i] \in P}
  <1>11. 0 \in T
    BY <1>1, <1>2, <1>10
  <1>12. ASSUME NEW i \in Nat, i \in T PROVE i + 1 \in T
    <2> SUFFICES ASSUME i + 1 <= n PROVE turn[i + 1] \in P
      OBVIOUS
    <2>1. i + 1 \in 0..n /\ i + 1 # 0 /\ i + 1 \in 1..n /\ (i + 1) - 1 = i /\ i <= n
      BY <1>1
    <2>2. turn[i] \in P
      BY <1>12, <2>1
    <2>3. turn[i + 1] = turned(turn[i], i + 1)
      BY <1>10, <2>1
    <2> QED BY <1>3, <2>1, <2>2, <2>3
  <1> HIDE DEF T
  <1>13. n \in T
    BY <1>1, <1>11, <1>12, Induct
  <1>14. turn[n] \in P
    BY <1>1, <1>13 DEF T
  <1>15. Len(text) + 1 \in 1..(Len(text) + 1)
    BY <1>1 DEF n
  <1>16. Cut(text, turn[n], n + 1) \in Seq(Pieces(text))
    BY <1>14, <1>15, CutIs DEF n, P
  <1> QED BY <1>9, <1>16

Kept == Characters \ DOMAIN ARABIZI_SINGLE_MAP

LEMMA SubstitutedIs ==
  ASSUME NEW text \in Seq(Characters), NEW i \in 1..Len(text)
  PROVE  /\ Substituted(text, i).char \in Kept
         /\ Substituted(text, i).width \in Nat
  <1>1. /\ \A x \in DOMAIN ARABIZI_MULTI_MAP : ARABIZI_MULTI_MAP[x] \in Kept
        /\ \A x \in DOMAIN ARABIZI_SINGLE_MAP : ARABIZI_SINGLE_MAP[x] \in Kept
    BY TextAssumption DEF Kept
  <1>2. text[i] \in Characters
    BY ElementOfSeq
  <1> DEFINE pair == SubSeq(text, i, i + 1)
             one == <<text[i]>>
             char == IF one \in DOMAIN ARABIZI_MULTI_MAP THEN ARABIZI_MULTI_MAP[one]
                     ELSE IF text[i] \in DOMAIN ARABIZI_SINGLE_MAP
                     THEN ARABIZI_SINGLE_MAP[text[i]] ELSE text[i]
  <1>3. char \in Kept
    <2> HIDE DEF one
    <2> QED BY <1>1, <1>2 DEF Kept
  <1>4. Substituted(text, i) =
            IF i < Len(text) /\ pair \in DOMAIN ARABIZI_MULTI_MAP
            THEN [char |-> ARABIZI_MULTI_MAP[pair], width |-> 2]
            ELSE [width |-> 1, char |-> char]
    BY DEF Substituted
  <1> HIDE DEF pair, char
  <1> QED BY <1>1, <1>3, <1>4

\* No letter that the normaliser rewrites is left in a text (lines 25-59 of
\* arabizi.cpp).
LEMMA NormalisedIs ==
  ASSUME NEW text \in Seq(Characters)
  PROVE  /\ Normalised(text) \in Seq(Kept)
         /\ text = <<>> => Normalised(text) = <<>>
  <1> DEFINE n == Len(text)
             P == [at : Nat \ {0}, result : Seq(Kept)]
             first == [at |-> 1, result |-> <<>>]
             sub(r) == Substituted(text, r.at)
             turned(r) == IF r.at > n THEN r
                          ELSE [at     |-> r.at + sub(r).width,
                                result |-> Append(r.result, sub(r).char)]
             step == [p \in P \X Nat |-> turned(p[1])]
  <1>1. n \in Nat
    BY LenProperties
  <1>2. first \in P
    BY EmptySeq
  <1>3. ASSUME NEW r \in P PROVE turned(r) \in P
    <2> SUFFICES ASSUME ~(r.at > n) PROVE turned(r) \in P
      OBVIOUS
    <2>1. r.at \in 1..Len(text)
      BY <1>1
    <2>2. sub(r).char \in Kept /\ sub(r).width \in Nat
      BY <2>1, SubstitutedIs
    <2>3. Append(r.result, sub(r).char) \in Seq(Kept)
      BY <2>2, AppendProperties
    <2> HIDE DEF sub
    <2>4. r.at + sub(r).width \in Nat \ {0}
      BY <2>1, <2>2
    <2> QED BY <2>3, <2>4
  <1> HIDE DEF turned, P, first, n
  <1>4. Recursion(P, first, step)
    <2>1. step \in [P \X Nat -> P]
      BY <1>3
    <2> QED BY <1>2, <2>1 DEF Recursion
  <1>5. PICK g : Result(P, first, step, n, g)
    BY <1>1, <1>4, RecursionIs
  <1>6. g \in [0..n -> P] /\ g[0] = first /\ \A i \in 1..n : g[i] = turned(g[i - 1])
    <2>1. g \in [0..n -> P] /\ g[0] = first /\ \A i \in 1..n : g[i] = step[<<g[i - 1], i>>]
      BY <1>5 DEF Result
    <2>2. ASSUME NEW i \in 1..n PROVE g[i] = turned(g[i - 1])
      <3>1. g[i - 1] \in P /\ i \in Nat
        BY <1>1, <2>1
      <3>2. g[i] = step[<<g[i - 1], i>>]
        <4> HIDE DEF step
        <4> QED BY <2>1
      <3> QED BY <3>1, <3>2
    <2> QED BY <2>1, <2>2
  <1> HIDE DEF step
  <1> DEFINE turn == CHOOSE f : f = [i \in 0..n |-> IF i = 0 THEN first ELSE turned(f[i - 1])]
  <1>7. g = [i \in 0..n |-> IF i = 0 THEN first ELSE turned(g[i - 1])]
    <2>1. \A i \in 0..n : i = 0 \/ i \in 1..n
      BY <1>1
    <2> QED BY <1>6, <2>1
  <1>8. turn = [i \in 0..n |-> IF i = 0 THEN first ELSE turned(turn[i - 1])]
    BY <1>7, Zenon
  <1>9. Normalised(text) = turn[n].result
    BY DEF Normalised, turned, n, first
  <1> HIDE DEF turn
  <1>10. \A i \in 0..n : turn[i] = IF i = 0 THEN first ELSE turned(turn[i - 1])
    BY <1>8, Zenon
  <1> DEFINE T == {i \in Nat : i <= n => turn[i] \in P}
  <1>11. 0 \in T
    BY <1>1, <1>2, <1>10
  <1>12. ASSUME NEW i \in Nat, i \in T PROVE i + 1 \in T
    <2> SUFFICES ASSUME i + 1 <= n PROVE turn[i + 1] \in P
      OBVIOUS
    <2>1. i + 1 \in 0..n /\ i + 1 # 0 /\ (i + 1) - 1 = i /\ i <= n
      BY <1>1
    <2>2. turn[i] \in P
      BY <1>12, <2>1
    <2>3. turn[i + 1] = turned(turn[i])
      BY <1>10, <2>1
    <2> QED BY <1>3, <2>2, <2>3
  <1> HIDE DEF T
  <1>13. n \in T
    BY <1>1, <1>11, <1>12, Induct
  <1>14. turn[n] \in P
    BY <1>1, <1>13 DEF T
  <1>15. text = <<>> => turn[n].result = <<>>
    <2> SUFFICES ASSUME text = <<>> PROVE turn[n].result = <<>>
      OBVIOUS
    <2>1. n = 0
      BY EmptySeq DEF n
    <2> QED BY <1>10, <2>1 DEF first
  <1> QED BY <1>9, <1>14, <1>15 DEF P

\* What occurs in a piece of a text occurs in the text.
LEMMA PieceIs ==
  ASSUME NEW S, NEW text \in Seq(S), NEW piece \in Pieces(text),
         NEW word \in Seq(S), OccursIn(word, piece)
  PROVE  OccursIn(word, text)
  <1>1. PICK a \in 1..Len(text), b \in 1..Len(text) : piece = SubSeq(text, a, b)
    BY DEF Pieces
  <1>2. Len(text) \in Nat /\ Len(word) \in Nat
    BY LenProperties
  <1>3. \A i \in a..b : text[i] \in S
    BY <1>2, ElementOfSeq
  <1>4. /\ piece \in Seq(S)
        /\ Len(piece) = IF a <= b THEN (b - a) + 1 ELSE 0
        /\ \A i \in 1..((b - a) + 1) : piece[i] = text[(a + i) - 1]
    <2>1. a \in Int /\ b \in Int
      OBVIOUS
    <2>2. /\ piece \in Seq(S)
          /\ Len(piece) = IF a <= b THEN b - a + 1 ELSE 0
          /\ \A i \in 1..(b - a + 1) : piece[i] = text[a + i - 1]
      BY <1>1, <1>3, <2>1, SubSeqProperties
    <2> QED BY <2>2
  <1>5. PICK i \in 1..Len(piece) : Len(word) <= i /\ SubSeq(piece, (i - Len(word)) + 1, i) = word
    BY DEF OccursIn, Rules!Occurs
  <1>6. a <= b /\ i <= (b - a) + 1
    BY <1>4, <1>5
  <1>7. PICK j \in 1..Len(text) : j = (a + i) - 1
    BY <1>2, <1>6
  <1>8. PICK l \in Nat : l = Len(word) /\ l <= i /\ l <= j
    BY <1>2, <1>5, <1>7
  <1>9. PICK c \in Int, d \in Int : c = (i - l) + 1 /\ d = (j - l) + 1 /\ c >= 1 /\ d >= 1
    <2>1. i \in Nat /\ j \in Nat
      BY <1>2, <1>4, <1>6, LenProperties
    <2>2. (i - l) + 1 \in Int /\ (j - l) + 1 \in Int /\ (i - l) + 1 >= 1 /\ (j - l) + 1 >= 1
      BY <1>8, <2>1
    <2> QED BY <2>2
  <1>10. \A k \in c..i : piece[k] \in S
    BY <1>4, <1>6, <1>9, ElementOfSeq
  <1>11. \A k \in 1..l : SubSeq(piece, c, i)[k] = piece[(c + k) - 1]
    <2>1. /\ Len(SubSeq(piece, c, i)) = IF c <= i THEN i - c + 1 ELSE 0
          /\ \A k \in 1..(i - c + 1) : SubSeq(piece, c, i)[k] = piece[c + k - 1]
      BY <1>10, SubSeqProperties
    <2> QED BY <1>8, <1>9, <2>1
  <1>12. \A k \in d..j : text[k] \in S
    BY <1>2, <1>7, <1>9, ElementOfSeq
  <1>13. /\ SubSeq(text, d, j) \in Seq(S)
         /\ Len(SubSeq(text, d, j)) = l
         /\ \A k \in 1..l : SubSeq(text, d, j)[k] = text[(d + k) - 1]
    <2>1. /\ SubSeq(text, d, j) \in Seq(S)
          /\ Len(SubSeq(text, d, j)) = IF d <= j THEN j - d + 1 ELSE 0
          /\ \A k \in 1..(j - d + 1) : SubSeq(text, d, j)[k] = text[d + k - 1]
      BY <1>12, SubSeqProperties
    <2> QED BY <1>8, <1>9, <2>1
  <1>14. SubSeq(piece, c, i) = word
    BY <1>5, <1>8, <1>9
  <1>15. \A k \in 1..l : SubSeq(text, d, j)[k] = word[k]
    <2> SUFFICES ASSUME NEW k \in 1..l PROVE SubSeq(text, d, j)[k] = word[k]
      OBVIOUS
    <2>1. word[k] = piece[(c + k) - 1]
      BY <1>11, <1>14
    <2>2. PICK m \in 1..((b - a) + 1) : m = (c + k) - 1
      <3>1. Len(piece) \in Nat
        BY <1>4, LenProperties
      <3>2. (c + k) - 1 \in 1..((b - a) + 1)
        BY <1>6, <1>8, <1>9, <3>1
      <3> QED BY <3>2
    <2>3. piece[m] = text[(a + m) - 1]
      BY <1>4
    <2>4. (a + m) - 1 = (d + k) - 1
      BY <1>7, <1>9, <2>2
    <2> QED BY <1>13, <2>1, <2>2, <2>3, <2>4
  <1>16. SubSeq(text, d, j) = word
    <2>1. \A k \in 1..Len(SubSeq(text, d, j)) : SubSeq(text, d, j)[k] = word[k]
      BY <1>13, <1>15
    <2> QED BY <1>8, <1>13, <2>1, SeqEqual
  <1>17. Len(word) <= j /\ SubSeq(text, (j - Len(word)) + 1, j) = word
    BY <1>8, <1>9, <1>16
  <1> QED BY <1>17 DEF OccursIn, Rules!Occurs

-----------------------------------------------------------------------------
(***************************************************************************)
(* The semantic model.                                                     *)
(***************************************************************************)
LEMMA TotalIs ==
  ASSUME NEW n \in Nat, NEW numbers, \A i \in 1..n : numbers[i] \in Int
  PROVE  Total(numbers, n) \in Int
  <1> DEFINE turned(r, i) == r + numbers[i]
             step == [p \in Int \X Nat |-> IF p[2] \in 1..n THEN turned(p[1], p[2]) ELSE p[1]]
  <1>1. ASSUME NEW r \in Int, NEW i \in 1..n PROVE turned(r, i) \in Int
    OBVIOUS
  <1> HIDE DEF turned
  <1>2. Recursion(Int, 0, step)
    <2>1. step \in [Int \X Nat -> Int]
      BY <1>1
    <2> QED BY <2>1 DEF Recursion
  <1>3. PICK g : Result(Int, 0, step, n, g)
    BY <1>2, RecursionIs
  <1>4. g \in [0..n -> Int] /\ g[0] = 0 /\ \A i \in 1..n : g[i] = turned(g[i - 1], i)
    <2>1. g \in [0..n -> Int] /\ g[0] = 0 /\ \A i \in 1..n : g[i] = step[<<g[i - 1], i>>]
      BY <1>3 DEF Result
    <2>2. ASSUME NEW i \in 1..n PROVE g[i] = turned(g[i - 1], i)
      <3>1. g[i - 1] \in Int /\ i \in Nat
        BY <2>1
      <3>2. g[i] = step[<<g[i - 1], i>>]
        <4> HIDE DEF step
        <4> QED BY <2>1
      <3> QED BY <3>1, <3>2
    <2> QED BY <2>1, <2>2
  <1> HIDE DEF step
  <1> DEFINE sum == CHOOSE f : f = [i \in 0..n |-> IF i = 0 THEN 0 ELSE turned(f[i - 1], i)]
  <1>5. g = [i \in 0..n |-> IF i = 0 THEN 0 ELSE turned(g[i - 1], i)]
    <2>1. \A i \in 0..n : i = 0 \/ i \in 1..n
      OBVIOUS
    <2> QED BY <1>4, <2>1
  <1>6. sum = [i \in 0..n |-> IF i = 0 THEN 0 ELSE turned(sum[i - 1], i)]
    BY <1>5, Zenon
  <1>7. Total(numbers, n) = sum[n]
    BY DEF Total, turned
  <1> HIDE DEF sum
  <1>8. \A i \in 0..n : sum[i] = IF i = 0 THEN 0 ELSE turned(sum[i - 1], i)
    BY <1>6, Zenon
  <1> DEFINE T == {i \in Nat : i <= n => sum[i] \in Int}
  <1>9. 0 \in T
    BY <1>8
  <1>10. ASSUME NEW i \in Nat, i \in T PROVE i + 1 \in T
    <2> SUFFICES ASSUME i + 1 <= n PROVE sum[i + 1] \in Int
      OBVIOUS
    <2>1. i + 1 \in 0..n /\ i + 1 # 0 /\ i + 1 \in 1..n /\ (i + 1) - 1 = i /\ i <= n
      OBVIOUS
    <2>2. sum[i] \in Int
      BY <1>10, <2>1
    <2>3. sum[i + 1] = turned(sum[i], i + 1)
      BY <1>8, <2>1
    <2> QED BY <1>1, <2>1, <2>2, <2>3
  <1> HIDE DEF T
  <1>11. n \in T
    BY <1>9, <1>10, Induct
  <1> QED BY <1>7, <1>11 DEF T

\* Every word has as many weights as the model has dimensions.
Weighted(vocabulary, dim) ==
    \A w \in DOMAIN vocabulary : vocabulary[w] \in Seq(Int) /\ Len(vocabulary[w]) = dim

ModelOK(m) ==
    /\ m.loaded \in BOOLEAN /\ m.threshold \in Int /\ m.dim \in Nat
    /\ Weighted(m.vocabulary, m.dim)

\* The model decides at one half: a text above it that is not above the threshold
\* has a threshold above one half (lines 81-123 of sam_inference.cpp).
LEMMA EvaluatedIs ==
  ASSUME NEW m, ModelOK(m), NEW S, NEW text \in Seq(S)
  PROVE  LET e == Evaluated(m, text)
         IN  /\ e.half \in BOOLEAN
             /\ e.category \in {"NONE", "PROFANITY_SEMANTIC"}
             /\ e.half /\ e.category = "NONE" => m.threshold > 0
  <1> DEFINE tokens == Split(text, Spaces \cup Puncts)
             matched == {i \in DOMAIN tokens : tokens[i] \in DOMAIN m.vocabulary}
             weight == [i \in DOMAIN tokens |->
                           IF i \in matched THEN Total(m.vocabulary[tokens[i]], m.dim) ELSE 0]
             sum == Total(weight, Len(tokens))
  <1>1. tokens \in Seq(Pieces(text))
    BY SplitIs
  <1> HIDE DEF tokens
  <1>2. Len(tokens) \in Nat /\ DOMAIN tokens = 1..Len(tokens)
    BY <1>1, LenProperties
  <1>3. ASSUME NEW i \in 1..Len(tokens) PROVE weight[i] \in Int
    <2>1. CASE i \in matched
      <3>1. PICK weights \in Seq(Int) : weights = m.vocabulary[tokens[i]] /\ Len(weights) = m.dim
        BY <2>1 DEF ModelOK, Weighted
      <3>2. m.dim \in Nat /\ \A k \in 1..m.dim : weights[k] \in Int
        BY <3>1, ElementOfSeq DEF ModelOK
      <3>3. Total(weights, m.dim) \in Int
        BY <3>2, TotalIs
      <3>4. weight[i] = Total(m.vocabulary[tokens[i]], m.dim)
        <4> HIDE DEF matched
        <4> QED BY <1>2, <2>1
      <3> QED BY <3>1, <3>3, <3>4
    <2>2. CASE i \notin matched
      <3>1. weight[i] = 0
        <4> HIDE DEF matched
        <4> QED BY <1>2, <2>2
      <3> QED BY <3>1
    <2> QED BY <2>1, <2>2
  <1> HIDE DEF weight
  <1>4. sum \in Int
    BY <1>2, <1>3, TotalIs
  <1> HIDE DEF sum
  <1>5. Evaluated(m, text) =
            IF matched = {} THEN [half |-> FALSE, category |-> "NONE"]
            ELSE [half |-> sum >= 0,
                  category |-> IF sum >= m.threshold * Cardinality(matched)
                               THEN "PROFANITY_SEMANTIC" ELSE "NONE"]
    BY DEF Evaluated, tokens, sum, weight
  <1>6. matched # {} => Cardinality(matched) \in Nat \ {0}
    <2>1. IsFiniteSet(1..Len(tokens)) /\ matched \in SUBSET (1..Len(tokens))
      BY <1>2, FS_Interval
    <2>2. IsFiniteSet(matched)
      BY <2>1, FS_Subset
    <2> HIDE DEF matched
    <2> QED BY <2>2, FS_CardinalityType, FS_EmptySet
  <1> HIDE DEF matched
  <1>7. ASSUME matched # {}, sum >= 0, ~(sum >= m.threshold * Cardinality(matched))
        PROVE  m.threshold > 0
    <2>1. PICK k \in Nat \ {0}, t \in Int : k = Cardinality(matched) /\ t = m.threshold
      BY <1>6, <1>7 DEF ModelOK
    <2>2. \A x \in Nat \ {0}, y \in Int : y <= 0 => y * x <= 0
      BY Z3
    <2>3. t * k \in Int /\ ~(sum >= t * k)
      BY <1>7, <2>1
    <2>4. t * k > 0
      BY <1>4, <1>7, <2>3
    <2>5. t > 0
      BY <2>2, <2>4
    <2> QED BY <2>1, <2>5
  <1>8. CASE matched = {}
    BY <1>5, <1>8
  <1>9. CASE matched # {}
    <2> DEFINE above == sum >= m.threshold * Cardinality(matched)
    <2>1. above => Evaluated(m, text) = [half |-> sum >= 0, category |-> "PROFANITY_SEMANTIC"]
      BY <1>5, <1>9
    <2>2. ~above => Evaluated(m, text) = [half |-> sum >= 0, category |-> "NONE"]
      BY <1>5, <1>9
    <2>3. above \/ (sum >= 0 => m.threshold > 0)
      BY <1>7, <1>9
    <2>4. (sum >= 0) \in BOOLEAN
      BY <1>4
    <2> HIDE DEF above
    <2> DEFINE half == sum >= 0
    <2>5. half \in BOOLEAN /\ (above \/ (half => m.threshold > 0))
      BY <2>3, <2>4
    <2>6. /\ above => Evaluated(m, text) = [half |-> half, category |-> "PROFANITY_SEMANTIC"]
          /\ ~above => Evaluated(m, text) = [half |-> half, category |-> "NONE"]
      BY <2>1, <2>2
    <2> HIDE DEF half
    <2> DEFINE e == Evaluated(m, text)
    <2>7. above => e.half = half /\ e.category = "PROFANITY_SEMANTIC"
      BY <2>6
    <2>8. ~above => e.half = half /\ e.category = "NONE"
      BY <2>6
    <2> HIDE DEF e
    <2>9. /\ e.half \in BOOLEAN
          /\ e.category \in {"NONE", "PROFANITY_SEMANTIC"}
          /\ e.half /\ e.category = "NONE" => m.threshold > 0
      BY <2>5, <2>7, <2>8
    <2> QED BY <2>9 DEF e
  <1> QED BY <1>8, <1>9

\* The entry that emplace keeps (line 55 of sam_inference.cpp).
LEMMA FirstIs ==
  ASSUME NEW f, IsFile(f), NEW word \in WordsOf(f)
  PROVE  /\ FirstOf(f, word) \in 1..f.vocab_size
         /\ f.entries[FirstOf(f, word)].word = word
  <1>1. f.vocab_size \in Nat
    BY DEF IsFile
  <1> DEFINE T == {i \in 1..f.vocab_size : f.entries[i].word = word}
  <1>2. T \in SUBSET Nat /\ T # {}
    BY <1>1 DEF WordsOf
  <1>3. PICK m \in T : \A k \in T : m <= k
    <2> HIDE DEF T
    <2> QED BY <1>2, Least
  <1>4. \A k \in 1..(m - 1) : f.entries[k].word # word
    BY <1>1, <1>3
  <1>5. m \in 1..f.vocab_size /\ f.entries[m].word = word
    BY <1>3
  <1>6. \E i \in 1..f.vocab_size :
            f.entries[i].word = word /\ \A k \in 1..(i - 1) : f.entries[k].word # word
    BY <1>4, <1>5
  <1> QED BY <1>6 DEF FirstOf

\* load_model leaves a whole model or none (lines 13-60 of sam_inference.cpp).
LEMMA LoadedIs ==
  ASSUME NEW m, ModelOK(m), NEW f, IsFile(f)
  PROVE  /\ ModelOK(Loaded(m, f))
         /\ DOMAIN Loaded(m, f).vocabulary =
               IF Loaded(m, f).loaded THEN WordsOf(f) ELSE {}
  <1> DEFINE none == NoModel.vocabulary
  <1>1. DOMAIN none = {}
    BY DEF NoModel
  <1> HIDE DEF none
  <1>2. \A dim : Weighted(none, dim)
    BY <1>1 DEF Weighted
  <1>3. f.threshold \in Int /\ f.dim \in Nat /\ f.vocab_size \in Nat
    BY DEF IsFile
  <1>4. CASE ~f.magic
    <2>1. Loaded(m, f) = [m EXCEPT !.loaded = FALSE, !.vocabulary = none]
      BY <1>4 DEF Loaded, LoadedInto, none
    <2>2. /\ Loaded(m, f).loaded = FALSE /\ Loaded(m, f).vocabulary = none
          /\ Loaded(m, f).threshold = m.threshold /\ Loaded(m, f).dim = m.dim
      BY <2>1 DEF ModelOK
    <2> QED BY <1>1, <1>2, <2>2 DEF ModelOK
  <1>5. CASE f.magic
    <2> DEFINE whole == \A i \in 1..f.vocab_size : Readable(f, i)
               read == Read(none, f)
    <2>1. Loaded(m, f) = [loaded |-> whole, threshold |-> f.threshold, dim |-> f.dim,
                             vocabulary |-> IF whole THEN read ELSE none]
      BY <1>5 DEF Loaded, LoadedInto, none
    <2>2. read = [w \in WordsOf(f) |-> f.entries[FirstOf(f, w)].weights]
      BY <1>1 DEF Read
    <2>3. ASSUME whole, NEW w \in WordsOf(f)
          PROVE  read[w] \in Seq(Int) /\ Len(read[w]) = f.dim
      <3>1. PICK i \in 1..f.vocab_size : i = FirstOf(f, w)
        BY FirstIs
      <3>2. Readable(f, i)
        BY <2>3
      <3>3. Len(f.entries[i].weights) = f.dim /\ i \in 1..Len(f.entries)
        <4>1. Len(f.entries) \in Nat
          BY LenProperties DEF IsFile
        <4> QED BY <1>3, <3>2, <4>1 DEF IsFile, Readable
      <3>4. f.entries[i] \in [word : Seq(Characters), weights : Seq(Int)]
        BY <3>3, ElementOfSeq DEF IsFile
      <3>5. read[w] = f.entries[i].weights
        BY <2>2, <3>1
      <3> QED BY <3>3, <3>4, <3>5
    <2>4. DOMAIN read = WordsOf(f)
      BY <2>2
    <2>5. whole \in BOOLEAN
      OBVIOUS
    <2> HIDE DEF whole, read
    <2>6. whole => Weighted(read, f.dim)
      BY <2>3, <2>4 DEF Weighted
    <2>7. CASE whole
      <3>1. Loaded(m, f) = [loaded |-> whole, threshold |-> f.threshold,
                               dim |-> f.dim, vocabulary |-> read]
        BY <2>1, <2>7
      <3> QED BY <1>3, <2>4, <2>6, <2>7, <3>1 DEF ModelOK
    <2>8. CASE ~whole
      <3>1. Loaded(m, f) = [loaded |-> whole, threshold |-> f.threshold,
                               dim |-> f.dim, vocabulary |-> none]
        BY <2>1, <2>8
      <3> QED BY <1>1, <1>2, <1>3, <2>5, <2>8, <3>1 DEF ModelOK
    <2> QED BY <2>7, <2>8
  <1> QED BY <1>4, <1>5

-----------------------------------------------------------------------------
(***************************************************************************)
(* The inductive invariant.                                                *)
(***************************************************************************)
Words == Seq(Characters)

MatcherCalls == [call : {"add"}, word : Words] \cup [call : {"clear", "build"}]

InvTypes ==
    /\ patterns \subseteq Words /\ searchable \in BOOLEAN
    /\ changes \in Seq(MatcherCalls)
    /\ ModelOK(model)
    /\ next \in Nat \ {0}

Searching == pc \in {"whole", "tokens", "sam"}

\* While a text is searched nothing is reported.
InvInput ==
    /\ Searching => input.kind = "text" /\ report = Clean
    /\ pc # "idle" /\ input.kind = "text" => input.text \in Words

Matches == searchable /\ \E word \in patterns : OccursIn(word, Text)

\* What the dictionary holds was offered to the analysis; after the first search
\* the dictionary that was searched has no match, unless it has changed.
InvSearch ==
    /\ pc # "idle" => patterns \subseteq offered
    /\ pc \in {"tokens", "sam"} /\ ~disturbed => ~Matches

Inv == /\ InvTypes /\ InvInput /\ InvSearch
       /\ VerdictExact /\ ReportConsistent /\ ModelWhole /\ SlowestTempo

\* What the semantic model reports is no keyword.
LEMMA RiskIs ==
  /\ <<>> # <<"SEMANTIC_RISK">>
  /\ \A word \in Words : word # <<"SEMANTIC_RISK">>
  <1>1. Len(<<>>) = 0 /\ Len(<<"SEMANTIC_RISK">>) = 1
    OBVIOUS
  <1>2. ASSUME NEW word \in Words, word = <<"SEMANTIC_RISK">> PROVE FALSE
    <2>1. 1 \in 1..Len(word) /\ word[1] = "SEMANTIC_RISK"
      BY <1>1, <1>2
    <2>2. word[1] \in Characters
      BY <2>1, ElementOfSeq DEF Words
    <2> QED BY <2>1, <2>2, ShieldAssumption
  <1> QED BY <1>1, <1>2

LEMMA InvInit == Init => Inv
  <1> SUFFICES ASSUME Init PROVE Inv
    OBVIOUS
  <1>1. /\ patterns = {} /\ searchable = FALSE /\ changes = <<>> /\ model = NoModel
        /\ file = None /\ pc = "idle" /\ next = 1 /\ offered = {} /\ disturbed = FALSE
    BY DEF Init, Rules!Init
  <1>2. DOMAIN NoModel.vocabulary = {}
    BY DEF NoModel
  <1>3. NoModel.loaded = FALSE /\ NoModel.threshold = 0 /\ NoModel.dim = 0
    BY DEF NoModel
  <1>4. ModelOK(NoModel)
    <2>1. PICK m : m = NoModel
      OBVIOUS
    <2>2. DOMAIN m.vocabulary = {} /\ m.loaded = FALSE /\ m.threshold = 0 /\ m.dim = 0
      BY <1>2, <1>3, <2>1
    <2>3. Weighted(m.vocabulary, m.dim)
      BY <2>2 DEF Weighted
    <2>4. m.loaded \in BOOLEAN /\ m.threshold \in Int /\ m.dim \in Nat
      <3>1. FALSE \in BOOLEAN /\ 0 \in Int /\ 0 \in Nat
        OBVIOUS
      <3> QED BY <2>2, <3>1, Zenon
    <2>5. ModelOK(m)
      BY <2>3, <2>4 DEF ModelOK
    <2> QED BY <2>1, <2>5
  <1>5. InvTypes
    <2>1. {} \subseteq Words /\ FALSE \in BOOLEAN /\ 1 \in Nat \ {0}
      OBVIOUS
    <2>2. <<>> \in Seq(MatcherCalls)
      BY EmptySeq
    <2> QED BY <1>1, <1>4, <2>1, <2>2 DEF InvTypes
  <1>6. InvInput /\ InvSearch /\ VerdictExact /\ ReportConsistent /\ SlowestTempo
    BY <1>1 DEF InvInput, InvSearch, Searching, VerdictExact, ReportConsistent, SlowestTempo
  <1>7. ModelWhole
    BY <1>1, <1>2, <1>3 DEF ModelWhole
  <1> QED BY <1>5, <1>6, <1>7 DEF Inv

\* What the invariant says of the analysis does not depend on the changes to come.
LEMMA InvSame ==
  ASSUME Inv, changes' \in Seq(MatcherCalls),
         UNCHANGED <<patterns, searchable, model, file, pc, input, next, report,
                     offered, disturbed>>
  PROVE  Inv'
  <1>1. InvTypes'
    BY DEF Inv, InvTypes
  <1>2. InvInput'
    BY DEF Inv, InvInput, Searching
  <1>3. InvSearch'
    BY DEF Inv, InvSearch, Matches, Text
  <1>4. VerdictExact'
    BY DEF Inv, VerdictExact, Text
  <1>5. ReportConsistent'
    BY DEF Inv, ReportConsistent, Text
  <1>6. ModelWhole' /\ SlowestTempo'
    BY DEF Inv, ModelWhole, SlowestTempo
  <1> QED BY <1>1, <1>2, <1>3, <1>4, <1>5, <1>6 DEF Inv

-----------------------------------------------------------------------------
(***************************************************************************)
(* Changes.                                                                *)
(***************************************************************************)
LEMMA CallsAre ==
  /\ \A words \in Seq(Words) : Adds(words) \in Seq(MatcherCalls)
  /\ Calls("build") \in Seq(MatcherCalls) /\ Calls("clear") \in Seq(MatcherCalls)
  <1>1. ASSUME NEW words \in Seq(Words) PROVE Adds(words) \in Seq(MatcherCalls)
    <2>1. Len(words) \in Nat /\ DOMAIN words = 1..Len(words)
      BY LenProperties
    <2>2. \A i \in 1..Len(words) : [call |-> "add", word |-> words[i]] \in MatcherCalls
      BY ElementOfSeq DEF MatcherCalls
    <2>3. [i \in 1..Len(words) |-> [call |-> "add", word |-> words[i]]] \in [1..Len(words) -> MatcherCalls]
      BY <2>2
    <2> QED BY <2>1, <2>3, SeqDef DEF Adds
  <1>2. [call |-> "build"] \in MatcherCalls /\ [call |-> "clear"] \in MatcherCalls
    BY DEF MatcherCalls
  <1>3. \A c \in MatcherCalls : <<c>> \in Seq(MatcherCalls)
    OBVIOUS
  <1>4. Calls("build") \in Seq(MatcherCalls) /\ Calls("clear") \in Seq(MatcherCalls)
    BY <1>2, <1>3 DEF Calls
  <1> QED BY <1>1, <1>4

LEMMA InvChange ==
  ASSUME Inv, NEW calls \in Seq(MatcherCalls), Change(calls)
  PROVE  Inv'
  BY InvSame DEF Change, stateVars, workVars

LEMMA InvDictionary ==
  ASSUME Inv,
         \/ \E word \in Keywords : add_keyword(word)
         \/ \E words \in Lists : add_keywords(words) \/ load_profanity_dictionary(words)
  PROVE  Inv'
  <1>1. \A c, d \in Seq(MatcherCalls) : c \o d \in Seq(MatcherCalls)
    BY ConcatProperties
  <1>2. ASSUME NEW word \in Keywords, add_keyword(word) PROVE Inv'
    <2>1. <<word>> \in Seq(Words)
      BY ShieldAssumption DEF Words
    <2>2. Adds(<<word>>) \o Calls("build") \in Seq(MatcherCalls)
      BY <1>1, <2>1, CallsAre
    <2> QED BY <1>2, <2>2, InvChange DEF add_keyword
  <1>3. ASSUME NEW words \in Lists, add_keywords(words) \/ load_profanity_dictionary(words)
        PROVE  Inv'
    <2>1. words \in Seq(Words)
      BY ShieldAssumption DEF Words
    <2>2. Adds(words) \o Calls("build") \in Seq(MatcherCalls)
      BY <1>1, <2>1, CallsAre
    <2>3. Calls("clear") \o Adds(words) \in Seq(MatcherCalls)
      BY <1>1, <2>1, CallsAre
    <2>4. Calls("clear") \o Adds(words) \o Calls("build") \in Seq(MatcherCalls)
      BY <1>1, <2>3, CallsAre
    <2> QED BY <1>3, <2>2, <2>4, InvChange, CallsAre DEF add_keywords, load_profanity_dictionary
  <1> QED BY <1>2, <1>3

LEMMA InvChangeStep ==
  ASSUME Inv, ChangeStep
  PROVE  Inv'
  <1>1. /\ changes # <<>> /\ changes' = Tail(changes)
        /\ offered' = offered \cup patterns' /\ disturbed' = TRUE
        /\ UNCHANGED <<model, file, pc, input, next, report>>
    BY DEF ChangeStep, stateVars, workVars
  <1>2. changes \in Seq(MatcherCalls) /\ patterns \subseteq Words
    BY DEF Inv, InvTypes
  <1>3. Head(changes) \in MatcherCalls /\ Tail(changes) \in Seq(MatcherCalls)
    BY <1>1, <1>2, HeadTailProperties
  <1>4. patterns' \subseteq Words /\ searchable' \in BOOLEAN
    <2>1. PICK c \in MatcherCalls : c = Head(changes)
      BY <1>3
    <2>2. \/ c.call = "add" /\ Rules!Add(c.word)
          \/ c.call = "clear" /\ Rules!Clear
          \/ c.call = "build" /\ Rules!Build
      BY <2>1 DEF ChangeStep
    <2>3. c.call = "add" => c.word \in Words
      BY DEF MatcherCalls
    <2> QED BY <1>2, <2>2, <2>3 DEF Rules!Add, Rules!Clear, Rules!Build
  <1>5. InvTypes'
    BY <1>1, <1>3, <1>4 DEF Inv, InvTypes
  <1>6. InvInput'
    BY <1>1 DEF Inv, InvInput, Searching
  <1>7. InvSearch'
    BY <1>1 DEF InvSearch
  <1>8. VerdictExact'
    BY <1>1 DEF Inv, VerdictExact, Text
  <1>9. ReportConsistent'
    BY <1>1 DEF Inv, ReportConsistent, Text
  <1>10. ModelWhole' /\ SlowestTempo'
    BY <1>1 DEF Inv, ModelWhole, SlowestTempo
  <1> QED BY <1>5, <1>6, <1>7, <1>8, <1>9, <1>10 DEF Inv

LEMMA InvLoad ==
  ASSUME Inv, NEW f \in ModelFiles, load_model(f)
  PROVE  Inv'
  <1>1. /\ pc = "idle" /\ model' = Loaded(model, f) /\ file' = f
        /\ UNCHANGED <<patterns, searchable, changes, pc, input, next, report, offered, disturbed>>
    BY DEF load_model, workVars
  <1>2. IsFile(f)
    BY ShieldAssumption
  <1>3. ModelOK(model')
    BY <1>1, <1>2, LoadedIs DEF Inv, InvTypes
  <1>4. DOMAIN model'.vocabulary = IF model'.loaded THEN WordsOf(file') ELSE {}
    BY <1>1, <1>2, LoadedIs DEF Inv, InvTypes
  <1>5. InvTypes'
    BY <1>1, <1>3 DEF Inv, InvTypes
  <1>6. InvInput' /\ InvSearch' /\ VerdictExact' /\ ReportConsistent' /\ SlowestTempo'
    BY <1>1 DEF InvInput, InvSearch, Searching, VerdictExact, ReportConsistent, SlowestTempo
  <1>7. ModelWhole'
    BY <1>3, <1>4 DEF ModelWhole, ModelOK, Weighted
  <1> QED BY <1>5, <1>6, <1>7 DEF Inv

-----------------------------------------------------------------------------
(***************************************************************************)
(* Analyses that are decided at once.                                      *)
(***************************************************************************)
\* A report that no text led to.
Plain(answer, what) ==
    /\ ~answer.is_safe <=>
          answer.text \/ answer.visual \/ answer.audio \/ answer.corrupted
    /\ answer.violation_type = "NONE" <=> answer.is_safe
    /\ answer.matched_pattern = <<>>
    /\ what.kind = "image" /\ answer.visual => what.channels >= 3
    /\ what.kind = "audio" =>
          /\ answer.bpm # 0 => answer.bpm >= 60
          /\ answer.audio => answer.bpm >= 110 /\ ~answer.corrupted
          /\ answer.corrupted => answer.bpm = 0

LEMMA CleanIs ==
  /\ Clean.is_safe = TRUE /\ Clean.violation_type = "NONE" /\ Clean.text = FALSE
  /\ Clean.matched_pattern = <<>> /\ Clean.visual = FALSE /\ Clean.audio = FALSE
  /\ Clean.corrupted = FALSE /\ Clean.bpm = 0
  BY DEF Clean

LEMMA InvStart ==
  ASSUME Inv, NEW what, NEW answer, what.kind # "text", Plain(answer, what),
         Start(what, "done", answer)
  PROVE  Inv'
  <1>1. /\ input' = what /\ pc' = "done" /\ report' = answer /\ next' = 1
        /\ offered' = patterns /\ disturbed' = FALSE
        /\ UNCHANGED <<patterns, searchable, changes, model, file>>
    BY DEF Start, ruleVars, stateVars
  <1>2. InvTypes'
    BY <1>1 DEF Inv, InvTypes
  <1>3. InvInput' /\ InvSearch' /\ VerdictExact'
    BY <1>1 DEF InvInput, InvSearch, Searching, VerdictExact
  <1>4. ReportConsistent'
    BY <1>1, RiskIs DEF ReportConsistent, Plain
  <1>5. ModelWhole'
    BY <1>1 DEF Inv, ModelWhole
  <1>6. SlowestTempo'
    BY <1>1 DEF SlowestTempo, Plain
  <1> QED BY <1>2, <1>3, <1>4, <1>5, <1>6 DEF Inv

LEMMA InvImage ==
  ASSUME Inv, NEW image \in Images, analyze_image_buffer(image)
  PROVE  Inv'
  <1>1. image.kind = "image" /\ image.channels \in Nat
    BY ShieldAssumption
  <1> DEFINE count == 100 * SkinCount(image.skin, image.channels)
             threshold == IF preset = "STRICT" THEN 25 ELSE 45
             exposed == count >= threshold * Width * Height
             found == [Clean EXCEPT !.visual = TRUE, !.is_safe = FALSE,
                                    !.violation_type = "EXPLICIT_BODY"]
  <1>2. Start(image, "done", IF exposed THEN found ELSE Clean)
    BY DEF analyze_image_buffer
  <1>3. exposed => image.channels >= 3
    <2> SUFFICES ASSUME image.channels < 3 PROVE ~exposed
      BY <1>1
    <2>1. count = 0
      BY DEF SkinCount
    <2>2. \A a, b, c \in Nat \ {0} : a * b * c \in Nat \ {0}
      BY Z3
    <2>3. threshold * Width * Height \in Nat \ {0}
      BY <2>2, ShieldAssumption
    <2> HIDE DEF count, threshold
    <2> QED BY <2>1, <2>3
  <1> HIDE DEF exposed
  <1>4. CASE exposed
    <2>1. /\ found.is_safe = FALSE /\ found.violation_type = "EXPLICIT_BODY"
          /\ found.text = FALSE /\ found.matched_pattern = <<>> /\ found.visual = TRUE
          /\ found.audio = FALSE /\ found.corrupted = FALSE
      BY DEF Clean
    <2> HIDE DEF found
    <2>2. Plain(found, image)
      BY <1>1, <1>3, <1>4, <2>1 DEF Plain
    <2>3. Start(image, "done", found)
      BY <1>2, <1>4
    <2> QED BY <1>1, <2>2, <2>3, InvStart
  <1>5. CASE ~exposed
    <2>1. Plain(Clean, image)
      BY <1>1, CleanIs DEF Plain
    <2>2. Start(image, "done", Clean)
      BY <1>2, <1>5
    <2> QED BY <1>1, <2>1, <2>2, InvStart
  <1> QED BY <1>4, <1>5

\* A recording is reported with a tempo that one of its lags stands for, or none
\* (lines 139-170 of shield_engine.cpp).
LEMMA AudioReportIs ==
  ASSUME NEW pcm \in Recordings, NEW tempo \in Tempos(pcm.size, pcm.rate),
         NEW confident \in BOOLEAN, NEW loud \in BOOLEAN
  PROVE  Plain(AudioReport(tempo, confident, loud), pcm)
  <1>1. pcm.kind = "audio" /\ pcm.size \in Nat /\ pcm.rate \in Nat
    BY ShieldAssumption
  <1>2. /\ tempo.bpm \in Nat /\ (tempo.bpm # 0 => tempo.bpm >= 60)
        /\ tempo.fast => tempo.bpm # 0 /\ tempo.bpm >= 110
    <2>1. CASE tempo = [bpm |-> 0, fast |-> FALSE]
      BY <2>1
    <2>2. CASE \E lag \in Lags(pcm.size, pcm.rate) : tempo = Tempo(pcm.rate, lag)
      <3>1. PICK lag \in Lags(pcm.size, pcm.rate) : tempo = Tempo(pcm.rate, lag)
        BY <2>2
      <3>2. tempo.bpm \in Nat /\ tempo.bpm >= 60 /\ (tempo.fast => tempo.bpm >= 110)
        <4>1. PICK size \in Nat, rate \in Nat : size = pcm.size /\ rate = pcm.rate
          BY <1>1
        <4>2. lag \in Lags(size, rate) /\ tempo = Tempo(rate, lag)
          BY <3>1, <4>1, Zenon
        <4>3. /\ Tempo(rate, lag).bpm \in Nat /\ Tempo(rate, lag).bpm >= 60
              /\ Tempo(rate, lag).fast => Tempo(rate, lag).bpm >= 110
          BY <4>2, TempoIs
        <4> QED BY <4>2, <4>3, Zenon
      <3> QED BY <3>2
    <2> QED BY <2>1, <2>2 DEF Tempos
  <1> DEFINE music == tempo.fast /\ confident
             calm == [Clean EXCEPT !.bpm = tempo.bpm]
  <1>3. \/ AudioReport(tempo, confident, loud) = calm
        \/ music /\ AudioReport(tempo, confident, loud) = Flagged("MUSIC_DETECTED", tempo.bpm)
        \/ music /\ AudioReport(tempo, confident, loud) = Flagged("HIGH_ENERGY_AUDIO", tempo.bpm)
    BY DEF AudioReport
  <1>4. Plain(calm, pcm)
    <2>1. /\ calm.is_safe = TRUE /\ calm.violation_type = "NONE" /\ calm.text = FALSE
          /\ calm.matched_pattern = <<>> /\ calm.visual = FALSE /\ calm.audio = FALSE
          /\ calm.corrupted = FALSE /\ calm.bpm = tempo.bpm
      BY DEF Clean
    <2> HIDE DEF calm
    <2> QED BY <1>1, <1>2, <2>1 DEF Plain
  <1>5. ASSUME NEW type \in {"MUSIC_DETECTED", "HIGH_ENERGY_AUDIO"}, music
        PROVE  Plain(Flagged(type, tempo.bpm), pcm)
    <2> DEFINE r == Flagged(type, tempo.bpm)
    <2>1. /\ r.is_safe = FALSE /\ r.violation_type = type /\ r.text = FALSE
          /\ r.matched_pattern = <<>> /\ r.visual = FALSE /\ r.audio = TRUE
          /\ r.corrupted = FALSE /\ r.bpm = tempo.bpm
      BY DEF Clean, Flagged
    <2>2. type # "NONE"
      OBVIOUS
    <2> HIDE DEF r
    <2>3. Plain(r, pcm)
      BY <1>1, <1>2, <1>5, <2>1, <2>2 DEF Plain
    <2> QED BY <2>3 DEF r
  <1> HIDE DEF calm, music
  <1> QED BY <1>3, <1>4, <1>5

LEMMA InvAudio ==
  ASSUME Inv, NEW pcm \in Recordings, analyze_audio_buffer(pcm)
  PROVE  Inv'
  <1>1. pcm.kind = "audio" /\ pcm.kind # "text"
    BY ShieldAssumption
  <1> DEFINE broken == [Clean EXCEPT !.corrupted = TRUE, !.is_safe = FALSE,
                                     !.violation_type = "CORRUPTED_AUDIO"]
  <1>2. \/ Start(pcm, "done", Clean)
        \/ Start(pcm, "done", broken)
        \/ \E tempo \in Tempos(pcm.size, pcm.rate), confident, loud \in BOOLEAN :
              Start(pcm, "done", AudioReport(tempo, confident, loud))
    BY DEF analyze_audio_buffer
  <1>3. Plain(Clean, pcm)
    BY <1>1, CleanIs DEF Plain
  <1>4. Plain(broken, pcm)
    <2>1. /\ broken.is_safe = FALSE /\ broken.violation_type = "CORRUPTED_AUDIO"
          /\ broken.text = FALSE /\ broken.matched_pattern = <<>> /\ broken.visual = FALSE
          /\ broken.audio = FALSE /\ broken.corrupted = TRUE /\ broken.bpm = 0
      BY DEF Clean
    <2> HIDE DEF broken
    <2> QED BY <1>1, <2>1 DEF Plain
  <1> HIDE DEF broken
  <1> QED BY <1>1, <1>2, <1>3, <1>4, AudioReportIs, InvStart

LEMMA InvMask ==
  ASSUME Inv, NEW mask \in Masks, find_connected_components(mask)
  PROVE  Inv'
  <1>1. mask.kind = "mask" /\ mask.kind # "text"
    BY ShieldAssumption
  <1>2. Plain(Clean, mask)
    BY <1>1, CleanIs DEF Plain
  <1> QED BY <1>1, <1>2, InvStart DEF find_connected_components

-----------------------------------------------------------------------------
(***************************************************************************)
(* The analysis of a text.                                                 *)
(***************************************************************************)
LEMMA InvText ==
  ASSUME Inv, NEW text \in Texts, analyze_text(text)
  PROVE  Inv'
  <1>1. text \in Words
    BY ShieldAssumption DEF Words
  <1>2. PICK what : what = [kind |-> "text", text |-> text]
    OBVIOUS
  <1>3. /\ input' = what /\ report' = Clean /\ next' = 1
        /\ pc' = IF text = <<>> THEN "done" ELSE "whole"
        /\ offered' = patterns /\ disturbed' = FALSE
        /\ UNCHANGED <<patterns, searchable, changes, model, file>>
    BY <1>2 DEF analyze_text, Start, ruleVars, stateVars
  <1>4. what.kind = "text" /\ what.text = text
    BY <1>2
  <1>5. InvTypes'
    BY <1>3 DEF Inv, InvTypes
  <1>6. InvInput' /\ InvSearch'
    BY <1>1, <1>3, <1>4 DEF InvInput, InvSearch, Searching
  <1>7. VerdictExact'
    <2> SUFFICES ASSUME text = <<>> PROVE VerdictExact'
      BY <1>3 DEF VerdictExact
    <2>1. Text' = <<>>
      BY <1>1, <1>3, <1>4, NormalisedIs DEF Text, Words
    <2>2. ~\E word \in patterns' : OccursIn(word, Text')
      <3>1. 1..Len(Text') = {}
        BY <2>1, EmptySeq
      <3> QED BY <3>1 DEF OccursIn
    <2>3. report'.violation_type # "PROFANITY_EXACT"
      BY <1>3, CleanIs
    <2> QED BY <2>2, <2>3 DEF VerdictExact
  <1>8. ReportConsistent'
    BY <1>3, CleanIs, RiskIs DEF ReportConsistent
  <1>9. ModelWhole'
    BY <1>3 DEF Inv, ModelWhole
  <1>10. SlowestTempo'
    BY <1>3, <1>4 DEF SlowestTempo
  <1> QED BY <1>5, <1>6, <1>7, <1>8, <1>9, <1>10 DEF Inv

\* The text that is searched and its tokens.
LEMMA TextIs ==
  ASSUME Inv, Searching
  PROVE  /\ Text \in Seq(Kept) /\ Text \in Words
         /\ Split(Text, Spaces) \in Seq(Pieces(Text))
         /\ \A piece \in Pieces(Text) : piece \in Words
  <1>1. input.text \in Seq(Characters)
    BY DEF Inv, InvInput, Searching, Words
  <1>2. Text \in Seq(Kept)
    BY <1>1, NormalisedIs DEF Text
  <1>3. Text \in Words
    <2>1. Kept \subseteq Characters
      BY DEF Kept
    <2> HIDE DEF Text
    <2> QED BY <1>2, <2>1, SeqMonotonic DEF Words
  <1>4. Split(Text, Spaces) \in Seq(Pieces(Text))
    <2> HIDE DEF Text
    <2> QED BY <1>2, SplitIs
  <1>5. ASSUME NEW piece \in Pieces(Text) PROVE piece \in Words
    <2> HIDE DEF Text
    <2>1. PICK a \in 1..Len(Text), b \in 1..Len(Text) : piece = SubSeq(Text, a, b)
      BY DEF Pieces
    <2>2. Len(Text) \in Nat
      BY <1>3, LenProperties DEF Words
    <2>3. a \in Int /\ b \in Int /\ \A i \in a..b : Text[i] \in Characters
      BY <1>3, <2>2, ElementOfSeq DEF Words
    <2> QED BY <2>1, <2>3, SubSeqProperties DEF Words
  <1> QED BY <1>2, <1>3, <1>4, <1>5

Named(r, word) ==
    /\ r.is_safe = FALSE /\ r.violation_type = "PROFANITY_EXACT" /\ r.text = TRUE
    /\ r.matched_pattern = word
    /\ r.visual = FALSE /\ r.audio = FALSE /\ r.corrupted = FALSE

\* A search decides with a pattern that occurs, or there is none.
LEMMA SearchIs ==
  ASSUME NEW t, NEW otherwise, Search(t, otherwise)
  PROVE  \/ /\ searchable /\ pc' = "done"
            /\ \E word \in patterns : OccursIn(word, t) /\ Named(report', word)
         \/ /\ ~(searchable /\ \E word \in patterns : OccursIn(word, t))
            /\ pc' = otherwise /\ report' = report
  <1> DEFINE found == Rules!Found(t)
  <1>1. CASE \E m \in found : Goto("done", Exact(m))
    <2>1. PICK m \in found : Goto("done", Exact(m))
      BY <1>1
    <2>2. /\ m \in [pattern : IF searchable THEN patterns ELSE {}, end_pos : 1..Len(t)]
          /\ Rules!Occurs(m.pattern, t, m.end_pos)
      BY DEF Rules!Found
    <2>3. m.pattern \in (IF searchable THEN patterns ELSE {}) /\ m.end_pos \in 1..Len(t)
      BY <2>2
    <2>4. searchable /\ m.pattern \in patterns
      BY <2>3
    <2>5. OccursIn(m.pattern, t)
      BY <2>2, <2>3 DEF OccursIn
    <2>6. Named(Exact(m), m.pattern)
      BY DEF Exact, Clean, Named
    <2>7. pc' = "done" /\ report' = Exact(m)
      BY <2>1 DEF Goto
    <2> QED BY <2>4, <2>5, <2>6, <2>7
  <1>2. CASE found = {} /\ Goto(otherwise, report)
    <2>1. ASSUME searchable, NEW word \in patterns, OccursIn(word, t) PROVE FALSE
      <3>1. PICK i \in 1..Len(t) : Rules!Occurs(word, t, i)
        BY <2>1 DEF OccursIn
      <3>2. PICK m : m = [pattern |-> word, end_pos |-> i]
        OBVIOUS
      <3>3. m \in [pattern : IF searchable THEN patterns ELSE {}, end_pos : 1..Len(t)]
        BY <2>1, <3>2
      <3>4. m.pattern = word /\ m.end_pos = i
        BY <3>2
      <3>5. m \in found
        BY <3>1, <3>3, <3>4 DEF Rules!Found
      <3> QED BY <1>2, <3>5
    <2> QED BY <1>2, <2>1 DEF Goto
  <1> QED BY <1>1, <1>2 DEF Search

\* The search found a pattern: the verdict is deserved.
LEMMA InvFound ==
  ASSUME Inv, Searching, searchable, NEW word \in patterns, OccursIn(word, Text),
         Named(report', word), pc' = "done", next' \in Nat \ {0},
         UNCHANGED <<patterns, searchable, changes, model, file, input, offered, disturbed>>
  PROVE  Inv'
  <1>1. input.kind = "text" /\ input.text \in Words /\ pc # "idle"
    BY DEF Inv, InvInput, Searching
  <1>2. word \in Words /\ word \in offered
    BY <1>1 DEF Inv, InvTypes, InvSearch
  <1>4. Text' = Text
    BY DEF Text
  <1>5. /\ report'.is_safe = FALSE /\ report'.violation_type = "PROFANITY_EXACT"
        /\ report'.text = TRUE /\ report'.matched_pattern = word /\ report'.visual = FALSE
        /\ report'.audio = FALSE /\ report'.corrupted = FALSE
    BY DEF Named
  <1>6. InvTypes'
    BY DEF Inv, InvTypes
  <1>7. InvInput' /\ InvSearch'
    BY <1>1 DEF Inv, InvInput, InvSearch, Searching
  <1>8. VerdictExact'
    <2>1. OccursIn(word, Text)' /\ searchable'
      BY <1>4
    <2> HIDE DEF Text
    <2> QED BY <1>2, <1>4, <1>5, <2>1 DEF VerdictExact
  <1>9. ReportConsistent'
    <2>1. word # <<"SEMANTIC_RISK">>
      BY <1>2, RiskIs
    <2> QED BY <1>5, <2>1 DEF ReportConsistent
  <1>10. ModelWhole'
    BY DEF Inv, ModelWhole
  <1>11. SlowestTempo'
    BY <1>1 DEF SlowestTempo
  <1> QED BY <1>6, <1>7, <1>8, <1>9, <1>10, <1>11 DEF Inv

\* It found none: the analysis goes on.
LEMMA InvGoesOn ==
  ASSUME Inv, Searching, pc' \in {"tokens", "sam"}, report' = report, next' \in Nat \ {0},
         ~disturbed => ~Matches,
         UNCHANGED <<patterns, searchable, changes, model, file, input, offered, disturbed>>
  PROVE  Inv'
  <1>1. InvTypes'
    BY DEF Inv, InvTypes
  <1>2. InvInput'
    BY DEF Inv, InvInput, Searching
  <1>3. InvSearch'
    BY DEF Inv, InvSearch, Searching, Matches, Text
  <1>4. VerdictExact' /\ ReportConsistent' /\ SlowestTempo'
    BY DEF VerdictExact, ReportConsistent, SlowestTempo
  <1>5. ModelWhole'
    BY DEF Inv, ModelWhole
  <1> QED BY <1>1, <1>2, <1>3, <1>4, <1>5 DEF Inv

LEMMA InvWhole ==
  ASSUME Inv, SearchWhole
  PROVE  Inv'
  <1>1. /\ pc = "whole" /\ Search(Text, "tokens")
        /\ UNCHANGED <<patterns, searchable, changes, model, file, input, next, offered, disturbed>>
    BY DEF SearchWhole, Search, Goto, ruleVars, stateVars
  <1>2. Searching /\ next' \in Nat \ {0}
    BY <1>1 DEF Searching, Inv, InvTypes
  <1>3. CASE /\ searchable /\ pc' = "done"
             /\ \E word \in patterns : OccursIn(word, Text) /\ Named(report', word)
    BY <1>1, <1>2, <1>3, InvFound
  <1>4. CASE ~Matches /\ pc' = "tokens" /\ report' = report
    BY <1>1, <1>2, <1>4, InvGoesOn
  <1>5. \/ /\ searchable /\ pc' = "done"
           /\ \E word \in patterns : OccursIn(word, Text) /\ Named(report', word)
        \/ ~Matches /\ pc' = "tokens" /\ report' = report
    <2> HIDE DEF Text
    <2>1. \/ /\ searchable /\ pc' = "done"
             /\ \E word \in patterns : OccursIn(word, Text) /\ Named(report', word)
          \/ /\ ~(searchable /\ \E word \in patterns : OccursIn(word, Text))
             /\ pc' = "tokens" /\ report' = report
      BY <1>1, SearchIs
    <2> QED BY <2>1 DEF Matches
  <1> QED BY <1>3, <1>4, <1>5

LEMMA InvToken ==
  ASSUME Inv, SearchToken
  PROVE  Inv'
  <1> DEFINE tokens == Split(Text, Spaces)
  <1>1. /\ pc = "tokens"
        /\ UNCHANGED <<patterns, searchable, changes, model, file, input, offered, disturbed>>
        /\ \/ next <= Len(tokens) /\ Search(tokens[next], "tokens") /\ next' = next + 1
           \/ next > Len(tokens) /\ Goto("sam", report) /\ UNCHANGED next
    BY DEF SearchToken, Search, Goto, ruleVars, stateVars
  <1>2. Searching /\ next \in Nat \ {0} /\ patterns \subseteq Words
    BY <1>1 DEF Searching, Inv, InvTypes
  <1>3. ~disturbed => ~Matches
    BY <1>1 DEF Inv, InvSearch
  <1>4. CASE next > Len(tokens) /\ Goto("sam", report) /\ UNCHANGED next
    <2>1. pc' = "sam" /\ report' = report /\ next' \in Nat \ {0}
      BY <1>2, <1>4 DEF Goto
    <2> QED BY <1>1, <1>2, <1>3, <2>1, InvGoesOn
  <1>5. CASE next <= Len(tokens) /\ Search(tokens[next], "tokens") /\ next' = next + 1
    <2>1. /\ Text \in Words /\ tokens \in Seq(Pieces(Text))
          /\ \A piece \in Pieces(Text) : piece \in Words
      BY <1>2, TextIs
    <2> HIDE DEF tokens
    <2>2. PICK t \in Pieces(Text) : t = tokens[next]
      <3>1. next \in 1..Len(tokens)
        BY <1>2, <1>5, <2>1, LenProperties
      <3> QED BY <2>1, <3>1, ElementOfSeq
    <2>3. \A word \in patterns : OccursIn(word, t) => OccursIn(word, Text)
      <3> HIDE DEF Text
      <3> QED BY <1>2, <2>1, PieceIs DEF Words
    <2>4. \/ /\ searchable /\ pc' = "done"
             /\ \E word \in patterns : OccursIn(word, t) /\ Named(report', word)
          \/ pc' = "tokens" /\ report' = report
      BY <1>5, <2>2, SearchIs
    <2>5. next' \in Nat \ {0}
      BY <1>2, <1>5
    <2>6. CASE /\ searchable /\ pc' = "done"
               /\ \E word \in patterns : OccursIn(word, t) /\ Named(report', word)
      BY <1>1, <1>2, <2>3, <2>5, <2>6, InvFound
    <2>7. CASE pc' = "tokens" /\ report' = report
      BY <1>1, <1>2, <1>3, <2>5, <2>7, InvGoesOn
    <2> QED BY <2>4, <2>6, <2>7
  <1> QED BY <1>1, <1>4, <1>5

\* The semantic model has the last word (lines 93-108 of shield_engine.cpp).
LEMMA InvJudge ==
  ASSUME Inv, Judge
  PROVE  Inv'
  <1> DEFINE e == Evaluated(model, Text)
             risk == [Clean EXCEPT !.is_safe = FALSE, !.violation_type = e.category,
                                   !.text = TRUE, !.matched_pattern = <<"SEMANTIC_RISK">>]
  <1>1. /\ pc = "sam" /\ pc' = "done"
        /\ report' = IF model.loaded /\ e.half THEN risk ELSE Clean
        /\ UNCHANGED <<patterns, searchable, changes, model, file, input, next, offered, disturbed>>
    BY DEF Judge, Goto, ruleVars, stateVars
  <1>2. Searching /\ input.kind = "text" /\ input.text \in Words
    BY <1>1 DEF Searching, Inv, InvInput
  <1>3. Text \in Words /\ ModelOK(model)
    BY <1>2, TextIs DEF Inv, InvTypes
  <1>4. /\ e.half \in BOOLEAN /\ e.category \in {"NONE", "PROFANITY_SEMANTIC"}
        /\ e.half /\ e.category = "NONE" => model.threshold > 0
    <2> HIDE DEF Text
    <2> QED BY <1>3, EvaluatedIs DEF Words
  <1>5. /\ risk.is_safe = FALSE /\ risk.violation_type = e.category /\ risk.text = TRUE
        /\ risk.matched_pattern = <<"SEMANTIC_RISK">> /\ risk.visual = FALSE
        /\ risk.audio = FALSE /\ risk.corrupted = FALSE
    BY DEF Clean
  <1>6. Text' = Text
    BY <1>1 DEF Text
  <1>7. (Evaluated(model, Text))' = e
    BY <1>1, <1>6
  <1> HIDE DEF risk, e
  <1>8. InvTypes'
    BY <1>1 DEF Inv, InvTypes
  <1>9. InvInput' /\ InvSearch'
    BY <1>1, <1>2 DEF Inv, InvInput, InvSearch, Searching
  <1>10. VerdictExact'
    <2>1. report'.violation_type # "PROFANITY_EXACT"
      <3>1. report' = risk \/ report' = Clean
        BY <1>1
      <3> QED BY <1>4, <1>5, <3>1, CleanIs
    <2>2. ~disturbed' => ~Matches'
      BY <1>1, <1>6 DEF Inv, InvSearch, Matches
    <2> HIDE DEF Text
    <2> QED BY <2>1, <2>2 DEF VerdictExact, Matches
  <1>11. ReportConsistent'
    <2>1. CASE model.loaded /\ e.half
      <3>1. report' = risk
        BY <1>1, <2>1
      <3>2. model'.threshold = model.threshold
        BY <1>1
      <3> QED BY <1>4, <1>5, <1>7, <2>1, <3>1, <3>2 DEF ReportConsistent
    <2>2. CASE ~(model.loaded /\ e.half)
      <3>1. report' = Clean
        BY <1>1, <2>2
      <3> QED BY <3>1, CleanIs, RiskIs DEF ReportConsistent
    <2> QED BY <2>1, <2>2
  <1>12. ModelWhole'
    BY <1>1 DEF Inv, ModelWhole
  <1>13. SlowestTempo'
    BY <1>1, <1>2 DEF SlowestTempo
  <1> QED BY <1>8, <1>9, <1>10, <1>11, <1>12, <1>13 DEF Inv

LEMMA InvReturn ==
  ASSUME Inv, Return
  PROVE  Inv'
  <1>1. /\ pc' = "idle" /\ next' = 1
        /\ UNCHANGED <<patterns, searchable, changes, model, file>>
    BY DEF Return, ruleVars, stateVars
  <1>2. InvTypes'
    BY <1>1 DEF Inv, InvTypes
  <1>3. InvInput' /\ InvSearch' /\ VerdictExact' /\ ReportConsistent' /\ SlowestTempo'
    BY <1>1 DEF InvInput, InvSearch, Searching, VerdictExact, ReportConsistent, SlowestTempo
  <1>4. ModelWhole'
    BY <1>1 DEF Inv, ModelWhole
  <1> QED BY <1>2, <1>3, <1>4 DEF Inv

-----------------------------------------------------------------------------
(***************************************************************************)
(* Sets listed by sequences.                                               *)
(***************************************************************************)
\* s lists the elements of S, each once.
Enumerates(s, S) ==
    /\ s \in Seq(S)
    /\ \A x \in S : \E i \in 1..Len(s) : s[i] = x
    /\ \A i, j \in 1..Len(s) : s[i] = s[j] => i = j

\* A sequence that lists a set is as long as the set is large.
LEMMA EnumeratesCount ==
  ASSUME NEW s, NEW S, Enumerates(s, S)
  PROVE  IsFiniteSet(S) /\ Cardinality(S) = Len(s) /\ Len(s) \in Nat /\ ToSet(s) = S
  <1>1. Len(s) \in Nat /\ s \in [1..Len(s) -> S] /\ DOMAIN s = 1..Len(s)
    BY LenProperties DEF Enumerates
  <1>2. s \in Bijection(1..Len(s), S)
    BY <1>1 DEF Enumerates, Bijection, Injection, Surjection, IsInjective
  <1>3. ExistsBijection(1..Len(s), S)
    BY <1>2 DEF ExistsBijection
  <1>4. IsFiniteSet(S) /\ Cardinality(S) = Len(s)
    BY <1>1, <1>3, FS_NatBijection, FS_CountingElements
  <1>5. ToSet(s) = S
    BY <1>1 DEF Enumerates, ToSet
  <1> QED BY <1>1, <1>4, <1>5

\* A finite set is listed by the sequence that the library makes of it.
LEMMA SetToSeqIs ==
  ASSUME NEW S, IsFiniteSet(S)
  PROVE  Enumerates(SetToSeq(S), S)
  <1> DEFINE n == Cardinality(S)
  <1>1. n \in Nat /\ ExistsBijection(1..n, S)
    BY FS_CardinalityType
  <1> HIDE DEF n
  <1>2. \E f \in [1..n -> S] : IsInjective(f)
    BY <1>1 DEF ExistsBijection, Bijection, Injection
  <1>3. PICK s : s = SetToSeq(S)
    OBVIOUS
  <1>4. s \in [1..n -> S] /\ IsInjective(s)
    BY <1>2, <1>3 DEF SetToSeq, n
  <1>5. s \in Injection(1..n, S)
    BY <1>4 DEF Injection
  <1>6. Cardinality(1..n) = n
    BY <1>1, FS_Interval
  <1>7. s \in Surjection(1..n, S)
    BY <1>5, <1>6, FS_Injection DEF n
  <1>8. s \in Seq(S) /\ Len(s) = n
    BY <1>1, <1>4, SeqDef
  <1>9. DOMAIN s = 1..n
    BY <1>4
  <1> QED BY <1>3, <1>4, <1>7, <1>8, <1>9 DEF Enumerates, Surjection, IsInjective

\* Lists of two sets that have nothing in common make the list of both.
LEMMA EnumeratesJoin ==
  ASSUME NEW s, NEW S, NEW t, NEW T, Enumerates(s, S), Enumerates(t, T), S \cap T = {}
  PROVE  Enumerates(s \o t, S \cup T)
  <1> DEFINE U == S \cup T
             u == s \o t
  <1>1. /\ s \in Seq(S) /\ t \in Seq(T) /\ Len(s) \in Nat /\ Len(t) \in Nat
        /\ \A i \in 1..Len(s) : s[i] \in S
        /\ \A i \in 1..Len(t) : t[i] \in T
    BY LenProperties, ElementOfSeq DEF Enumerates
  <1>2. s \in Seq(U) /\ t \in Seq(U)
    <2>1. S \subseteq U /\ T \subseteq U
      OBVIOUS
    <2> HIDE DEF U
    <2> QED BY <1>1, <2>1, SeqMonotonic
  <1>3. /\ u \in Seq(U) /\ Len(u) = Len(s) + Len(t)
        /\ \A i \in 1..(Len(s) + Len(t)) : u[i] = IF i <= Len(s) THEN s[i] ELSE t[i - Len(s)]
    <2> HIDE DEF U
    <2> QED BY <1>2, ConcatProperties
  <1> HIDE DEF u
  <1>4. \A i \in 1..Len(s) : i \in 1..Len(u) /\ u[i] = s[i]
    <2> SUFFICES ASSUME NEW i \in 1..Len(s) PROVE i \in 1..Len(u) /\ u[i] = s[i]
      OBVIOUS
    <2>1. i \in 1..(Len(s) + Len(t)) /\ i <= Len(s)
      BY <1>1
    <2> QED BY <1>3, <2>1
  <1>5. \A i \in 1..Len(t) : Len(s) + i \in 1..Len(u) /\ u[Len(s) + i] = t[i]
    <2> SUFFICES ASSUME NEW i \in 1..Len(t)
                 PROVE  Len(s) + i \in 1..Len(u) /\ u[Len(s) + i] = t[i]
      OBVIOUS
    <2>1. PICK k \in 1..(Len(s) + Len(t)) : k = Len(s) + i /\ ~(k <= Len(s)) /\ k - Len(s) = i
      BY <1>1
    <2>2. u[k] = t[k - Len(s)] /\ k \in 1..Len(u)
      BY <1>3, <2>1
    <2> QED BY <2>1, <2>2
  <1>6. ASSUME NEW x \in U PROVE \E i \in 1..Len(u) : u[i] = x
    <2>1. CASE x \in S
      <3>1. PICK i \in 1..Len(s) : s[i] = x
        BY <2>1 DEF Enumerates
      <3> QED BY <1>4, <3>1
    <2>2. CASE x \in T
      <3>1. PICK i \in 1..Len(t) : t[i] = x
        BY <2>2 DEF Enumerates
      <3> QED BY <1>5, <3>1
    <2> QED BY <2>1, <2>2
  <1>7. \A i \in 1..Len(u) : \/ i \in 1..Len(s) /\ u[i] = s[i]
                             \/ i - Len(s) \in 1..Len(t) /\ u[i] = t[i - Len(s)]
    BY <1>1, <1>3
  <1>8. ASSUME NEW i \in 1..Len(u), NEW j \in 1..Len(u), u[i] = u[j] PROVE i = j
    <2>1. CASE i \in 1..Len(s) /\ j \in 1..Len(s)
      BY <1>4, <1>8, <2>1 DEF Enumerates
    <2>2. CASE i - Len(s) \in 1..Len(t) /\ j - Len(s) \in 1..Len(t)
                 /\ u[i] = t[i - Len(s)] /\ u[j] = t[j - Len(s)]
      <3>1. PICK a \in 1..Len(t), b \in 1..Len(t) : a = i - Len(s) /\ b = j - Len(s)
        BY <2>2
      <3>2. t[a] = t[b]
        BY <1>8, <2>2, <3>1
      <3>3. a = b
        BY <3>2 DEF Enumerates
      <3> QED BY <1>1, <1>3, <3>1, <3>3
    <2>3. ~(u[i] \in S /\ u[i] \in T)
      OBVIOUS
    <2>4. i \in 1..Len(s) => u[i] \in S
      BY <1>1, <1>4
    <2>5. j \in 1..Len(s) => u[j] \in S
      BY <1>1, <1>4
    <2> HIDE DEF U
    <2> QED BY <1>1, <1>7, <1>8, <2>1, <2>2, <2>3, <2>4, <2>5
  <1> QED BY <1>3, <1>6, <1>8 DEF Enumerates, u

\* The list of nothing.
\* The list of one element.
LEMMA OneEnumerated ==
  ASSUME NEW x
  PROVE  Enumerates(<<x>>, {x})
  <1>1. <<x>> \in Seq({x}) /\ Len(<<x>>) = 1 /\ <<x>>[1] = x
    OBVIOUS
  <1> QED BY <1>1 DEF Enumerates

-----------------------------------------------------------------------------
(***************************************************************************)
(* Classes of pixels.                                                      *)
(***************************************************************************)
\* A finite set of pixels.
IsMask(mask) == mask \in SUBSET (Int \X Int) /\ IsFiniteSet(mask)

\* A pixel is a neighbour of its neighbours.
LEMMA NeighboursBoth ==
  ASSUME NEW p \in Int \X Int, NEW q \in Int \X Int, q \in Neighbours(p)
  PROVE  p \in Neighbours(q)
  <1>1. PICK a, b \in Int : p = <<a, b>>
    OBVIOUS
  <1>2. PICK c, d \in Int : q = <<c, d>>
    OBVIOUS
  <1>3. c \in (a - 1)..(a + 1) /\ d \in (b - 1)..(b + 1) /\ q # p
    BY <1>1, <1>2 DEF Neighbours
  <1>4. a \in (c - 1)..(c + 1) /\ b \in (d - 1)..(d + 1)
    BY <1>3
  <1> QED BY <1>1, <1>2, <1>3, <1>4 DEF Neighbours

\* What is outside a closed set is closed, for pixels are neighbours of each other.
LEMMA ClosedRest ==
  ASSUME NEW mask, IsMask(mask), NEW c \in Closed(mask)
  PROVE  mask \ c \in Closed(mask)
  <1>1. ASSUME NEW p \in mask \ c, NEW q \in Neighbours(p) \cap mask, q \in c PROVE FALSE
    <2>1. p \in Int \X Int /\ q \in Int \X Int
      BY DEF IsMask
    <2>2. p \in Neighbours(q)
      BY <2>1, NeighboursBoth
    <2> QED BY <1>1, <2>2 DEF Closed
  <1> QED BY <1>1 DEF Closed

\* What closed sets have in common is closed, and so is their union.
LEMMA ClosedJoin ==
  ASSUME NEW mask, NEW c \in Closed(mask), NEW d \in Closed(mask)
  PROVE  c \cap d \in Closed(mask) /\ c \cup d \in Closed(mask)
  BY DEF Closed

\* Classes that have a pixel in common are the same.
LEMMA ClassesApart ==
  ASSUME NEW mask, NEW c \in Classes(mask), NEW d \in Closed(mask), c \cap d # {}
  PROVE  c \subseteq d
  <1>1. c \cap d \in Closed(mask)
    BY ClosedJoin DEF Classes
  <1> QED BY <1>1 DEF Classes

-----------------------------------------------------------------------------
(***************************************************************************)
(* The search from a pixel.                                                *)
(***************************************************************************)
Searches(mask) == [queue : Seq(mask), visited : SUBSET mask, taken : Seq(mask)]

\* What is true between two turns of the search from p: the pixels that entered the
\* queue are those marked since it began, each once; the neighbours of what has left
\* are marked; and what is marked belongs to p.
Reached(mask, p, before, r) ==
    /\ r \in Searches(mask)
    /\ before \subseteq r.visited /\ p \in r.visited /\ p \notin before
    /\ Enumerates(r.taken \o r.queue, r.visited \ before)
    /\ \A i \in 1..Len(r.taken) : Neighbours(r.taken[i]) \cap mask \subseteq r.visited
    /\ \A c \in Closed(mask) : p \in c => r.visited \ before \subseteq c

\* The pixels that a turn marks.
New(mask, r) == (Neighbours(Head(r.queue)) \cap mask) \ r.visited

\* A turn (lines 38-57 of geometry_analyzer.cpp) that finds the queue not empty.
TakesHead(mask, r, t) ==
    /\ t.queue = Tail(r.queue) \o SetToSeq(New(mask, r))
    /\ t.visited = r.visited \cup New(mask, r)
    /\ t.taken = Append(r.taken, Head(r.queue))

\* A turn keeps the types, and takes the head of a queue that is not empty.
LEMMA TurnTakes ==
  ASSUME NEW mask, IsMask(mask), NEW r \in Searches(mask)
  PROVE  /\ Turn(mask, r) \in Searches(mask)
         /\ r.queue = <<>> => Turn(mask, r) = r
         /\ r.queue # <<>> =>
               TakesHead(mask, r, Turn(mask, r)) /\ Enumerates(SetToSeq(New(mask, r)), New(mask, r))
  <1>1. r.queue \in Seq(mask) /\ r.visited \in SUBSET mask /\ r.taken \in Seq(mask)
    BY DEF Searches
  <1>2. CASE r.queue = <<>>
    BY <1>2 DEF Turn
  <1>3. CASE r.queue # <<>>
    <2> DEFINE new == New(mask, r)
    <2>1. new \subseteq mask
      BY DEF New
    <2>2. IsFiniteSet(new)
      BY <2>1, FS_Subset DEF IsMask
    <2>3. Enumerates(SetToSeq(new), new)
      BY <2>2, SetToSeqIs
    <2>4. Turn(mask, r) = [queue |-> Tail(r.queue) \o SetToSeq(new), visited |-> r.visited \cup new,
                           taken |-> Append(r.taken, Head(r.queue))]
      BY <1>3 DEF Turn, New
    <2> HIDE DEF new
    <2>5. SetToSeq(new) \in Seq(mask)
      <3>1. SetToSeq(new) \in Seq(new)
        BY <2>3 DEF Enumerates
      <3> QED BY <2>1, <3>1, SeqMonotonic
    <2>6. Head(r.queue) \in mask /\ Tail(r.queue) \in Seq(mask)
      BY <1>1, <1>3, HeadTailProperties
    <2>7. Tail(r.queue) \o SetToSeq(new) \in Seq(mask)
      BY <2>5, <2>6, ConcatProperties
    <2>8. Append(r.taken, Head(r.queue)) \in Seq(mask)
      BY <1>1, <2>6, AppendProperties
    <2>9. r.visited \cup new \in SUBSET mask
      BY <1>1, <2>1
    <2>10. Turn(mask, r) \in Searches(mask)
      BY <2>4, <2>7, <2>8, <2>9 DEF Searches
    <2>11. TakesHead(mask, r, Turn(mask, r))
      BY <2>4 DEF TakesHead, new
    <2> QED BY <1>3, <2>3, <2>10, <2>11 DEF new
  <1> QED BY <1>2, <1>3

\* Sequences in a row, however they are put together.
Associates(a, b, c) == (a \o b) \o c = a \o (b \o c)

LEMMA AssociatesIs ==
  ASSUME NEW S, NEW a \in Seq(S), NEW b \in Seq(S), NEW c \in Seq(S)
  PROVE  Associates(a, b, c)
  <1>1. (a \o b) \o c = a \o (b \o c)
    BY ConcatAssociative
  <1> QED BY <1>1 DEF Associates

Regroups(a, b, c, d) == (a \o b) \o (c \o d) = (a \o (b \o c)) \o d

LEMMA Regroup ==
  ASSUME NEW S, NEW a \in Seq(S), NEW b \in Seq(S), NEW c \in Seq(S), NEW d \in Seq(S)
  PROVE  Regroups(a, b, c, d)
  <1>1. PICK e \in Seq(S) : e = a \o b
    BY ConcatProperties
  <1>2. Associates(e, c, d) /\ Associates(a, b, c)
    BY AssociatesIs
  <1>3. e \o (c \o d) = (e \o c) \o d
    BY <1>2 DEF Associates
  <1>4. e \o c = a \o (b \o c)
    BY <1>1, <1>2 DEF Associates
  <1> QED BY <1>1, <1>3, <1>4 DEF Regroups

\* A turn keeps what is true between turns, and takes one pixel more.
LEMMA TurnReaches ==
  ASSUME NEW mask, IsMask(mask), NEW p, NEW before, NEW r,
         Reached(mask, p, before, r), r.queue # <<>>
  PROVE  /\ Reached(mask, p, before, Turn(mask, r))
         /\ Len(Turn(mask, r).taken) = Len(r.taken) + 1
  <1> DEFINE new == New(mask, r)
             h == Head(r.queue)
             order == r.taken \o r.queue
  <1>1. PICK t : t = Turn(mask, r)
    OBVIOUS
  <1>2. r \in Searches(mask)
    BY DEF Reached
  <1>3. t \in Searches(mask) /\ TakesHead(mask, r, t) /\ Enumerates(SetToSeq(new), new)
    BY <1>1, <1>2, TurnTakes
  <1>4. r.queue \in Seq(mask) /\ r.visited \in SUBSET mask /\ r.taken \in Seq(mask)
    BY <1>2 DEF Searches
  <1>5. h \in mask /\ Tail(r.queue) \in Seq(mask) /\ r.queue = <<h>> \o Tail(r.queue)
    <2>1. /\ Head(r.queue) \in mask /\ Tail(r.queue) \in Seq(mask)
          /\ Len(Tail(r.queue)) = Len(r.queue) - 1
          /\ \A i \in 1..Len(Tail(r.queue)) : Tail(r.queue)[i] = r.queue[i + 1]
      BY <1>4, HeadTailProperties
    <2>2. PICK head, tail, q : head = Head(r.queue) /\ tail = Tail(r.queue) /\ q = r.queue
      OBVIOUS
    <2>3. /\ head \in mask /\ tail \in Seq(mask) /\ q \in Seq(mask) /\ q # <<>>
          /\ Len(tail) = Len(q) - 1 /\ \A i \in 1..Len(tail) : tail[i] = q[i + 1]
      BY <1>4, <2>1, <2>2
    <2>4. head = q[1]
      BY <2>2
    <2>5. Len(q) \in Nat \ {0} /\ Len(tail) \in Nat
      BY <2>3, EmptySeq, LenProperties
    <2>6. <<head>> \in Seq(mask) /\ Len(<<head>>) = 1 /\ <<head>>[1] = head
      BY <2>3
    <2>7. PICK u : u = <<head>> \o tail
      OBVIOUS
    <2>8. /\ u \in Seq(mask) /\ Len(u) = 1 + Len(tail)
          /\ \A i \in 1..(1 + Len(tail)) : u[i] = IF i <= 1 THEN <<head>>[i] ELSE tail[i - 1]
      BY <2>3, <2>6, <2>7, ConcatProperties
    <2>9. Len(u) = Len(q)
      BY <2>3, <2>5, <2>8
    <2>10. ASSUME NEW i \in 1..Len(u) PROVE u[i] = q[i]
      <3>1. CASE i = 1
        BY <2>4, <2>5, <2>6, <2>8, <3>1
      <3>2. CASE i # 1
        <4>1. i - 1 \in 1..Len(tail) /\ ~(i <= 1) /\ (i - 1) + 1 = i /\ i \in 1..(1 + Len(tail))
          BY <2>5, <2>8, <3>2
        <4> QED BY <2>3, <2>8, <4>1
      <3> QED BY <3>1, <3>2
    <2>11. u = q
      BY <2>3, <2>8, <2>9, <2>10, SeqEqual
    <2> QED BY <2>2, <2>3, <2>7, <2>11
  <1>6. Append(r.taken, h) = r.taken \o <<h>> /\ Len(Append(r.taken, h)) = Len(r.taken) + 1
        /\ \A i \in 1..Len(r.taken) : Append(r.taken, h)[i] = r.taken[i]
        /\ Append(r.taken, h)[Len(r.taken) + 1] = h /\ Len(r.taken) \in Nat
    BY <1>4, <1>5, AppendIsConcat, AppendProperties, LenProperties
  <1>7. t.queue = Tail(r.queue) \o SetToSeq(new) /\ t.visited = r.visited \cup new
        /\ t.taken = Append(r.taken, h)
    BY <1>3 DEF TakesHead
  <1>8. new \subseteq mask /\ new \cap r.visited = {}
    BY DEF New
  <1>9. new = (Neighbours(h) \cap mask) \ r.visited
    BY DEF New
  <1> HIDE DEF new, h
  <1>10. t.taken \o t.queue = order \o SetToSeq(new)
    <2>1. SetToSeq(new) \in Seq(mask)
      <3>1. SetToSeq(new) \in Seq(new)
        BY <1>3 DEF Enumerates
      <3> QED BY <1>8, <3>1, SeqMonotonic
    <2>2. PICK a, b, c, d : a = r.taken /\ b = <<h>> /\ c = Tail(r.queue) /\ d = SetToSeq(new)
      OBVIOUS
    <2>3. a \in Seq(mask) /\ b \in Seq(mask) /\ c \in Seq(mask) /\ d \in Seq(mask)
      BY <1>4, <1>5, <2>1, <2>2
    <2>4. Regroups(a, b, c, d)
      BY <2>3, Regroup
    <2>7. t.taken = a \o b /\ t.queue = c \o d
      BY <1>6, <1>7, <2>2
    <2>8. order = a \o (b \o c)
      BY <1>5, <2>2
    <2> QED BY <2>2, <2>4, <2>7, <2>8 DEF Regroups
  <1> HIDE DEF order
  <1>11. Enumerates(order \o SetToSeq(new), (r.visited \ before) \cup new)
    <2>1. Enumerates(order, r.visited \ before)
      BY DEF Reached, order
    <2>2. PICK a, b : a = r.visited \ before /\ b = SetToSeq(new)
      OBVIOUS
    <2>3. a \cap new = {}
      BY <1>8, <2>2
    <2>4. Enumerates(order, a) /\ Enumerates(b, new)
      BY <1>3, <2>1, <2>2
    <2>5. Enumerates(order \o b, a \cup new)
      BY <2>3, <2>4, EnumeratesJoin
    <2> QED BY <2>2, <2>5
  <1>12. before \subseteq r.visited /\ p \in r.visited /\ p \notin before
    BY DEF Reached
  <1>13. t.visited \ before = (r.visited \ before) \cup new
    BY <1>7, <1>8, <1>12
  <1>14. Enumerates(t.taken \o t.queue, t.visited \ before)
    BY <1>10, <1>11, <1>13
  <1>15. ASSUME NEW i \in 1..Len(t.taken) PROVE Neighbours(t.taken[i]) \cap mask \subseteq t.visited
    <2>1. CASE i \in 1..Len(r.taken)
      <3>1. t.taken[i] = r.taken[i]
        BY <1>6, <1>7, <2>1
      <3>2. Neighbours(r.taken[i]) \cap mask \subseteq r.visited
        BY <2>1 DEF Reached
      <3> QED BY <1>7, <3>1, <3>2
    <2>2. CASE i = Len(r.taken) + 1
      <3>1. t.taken[i] = h
        BY <1>6, <1>7, <2>2
      <3> QED BY <1>7, <1>9, <3>1
    <2> QED BY <1>6, <1>7, <2>1, <2>2
  <1>16. ASSUME NEW c \in Closed(mask), p \in c PROVE t.visited \ before \subseteq c
    <2>1. r.visited \ before \subseteq c
      BY <1>16 DEF Reached
    <2>2. h \in r.visited \ before
      <3>1. PICK a, q : a = r.taken /\ q = r.queue
        OBVIOUS
      <3>2. a \in Seq(mask) /\ q \in Seq(mask) /\ q # <<>> /\ h = q[1]
        BY <1>4, <3>1 DEF h
      <3>3. Len(a) \in Nat /\ Len(q) \in Nat \ {0}
        BY <3>2, EmptySeq, LenProperties
      <3>4. PICK k : k = Len(a) + 1
        OBVIOUS
      <3>5. k \in 1..(Len(a) + Len(q)) /\ ~(k <= Len(a)) /\ k - Len(a) = 1
        BY <3>3, <3>4
      <3>6. PICK u : u = a \o q
        OBVIOUS
      <3>7. Len(u) = Len(a) + Len(q) /\ u[k] = q[1]
        BY <3>2, <3>5, <3>6, ConcatProperties
      <3>8. Enumerates(u, r.visited \ before)
        BY <3>1, <3>6 DEF Reached
      <3>9. u \in Seq(r.visited \ before)
        BY <3>8 DEF Enumerates
      <3>10. u[k] \in r.visited \ before
        BY <3>5, <3>7, <3>9, ElementOfSeq
      <3> QED BY <3>2, <3>7, <3>10
    <2>3. Neighbours(h) \cap mask \subseteq c
      BY <2>1, <2>2 DEF Closed
    <2> QED BY <1>9, <1>13, <2>1, <2>3
  <1>17. before \subseteq t.visited /\ p \in t.visited
    BY <1>7, <1>12
  <1>18. Reached(mask, p, before, t)
    BY <1>3, <1>12, <1>14, <1>15, <1>16, <1>17 DEF Reached
  <1> QED BY <1>1, <1>6, <1>7, <1>18

\* The search that begins at p, n turns on: unless the queue is empty, every turn
\* took a pixel.
Started(mask, p, before) ==
    [queue |-> <<p>>, visited |-> before \cup {p}, taken |-> <<>>]

Turned(mask, p, before, n, r) ==
    Reached(mask, p, before, r) /\ (r.queue = <<>> \/ Len(r.taken) = n)

\* The search begins with one pixel in the queue.
LEMMA StartedIs ==
  ASSUME NEW mask, IsMask(mask), NEW p \in mask, NEW before \in Closed(mask), p \notin before
  PROVE  Turned(mask, p, before, 0, Started(mask, p, before))
  <1>1. PICK r : r = Started(mask, p, before)
    OBVIOUS
  <1>2. r.queue = <<p>> /\ r.visited = before \cup {p} /\ r.taken = <<>>
    BY <1>1 DEF Started
  <1>3. <<p>> \in Seq(mask) /\ <<>> \in Seq(mask) /\ Len(<<>>) = 0
    OBVIOUS
  <1>4. before \subseteq mask
    BY DEF Closed
  <1>5. r \in Searches(mask)
    <2>1. before \cup {p} \in SUBSET mask
      BY <1>4
    <2> QED BY <1>1, <1>3, <2>1 DEF Started, Searches
  <1>6. (before \cup {p}) \ before = {p}
    OBVIOUS
  <1>7. <<>> \o <<p>> = <<p>>
    BY <1>3, ConcatEmptySeq
  <1>8. Enumerates(r.taken \o r.queue, r.visited \ before)
    BY <1>2, <1>6, <1>7, OneEnumerated
  <1>9. Len(r.taken) = 0 /\ 1..Len(r.taken) = {}
    BY <1>2, <1>3
  <1>10. before \subseteq r.visited /\ p \in r.visited
    BY <1>2
  <1>11. \A c \in Closed(mask) : p \in c => r.visited \ before \subseteq c
    BY <1>2
  <1>12. Reached(mask, p, before, r)
    BY <1>5, <1>8, <1>9, <1>10, <1>11 DEF Reached
  <1> QED BY <1>1, <1>9, <1>12 DEF Turned

\* One turn more.
LEMMA TurnedNext ==
  ASSUME NEW mask, IsMask(mask), NEW p, NEW before, NEW n \in Nat, NEW r,
         Turned(mask, p, before, n, r)
  PROVE  Turned(mask, p, before, n + 1, Turn(mask, r))
  <1>1. r \in Searches(mask)
    BY DEF Turned, Reached
  <1>2. CASE r.queue = <<>>
    <2>1. Turn(mask, r) = r
      BY <1>1, <1>2, TurnTakes
    <2> QED BY <1>2, <2>1 DEF Turned
  <1>3. CASE r.queue # <<>>
    <2>1. Reached(mask, p, before, r) /\ Len(r.taken) = n
      BY <1>3 DEF Turned
    <2>2. Reached(mask, p, before, Turn(mask, r)) /\ Len(Turn(mask, r).taken) = Len(r.taken) + 1
      BY <1>3, <2>1, TurnReaches
    <2> QED BY <2>1, <2>2 DEF Turned
  <1> QED BY <1>2, <1>3

\* As many turns as there are pixels empty the queue, for each takes another one.
LEMMA TurnedEnough ==
  ASSUME NEW mask, IsMask(mask), NEW p, NEW before, NEW r,
         Turned(mask, p, before, Cardinality(mask), r)
  PROVE  r.queue = <<>>
  <1> SUFFICES ASSUME r.queue # <<>> PROVE FALSE
    OBVIOUS
  <1>1. Reached(mask, p, before, r) /\ Len(r.taken) = Cardinality(mask)
    BY DEF Turned
  <1>2. PICK a, q : a = r.taken /\ q = r.queue
    OBVIOUS
  <1>3. a \in Seq(mask) /\ q \in Seq(mask) /\ q # <<>>
    BY <1>1, <1>2 DEF Reached, Searches
  <1>4. Len(a) \in Nat /\ Len(q) \in Nat \ {0}
    BY <1>3, EmptySeq, LenProperties
  <1>5. Len(a \o q) = Len(a) + Len(q)
    BY <1>3, ConcatProperties
  <1>6. PICK S : S = r.visited \ before
    OBVIOUS
  <1>7. Enumerates(a \o q, S) /\ S \subseteq mask
    BY <1>1, <1>2, <1>6 DEF Reached, Searches
  <1>8. Cardinality(S) = Len(a \o q)
    BY <1>7, EnumeratesCount
  <1>9. Cardinality(S) <= Cardinality(mask)
    BY <1>7, FS_Subset DEF IsMask
  <1> QED BY <1>1, <1>2, <1>4, <1>5, <1>8, <1>9

\* The search makes as many turns as there are pixels.
LEMMA FloodTurned ==
  ASSUME NEW mask, IsMask(mask), NEW p \in mask, NEW before \in Closed(mask), p \notin before
  PROVE  Turned(mask, p, before, Cardinality(mask), Flood(mask, p, before))
  <1> DEFINE S == Searches(mask)
             n == Cardinality(mask)
             first == Started(mask, p, before)
             turned(r) == Turn(mask, r)
             step == [x \in S \X Nat |-> turned(x[1])]
  <1>1. n \in Nat
    BY FS_CardinalityType DEF IsMask
  <1>2. first \in S
    BY StartedIs DEF Turned, Reached
  <1>3. ASSUME NEW r \in S PROVE turned(r) \in S
    BY <1>3, TurnTakes
  <1> HIDE DEF turned, S, first, n
  <1>4. Recursion(S, first, step)
    <2>1. step \in [S \X Nat -> S]
      BY <1>3
    <2> QED BY <1>2, <2>1 DEF Recursion
  <1>5. PICK g : Result(S, first, step, n, g)
    BY <1>1, <1>4, RecursionIs
  <1>6. g \in [0..n -> S] /\ g[0] = first /\ \A i \in 1..n : g[i] = turned(g[i - 1])
    <2>1. g \in [0..n -> S] /\ g[0] = first /\ \A i \in 1..n : g[i] = step[<<g[i - 1], i>>]
      BY <1>5 DEF Result
    <2>2. ASSUME NEW i \in 1..n PROVE g[i] = turned(g[i - 1])
      <3>1. g[i - 1] \in S /\ i \in Nat
        BY <1>1, <2>1
      <3>2. g[i] = step[<<g[i - 1], i>>]
        <4> HIDE DEF step
        <4> QED BY <2>1
      <3> QED BY <3>1, <3>2
    <2> QED BY <2>1, <2>2
  <1> HIDE DEF step
  <1> DEFINE turn == CHOOSE f : f = [i \in 0..n |-> IF i = 0 THEN first ELSE turned(f[i - 1])]
  <1>7. g = [i \in 0..n |-> IF i = 0 THEN first ELSE turned(g[i - 1])]
    <2>1. \A i \in 0..n : i = 0 \/ i \in 1..n
      BY <1>1
    <2> QED BY <1>6, <2>1
  <1>8. turn = [i \in 0..n |-> IF i = 0 THEN first ELSE turned(turn[i - 1])]
    BY <1>7, Zenon
  <1>9. Flood(mask, p, before) = turn[n]
    BY DEF Flood, turned, n, first, Started
  <1> HIDE DEF turn
  <1>10. \A i \in 0..n : turn[i] = IF i = 0 THEN first ELSE turned(turn[i - 1])
    BY <1>8, Zenon
  <1> DEFINE T == {i \in Nat : i <= n => Turned(mask, p, before, i, turn[i])}
  <1>11. 0 \in T
    <2>1. Turned(mask, p, before, 0, first)
      BY StartedIs DEF first
    <2>2. turn[0] = first
      BY <1>1, <1>10
    <2> QED BY <2>1, <2>2
  <1>12. ASSUME NEW i \in Nat, i \in T PROVE i + 1 \in T
    <2> SUFFICES ASSUME i + 1 <= n PROVE Turned(mask, p, before, i + 1, turn[i + 1])
      OBVIOUS
    <2>1. i + 1 \in 0..n /\ i + 1 # 0 /\ (i + 1) - 1 = i /\ i <= n
      BY <1>1
    <2>2. Turned(mask, p, before, i, turn[i])
      BY <1>12, <2>1
    <2>3. turn[i + 1] = turned(turn[i])
      BY <1>10, <2>1
    <2>4. Turned(mask, p, before, i + 1, turned(turn[i]))
      BY <2>2, TurnedNext DEF turned
    <2> QED BY <2>3, <2>4
  <1> HIDE DEF T
  <1>13. n \in T
    BY <1>1, <1>11, <1>12, Induct
  <1>14. Turned(mask, p, before, n, turn[n])
    BY <1>1, <1>13 DEF T
  <1> QED BY <1>9, <1>14 DEF n

\* The search from a pixel outside a closed set marks the pixel's class and nothing
\* else, and takes each of its pixels once (lines 30-57 of geometry_analyzer.cpp).
LEMMA FloodIs ==
  ASSUME NEW mask, IsMask(mask), NEW p \in mask, NEW before \in Closed(mask), p \notin before
  PROVE  \E class \in Classes(mask) :
            /\ p \in class /\ class \cap before = {}
            /\ Flood(mask, p, before).visited = before \cup class
            /\ Enumerates(Flood(mask, p, before).taken, class)
  <1>1. PICK r : r = Flood(mask, p, before)
    OBVIOUS
  <1>2. Turned(mask, p, before, Cardinality(mask), r)
    BY <1>1, FloodTurned
  <1>3. Reached(mask, p, before, r) /\ r.queue = <<>>
    BY <1>2, TurnedEnough DEF Turned
  <1>4. PICK class : class = r.visited \ before
    OBVIOUS
  <1>5. r.visited \in SUBSET mask /\ r.taken \in Seq(mask)
    BY <1>3 DEF Reached, Searches
  <1>6. before \subseteq r.visited /\ p \in r.visited
    BY <1>3 DEF Reached
  <1>7. p \in class /\ class \cap before = {} /\ r.visited = before \cup class
    BY <1>4, <1>6
  <1>8. Enumerates(r.taken, class)
    <2>1. r.taken \o <<>> = r.taken
      BY <1>5, ConcatEmptySeq
    <2>2. Enumerates(r.taken \o r.queue, class)
      BY <1>3, <1>4 DEF Reached
    <2> QED BY <1>3, <2>1, <2>2
  <1>9. mask \ before \in Closed(mask)
    BY ClosedRest
  <1>10. class \in Closed(mask)
    <2>1. ASSUME NEW q \in class PROVE Neighbours(q) \cap mask \subseteq class
      <3>1. PICK i \in 1..Len(r.taken) : r.taken[i] = q
        BY <1>8 DEF Enumerates
      <3>2. Neighbours(q) \cap mask \subseteq r.visited
        BY <1>3, <3>1 DEF Reached
      <3>3. q \in mask \ before
        BY <1>4, <1>5
      <3>4. Neighbours(q) \cap mask \subseteq mask \ before
        BY <1>9, <3>3 DEF Closed
      <3> QED BY <1>4, <3>2, <3>4
    <2> QED BY <1>4, <1>5, <2>1 DEF Closed
  <1>11. ASSUME NEW d \in Closed(mask) \ {{}}, d \subseteq class PROVE d = class
    <2>1. \A c \in Closed(mask) : p \in c => class \subseteq c
      BY <1>3, <1>4 DEF Reached
    <2>2. mask \ d \in Closed(mask)
      BY ClosedRest
    <2>3. p \in d
      <3> SUFFICES ASSUME p \notin d PROVE FALSE
        OBVIOUS
      <3>1. class \subseteq mask \ d
        BY <2>1, <2>2
      <3> QED BY <1>11, <3>1
    <2> QED BY <1>11, <2>1, <2>3
  <1>12. class \in Classes(mask)
    BY <1>7, <1>10, <1>11 DEF Classes
  <1> QED BY <1>1, <1>7, <1>8, <1>12

-----------------------------------------------------------------------------
(***************************************************************************)
(* The scan.                                                               *)
(***************************************************************************)
\* The pixels of a frame.
Frame(width, height) == (0..(width - 1)) \X (0..(height - 1))

\* The scan meets every pixel of the frame.
LEMMA RasterMeets ==
  ASSUME NEW width \in Nat \ {0}, NEW height \in Nat \ {0}, NEW q \in Frame(width, height)
  PROVE  \E k \in 1..(width * height) : Raster(k, width) = q
  <1>1. PICK x \in 0..(width - 1), y \in 0..(height - 1) : q = <<x, y>>
    BY DEF Frame
  <1>2. PICK a \in Nat : a = width * y + x
    OBVIOUS
  <1>3. width * (y + 1) <= width * height /\ width * (y + 1) = width * y + width
    <2>1. y + 1 <= height /\ y + 1 \in Nat /\ height \in Nat
      OBVIOUS
    <2>2. width * (y + 1) = width * y + width
      BY Z3
    <2> QED BY <2>1, <2>2, Monotone
  <1>4. width * y \in Nat /\ width * height \in Nat
    OBVIOUS
  <1>5. a + 1 \in 1..(width * height)
    BY <1>2, <1>3, <1>4
  <1>6. a \div width = y /\ a % width = x
    <2>1. PICK b \in Nat, r \in 0..(width - 1) :
             b = a \div width /\ r = a % width /\ a = width * b + r
      BY DivideIs
    <2>2. width * (b + 1) = width * b + width /\ width * b \in Nat
      BY Z3
    <2>3. width * y < width * (b + 1) /\ width * b < width * (y + 1)
      BY <1>2, <1>3, <1>4, <2>1, <2>2
    <2>4. y < b + 1 /\ b < y + 1
      BY <2>3, Monotone
    <2>5. y = b
      BY <2>4
    <2> QED BY <1>2, <1>4, <2>1, <2>5
  <1>7. (a + 1) - 1 = a
    OBVIOUS
  <1> QED BY <1>1, <1>5, <1>6, <1>7 DEF Raster

\* What it meets earlier comes before.
LEMMA RasterBefore ==
  ASSUME NEW width \in Nat \ {0}, NEW i \in Nat \ {0}, NEW j \in Nat \ {0}, i < j
  PROVE  Before(Raster(i, width), Raster(j, width))
  <1>1. PICK a \in Nat, b \in Nat : a = i - 1 /\ b = j - 1 /\ a < b
    OBVIOUS
  <1>2. PICK c \in Nat, r \in 0..(width - 1) :
           c = a \div width /\ r = a % width /\ a = width * c + r
    BY DivideIs
  <1>3. PICK d \in Nat, s \in 0..(width - 1) :
           d = b \div width /\ s = b % width /\ b = width * d + s
    BY DivideIs
  <1>4. width * (d + 1) = width * d + width /\ width * d \in Nat /\ width * c \in Nat
    BY Z3
  <1>5. c < d + 1
    <2>1. width * c < width * (d + 1)
      BY <1>1, <1>2, <1>3, <1>4
    <2> QED BY <2>1, Monotone
  <1>6. c < d \/ (c = d /\ r < s)
    BY <1>1, <1>2, <1>3, <1>4, <1>5
  <1>7. Raster(i, width) = <<r, c>> /\ Raster(j, width) = <<s, d>>
    BY <1>1, <1>2, <1>3 DEF Raster
  <1> QED BY <1>6, <1>7 DEF Before

\* The classes that are kept.
Large(mask, min_pixel_area) ==
    {class \in Classes(mask) : Cardinality(class) >= min_pixel_area}

\* What is reported of classes.
Shown(order) == [i \in 1..Len(order) |-> Component(order[i], Cardinality(order[i]))]

\* Each class has a pixel before all pixels of the next.
Ordered(order) ==
    \A i, j \in 1..Len(order) : i < j => \E p \in order[i] : \A q \in order[j] : Before(p, q)

\* The large classes of which the first i pixels of the scan met one, in the order in
\* which they did, when what is visited is marked.
Listed(mask, width, min_pixel_area, i, visited, order) ==
    /\ order \in Seq(Large(mask, min_pixel_area))
    /\ \A c \in Large(mask, min_pixel_area) :
          c \cap visited # {} => \E a \in 1..Len(order) : order[a] = c
    /\ \A a \in 1..Len(order) : \E k \in 1..i : Raster(k, width) \in order[a]
    /\ Ordered(order)

\* What is true after i pixels of the scan: those that are set are marked, and the
\* components are those of the classes they meet.
Scanned(mask, width, min_pixel_area, i, r) ==
    /\ r.visited \in Closed(mask)
    /\ \A k \in 1..i : Raster(k, width) \in mask => Raster(k, width) \in r.visited
    /\ \E order : /\ Listed(mask, width, min_pixel_area, i, r.visited, order)
                  /\ r.components = Shown(order)

\* One class more is reported at the end.
LEMMA ShownAppend ==
  ASSUME NEW S, NEW order \in Seq(S), NEW c \in S
  PROVE  Shown(Append(order, c)) = Shown(order) \o <<Component(c, Cardinality(c))>>
  <1> DEFINE n == Len(order)
             new == Append(order, c)
             Show(d) == Component(d, Cardinality(d))
             T == {Show(d) : d \in S}
  <1>1. /\ n \in Nat /\ Len(new) = n + 1
        /\ \A i \in 1..n : new[i] = order[i] /\ order[i] \in S
        /\ new[n + 1] = c
    BY AppendProperties, LenProperties, ElementOfSeq
  <1> HIDE DEF n, new, Show
  <1>2. PICK s : s = [i \in 1..n |-> Show(order[i])]
    OBVIOUS
  <1>3. s \in Seq(T) /\ Len(s) = n /\ \A i \in 1..n : s[i] = Show(order[i])
    <2>1. s \in [1..n -> T]
      BY <1>1, <1>2
    <2> HIDE DEF T
    <2> QED BY <1>1, <1>2, <2>1, SeqDef
  <1>4. Show(c) \in T
    OBVIOUS
  <1> HIDE DEF T
  <1>5. PICK u : u = Append(s, Show(c))
    OBVIOUS
  <1>6. /\ u \in Seq(T) /\ Len(u) = n + 1 /\ u[n + 1] = Show(c)
        /\ \A i \in 1..n : u[i] = s[i]
    BY <1>3, <1>4, <1>5, AppendProperties
  <1>7. u = s \o <<Show(c)>>
    BY <1>3, <1>4, <1>5, AppendIsConcat
  <1>8. DOMAIN u = 1..(n + 1)
    BY <1>6, LenProperties
  <1>9. u = [i \in 1..(n + 1) |-> Show(new[i])]
    <2>1. ASSUME NEW i \in 1..(n + 1) PROVE u[i] = Show(new[i])
      <3>1. i \in 1..n \/ i = n + 1
        BY <1>1
      <3> QED BY <1>1, <1>3, <1>6, <3>1
    <2>2. u \in [1..(n + 1) -> T]
      BY <1>6, LenProperties
    <2> QED BY <2>1, <2>2
  <1>10. Shown(new) = u
    BY <1>1, <1>9 DEF Shown, Show
  <1>11. Shown(order) = s
    BY <1>2 DEF Shown, Show, n
  <1> QED BY <1>7, <1>10, <1>11 DEF new, Show

\* The component that a pixel of the scan starts.
Gained(min_pixel_area, class, r) ==
    [visited |-> r.visited \cup class,
     components |-> r.components \o
         (IF Cardinality(class) < min_pixel_area THEN <<>>
          ELSE <<Component(class, Cardinality(class))>>)]

\* A pixel that is set and not marked has its whole class marked.
LEMMA ScanTakes ==
  ASSUME NEW mask, IsMask(mask), NEW min_pixel_area, NEW p \in mask,
         NEW r, r.visited \in Closed(mask), p \notin r.visited
  PROVE  \E class \in Classes(mask) :
            /\ p \in class /\ class \cap r.visited = {}
            /\ IsFiniteSet(class) /\ Cardinality(class) \in Nat
            /\ Scan(mask, min_pixel_area, p, r) = Gained(min_pixel_area, class, r)
  <1>1. PICK old : old = r.visited
    OBVIOUS
  <1>2. PICK f : f = Flood(mask, p, old)
    OBVIOUS
  <1>3. PICK class \in Classes(mask) :
           /\ p \in class /\ class \cap old = {}
           /\ f.visited = old \cup class
           /\ Enumerates(f.taken, class)
    BY <1>1, <1>2, FloodIs
  <1>4. IsFiniteSet(class) /\ Cardinality(class) = Len(f.taken) /\ ToSet(f.taken) = class
        /\ Len(f.taken) \in Nat
    BY <1>3, EnumeratesCount
  <1>5. Scan(mask, min_pixel_area, p, r) =
          [visited |-> f.visited,
           components |-> r.components \o
               (IF Len(f.taken) < min_pixel_area THEN <<>>
                ELSE <<Component(ToSet(f.taken), Len(f.taken))>>)]
    BY <1>1, <1>2 DEF Scan
  <1>6. PICK n, c, v : n = Len(f.taken) /\ c = ToSet(f.taken) /\ v = f.visited
    OBVIOUS
  <1>7. n = Cardinality(class) /\ c = class /\ v = old \cup class
    BY <1>3, <1>4, <1>6
  <1>8. Scan(mask, min_pixel_area, p, r) =
          [visited |-> v,
           components |-> r.components \o
               (IF n < min_pixel_area THEN <<>> ELSE <<Component(c, n)>>)]
    BY <1>5, <1>6
  <1>9. Scan(mask, min_pixel_area, p, r) = Gained(min_pixel_area, class, r)
    BY <1>1, <1>7, <1>8 DEF Gained
  <1> QED BY <1>1, <1>3, <1>4, <1>9

\* A pixel of the scan starts the component that it belongs to, or none (lines 26-70
\* of geometry_analyzer.cpp).
LEMMA ScannedNext ==
  ASSUME NEW width \in Nat \ {0}, NEW height \in Nat \ {0},
         NEW mask, IsMask(mask), mask \subseteq Frame(width, height), NEW min_pixel_area \in Nat,
         NEW i \in Nat, i + 1 <= width * height,
         NEW r, Scanned(mask, width, min_pixel_area, i, r)
  PROVE  Scanned(mask, width, min_pixel_area, i + 1,
                 Scan(mask, min_pixel_area, Raster(i + 1, width), r))
  <1> DEFINE large == Large(mask, min_pixel_area)
  <1>1. PICK p : p = Raster(i + 1, width)
    OBVIOUS
  <1>2. PICK order : /\ Listed(mask, width, min_pixel_area, i, r.visited, order)
                     /\ r.components = Shown(order)
    BY DEF Scanned
  <1>3. PICK old : old = r.visited
    OBVIOUS
  <1>4. /\ old \in Closed(mask)
        /\ \A k \in 1..i : Raster(k, width) \in mask => Raster(k, width) \in old
        /\ Listed(mask, width, min_pixel_area, i, old, order)
    BY <1>2, <1>3 DEF Scanned
  <1>5. \A k \in 1..(i + 1) : k \in 1..i \/ k = i + 1
    OBVIOUS
  <1>6. 1..i \subseteq 1..(i + 1) /\ i + 1 \in 1..(i + 1)
    OBVIOUS
  <1>7. \A a \in 1..Len(order) : \E k \in 1..(i + 1) : Raster(k, width) \in order[a]
    BY <1>4, <1>6 DEF Listed
  <1>8. CASE p \notin mask \ old
    <2>1. Scan(mask, min_pixel_area, p, r) = r
      BY <1>3, <1>8 DEF Scan
    <2>2. \A k \in 1..(i + 1) : Raster(k, width) \in mask => Raster(k, width) \in old
      BY <1>1, <1>4, <1>5, <1>8
    <2>3. Listed(mask, width, min_pixel_area, i + 1, old, order)
      BY <1>4, <1>7 DEF Listed
    <2>4. Scanned(mask, width, min_pixel_area, i + 1, r)
      BY <1>2, <1>3, <1>4, <2>2, <2>3 DEF Scanned
    <2> QED BY <1>1, <2>1, <2>4
  <1>9. CASE p \in mask /\ p \notin old
    <2>1. PICK t : t = Scan(mask, min_pixel_area, p, r)
      OBVIOUS
    <2>2. PICK class \in Classes(mask) :
             /\ p \in class /\ class \cap old = {}
             /\ Cardinality(class) \in Nat
             /\ t = Gained(min_pixel_area, class, r)
      <3>1. r.visited \in Closed(mask) /\ p \notin r.visited
        BY <1>3, <1>4, <1>9
      <3>2. PICK class \in Classes(mask) :
               /\ p \in class /\ class \cap r.visited = {}
               /\ IsFiniteSet(class) /\ Cardinality(class) \in Nat
               /\ Scan(mask, min_pixel_area, p, r) = Gained(min_pixel_area, class, r)
        BY <1>9, <3>1, ScanTakes
      <3> QED BY <1>3, <2>1, <3>2
    <2>3. /\ t.visited = old \cup class
          /\ t.components = r.components \o
                (IF Cardinality(class) < min_pixel_area THEN <<>>
                 ELSE <<Component(class, Cardinality(class))>>)
      BY <1>3, <2>2 DEF Gained
    <2>4. t.visited \in Closed(mask)
      <3>1. class \in Closed(mask)
        BY DEF Classes
      <3> QED BY <1>4, <2>3, <3>1, ClosedJoin
    <2>5. \A k \in 1..(i + 1) : Raster(k, width) \in mask => Raster(k, width) \in t.visited
      BY <1>1, <1>4, <1>5, <2>2, <2>3
    <2>6. \A c \in Classes(mask) : c \cap t.visited # {} => c \cap old # {} \/ c = class
      <3> SUFFICES ASSUME NEW c \in Classes(mask), c \cap class # {} PROVE c = class
        BY <2>3
      <3>1. c \subseteq class
        BY ClassesApart DEF Classes
      <3>2. class \subseteq c
        BY ClassesApart DEF Classes
      <3> QED BY <3>1, <3>2
    <2>7. CASE Cardinality(class) < min_pixel_area
      <3>1. class \notin large
        BY <2>2, <2>7 DEF Large
      <3>2. \A c \in large : c \cap t.visited # {} => \E a \in 1..Len(order) : order[a] = c
        <4>1. \A c \in large : c \cap t.visited # {} => c \cap old # {}
          BY <2>6, <3>1 DEF Large
        <4> QED BY <1>4, <4>1 DEF Listed
      <3>3. Listed(mask, width, min_pixel_area, i + 1, t.visited, order)
        BY <1>4, <1>7, <3>2 DEF Listed
      <3>4. t.components = Shown(order)
        <4>1. PICK s : s = Shown(order)
          OBVIOUS
        <4>2. s \in Seq({Component(c, Cardinality(c)) : c \in large})
          <5> DEFINE Show(c) == Component(c, Cardinality(c))
                     T == {Show(c) : c \in large}
          <5>1. Len(order) \in Nat /\ \A a \in 1..Len(order) : order[a] \in large
            BY <1>4, LenProperties, ElementOfSeq DEF Listed
          <5>2. s = [a \in 1..Len(order) |-> Show(order[a])]
            BY <4>1 DEF Shown
          <5> HIDE DEF Show, large
          <5>3. s \in [1..Len(order) -> T]
            BY <5>1, <5>2
          <5>4. s \in Seq(T)
            <6> HIDE DEF T
            <6> QED BY <5>1, <5>3, SeqDef
          <5> QED BY <5>4 DEF Show
        <4>3. s \o <<>> = s
          BY <4>2, ConcatEmptySeq
        <4> QED BY <1>2, <2>3, <2>7, <4>1, <4>3
      <3>5. Scanned(mask, width, min_pixel_area, i + 1, t)
        BY <2>4, <2>5, <3>3, <3>4 DEF Scanned
      <3> QED BY <1>1, <2>1, <3>5
    <2>8. CASE ~(Cardinality(class) < min_pixel_area)
      <3> DEFINE n == Len(order)
                 new == Append(order, class)
      <3>1. class \in large
        BY <2>2, <2>8 DEF Large
      <3>2. order \in Seq(large)
        BY <1>4 DEF Listed
      <3> HIDE DEF large
      <3>3. /\ n \in Nat /\ new \in Seq(large) /\ Len(new) = n + 1
            /\ \A a \in 1..n : new[a] = order[a]
            /\ new[n + 1] = class
        BY <3>1, <3>2, AppendProperties, LenProperties
      <3>4. t.components = Shown(new)
        <4>1. Shown(new) = Shown(order) \o <<Component(class, Cardinality(class))>>
          BY <3>1, <3>2, ShownAppend
        <4>2. t.components = Shown(order) \o <<Component(class, Cardinality(class))>>
          BY <1>2, <2>3, <2>8
        <4> QED BY <4>1, <4>2
      <3> HIDE DEF new, n
      <3>5. \A a \in 1..(n + 1) : a \in 1..n \/ a = n + 1
        BY <3>3
      <3>6. \A a \in 1..n : a \in 1..(n + 1)
        BY <3>3
      <3>7. ASSUME NEW c \in large, c \cap t.visited # {} PROVE \E a \in 1..Len(new) : new[a] = c
        <4>1. CASE c = class
          <5>1. n + 1 \in 1..Len(new)
            BY <3>3
          <5> QED BY <3>3, <4>1, <5>1
        <4>2. CASE c \cap old # {}
          <5>1. PICK a \in 1..n : order[a] = c
            BY <1>4, <4>2 DEF Listed, large, n
          <5>2. a \in 1..Len(new) /\ new[a] = c
            BY <3>3, <3>6, <5>1
          <5> QED BY <5>2
        <4> QED BY <2>6, <3>7, <4>1, <4>2 DEF large, Large
      <3>8. ASSUME NEW a \in 1..Len(new)
            PROVE  \E k \in 1..(i + 1) : Raster(k, width) \in new[a]
        <4>1. CASE a \in 1..n
          BY <1>7, <3>3, <4>1 DEF n
        <4>2. CASE a = n + 1
          BY <1>1, <1>6, <2>2, <3>3, <4>2
        <4> QED BY <3>3, <3>5, <4>1, <4>2
      <3>9. ASSUME NEW a \in 1..n, NEW q \in class, NEW k \in 1..i PROVE Before(Raster(k, width), q)
        <4>1. q \in mask /\ q \notin old
          BY <2>2 DEF Classes, Closed
        <4>2. PICK m \in 1..(width * height) : Raster(m, width) = q
          BY <4>1, RasterMeets
        <4>3. m \notin 1..i
          BY <1>4, <4>1, <4>2
        <4>4. k \in Nat \ {0} /\ m \in Nat \ {0} /\ k < m
          BY <4>3
        <4> QED BY <4>2, <4>4, RasterBefore
      <3>10. Ordered(new)
        <4> SUFFICES ASSUME NEW a \in 1..Len(new), NEW b \in 1..Len(new), a < b
                     PROVE  \E x \in new[a] : \A q \in new[b] : Before(x, q)
          BY DEF Ordered
        <4>1. a \in 1..n
          BY <3>3
        <4>2. CASE b \in 1..n
          <5>1. \E x \in order[a] : \A q \in order[b] : Before(x, q)
            BY <1>4, <4>1, <4>2 DEF Listed, Ordered, n
          <5> QED BY <3>3, <4>1, <4>2, <5>1
        <4>3. CASE b = n + 1
          <5>1. PICK k \in 1..i : Raster(k, width) \in order[a]
            BY <1>4, <4>1 DEF Listed, n
          <5>2. \A q \in class : Before(Raster(k, width), q)
            BY <3>9, <4>1
          <5> QED BY <3>3, <4>1, <4>3, <5>1, <5>2
        <4> QED BY <3>3, <3>5, <4>2, <4>3
      <3>11. Listed(mask, width, min_pixel_area, i + 1, t.visited, new)
        BY <3>3, <3>7, <3>8, <3>10 DEF Listed, large
      <3>12. Scanned(mask, width, min_pixel_area, i + 1, t)
        BY <2>4, <2>5, <3>4, <3>11 DEF Scanned
      <3> QED BY <1>1, <2>1, <3>12
    <2> QED BY <2>7, <2>8
  <1> QED BY <1>8, <1>9

\* The states of the scan.
Scans(mask) ==
    [visited : Closed(mask), components : Seq({Component(c, Cardinality(c)) : c \in SUBSET mask})]

\* A pixel of the scan keeps the types.
LEMMA ScanStays ==
  ASSUME NEW mask, IsMask(mask), NEW min_pixel_area, NEW p, NEW r \in Scans(mask)
  PROVE  Scan(mask, min_pixel_area, p, r) \in Scans(mask)
  <1> DEFINE Show(c) == Component(c, Cardinality(c))
             T == {Show(c) : c \in SUBSET mask}
  <1>1. r.visited \in Closed(mask) /\ r.components \in Seq(T)
    BY DEF Scans
  <1>2. CASE p \notin mask \ r.visited
    BY <1>2 DEF Scan
  <1>3. CASE p \in mask \ r.visited
    <2>1. PICK class \in Classes(mask) :
             Scan(mask, min_pixel_area, p, r) = Gained(min_pixel_area, class, r)
      <3>1. p \in mask /\ p \notin r.visited
        BY <1>3
      <3> HIDE DEF T
      <3> QED BY <1>1, <3>1, ScanTakes
    <2>2. class \in Closed(mask)
      BY DEF Classes
    <2>3. r.visited \cup class \in Closed(mask)
      BY <1>1, <2>2, ClosedJoin
    <2>4. Show(class) \in T
      BY <2>2 DEF Closed
    <2> HIDE DEF T, Show
    <2>5. <<>> \in Seq(T) /\ <<Show(class)>> \in Seq(T)
      BY <2>4
    <2>6. PICK s \in Seq(T) :
             s = IF Cardinality(class) < min_pixel_area THEN <<>> ELSE <<Show(class)>>
      BY <2>5
    <2>7. r.components \o s \in Seq(T)
      BY <1>1, ConcatProperties
    <2>8. [visited |-> r.visited \cup class, components |-> r.components \o s] \in Scans(mask)
      BY <2>3, <2>7 DEF Scans, T, Show
    <2> QED BY <2>1, <2>6, <2>8 DEF Gained, Show
  <1> QED BY <1>2, <1>3

\* The beginning of the scan.
Unscanned == [visited |-> {}, components |-> <<>>]

\* At the beginning nothing is marked and no class is met.
LEMMA NothingScanned ==
  ASSUME NEW mask, IsMask(mask), NEW width, NEW min_pixel_area
  PROVE  Unscanned \in Scans(mask) /\ Scanned(mask, width, min_pixel_area, 0, Unscanned)
  <1>1. {} \in Closed(mask)
    BY DEF Closed
  <1>2. Unscanned \in Scans(mask)
    <2>1. PICK T : T = {Component(c, Cardinality(c)) : c \in SUBSET mask}
      OBVIOUS
    <2>2. Unscanned \in [visited : Closed(mask), components : Seq(T)]
      BY <1>1 DEF Unscanned
    <2> QED BY <2>1, <2>2 DEF Scans
  <1>3. Shown(<<>>) = <<>>
    <2>1. PICK s : s = Shown(<<>>)
      OBVIOUS
    <2>2. Len(<<>>) = 0 /\ 1..0 = {}
      OBVIOUS
    <2>3. s \in [1..0 -> {}]
      BY <2>1, <2>2 DEF Shown
    <2>4. s \in Seq({}) /\ Len(s) = 0
      BY <2>3, SeqDef
    <2>5. s = <<>>
      BY <2>4, EmptySeq
    <2> QED BY <2>1, <2>5
  <1>4. Listed(mask, width, min_pixel_area, 0, {}, <<>>)
    <2>1. <<>> \in Seq(Large(mask, min_pixel_area)) /\ Len(<<>>) = 0
      BY EmptySeq
    <2> QED BY <2>1 DEF Listed, Ordered
  <1>5. Unscanned.visited = {} /\ Unscanned.components = <<>>
    BY DEF Unscanned
  <1>6. Scanned(mask, width, min_pixel_area, 0, Unscanned)
    BY <1>1, <1>3, <1>4, <1>5 DEF Scanned
  <1> QED BY <1>2, <1>6

\* The whole scan is made.
LEMMA FindScanned ==
  ASSUME NEW width \in Nat \ {0}, NEW height \in Nat \ {0},
         NEW mask, IsMask(mask), mask \subseteq Frame(width, height), NEW min_pixel_area \in Nat
  PROVE  \E r : /\ Scanned(mask, width, min_pixel_area, width * height, r)
                /\ FindComponents(mask, width, height, min_pixel_area) = r.components
  <1> DEFINE S == Scans(mask)
             n == width * height
             turned(r, i) == Scan(mask, min_pixel_area, Raster(i, width), r)
             step == [x \in S \X Nat |-> turned(x[1], x[2])]
  <1>1. n \in Nat
    OBVIOUS
  <1>2. Unscanned \in S
    BY NothingScanned
  <1>3. ASSUME NEW r \in S, NEW i \in Nat PROVE turned(r, i) \in S
    BY ScanStays
  <1> HIDE DEF turned, S, n
  <1>4. Recursion(S, Unscanned, step)
    <2>1. step \in [S \X Nat -> S]
      BY <1>3
    <2> QED BY <1>2, <2>1 DEF Recursion
  <1>5. PICK g : Result(S, Unscanned, step, n, g)
    BY <1>1, <1>4, RecursionIs
  <1>6. g \in [0..n -> S] /\ g[0] = Unscanned /\ \A i \in 1..n : g[i] = turned(g[i - 1], i)
    <2>1. g \in [0..n -> S] /\ g[0] = Unscanned /\ \A i \in 1..n : g[i] = step[<<g[i - 1], i>>]
      BY <1>5 DEF Result
    <2>2. ASSUME NEW i \in 1..n PROVE g[i] = turned(g[i - 1], i)
      <3>1. g[i - 1] \in S /\ i \in Nat
        BY <1>1, <2>1
      <3>2. g[i] = step[<<g[i - 1], i>>]
        <4> HIDE DEF step
        <4> QED BY <2>1
      <3> QED BY <3>1, <3>2
    <2> QED BY <2>1, <2>2
  <1> HIDE DEF step
  <1> DEFINE scanned == CHOOSE f :
                f = [i \in 0..n |-> IF i = 0 THEN Unscanned ELSE turned(f[i - 1], i)]
  <1>7. g = [i \in 0..n |-> IF i = 0 THEN Unscanned ELSE turned(g[i - 1], i)]
    <2>1. \A i \in 0..n : i = 0 \/ i \in 1..n
      BY <1>1
    <2> QED BY <1>6, <2>1
  <1>8. scanned = [i \in 0..n |-> IF i = 0 THEN Unscanned ELSE turned(scanned[i - 1], i)]
    BY <1>7, Zenon
  <1>9. FindComponents(mask, width, height, min_pixel_area) = scanned[n].components
    BY DEF FindComponents, turned, n, Unscanned
  <1> HIDE DEF scanned
  <1>10. \A i \in 0..n : scanned[i] = IF i = 0 THEN Unscanned ELSE turned(scanned[i - 1], i)
    BY <1>8, Zenon
  <1> DEFINE Is(i) == Scanned(mask, width, min_pixel_area, i, scanned[i])
             T == {i \in Nat : i <= n => Is(i)}
  <1>11. 0 \in T
    <2>1. scanned[0] = Unscanned
      BY <1>1, <1>10
    <2>2. Is(0)
      BY <2>1, NothingScanned
    <2> QED BY <2>2
  <1>12. ASSUME NEW i \in Nat, i \in T PROVE i + 1 \in T
    <2> SUFFICES ASSUME i + 1 <= n PROVE Is(i + 1)
      OBVIOUS
    <2>1. i + 1 \in 0..n /\ i + 1 # 0 /\ (i + 1) - 1 = i /\ i <= n
      BY <1>1
    <2>2. Scanned(mask, width, min_pixel_area, i, scanned[i])
      BY <1>12, <2>1
    <2>3. scanned[i + 1] = turned(scanned[i], i + 1)
      BY <1>10, <2>1
    <2>4. Scanned(mask, width, min_pixel_area, i + 1, turned(scanned[i], i + 1))
      BY <2>2, ScannedNext DEF turned, n
    <2> QED BY <2>3, <2>4
  <1> HIDE DEF T, Is
  <1>13. n \in T
    BY <1>1, <1>11, <1>12, Induct
  <1>14. Is(n)
    BY <1>1, <1>13 DEF T
  <1> QED BY <1>9, <1>14 DEF n, Is

\* The scan lists the large classes, each once, as it meets them.
LEMMA FindIs ==
  ASSUME NEW width \in Nat \ {0}, NEW height \in Nat \ {0},
         NEW mask, IsMask(mask), mask \subseteq Frame(width, height), NEW min_pixel_area \in Nat
  PROVE  \E order : /\ Enumerates(order, Large(mask, min_pixel_area)) /\ Ordered(order)
                    /\ FindComponents(mask, width, height, min_pixel_area) = Shown(order)
  <1> DEFINE n == width * height
             large == Large(mask, min_pixel_area)
  <1>1. PICK r : /\ Scanned(mask, width, min_pixel_area, n, r)
                 /\ FindComponents(mask, width, height, min_pixel_area) = r.components
    BY FindScanned
  <1>2. PICK order : /\ Listed(mask, width, min_pixel_area, n, r.visited, order)
                     /\ r.components = Shown(order)
    BY <1>1 DEF Scanned
  <1>3. mask \subseteq r.visited
    <2> SUFFICES ASSUME NEW q \in mask PROVE q \in r.visited
      OBVIOUS
    <2>1. PICK k \in 1..n : Raster(k, width) = q
      BY RasterMeets
    <2> QED BY <1>1, <2>1 DEF Scanned
  <1>4. \A c \in large : c # {} /\ c \subseteq mask
    BY DEF Large, Classes, Closed
  <1> HIDE DEF large, n
  <1>5. order \in Seq(large) /\ Len(order) \in Nat
    BY <1>2, LenProperties DEF Listed, large
  <1>6. ASSUME NEW c \in large PROVE \E a \in 1..Len(order) : order[a] = c
    <2>1. c \cap r.visited # {}
      BY <1>3, <1>4
    <2> QED BY <1>2, <2>1 DEF Listed, large
  <1>7. Ordered(order)
    BY <1>2 DEF Listed
  <1>8. ASSUME NEW i \in 1..Len(order), NEW j \in 1..Len(order), i < j PROVE order[i] # order[j]
    <2>1. PICK p \in order[i] : \A q \in order[j] : Before(p, q)
      BY <1>7, <1>8 DEF Ordered
    <2>2. order[i] \in large
      BY <1>5, ElementOfSeq
    <2>3. p \in Int \X Int
      BY <1>4, <2>2 DEF IsMask
    <2>4. PICK x, y \in Int : p = <<x, y>>
      BY <2>3
    <2>5. ~Before(p, p)
      BY <2>4 DEF Before
    <2> QED BY <2>1, <2>5
  <1>9. \A i, j \in 1..Len(order) : order[i] = order[j] => i = j
    <2> SUFFICES ASSUME NEW i \in 1..Len(order), NEW j \in 1..Len(order), i # j
                 PROVE  order[i] # order[j]
      OBVIOUS
    <2>1. i < j \/ j < i
      BY <1>5
    <2> QED BY <1>8, <2>1
  <1>10. Enumerates(order, large)
    BY <1>5, <1>6, <1>9 DEF Enumerates
  <1> QED BY <1>1, <1>2, <1>7, <1>10 DEF large

\* A list of the kept classes in order is what the components are to be.
LEMMA AreComponentsIs ==
  ASSUME NEW mask, NEW min_pixel_area, NEW order,
         Enumerates(order, Large(mask, min_pixel_area)), Ordered(order)
  PROVE  AreComponents(Shown(order), mask, min_pixel_area)
  <1> DEFINE large == Large(mask, min_pixel_area)
             n == Cardinality(large)
  <1>1. Len(order) = n /\ order \in Seq(large)
    BY EnumeratesCount DEF Enumerates
  <1> HIDE DEF large
  <1>2. order \in [1..n -> large] /\ DOMAIN order = 1..n
    BY <1>1, LenProperties
  <1>3. \A i, j \in DOMAIN order : i < j => \E p \in order[i] : \A q \in order[j] : Before(p, q)
    BY <1>1, <1>2 DEF Ordered
  <1>4. Shown(order) = [i \in DOMAIN order |-> Component(order[i], Cardinality(order[i]))]
    BY <1>1, <1>2 DEF Shown
  <1>5. AreComponents(Shown(order), mask, min_pixel_area) <=>
          \E o \in [1..n -> large] :
             /\ \A i, j \in DOMAIN o : i < j => \E p \in o[i] : \A q \in o[j] : Before(p, q)
             /\ Shown(order) = [i \in DOMAIN o |-> Component(o[i], Cardinality(o[i]))]
    BY DEF AreComponents, large, Large
  <1> QED BY <1>2, <1>3, <1>4, <1>5

-----------------------------------------------------------------------------
(***************************************************************************)
(* The exposure.                                                           *)
(***************************************************************************)
\* The pixels of each component.
Counted(found, n, counts) ==
    \A i \in 1..n : counts[i] \in Nat /\ found[i].pixel_count = counts[i]

\* Sums of some of a sequence of numbers.
Sums(sum, n, counts) ==
    /\ sum[0] = 0 /\ \A i \in 0..n : sum[i] \in Nat
    /\ \A i \in 1..n : sum[i] <= sum[i - 1] + counts[i]

\* A sum over the components of a sequence that count.
LEMMA ExposedIs ==
  ASSUME NEW found, NEW n \in Nat, Len(found) = n, NEW total, NEW counts,
         Counted(found, n, counts)
  PROVE  \E sum : Sums(sum, n, counts) /\ Exposed(found, total) = sum[n]
  <1> DEFINE turned(r, i) == r + (IF found[i].pixel_count > total \div 100
                                  THEN found[i].pixel_count ELSE 0)
             step == [x \in Nat \X Nat |-> IF x[2] \in 1..n THEN turned(x[1], x[2]) ELSE x[1]]
  <1>1. ASSUME NEW r \in Nat, NEW i \in 1..n
        PROVE  turned(r, i) \in Nat /\ turned(r, i) <= r + counts[i]
    BY DEF Counted
  <1>2. \A r \in Nat, i \in 1..n : turned(r, i) \in Nat
    <2> HIDE DEF turned
    <2> QED BY <1>1
  <1> HIDE DEF turned
  <1>3. Recursion(Nat, 0, step)
    <2>1. step \in [Nat \X Nat -> Nat]
      BY <1>2
    <2> QED BY <2>1 DEF Recursion
  <1>4. PICK g : Result(Nat, 0, step, n, g)
    BY <1>3, RecursionIs
  <1>5. g \in [0..n -> Nat] /\ g[0] = 0 /\ \A i \in 1..n : g[i] = turned(g[i - 1], i)
    <2>1. g \in [0..n -> Nat] /\ g[0] = 0 /\ \A i \in 1..n : g[i] = step[<<g[i - 1], i>>]
      BY <1>4 DEF Result
    <2>2. ASSUME NEW i \in 1..n PROVE g[i] = turned(g[i - 1], i)
      <3>1. g[i - 1] \in Nat /\ i \in Nat
        BY <2>1
      <3>2. g[i] = step[<<g[i - 1], i>>]
        <4> HIDE DEF step
        <4> QED BY <2>1
      <3> QED BY <3>1, <3>2
    <2> QED BY <2>1, <2>2
  <1> HIDE DEF step
  <1> DEFINE sum == CHOOSE f : f = [i \in 0..n |-> IF i = 0 THEN 0 ELSE turned(f[i - 1], i)]
  <1>6. g = [i \in 0..n |-> IF i = 0 THEN 0 ELSE turned(g[i - 1], i)]
    <2>1. \A i \in 0..n : i = 0 \/ i \in 1..n
      OBVIOUS
    <2> QED BY <1>5, <2>1
  <1>7. sum = [i \in 0..n |-> IF i = 0 THEN 0 ELSE turned(sum[i - 1], i)]
    BY <1>6, Zenon
  <1>8. Exposed(found, total) = sum[n]
    BY DEF Exposed, turned
  <1> HIDE DEF sum
  <1>9. \A i \in 0..n : sum[i] = IF i = 0 THEN 0 ELSE turned(sum[i - 1], i)
    BY <1>7, Zenon
  <1>10. sum[0] = 0
    BY <1>9
  <1>11. \A i \in 0..n : sum[i] \in Nat
    <2> DEFINE T == {k \in Nat : k <= n => sum[k] \in Nat}
    <2>1. 0 \in T
      BY <1>10
    <2>2. ASSUME NEW k \in Nat, k \in T PROVE k + 1 \in T
      <3> SUFFICES ASSUME k + 1 <= n PROVE sum[k + 1] \in Nat
        OBVIOUS
      <3>1. k + 1 \in 0..n /\ k + 1 \in 1..n /\ k + 1 # 0 /\ (k + 1) - 1 = k /\ sum[k] \in Nat
        BY <2>2
      <3>2. sum[k + 1] = turned(sum[k], k + 1)
        BY <1>9, <3>1
      <3> QED BY <1>1, <3>1, <3>2
    <2> HIDE DEF T
    <2>3. \A i \in 0..n : i \in T
      BY <2>1, <2>2, Induct
    <2> QED BY <2>3 DEF T
  <1>12. ASSUME NEW i \in 1..n PROVE sum[i] <= sum[i - 1] + counts[i]
    <2>1. i \in 0..n /\ i # 0 /\ sum[i - 1] \in Nat
      BY <1>11
    <2> QED BY <1>1, <1>9, <2>1
  <1> QED BY <1>8, <1>10, <1>11, <1>12 DEF Sums

\* Components have no pixel in common, so that the exposure is at most their mask
\* (lines 78-93 of geometry_analyzer.cpp).
LEMMA ExposureIs ==
  ASSUME NEW mask, IsMask(mask), NEW min_pixel_area, NEW total,
         NEW order, Enumerates(order, Large(mask, min_pixel_area))
  PROVE  Exposed(Shown(order), total) <= Cardinality(mask)
  <1> DEFINE n == Len(order)
             large == Large(mask, min_pixel_area)
             counts == [i \in 1..n |-> Cardinality(order[i])]
             Covered(i) == {q \in mask : \E a \in 1..i : q \in order[a]}
  <1>1. n \in Nat /\ order \in Seq(large)
    BY EnumeratesCount DEF Enumerates
  <1>2. ASSUME NEW c \in Classes(mask)
        PROVE  c \subseteq mask /\ IsFiniteSet(c) /\ Cardinality(c) \in Nat
    <2>1. c \subseteq mask
      BY DEF Classes, Closed
    <2>2. IsFiniteSet(c)
      BY <2>1, FS_Subset DEF IsMask
    <2> QED BY <2>1, <2>2, FS_CardinalityType
  <1>3. large \subseteq Classes(mask)
    BY DEF Large
  <1> HIDE DEF large
  <1>4. \A i \in 1..n : order[i] \in Classes(mask)
    BY <1>1, <1>3, ElementOfSeq
  <1>5. Len(Shown(order)) = n /\ \A i \in 1..n : Shown(order)[i].pixel_count = counts[i]
    <2>1. PICK s : s = Shown(order)
      OBVIOUS
    <2> DEFINE Show(c) == Component(c, Cardinality(c))
               T == {Show(order[i]) : i \in 1..n}
    <2>2. s = [i \in 1..n |-> Show(order[i])]
      BY <2>1 DEF Shown
    <2>3. \A c : Show(c).pixel_count = Cardinality(c)
      BY DEF Component
    <2> HIDE DEF Show
    <2>4. s \in [1..n -> T]
      BY <2>2
    <2> HIDE DEF T, n
    <2>5. s \in Seq(T) /\ Len(s) = n
      BY <1>1, <2>4, SeqDef
    <2> QED BY <2>1, <2>2, <2>3, <2>5 DEF n
  <1>6. \A i \in 1..n : counts[i] = Cardinality(order[i]) /\ counts[i] \in Nat
    BY <1>2, <1>4
  <1> HIDE DEF n, counts
  <1>7. PICK sum : Sums(sum, n, counts) /\ Exposed(Shown(order), total) = sum[n]
    <2>1. PICK s : s = Shown(order)
      OBVIOUS
    <2>2. Len(s) = n
      BY <1>5, <2>1
    <2>3. Counted(s, n, counts)
      BY <1>5, <1>6, <2>1 DEF Counted
    <2>4. \E sum : Sums(sum, n, counts) /\ Exposed(s, total) = sum[n]
      BY <1>1, <2>2, <2>3, ExposedIs
    <2> QED BY <2>1, <2>4
  <1>8. \A i : Covered(i) \subseteq mask /\ IsFiniteSet(Covered(i))
               /\ Cardinality(Covered(i)) \in Nat /\ Cardinality(Covered(i)) <= Cardinality(mask)
    <2> SUFFICES ASSUME NEW i
                 PROVE  /\ Covered(i) \subseteq mask /\ IsFiniteSet(Covered(i))
                        /\ Cardinality(Covered(i)) \in Nat
                        /\ Cardinality(Covered(i)) <= Cardinality(mask)
      OBVIOUS
    <2>1. Covered(i) \in SUBSET mask
      OBVIOUS
    <2> HIDE DEF Covered
    <2> QED BY <2>1, FS_Subset, FS_CardinalityType DEF IsMask
  <1>9. ASSUME NEW i \in Nat, NEW j \in Nat, j = i + 1, j <= n
        PROVE  Covered(j) = Covered(i) \cup order[j] /\ Covered(i) \cap order[j] = {}
    <2>1. j \in 1..n /\ \A a \in 1..j : a \in 1..i \/ a = j
      BY <1>1, <1>9
    <2>2. order[j] \subseteq mask
      BY <1>2, <1>4, <2>1
    <2>3. ASSUME NEW a \in 1..i, order[a] \cap order[j] # {} PROVE FALSE
      <3>1. a \in 1..n /\ a # j
        BY <1>1, <1>9
      <3>2. order[a] \in Classes(mask) /\ order[j] \in Classes(mask)
        BY <1>4, <2>1, <3>1
      <3>3. order[a] \in Closed(mask) /\ order[j] \in Closed(mask)
        BY <3>2 DEF Classes
      <3>4. order[a] \subseteq order[j] /\ order[j] \subseteq order[a]
        BY <2>3, <3>2, <3>3, ClassesApart
      <3>5. order[a] = order[j]
        BY <3>4
      <3> QED BY <2>1, <3>1, <3>5 DEF Enumerates, n
    <2>4. \A a \in 1..i : a \in 1..j
      BY <1>9
    <2>5. j \in 1..j
      BY <2>1
    <2> QED BY <2>1, <2>2, <2>3, <2>4, <2>5
  <1> DEFINE T == {i \in Nat : i <= n => sum[i] <= Cardinality(Covered(i))}
  <1>10. 0 \in T
    <2>1. Covered(0) = {}
      OBVIOUS
    <2> HIDE DEF Covered
    <2>2. Cardinality(Covered(0)) = 0 /\ sum[0] = 0
      BY <1>7, <2>1, FS_EmptySet DEF Sums
    <2> QED BY <2>2
  <1>11. ASSUME NEW i \in Nat, i \in T PROVE i + 1 \in T
    <2>1. PICK j \in Nat : j = i + 1
      OBVIOUS
    <2> SUFFICES ASSUME j <= n PROVE sum[j] <= Cardinality(Covered(j))
      BY <2>1
    <2>2. j \in 1..n /\ i \in 0..n /\ j \in 0..n /\ j - 1 = i /\ i <= n
      BY <1>1, <2>1
    <2>3. sum[i] <= Cardinality(Covered(i))
      BY <1>11, <2>2
    <2>4. PICK c, u : c = order[j] /\ u = Covered(i)
      OBVIOUS
    <2>5. Covered(j) = u \cup c /\ u \cap c = {}
      <3> HIDE DEF Covered
      <3> QED BY <1>9, <2>1, <2>4
    <2>6. IsFiniteSet(u) /\ IsFiniteSet(c)
      <3>1. IsFiniteSet(order[j])
        BY <1>2, <1>4, <2>2
      <3> HIDE DEF Covered
      <3> QED BY <1>8, <2>4, <3>1
    <2>7. Cardinality(u) \in Nat /\ Cardinality(c) \in Nat
      BY <2>6, FS_CardinalityType
    <2>8. Cardinality(u \cup c) = Cardinality(u) + Cardinality(c)
      <3>1. Cardinality(u \cup c) = Cardinality(u) + Cardinality(c) - Cardinality(u \cap c)
        BY <2>6, FS_Union
      <3>2. Cardinality(u \cap c) = 0
        BY <2>5, FS_EmptySet
      <3> QED BY <2>7, <3>1, <3>2
    <2>9. /\ sum[i] \in Nat /\ sum[j] \in Nat
          /\ sum[j] <= sum[i] + counts[j] /\ counts[j] = Cardinality(c)
      BY <1>6, <1>7, <2>2, <2>4 DEF Sums
    <2> HIDE DEF Covered
    <2>10. sum[i] <= Cardinality(u) /\ Cardinality(Covered(j)) = Cardinality(u) + Cardinality(c)
      BY <2>3, <2>4, <2>5, <2>8
    <2> QED BY <2>7, <2>9, <2>10
  <1> HIDE DEF T
  <1>12. n \in T
    BY <1>1, <1>10, <1>11, Induct
  <1>13. sum[n] <= Cardinality(Covered(n)) /\ sum[n] \in Nat
    BY <1>1, <1>7, <1>12 DEF T, Sums
  <1>14. Cardinality(mask) \in Nat
    BY FS_CardinalityType DEF IsMask
  <1> HIDE DEF Covered
  <1> QED BY <1>7, <1>8, <1>13, <1>14

-----------------------------------------------------------------------------
(***************************************************************************)
(* The components that the geometry analyser found.                        *)
(***************************************************************************)
\* What lies in a frame is finite.
LEMMA FrameFinite ==
  ASSUME NEW width \in Nat \ {0}, NEW height \in Nat \ {0}, NEW mask \in SUBSET Frame(width, height)
  PROVE  IsMask(mask)
  <1>1. IsFiniteSet(0..(width - 1)) /\ IsFiniteSet(0..(height - 1))
    BY FS_Interval
  <1>2. IsFiniteSet(Frame(width, height))
    BY <1>1, FS_Product DEF Frame
  <1>3. IsFiniteSet(mask)
    BY <1>2, FS_Subset
  <1> QED BY <1>3 DEF IsMask, Frame

\* At the start nothing is analysed.
LEMMA ComponentsInit == Init => ComponentsExact
  BY DEF Init, ComponentsExact

\* What the analyser returns (lines 7-76 of geometry_analyzer.cpp).
LEMMA ComponentsFound ==
  ASSUME NEW mask \in Masks, find_connected_components(mask)
  PROVE  ComponentsExact'
  <1> DEFINE skin == SkinMask(mask.skin, mask.channels)
             least == mask.min_pixel_area
  <1>1. /\ mask.kind = "mask" /\ mask.channels \in Nat /\ least \in Nat
        /\ mask.skin \subseteq Frame(Width, Height)
        /\ Width \in Nat \ {0} /\ Height \in Nat \ {0}
    BY ShieldAssumption DEF Frame
  <1>2. input' = mask /\ components' = FindComponents(skin, Width, Height, least)
    BY DEF find_connected_components, Start
  <1>3. skin \in SUBSET Frame(Width, Height)
    BY <1>1 DEF SkinMask
  <1>4. Cardinality(skin) = SkinCount(mask.skin, mask.channels)
    BY FS_EmptySet DEF SkinMask, SkinCount
  <1> HIDE DEF skin, least
  <1>5. IsMask(skin)
    BY <1>1, <1>3, FrameFinite
  <1>6. PICK order : /\ Enumerates(order, Large(skin, least)) /\ Ordered(order)
                     /\ FindComponents(skin, Width, Height, least) = Shown(order)
    BY <1>1, <1>3, <1>5, FindIs
  <1>7. AreComponents(Shown(order), skin, least)
    BY <1>6, AreComponentsIs
  <1>8. Exposed(Shown(order), Width * Height) <= Cardinality(skin)
    BY <1>5, <1>6, ExposureIs
  <1>9. components' = Shown(order)
    BY <1>2, <1>6
  <1>10. ComponentsExact' <=>
           (pc' = "done" /\ mask.kind = "mask" =>
              /\ AreComponents(Shown(order), skin, least)
              /\ Exposed(Shown(order), Width * Height) <= SkinCount(mask.skin, mask.channels))
    BY <1>2, <1>9 DEF ComponentsExact, skin, least
  <1> QED BY <1>4, <1>7, <1>8, <1>10

\* Nothing else gives the analyser's result but leaves it.
LEMMA ComponentsStay ==
  ASSUME pc' = "done" /\ input'.kind = "mask" =>
            pc = "done" /\ UNCHANGED <<input, components>>,
         ComponentsExact
  PROVE  ComponentsExact'
  BY DEF ComponentsExact

\* The result of the analyser stays as it is until the caller is done with it.
LEMMA ComponentsNext ==
  ASSUME Inv, ComponentsExact, [Next]_vars
  PROVE  ComponentsExact'
  <1>1. ASSUME UNCHANGED workVars PROVE ComponentsExact'
    <2>1. UNCHANGED <<pc, input, components>>
      BY <1>1 DEF workVars
    <2> QED BY <2>1, ComponentsStay
  <1>2. ASSUME input'.kind # "mask" \/ pc' # "done" PROVE ComponentsExact'
    BY <1>2, ComponentsStay
  <1>3. CASE \/ \E word \in Keywords : add_keyword(word)
             \/ \E words \in Lists : add_keywords(words) \/ load_profanity_dictionary(words)
    <2>1. ASSUME NEW calls, Change(calls) PROVE UNCHANGED workVars
      BY <2>1 DEF Change
    <2>2. UNCHANGED workVars
      BY <1>3, <2>1 DEF add_keyword, add_keywords, load_profanity_dictionary
    <2> QED BY <1>1, <2>2
  <1>4. CASE ChangeStep
    BY <1>1, <1>4 DEF ChangeStep
  <1>5. CASE \E f \in ModelFiles : load_model(f)
    BY <1>1, <1>5 DEF load_model
  <1>6. CASE \E p \in {"STRICT", "MODERATE"} : set_preset(p)
    BY <1>1, <1>6 DEF set_preset
  <1>7. ASSUME NEW text \in Texts, analyze_text(text) PROVE ComponentsExact'
    <2>1. PICK what : what = [kind |-> "text", text |-> text]
      OBVIOUS
    <2>2. what.kind = "text"
      BY <2>1
    <2>3. input' = what
      BY <1>7, <2>1 DEF analyze_text, Start
    <2> QED BY <1>2, <2>2, <2>3
  <1>8. CASE SearchWhole \/ SearchToken \/ Judge
    <2>1. pc \in {"whole", "tokens", "sam"} /\ input' = input
      BY <1>8 DEF SearchWhole, SearchToken, Judge, Search, Goto
    <2>2. input.kind = "text"
      BY <2>1 DEF Inv, InvInput, Searching
    <2> QED BY <1>2, <2>1, <2>2
  <1>9. ASSUME NEW image \in Images, analyze_image_buffer(image) PROVE ComponentsExact'
    <2>1. image.kind = "image"
      BY ShieldAssumption
    <2>2. input' = image
      BY <1>9 DEF analyze_image_buffer, Start
    <2> QED BY <1>2, <2>1, <2>2
  <1>10. ASSUME NEW pcm \in Recordings, analyze_audio_buffer(pcm) PROVE ComponentsExact'
    <2>1. pcm.kind = "audio"
      BY ShieldAssumption
    <2>2. input' = pcm
      <3>1. \A at, answer : Start(pcm, at, answer) => input' = pcm
        BY DEF Start
      <3> QED BY <1>10, <3>1 DEF analyze_audio_buffer
    <2> QED BY <1>2, <2>1, <2>2
  <1>11. CASE \E mask \in Masks : find_connected_components(mask)
    BY <1>11, ComponentsFound
  <1>12. CASE Return
    BY <1>2, <1>12 DEF Return
  <1>13. CASE UNCHANGED vars
    BY <1>1, <1>13 DEF vars
  <1> QED BY <1>3, <1>4, <1>5, <1>6, <1>7, <1>8, <1>9, <1>10, <1>11, <1>12, <1>13 DEF Next

-----------------------------------------------------------------------------
(***************************************************************************)
(* The theorems.                                                           *)
(***************************************************************************)
LEMMA InvHolds == Spec => []Inv
  <1>1. Inv /\ [Next]_vars => Inv'
    <2> SUFFICES ASSUME Inv, [Next]_vars PROVE Inv'
      OBVIOUS
    <2>1. CASE \/ \E word \in Keywords : add_keyword(word)
               \/ \E words \in Lists : add_keywords(words) \/ load_profanity_dictionary(words)
      BY <2>1, InvDictionary
    <2>2. CASE ChangeStep
      BY <2>2, InvChangeStep
    <2>3. CASE \E f \in ModelFiles : load_model(f)
      BY <2>3, InvLoad
    <2>4. ASSUME NEW p \in {"STRICT", "MODERATE"}, set_preset(p) PROVE Inv'
      <3>1. changes \in Seq(MatcherCalls)
        BY DEF Inv, InvTypes
      <3> QED BY <2>4, <3>1, InvSame DEF set_preset, ruleVars, workVars
    <2>5. CASE \E text \in Texts : analyze_text(text)
      BY <2>5, InvText
    <2>6. CASE SearchWhole \/ SearchToken \/ Judge
      BY <2>6, InvWhole, InvToken, InvJudge
    <2>7. CASE \E image \in Images : analyze_image_buffer(image)
      BY <2>7, InvImage
    <2>8. CASE \E pcm \in Recordings : analyze_audio_buffer(pcm)
      BY <2>8, InvAudio
    <2>9. CASE \E mask \in Masks : find_connected_components(mask)
      BY <2>9, InvMask
    <2>10. CASE Return
      BY <2>10, InvReturn
    <2>11. CASE UNCHANGED vars
      <3>1. changes \in Seq(MatcherCalls)
        BY DEF Inv, InvTypes
      <3> QED BY <2>11, <3>1, InvSame DEF vars, ruleVars, stateVars, workVars
    <2> QED BY <2>1, <2>2, <2>3, <2>4, <2>5, <2>6, <2>7, <2>8, <2>9, <2>10, <2>11 DEF Next
  <1> QED BY InvInit, <1>1, PTL DEF Spec

\* Whatever another thread changes during the analysis, an exact verdict names a
\* pattern held since it began that occurs in the normalised text, though only one
\* of its tokens was searched; and while nothing changes a pattern that occurs is
\* found (lines 61-91 of shield_engine.cpp).
THEOREM VerdictExactHolds == Spec => []VerdictExact
  <1>1. Inv => VerdictExact
    BY DEF Inv
  <1> QED BY <1>1, InvHolds, PTL

\* What is reported as unsafe was flagged by a detector and has a type, but for the
\* texts between one half and the model's threshold (lines 84-169).
THEOREM ReportConsistentHolds == Spec => []ReportConsistent
  <1>1. Inv => ReportConsistent
    BY DEF Inv
  <1> QED BY <1>1, InvHolds, PTL

\* Whatever files were loaded before, of any dimensions, and wherever one is cut
\* off, the semantic model is the last file's or gone (lines 13-60 of
\* sam_inference.cpp).
THEOREM ModelWholeHolds == Spec => []ModelWhole
  <1>1. Inv => ModelWhole
    BY DEF Inv
  <1> QED BY <1>1, InvHolds, PTL

\* For recordings of any length and rate a tempo is at least 60, and music is reported
\* from 110 on (lines 61-100 of bpm_energy.cpp).
THEOREM SlowestTempoHolds == Spec => []SlowestTempo
  <1>1. Inv => SlowestTempo
    BY DEF Inv
  <1> QED BY <1>1, InvHolds, PTL

\* In a frame of any size the analyser finds the connected classes of the mask that
\* are large enough, each once and in the order of the scan, with its bounding box and
\* its pixels counted once; the exposure is no more than the skin (lines 7-93 of
\* geometry_analyzer.cpp).
THEOREM ComponentsExactHolds == Spec => []ComponentsExact
  <1>1. Inv /\ ComponentsExact /\ [Next]_vars => ComponentsExact'
    BY ComponentsNext
  <1> QED BY ComponentsInit, <1>1, InvHolds, PTL DEF Spec
=============================================================================
