--------------------------- MODULE BitStreamProofs ---------------------------
(***************************************************************************)
(* Proofs about BitStream: for accumulators and bytes of any width, any    *)
(* size of the buffer and any calls, each bit written is at its place and  *)
(* is read back.                                                           *)
(***************************************************************************)
EXTENDS BitStream, SequenceTheorems, WellFoundedInduction, TLAPS

(***************************************************************************)
(* Induction over the natural numbers, for a set.                          *)
(***************************************************************************)
\* A set of natural numbers that is not empty has a least element.
LEMMA Least ==
  ASSUME NEW T \in SUBSET Nat, T # {}
  PROVE  \E m \in T : \A k \in T : m <= k
  <1> DEFINE R == {p \in Nat \X Nat : p[1] < p[2]}
  <1>1. IsWellFoundedOn(R, Nat)
    BY NatLessThanWellFounded DEF OpToRel
  <1>2. \A k, m \in Nat : <<k, m>> \notin R => m <= k
    OBVIOUS
  <1> HIDE DEF R
  <1>3. PICK m \in T : \A k \in T : <<k, m>> \notin R
    BY <1>1, WFMin
  <1> QED BY <1>2, <1>3, Zenon

\* A set that has zero, and with each number the next, has them all.
LEMMA Induct ==
  ASSUME NEW T, 0 \in T, \A k \in Nat : k \in T => k + 1 \in T
  PROVE  \A n \in Nat : n \in T
  <1> DEFINE Bad == Nat \ T
  <1> SUFFICES ASSUME Bad # {} PROVE FALSE
    OBVIOUS
  <1>1. Bad \in SUBSET Nat
    OBVIOUS
  <1>2. PICK m \in Bad : \A k \in Bad : m <= k
    <2> HIDE DEF Bad
    <2> QED BY <1>1, Least
  <1>3. m # 0 /\ m - 1 \in Nat /\ m - 1 \notin Bad
    BY <1>1, <1>2
  <1> QED BY <1>3

N == Bytes * ByteBits

(***************************************************************************)
(* Whole bytes.                                                            *)
(***************************************************************************)
\* Two whole numbers of m that differ are m apart.
LEMMA NextWhole ==
  ASSUME NEW m \in Nat \ {0}, NEW a \in Int, NEW b \in Int,
         a % m = 0, b % m = 0, a > b
  PROVE  a >= b + m
  <1>1. PICK p \in Int : a = m * p
    OBVIOUS
  <1>2. PICK q \in Int : b = m * q
    OBVIOUS
  <1>3. p > q
    BY <1>1, <1>2
  <1>4. m * p >= m * (q + 1)
    BY <1>3
  <1>5. m * (q + 1) = m * q + m
    OBVIOUS
  <1> QED BY <1>1, <1>2, <1>4, <1>5

\* Sums and differences of whole bytes are whole.
LEMMA WholeSum ==
  ASSUME NEW m \in Nat \ {0}, NEW a \in Int, NEW b \in Int, a % m = 0, b % m = 0
  PROVE  (a + b) % m = 0 /\ (a - b) % m = 0
  <1>1. PICK p \in Int : a = m * p
    OBVIOUS
  <1>2. PICK q \in Int : b = m * q
    OBVIOUS
  <1>3. a + b = m * (p + q) /\ a - b = m * (p - q)
    BY <1>1, <1>2
  <1>4. \A k \in Int : (m * k) % m = 0
    OBVIOUS
  <1> QED BY <1>3, <1>4

LEMMA WholeTimes ==
  ASSUME NEW m \in Nat \ {0}, NEW k \in Int
  PROVE  (k * m) % m = 0 /\ (m * k) % m = 0
  OBVIOUS

\* A quotient is a number.
LEMMA QuotientIs ==
  ASSUME NEW m \in Nat \ {0}, NEW a \in Nat
  PROVE  a \div m \in Nat
  OBVIOUS

\* A division with no remainder, undone.
LEMMA Undivided ==
  ASSUME NEW m \in Nat \ {0}, NEW a \in Nat, a % m = 0
  PROVE  (a \div m) * m = a /\ a \div m \in Nat
  <1>1. PICK q \in Int : a = m * q /\ q = a \div m
    OBVIOUS
  <1>2. q >= 0
    <2>1. CASE q < 0
      <3>1. m * q <= m * (-1)
        BY <2>1
      <3> QED BY <1>1, <3>1
    <2> QED BY <2>1
  <1> QED BY <1>1, <1>2

\* What a is short of whole bytes, and that it fits where a fits.
LEMMA Short ==
  ASSUME NEW m \in Nat \ {0}, NEW a \in Nat, NEW p, p = (m - (a % m)) % m
  PROVE  /\ p \in 0..(m - 1)
         /\ (a + p) % m = 0
         /\ \A c \in Int : c % m = 0 /\ a <= c => a + p <= c
         /\ a % m = 0 => p = 0
  <1>1. PICK r \in 0..(m - 1) : r = a % m
    OBVIOUS
  <1>2. PICK q \in Int : a = m * q + r
    <2>1. PICK q \in Int : q = a \div m
      OBVIOUS
    <2>2. a = m * q + r
      BY <1>1, <2>1, Z3
    <2> QED BY <2>2
  <1>3. p = IF r = 0 THEN 0 ELSE m - r
    <2>1. CASE r = 0
      BY <1>1, <2>1
    <2>2. CASE r # 0
      <3>1. m - r \in 1..(m - 1)
        BY <2>2
      <3>2. \A x \in 1..(m - 1) : x % m = x
        OBVIOUS
      <3> QED BY <1>1, <2>2, <3>1, <3>2
    <2> QED BY <2>1, <2>2
  <1>4. p \in 0..(m - 1)
    BY <1>3
  <1>5. (a + p) % m = 0
    <2>1. CASE r = 0
      BY <1>1, <1>3, <2>1
    <2>2. CASE r # 0
      <3>1. a + p = m * q + m
        BY <1>2, <1>3, <2>2
      <3>2. m * q + m = m * (q + 1)
        OBVIOUS
      <3>3. (m * (q + 1)) % m = 0
        BY WholeTimes
      <3> QED BY <3>1, <3>2, <3>3
    <2> QED BY <2>1, <2>2
  <1>6. ASSUME NEW c \in Int, c % m = 0, a <= c PROVE a + p <= c
    <2> SUFFICES ASSUME a + p > c PROVE FALSE
      BY <1>4
    <2>1. a + p \in Int
      BY <1>4
    <2>2. a + p >= c + m
      BY <1>5, <1>6, <2>1, NextWhole
    <2> QED BY <1>4, <1>6, <2>2
  <1>7. a % m = 0 => p = 0
    BY <1>1, <1>3
  <1> QED BY <1>4, <1>5, <1>6, <1>7
-----------------------------------------------------------------------------
(***************************************************************************)
(* The writer.                                                             *)
(***************************************************************************)
\* The writer w holds the bits b: what is before the accumulator is in the
\* buffer, at a byte boundary, and the accumulator has the rest.
Holds(w, b) ==
    /\ w = [buffer |-> w.buffer, acc |-> w.acc, offset |-> w.offset]
    /\ b \in Seq(Bit) /\ w.acc \in Seq(Bit)
    /\ w.offset = Len(b)
    /\ Len(w.acc) < AccBits /\ Len(w.acc) <= Len(b)
    /\ (Len(b) - Len(w.acc)) % ByteBits = 0
    /\ DOMAIN w.buffer = 1..N
    /\ \A i \in 1..(Len(b) - Len(w.acc)) : w.buffer[i] = b[i]
    /\ \A i \in 1..Len(w.acc) : w.acc[i] = b[Len(b) - Len(w.acc) + i]

\* Whole bytes are stored at a byte boundary, and nothing else is changed.
LEMMA StoreAt ==
  ASSUME NEW buffer, DOMAIN buffer = 1..N,
         NEW at \in Nat, at % ByteBits = 0, NEW bits, NEW n \in Nat, Len(bits) = n
  PROVE  /\ DOMAIN Store(buffer, at, bits) = 1..N
         /\ \A i \in 1..N :
               Store(buffer, at, bits)[i] =
                  IF i \in (at + 1)..(at + n) THEN bits[i - at] ELSE buffer[i]
  <1>1. (at \div ByteBits) * ByteBits = at
    BY BitsAssumption, Undivided
  <1>2. N \in Nat
    BY BitsAssumption, WriterAssumption DEF N
  <1> QED BY <1>1, <1>2 DEF Store

\* Two sequences one after the other, element by element.
LEMMA Joined ==
  ASSUME NEW x \in Seq(Bit), NEW y \in Seq(Bit), NEW m \in Nat, NEW n \in Nat,
         m = Len(x), n = Len(y)
  PROVE  /\ x \o y \in Seq(Bit) /\ Len(x \o y) = m + n
         /\ \A i \in 1..m : (x \o y)[i] = x[i]
         /\ \A i \in 1..n : (x \o y)[m + i] = y[i]
  <1>1. /\ x \o y \in Seq(Bit) /\ Len(x \o y) = m + n
        /\ \A i \in 1..(m + n) : (x \o y)[i] = IF i <= m THEN x[i] ELSE y[i - m]
    BY ConcatProperties
  <1> DEFINE z == x \o y
  <1> HIDE DEF z
  <1>2. \A i \in 1..m : z[i] = x[i]
    BY <1>1 DEF z
  <1>3. ASSUME NEW i \in 1..n PROVE z[m + i] = y[i]
    <2>1. m + i \in 1..(m + n) /\ ~(m + i <= m) /\ (m + i) - m = i
      OBVIOUS
    <2>2. z[m + i] = y[(m + i) - m]
      BY <1>1, <2>1 DEF z
    <2> QED BY <2>1, <2>2
  <1> QED BY <1>1, <1>2, <1>3 DEF z

\* A part of a sequence, element by element.
LEMMA Part ==
  ASSUME NEW x \in Seq(Bit), NEW m \in Nat, NEW n \in Nat, m + n <= Len(x)
  PROVE  /\ SubSeq(x, m + 1, m + n) \in Seq(Bit)
         /\ Len(SubSeq(x, m + 1, m + n)) = n
         /\ \A i \in 1..n : SubSeq(x, m + 1, m + n)[i] = x[m + i]
  <1>0. Len(x) \in Nat
    BY LenProperties
  <1>1. \A i \in (m + 1)..(m + n) : x[i] \in Bit
    BY <1>0, ElementOfSeq
  <1>2. /\ SubSeq(x, m + 1, m + n) \in Seq(Bit)
        /\ Len(SubSeq(x, m + 1, m + n)) =
              IF m + 1 <= m + n THEN (m + n) - (m + 1) + 1 ELSE 0
        /\ \A i \in 1..((m + n) - (m + 1) + 1) :
              SubSeq(x, m + 1, m + n)[i] = x[(m + 1) + i - 1]
    BY <1>1, SubSeqProperties
  <1> DEFINE z == SubSeq(x, m + 1, m + n)
  <1> HIDE DEF z
  <1>3. (m + n) - (m + 1) + 1 = n
    OBVIOUS
  <1>4. Len(z) = n
    BY <1>2 DEF z
  <1>5. ASSUME NEW i \in 1..n PROVE z[i] = x[m + i]
    <2>1. z[i] = x[(m + 1) + i - 1]
      BY <1>2, <1>3 DEF z
    <2>2. (m + 1) + i - 1 = m + i
      OBVIOUS
    <2> QED BY <2>1, <2>2
  <1> QED BY <1>2, <1>4, <1>5 DEF z

\* Shifting bits in appends them to what the writer holds (write_bits, lines 26-68).
LEMMA ShiftHolds ==
  ASSUME NEW w, NEW b, Holds(w, b), NEW bits \in Seq(Bit),
         Len(bits) <= AccBits, Len(b) + Len(bits) <= N
  PROVE  Holds(Shift(w, bits), b \o bits)
  <1>0. AccBits \in Nat \ {0} /\ ByteBits \in Nat \ {0} /\ AccBits % ByteBits = 0
    BY BitsAssumption
  <1>00. N \in Nat
    BY <1>0, WriterAssumption DEF N
  <1>01. PICK a \in Nat, s \in Nat, n \in Nat :
           a = Len(w.acc) /\ Len(b) = s + a /\ n = Len(bits)
    <2>1. Len(w.acc) \in Nat /\ Len(b) \in Nat /\ Len(bits) \in Nat /\ Len(w.acc) <= Len(b)
      BY LenProperties DEF Holds
    <2>2. Len(b) - Len(w.acc) \in Nat /\ Len(b) = (Len(b) - Len(w.acc)) + Len(w.acc)
      BY <2>1
    <2> QED BY <2>1, <2>2
  <1>1. /\ b \in Seq(Bit) /\ w.acc \in Seq(Bit) /\ w.offset = s + a
        /\ a < AccBits /\ s % ByteBits = 0 /\ DOMAIN w.buffer = 1..N
        /\ \A i \in 1..s : w.buffer[i] = b[i]
        /\ \A i \in 1..a : w.acc[i] = b[s + i]
        /\ n <= AccBits /\ s + a + n <= N
    <2>1. Len(b) - Len(w.acc) = s
      BY <1>01
    <2> QED BY <1>01, <2>1 DEF Holds
  <1> DEFINE all  == w.acc \o bits
             new  == b \o bits
             v    == Shift(w, bits)
  <1>2. /\ all \in Seq(Bit) /\ Len(all) = a + n
        /\ \A i \in 1..a : all[i] = w.acc[i]
        /\ \A i \in 1..n : all[a + i] = bits[i]
    <2>1. w.acc \in Seq(Bit)
      BY <1>1
    <2> QED BY <1>01, <2>1, Joined
  <1>3. /\ new \in Seq(Bit) /\ Len(new) = s + a + n
        /\ \A i \in 1..(s + a) : new[i] = b[i]
        /\ \A i \in 1..n : new[(s + a) + i] = bits[i]
    <2>1. b \in Seq(Bit)
      BY <1>1
    <2>2. PICK c \in Nat : c = s + a
      OBVIOUS
    <2>0. c = Len(b) /\ n = Len(bits)
      BY <1>01, <2>2
    <2>3. /\ new \in Seq(Bit) /\ Len(new) = c + n
          /\ \A i \in 1..c : new[i] = b[i]
          /\ \A i \in 1..n : new[c + i] = bits[i]
      BY <2>0, <2>1, Joined
    <2> HIDE DEF new
    <2> QED BY <2>2, <2>3
  <1>4. /\ v = [buffer |-> v.buffer, acc |-> v.acc, offset |-> v.offset]
        /\ v.offset = s + a + n
        /\ v.acc = IF a + n < AccBits THEN all ELSE SubSeq(all, AccBits + 1, Len(all))
        /\ v.buffer = IF a + n < AccBits THEN w.buffer
                      ELSE Store(w.buffer, s, SubSeq(all, 1, AccBits))
    <2>1. ((s + a) + AccBits - a) - AccBits = s
      BY <1>0
    <2>2. v = [buffer |-> IF Len(all) < AccBits THEN w.buffer
                          ELSE Store(w.buffer, (w.offset + AccBits - Len(w.acc)) - AccBits,
                                     SubSeq(all, 1, AccBits)),
               acc    |-> IF Len(all) < AccBits THEN all
                          ELSE SubSeq(all, AccBits + 1, Len(all)),
               offset |-> w.offset + Len(bits)]
      BY DEF Shift, ShiftLeaving
    <2> HIDE DEF v, all
    <2>3. /\ v = [buffer |-> v.buffer, acc |-> v.acc, offset |-> v.offset]
          /\ v.offset = w.offset + Len(bits)
          /\ v.acc = IF Len(all) < AccBits THEN all ELSE SubSeq(all, AccBits + 1, Len(all))
          /\ v.buffer = IF Len(all) < AccBits THEN w.buffer
                        ELSE Store(w.buffer, (w.offset + AccBits - Len(w.acc)) - AccBits,
                                   SubSeq(all, 1, AccBits))
      BY <2>2
    <2> QED BY <1>01, <1>1, <1>2, <2>1, <2>3
  <1> HIDE DEF all, new, v
  <1>5. ASSUME NEW i \in 1..(a + n) PROVE all[i] = new[s + i]
    <2>1. CASE i <= a
      <3>1. i \in 1..a /\ s + i \in 1..(s + a)
        BY <2>1
      <3> QED BY <1>1, <1>2, <1>3, <3>1
    <2>2. CASE i > a
      <3>1. PICK j \in 1..n : i = a + j
        <4>1. i - a \in 1..n /\ i = a + (i - a)
          BY <2>2
        <4> QED BY <4>1
      <3>2. s + i = (s + a) + j
        BY <3>1
      <3>3. all[i] = bits[j]
        BY <1>2, <3>1
      <3>4. new[s + i] = bits[j]
        BY <1>3, <3>1, <3>2
      <3> QED BY <3>3, <3>4
    <2> QED BY <2>1, <2>2
  <1>6. ASSUME NEW i \in 1..s PROVE w.buffer[i] = new[i]
    <2>1. i \in 1..(s + a)
      OBVIOUS
    <2> QED BY <1>1, <1>3, <2>1
  <1>7. CASE a + n < AccBits
    <2>1. v.acc = all /\ v.buffer = w.buffer
      BY <1>4, <1>7
    <2>2. Len(new) - Len(all) = s /\ Len(all) <= Len(new)
      BY <1>2, <1>3
    <2>3. /\ Len(v.acc) = a + n /\ v.offset = Len(new) /\ Len(v.acc) < AccBits
          /\ v.acc \in Seq(Bit) /\ new \in Seq(Bit)
      BY <1>2, <1>3, <1>4, <1>7, <2>1
    <2>4. /\ \A i \in 1..s : v.buffer[i] = new[i]
          /\ \A i \in 1..(a + n) : v.acc[i] = new[s + i]
          /\ DOMAIN v.buffer = 1..N /\ s % ByteBits = 0
      BY <1>1, <1>5, <1>6, <2>1
    <2>5. v = [buffer |-> v.buffer, acc |-> v.acc, offset |-> v.offset]
      BY <1>4
    <2>6. Len(new) - Len(v.acc) = s /\ Len(v.acc) <= Len(new)
      BY <2>1, <2>2
    <2>7. Holds(v, new)
      BY <2>3, <2>4, <2>5, <2>6 DEF Holds
    <2> QED BY <2>7 DEF v, new
  <1>8. CASE ~(a + n < AccBits)
    <2> DEFINE word == SubSeq(all, 1, AccBits)
               left == SubSeq(all, AccBits + 1, Len(all))
    <2>1. v.acc = left /\ v.buffer = Store(w.buffer, s, word)
      BY <1>4, <1>8
    <2>2. PICK k \in Nat : a + n = AccBits + k
      <3>1. a + n - AccBits \in Nat /\ a + n = AccBits + (a + n - AccBits)
        BY <1>0, <1>8
      <3> QED BY <3>1
    <2>3. /\ Len(word) = AccBits
          /\ \A i \in 1..AccBits : word[i] = all[i]
      <3>1. 0 + AccBits <= Len(all) /\ 0 + AccBits = AccBits
        BY <1>0, <1>2, <2>2
      <3>2. /\ Len(SubSeq(all, 0 + 1, 0 + AccBits)) = AccBits
            /\ \A i \in 1..AccBits : SubSeq(all, 0 + 1, 0 + AccBits)[i] = all[0 + i]
        <4>1. AccBits \in Nat /\ 0 \in Nat /\ all \in Seq(Bit)
          BY <1>0, <1>2
        <4> HIDE DEF all
        <4> QED BY <3>1, <4>1, Part
      <3>3. 0 + 1 = 1 /\ \A i \in 1..AccBits : 0 + i = i
        BY <1>0
      <3> QED BY <3>1, <3>2, <3>3
    <2>4. /\ left \in Seq(Bit) /\ Len(left) = k
          /\ \A i \in 1..k : left[i] = all[AccBits + i]
      <3>1. Len(all) = AccBits + k /\ AccBits + k <= Len(all)
        BY <1>0, <1>2, <2>2
      <3>2. AccBits \in Nat /\ all \in Seq(Bit) /\ left = SubSeq(all, AccBits + 1, AccBits + k)
        BY <1>0, <1>2, <3>1
      <3> HIDE DEF left
      <3> QED BY <3>1, <3>2, Part
    <2> HIDE DEF word, left
    <2>5. /\ DOMAIN v.buffer = 1..N
          /\ \A i \in 1..N : v.buffer[i] = IF i \in (s + 1)..(s + AccBits) THEN word[i - s]
                                           ELSE w.buffer[i]
      <3>1. DOMAIN w.buffer = 1..N /\ s % ByteBits = 0 /\ s \in Nat
        BY <1>1
      <3>2. AccBits \in Nat /\ Len(word) = AccBits
        BY <1>0, <2>3
      <3>3. /\ DOMAIN Store(w.buffer, s, word) = 1..N
            /\ \A i \in 1..N :
                  Store(w.buffer, s, word)[i] =
                     IF i \in (s + 1)..(s + AccBits) THEN word[i - s] ELSE w.buffer[i]
        BY <3>1, <3>2, StoreAt
      <3>4. v.buffer = Store(w.buffer, s, word)
        BY <2>1
      <3> QED BY <3>3, <3>4, Zenon
    <2>6. Len(new) - Len(left) = s + AccBits /\ k < AccBits /\ k <= Len(new)
      <3>1. a < AccBits /\ n <= AccBits
        BY <1>1
      <3>2. Len(new) = s + a + n
        BY <1>3
      <3>3. Len(left) = k
        BY <2>4
      <3> QED BY <1>0, <2>2, <3>1, <3>2, <3>3
    <2>7. (s + AccBits) % ByteBits = 0
      <3>1. s % ByteBits = 0
        BY <1>1
      <3>2. s \in Int /\ AccBits \in Int
        BY <1>0
      <3> QED BY <1>0, <3>1, <3>2, WholeSum, Zenon
    <2>8. ASSUME NEW i \in 1..(s + AccBits) PROVE v.buffer[i] = new[i]
      <3>1. i \in 1..N
        BY <1>0, <1>00, <1>1, <2>2
      <3>2. CASE i <= s
        <4>1. i \in 1..s /\ i \notin (s + 1)..(s + AccBits)
          BY <3>2
        <4> QED BY <1>6, <2>5, <3>1, <4>1
      <3>3. CASE i > s
        <4>1. PICK j \in 1..AccBits : i = s + j /\ j = i - s
          <5>1. i - s \in 1..AccBits /\ i = s + (i - s)
            BY <1>0, <3>3
          <5> QED BY <5>1
        <4>2. i \in (s + 1)..(s + AccBits) /\ j \in 1..(a + n)
          BY <1>0, <2>2, <4>1
        <4>3. v.buffer[i] = word[j]
          BY <2>5, <3>1, <4>1, <4>2
        <4>4. word[j] = all[j] /\ all[j] = new[s + j]
          BY <1>5, <2>3, <4>2
        <4> QED BY <4>1, <4>3, <4>4
      <3> QED BY <3>2, <3>3
    <2>9. ASSUME NEW i \in 1..k PROVE v.acc[i] = new[(s + AccBits) + i]
      <3>1. AccBits + i \in 1..(a + n) /\ s + (AccBits + i) = (s + AccBits) + i
        BY <1>0, <2>2
      <3>2. left[i] = all[AccBits + i] /\ all[AccBits + i] = new[s + (AccBits + i)]
        BY <1>5, <2>4, <3>1
      <3> QED BY <2>1, <3>1, <3>2
    <2>10. Holds(v, new)
      BY <1>3, <1>4, <2>1, <2>4, <2>5, <2>6, <2>7, <2>8, <2>9 DEF Holds
    <2> QED BY <2>10 DEF v, new
  <1> QED BY <1>7, <1>8

\* Whole bytes put behind the whole bytes in the buffer, with nothing left in
\* the accumulator.
LEMMA StoredHolds ==
  ASSUME NEW buffer, DOMAIN buffer = 1..N, NEW c \in Nat, NEW n \in Nat,
         c % ByteBits = 0, n % ByteBits = 0,
         NEW x \in Seq(Bit), Len(x) = c + n, c + n <= N,
         \A i \in 1..c : buffer[i] = x[i],
         NEW bits, Len(bits) = n, \A i \in 1..n : bits[i] = x[c + i]
  PROVE  Holds([buffer |-> Store(buffer, c, bits), acc |-> <<>>, offset |-> c + n], x)
  <1>0. AccBits \in Nat \ {0} /\ ByteBits \in Nat \ {0} /\ N \in Nat
    BY BitsAssumption, WriterAssumption DEF N
  <1> DEFINE w   == [buffer |-> Store(buffer, c, bits), acc |-> <<>>, offset |-> c + n]
             out == Store(buffer, c, bits)
  <1>1. /\ DOMAIN out = 1..N
        /\ \A i \in 1..N : out[i] = IF i \in (c + 1)..(c + n) THEN bits[i - c] ELSE buffer[i]
    <2>1. (c \div ByteBits) * ByteBits = c
      BY <1>0, Undivided
    <2>2. out = [i \in DOMAIN buffer |-> IF i \in (c + 1)..(c + n) THEN bits[i - c]
                                         ELSE buffer[i]]
      BY <2>1 DEF Store
    <2> HIDE DEF out
    <2> QED BY <2>2
  <1>2. /\ w = [buffer |-> w.buffer, acc |-> w.acc, offset |-> w.offset]
        /\ w.acc = <<>> /\ w.offset = c + n /\ w.buffer = out
    OBVIOUS
  <1> HIDE DEF w, out
  <1>3. ASSUME NEW i \in 1..(c + n) PROVE out[i] = x[i]
    <2>1. i \in 1..N
      BY <1>0
    <2>2. CASE i <= c
      <3>1. i \in 1..c /\ i \notin (c + 1)..(c + n)
        BY <2>2
      <3> QED BY <1>1, <2>1, <3>1
    <2>3. CASE i > c
      <3>1. i - c \in 1..n /\ c + (i - c) = i /\ i \in (c + 1)..(c + n)
        BY <2>3
      <3>2. out[i] = bits[i - c]
        BY <1>1, <2>1, <3>1
      <3>3. bits[i - c] = x[c + (i - c)]
        BY <3>1
      <3> QED BY <3>1, <3>2, <3>3
    <2> QED BY <2>2, <2>3
  <1>4. (c + n) % ByteBits = 0
    <2>1. c \in Int /\ n \in Int
      OBVIOUS
    <2> QED BY <1>0, <2>1, WholeSum, Zenon
  <1>5. Len(w.acc) = 0 /\ w.acc \in Seq(Bit) /\ Len(x) - 0 = c + n
    BY <1>2
  <1>6. /\ Len(w.acc) < AccBits /\ Len(w.acc) <= Len(x)
        /\ (Len(x) - Len(w.acc)) % ByteBits = 0
        /\ \A i \in 1..Len(w.acc) : w.acc[i] = x[Len(x) - Len(w.acc) + i]
        /\ \A i \in 1..(Len(x) - Len(w.acc)) : w.buffer[i] = x[i]
    BY <1>0, <1>2, <1>3, <1>4, <1>5
  <1>7. Holds(w, x)
    BY <1>1, <1>2, <1>5, <1>6 DEF Holds
  <1> QED BY <1>7 DEF w

\* The bits a writer holds, in parts.
LEMMA HoldsParts ==
  ASSUME NEW w, NEW b, Holds(w, b)
  PROVE  /\ b \in Seq(Bit) /\ Len(b) \in Nat /\ w.acc \in Seq(Bit) /\ Len(w.acc) \in Nat
         /\ w.offset = Len(b) /\ Len(w.acc) < AccBits
         /\ Len(b) - Len(w.acc) \in Nat /\ (Len(b) - Len(w.acc)) % ByteBits = 0
  BY LenProperties DEF Holds

\* What is added to a writer to make its bytes whole.
LEMMA PaddingIs ==
  ASSUME NEW w, NEW b, Holds(w, b)
  PROVE  /\ Padding(w) \in Seq(Bit)
         /\ Len(Padding(w)) \in 0..(ByteBits - 1)
         /\ (Len(b) + Len(Padding(w))) % ByteBits = 0
         /\ \A c \in Int : c % ByteBits = 0 /\ Len(b) <= c
               => Len(b) + Len(Padding(w)) <= c
         /\ Len(w.acc) % ByteBits = 0 => Padding(w) = <<>>
  <1>0. ByteBits \in Nat \ {0} /\ ByteBits \in Int
    BY BitsAssumption
  <1>1. PICK a \in Nat, s \in Nat : a = Len(w.acc) /\ Len(b) = s + a /\ s % ByteBits = 0
    <2>1. PICK a \in Nat, n \in Nat, s \in Nat :
            a = Len(w.acc) /\ n = Len(b) /\ s = n - a /\ s % ByteBits = 0
      BY HoldsParts
    <2>2. n = s + a
      BY <2>1
    <2> QED BY <2>1, <2>2
  <1>2. PICK p : p = (ByteBits - (a % ByteBits)) % ByteBits
    OBVIOUS
  <1>3. /\ p \in 0..(ByteBits - 1) /\ (a + p) % ByteBits = 0
        /\ \A c \in Int : c % ByteBits = 0 /\ a <= c => a + p <= c
        /\ a % ByteBits = 0 => p = 0
    BY <1>0, <1>2, Short
  <1>4. Padding(w) = [i \in 1..p |-> 0]
    BY <1>1, <1>2 DEF Padding
  <1>5. p \in Nat
    BY <1>0, <1>3
  <1>6. Padding(w) \in Seq(Bit) /\ Len(Padding(w)) = p
    <2>1. [i \in 1..p |-> 0] \in [1..p -> Bit]
      BY DEF Bit
    <2>2. [i \in 1..p |-> 0] \in Seq(Bit)
      BY <1>5, <2>1, SeqDef
    <2> QED BY <1>4, <1>5, <2>2
  <1>7. (Len(b) + p) % ByteBits = 0
    <2>1. s \in Int /\ a + p \in Int
      BY <1>5
    <2>2. (s + (a + p)) % ByteBits = 0
      BY <1>0, <1>1, <1>3, <2>1, WholeSum, Zenon
    <2>3. s + (a + p) = Len(b) + p
      BY <1>1, <1>5
    <2> QED BY <2>2, <2>3
  <1>8. ASSUME NEW c \in Int, c % ByteBits = 0, Len(b) <= c PROVE Len(b) + p <= c
    <2>1. c \in Int /\ s \in Int
      OBVIOUS
    <2>2. (c - s) % ByteBits = 0
      BY <1>0, <1>1, <1>8, <2>1, WholeSum, Zenon
    <2>3. a <= c - s /\ c - s \in Int
      BY <1>1, <1>8
    <2>4. a + p <= c - s
      BY <1>3, <2>2, <2>3
    <2> QED BY <1>1, <1>5, <2>4
  <1>9. ASSUME Len(w.acc) % ByteBits = 0 PROVE Padding(w) = <<>>
    <2>1. p = 0
      BY <1>1, <1>3, <1>9
    <2> QED BY <1>4, <2>1
  <1> QED BY <1>3, <1>6, <1>7, <1>8, <1>9

\* A flush adds the padding and empties the accumulator (flush, lines 101-126).
LEMMA FlushedHolds ==
  ASSUME NEW w, NEW b, Holds(w, b), Len(b) + Len(Padding(w)) <= N
  PROVE  Holds(Flushed(w), b \o Padding(w)) /\ Flushed(w).acc = <<>>
  <1> DEFINE p == Shift(w, Padding(w))
             x == b \o Padding(w)
  <1>0. AccBits \in Nat \ {0} /\ ByteBits \in Nat \ {0} /\ N \in Nat /\ AccBits % ByteBits = 0
    BY BitsAssumption, WriterAssumption DEF N
  <1>1. ByteBits <= AccBits
    <2>1. AccBits \in Int /\ 0 \in Int /\ 0 % ByteBits = 0 /\ AccBits > 0
      BY <1>0
    <2>2. AccBits >= 0 + ByteBits
      BY <1>0, <2>1, NextWhole
    <2> QED BY <1>0, <2>2
  <1>2. Holds(p, x)
    <2>1. Padding(w) \in Seq(Bit) /\ Len(Padding(w)) <= AccBits
      <3>1. Padding(w) \in Seq(Bit) /\ Len(Padding(w)) \in 0..(ByteBits - 1)
        BY PaddingIs
      <3> QED BY <1>0, <1>1, <3>1
    <2> QED BY <2>1, ShiftHolds
  <1>3. Len(x) % ByteBits = 0 /\ Len(x) <= N
    <2>1. b \in Seq(Bit) /\ Padding(w) \in Seq(Bit)
      BY HoldsParts, PaddingIs
    <2>2. Len(x) = Len(b) + Len(Padding(w))
      BY <2>1, ConcatProperties
    <2> QED BY <2>2, PaddingIs
  <1>4. Flushed(w) = [buffer |-> Store(p.buffer, p.offset - Len(p.acc), p.acc),
                      acc |-> <<>>, offset |-> p.offset]
    <2>1. p = [buffer |-> p.buffer, acc |-> p.acc, offset |-> p.offset]
      BY <1>2 DEF Holds
    <2> HIDE DEF p
    <2>2. Flushed(w) = [p EXCEPT !.buffer = Store(@, p.offset - Len(p.acc), p.acc),
                                 !.acc = <<>>]
      BY DEF Flushed, p
    <2> QED BY <2>1, <2>2
  <1> HIDE DEF p, x
  <1>5. PICK a \in Nat, s \in Nat :
          /\ a = Len(p.acc) /\ s = Len(x) - a /\ Len(x) = s + a /\ s % ByteBits = 0
          /\ p.offset = Len(x) /\ x \in Seq(Bit)
    <2>1. PICK a \in Nat, n \in Nat, s \in Nat :
            a = Len(p.acc) /\ n = Len(x) /\ s = n - a /\ s % ByteBits = 0
      BY <1>2, HoldsParts
    <2>2. n = s + a
      BY <2>1
    <2>3. p.offset = Len(x) /\ x \in Seq(Bit)
      BY <1>2, HoldsParts
    <2> QED BY <2>1, <2>2, <2>3
  <1>6. a % ByteBits = 0
    <2>1. Len(x) \in Int /\ s \in Int
      <3>1. Len(x) = s + a
        BY <1>5
      <3> QED BY <3>1
    <2>2. (Len(x) - s) % ByteBits = 0
      BY <1>0, <1>3, <1>5, <2>1, WholeSum, Zenon
    <2>3. Len(x) - s = a
      <3>1. Len(x) = s + a
        BY <1>5
      <3> QED BY <3>1
    <2> QED BY <2>2, <2>3
  <1>7. /\ DOMAIN p.buffer = 1..N
        /\ \A i \in 1..s : p.buffer[i] = x[i]
        /\ \A i \in 1..a : p.acc[i] = x[s + i]
    BY <1>2, <1>5 DEF Holds
  <1>8. Holds([buffer |-> Store(p.buffer, s, p.acc), acc |-> <<>>, offset |-> s + a], x)
    <2>1. s + a <= N
      BY <1>3, <1>5
    <2> QED BY <1>5, <1>6, <1>7, <2>1, StoredHolds
  <1>9. p.offset - Len(p.acc) = s /\ p.offset = s + a
    <2>1. p.offset = Len(x) /\ Len(x) = s + a /\ Len(p.acc) = a
      BY <1>5
    <2> QED BY <2>1
  <1>10. /\ Flushed(w) = [buffer |-> Store(p.buffer, s, p.acc), acc |-> <<>>, offset |-> s + a]
         /\ Flushed(w).acc = <<>>
    <2>1. Flushed(w) = [buffer |-> Store(p.buffer, s, p.acc), acc |-> <<>>, offset |-> s + a]
      BY <1>4, <1>9, Zenon
    <2> QED BY <2>1
  <1> QED BY <1>8, <1>10 DEF x

\* Whole bytes are copied behind whole bytes (write_bytes, lines 70-99).
LEMMA CopiedHolds ==
  ASSUME NEW w, NEW b, Holds(w, b), w.acc = <<>>,
         NEW bits \in Seq(Bit), Len(bits) % ByteBits = 0, Len(b) + Len(bits) <= N
  PROVE  Holds(Copied(w, bits), b \o bits)
  <1> DEFINE x == b \o bits
  <1>1. PICK c \in Nat, n \in Nat :
          /\ c = Len(b) /\ n = Len(bits) /\ c % ByteBits = 0 /\ w.offset = c
          /\ b \in Seq(Bit)
    <2>1. Len(w.acc) = 0 /\ Len(b) - 0 = Len(b)
      BY HoldsParts
    <2>2. Len(bits) \in Nat
      BY LenProperties
    <2> QED BY <2>1, <2>2, HoldsParts
  <1>2. /\ x \in Seq(Bit) /\ Len(x) = c + n
        /\ \A i \in 1..c : x[i] = b[i]
        /\ \A i \in 1..n : x[c + i] = bits[i]
    <2>1. b \in Seq(Bit) /\ bits \in Seq(Bit) /\ c = Len(b) /\ n = Len(bits)
      BY <1>1
    <2> QED BY <2>1, Joined, SMTT(30)
  <1> HIDE DEF x
  <1>3. DOMAIN w.buffer = 1..N /\ \A i \in 1..c : w.buffer[i] = x[i]
    <2>1. Len(b) - Len(w.acc) = c
      BY <1>1
    <2>2. DOMAIN w.buffer = 1..N /\ \A i \in 1..c : w.buffer[i] = b[i]
      BY <2>1 DEF Holds
    <2> QED BY <1>2, <2>2
  <1>4. Holds([buffer |-> Store(w.buffer, c, bits), acc |-> <<>>, offset |-> c + n], x)
    <2>1. c + n <= N /\ Len(bits) = n /\ c % ByteBits = 0 /\ n % ByteBits = 0
      BY <1>1
    <2>2. DOMAIN w.buffer = 1..N /\ \A i \in 1..c : w.buffer[i] = x[i]
      BY <1>3
    <2> QED BY <1>2, <2>1, <2>2, StoredHolds, Zenon
  <1>5. Copied(w, bits) = [buffer |-> Store(w.buffer, c, bits), acc |-> <<>>, offset |-> c + n]
    <2>1. w = [buffer |-> w.buffer, acc |-> w.acc, offset |-> w.offset]
      BY DEF Holds
    <2>2. /\ Copied(w, bits) = [w EXCEPT !.buffer = Store(@, c, bits), !.offset = @ + n]
          /\ w.offset = c
      BY <1>1 DEF Copied
    <2> QED BY <2>1, <2>2
  <1> QED BY <1>4, <1>5 DEF x

\* The writer after each of the first bytes, byte by byte.
ByteAt(bits, k) == SubSeq(bits, (k - 1) * ByteBits + 1, k * ByteBits)

Stepwise(w, bits, n) ==
    CHOOSE f : f = [k \in 0..n |-> IF k = 0 THEN w ELSE Shift(f[k - 1], ByteAt(bits, k))]

\* There is such a function: the recursion has a result.
LEMMA StepwiseIs ==
  ASSUME NEW w, NEW bits, NEW n \in Nat
  PROVE  /\ Stepwise(w, bits, n)[0] = w
         /\ \A k \in 1..n : Stepwise(w, bits, n)[k]
                             = Shift(Stepwise(w, bits, n)[k - 1], ByteAt(bits, k))
  <1> DEFINE Is(f, m) == f = [k \in 0..m |-> IF k = 0 THEN w
                                             ELSE Shift(f[k - 1], ByteAt(bits, k))]
             T == {m \in Nat : \E f : Is(f, m)}
  <1>1. 0 \in T
    <2> DEFINE f == [k \in 0..0 |-> w]
    <2>1. Is(f, 0)
      <3>1. \A k \in 0..0 : k = 0
        OBVIOUS
      <3> QED BY <3>1
    <2> QED BY <2>1
  <1>2. ASSUME NEW m \in Nat, m \in T PROVE m + 1 \in T
    <2>1. PICK f : Is(f, m)
      BY <1>2
    <2>2. PICK new : new = Shift(f[m], ByteAt(bits, m + 1))
      OBVIOUS
    <2>3. PICK g : g = [k \in 0..(m + 1) |-> IF k = m + 1 THEN new ELSE f[k]]
      OBVIOUS
    <2>4. g[m + 1] = new /\ \A k \in 0..m : g[k] = f[k]
      BY <2>3
    <2>5. f[0] = w /\ \A k \in 1..m : f[k] = Shift(f[k - 1], ByteAt(bits, k))
      BY <2>1
    <2>6. g[0] = w
      BY <2>4, <2>5
    <2>7. ASSUME NEW k \in 1..(m + 1) PROVE g[k] = Shift(g[k - 1], ByteAt(bits, k))
      <3>1. CASE k = m + 1
        <4>1. g[k - 1] = f[m]
          BY <2>4, <3>1
        <4> QED BY <2>2, <2>4, <3>1, <4>1
      <3>2. CASE k # m + 1
        <4>1. k \in 1..m /\ k - 1 \in 0..m /\ k \in 0..m
          BY <3>2
        <4>2. g[k] = f[k] /\ g[k - 1] = f[k - 1] /\ f[k] = Shift(f[k - 1], ByteAt(bits, k))
          BY <2>4, <2>5, <4>1
        <4> QED BY <4>2
      <3> QED BY <3>1, <3>2
    <2>8. DOMAIN g = 0..(m + 1) /\ g = [k \in 0..(m + 1) |-> g[k]]
      BY <2>3
    <2>9. \A k \in 0..(m + 1) : g[k] = IF k = 0 THEN w ELSE Shift(g[k - 1], ByteAt(bits, k))
      BY <2>6, <2>7
    <2>10. Is(g, m + 1)
      <3>1. PICK h : h = [k \in 0..(m + 1) |-> IF k = 0 THEN w ELSE Shift(g[k - 1], ByteAt(bits, k))]
        OBVIOUS
      <3>2. h = g
        BY <2>8, <2>9, <3>1
      <3> QED BY <3>1, <3>2
    <2> HIDE DEF Is
    <2> QED BY <2>10
  <1> HIDE DEF T
  <1>3. n \in T
    BY <1>1, <1>2, Induct
  <1>4. \E f : f = [k \in 0..n |-> IF k = 0 THEN w ELSE Shift(f[k - 1], ByteAt(bits, k))]
    BY <1>3 DEF T
  <1> DEFINE s == Stepwise(w, bits, n)
  <1>5. s = [k \in 0..n |-> IF k = 0 THEN w ELSE Shift(s[k - 1], ByteAt(bits, k))]
    BY <1>4, Zenon DEF Stepwise
  <1> HIDE DEF s
  <1>6. s[0] = w /\ \A k \in 1..n : s[k] = Shift(s[k - 1], ByteAt(bits, k))
    BY <1>5
  <1> QED BY <1>6 DEF s

\* Bytes shifted in one by one append the bytes (write_bytes, lines 70-99).
LEMMA StepwiseHolds ==
  ASSUME NEW w, NEW b, Holds(w, b), NEW bits \in Seq(Bit), NEW n \in Nat,
         n * ByteBits <= Len(bits), Len(b) + n * ByteBits <= N
  PROVE  Holds(Stepwise(w, bits, n)[n], b \o SubSeq(bits, 1, n * ByteBits))
  <1>0. AccBits \in Nat \ {0} /\ ByteBits \in Nat \ {0} /\ N \in Nat
    BY BitsAssumption, WriterAssumption DEF N
  <1>00. b \in Seq(Bit) /\ Len(b) \in Nat /\ Len(bits) \in Nat
    BY HoldsParts, LenProperties
  <1>01. ByteBits <= AccBits
    <2>1. AccBits \in Int /\ 0 \in Int /\ 0 % ByteBits = 0 /\ AccBits > 0 /\ AccBits % ByteBits = 0
      BY <1>0, BitsAssumption
    <2>2. AccBits >= 0 + ByteBits
      BY <1>0, <2>1, NextWhole
    <2> QED BY <1>0, <2>2
  <1> DEFINE s == Stepwise(w, bits, n)
             first(k) == SubSeq(bits, 1, k * ByteBits)
             T == {k \in Nat : k <= n => Holds(s[k], b \o first(k))}
  <1>1. s[0] = w /\ \A k \in 1..n : s[k] = Shift(s[k - 1], ByteAt(bits, k))
    BY StepwiseIs
  <1> HIDE DEF s
  <1>2. 0 \in T
    <2>1. first(0) = <<>>
      <3>1. SubSeq(bits, 1, 0) = <<>>
        BY SubSeqEmpty
      <3>2. 0 * ByteBits = 0
        BY <1>0
      <3> QED BY <3>1, <3>2
    <2>2. b \o first(0) = b
      BY <1>00, <2>1, ConcatEmptySeq
    <2> HIDE DEF first
    <2> QED BY <1>1, <2>2
  <1>3. ASSUME NEW k \in Nat, k \in T PROVE k + 1 \in T
    <2> SUFFICES ASSUME k + 1 <= n PROVE Holds(s[k + 1], b \o first(k + 1))
      OBVIOUS
    <2>1. Holds(s[k], b \o first(k))
      BY <1>3
    <2>2. PICK e \in Nat, f \in Nat :
            e = k * ByteBits /\ f = (k + 1) * ByteBits /\ f = e + ByteBits /\ f <= n * ByteBits
      <3>1. (k + 1) * ByteBits = k * ByteBits + ByteBits /\ k * ByteBits \in Nat
        BY <1>0
      <3>2. (k + 1) * ByteBits <= n * ByteBits
        BY <1>0
      <3> QED BY <1>0, <3>1, <3>2
    <2>3. n * ByteBits \in Nat
      BY <1>0
    <2>4. f <= Len(bits) /\ Len(b) + f <= N
      BY <1>0, <1>00, <2>2, <2>3
    <2> DEFINE x == SubSeq(bits, 1, e)
               y == SubSeq(bits, e + 1, e + ByteBits)
    <2>5. x \in Seq(Bit) /\ Len(x) = e
      <3>1. 0 + e <= Len(bits) /\ 0 + e = e /\ 0 + 1 = 1
        <4>1. e <= f /\ f <= Len(bits) /\ Len(bits) \in Nat
          BY <1>0, <1>00, <2>2, <2>4
        <4> QED BY <4>1
      <3>2. SubSeq(bits, 0 + 1, 0 + e) \in Seq(Bit) /\ Len(SubSeq(bits, 0 + 1, 0 + e)) = e
        BY <3>1, Part
      <3> QED BY <3>1, <3>2
    <2>6. y \in Seq(Bit) /\ Len(y) = ByteBits
      <3>1. e + ByteBits <= Len(bits) /\ ByteBits \in Nat
        BY <1>0, <2>2, <2>4
      <3> QED BY <3>1, Part
    <2>7. x \o y = SubSeq(bits, 1, f)
      <3>1. /\ 1 \in 1..(Len(bits) + 1) /\ e \in (1 - 1)..Len(bits) /\ f \in e..Len(bits)
        BY <1>0, <1>00, <2>2, <2>4
      <3>2. SubSeq(bits, 1, e) \o SubSeq(bits, e + 1, f) = SubSeq(bits, 1, f)
        BY <3>1, ConcatAdjacentSubSeq
      <3> QED BY <2>2, <3>2
    <2>8. ByteAt(bits, k + 1) = y
      <3>1. (k + 1) - 1 = k
        OBVIOUS
      <3> QED BY <2>2, <3>1 DEF ByteAt
    <2>9. first(k) = x /\ first(k + 1) = x \o y
      BY <2>2, <2>7
    <2> HIDE DEF x, y, first
    <2>10. s[k + 1] = Shift(s[k], y)
      <3>1. k + 1 \in 1..n /\ (k + 1) - 1 = k
        OBVIOUS
      <3> QED BY <1>1, <2>8, <3>1
    <2>11. Len(b \o x) = Len(b) + e
      BY <1>00, <2>5, ConcatProperties
    <2>12. Len(b \o x) + Len(y) <= N /\ Len(y) <= AccBits
      BY <1>0, <1>00, <1>01, <2>2, <2>4, <2>6, <2>11
    <2>13. Holds(s[k], b \o x)
      BY <2>1, <2>9
    <2>14. Holds(Shift(s[k], y), (b \o x) \o y)
      BY <2>6, <2>12, <2>13, ShiftHolds
    <2>15. (b \o x) \o y = b \o (x \o y)
      <3>1. b \in Seq(Bit) /\ x \in Seq(Bit) /\ y \in Seq(Bit)
        BY <1>00, <2>5, <2>6
      <3> QED BY <3>1, ConcatAssociative
    <2> QED BY <2>9, <2>10, <2>14, <2>15
  <1> HIDE DEF T
  <1>4. n \in T
    BY <1>2, <1>3, Induct
  <1> QED BY <1>4 DEF T, s

(***************************************************************************)
(* What is written is in place.                                            *)
(***************************************************************************)
\* The buffer's bits are whole bytes, and no more than there are.
LEMMA CapacityIs ==
  /\ Capacity \in Nat /\ Capacity % ByteBits = 0 /\ Capacity <= N
  /\ Capacity \in Int /\ N \in Nat /\ ByteBits \in Nat \ {0}
  <1>1. ByteBits \in Nat \ {0} /\ Bytes \in Nat
    BY BitsAssumption, WriterAssumption
  <1>2. N \in Nat /\ N % ByteBits = 0 /\ 0 % ByteBits = 0
    BY <1>1, WholeTimes DEF N
  <1> QED BY <1>1, <1>2 DEF Capacity, N

WriterInv ==
    /\ attached \in BOOLEAN
    /\ Holds(writer, written)
    /\ Len(written) <= Capacity

\* A fresh writer holds nothing.
LEMMA FreshHolds ==
  ASSUME NEW buffer, DOMAIN buffer = 1..N
  PROVE  Holds(Fresh(buffer), <<>>)
  <1>1. <<>> \in Seq(Bit) /\ Len(<<>>) = 0
    OBVIOUS
  <1>2. AccBits \in Nat \ {0} /\ 0 % ByteBits = 0
    BY BitsAssumption
  <1> QED BY <1>1, <1>2 DEF Holds, Fresh

LEMMA BitsOfType ==
  ASSUME NEW value \in Nat, NEW n \in Nat
  PROVE  BitsOf(value, n) \in Seq(Bit) /\ Len(BitsOf(value, n)) = n
  <1>1. \A i \in 1..n : (value \div 2^(n - i)) % 2 \in Bit
    BY DEF Bit
  <1>2. BitsOf(value, n) \in [1..n -> Bit]
    BY <1>1 DEF BitsOf
  <1>3. BitsOf(value, n) \in Seq(Bit)
    BY <1>2, SeqDef
  <1>4. DOMAIN BitsOf(value, n) = 1..n
    BY DEF BitsOf
  <1> QED BY <1>3, <1>4, LenProperties

\* A byte or no byte fits as many times as the division says.
LEMMA RoomFits ==
  ASSUME NEW m \in Nat \ {0}, NEW room \in Nat, NEW k \in Nat, k <= room \div m
  PROVE  k * m <= room /\ k * m \in Nat
  <1>1. PICK q \in Int : q = room \div m
    OBVIOUS
  <1>2. q * m <= room
    BY <1>1, Z3
  <1>3. k * m <= q * m
    BY <1>1
  <1>4. k * m \in Nat /\ q * m \in Int
    BY <1>1
  <1> QED BY <1>2, <1>3, <1>4

\* Each call of the writer keeps the bits in place.
LEMMA WriterStep ==
  ASSUME WriterInv, WriterNext
  PROVE  WriterInv'
  <1>0. /\ attached \in BOOLEAN /\ Holds(writer, written) /\ Len(written) <= Capacity
        /\ written \in Seq(Bit) /\ Len(written) \in Nat /\ writer.offset = Len(written)
    BY HoldsParts DEF WriterInv
  <1>1. ASSUME attached' = attached, Holds(writer', written'), Len(written') <= Capacity
        PROVE  WriterInv'
    <2>1. Capacity' = Capacity
      BY <1>1 DEF Capacity
    <2> QED BY <1>0, <1>1, <2>1 DEF WriterInv
  <1>2. ASSUME NEW buffer, DOMAIN buffer = 1..N, attached' \in BOOLEAN,
               writer' = Fresh(buffer), written' = <<>>
        PROVE  WriterInv'
    <2>1. Capacity' \in Nat /\ Len(written') = 0
      BY <1>2, BitsAssumption, WriterAssumption DEF Capacity
    <2>2. Holds(writer', written')
      BY <1>2, FreshHolds
    <2> QED BY <1>2, <2>1, <2>2 DEF WriterInv
  <1>3. ASSUME NEW value \in Values, NEW num_bits \in 0..(AccBits + 1), WriteBits(value, num_bits)
        PROVE  WriterInv'
    <2>0. value \in Nat /\ num_bits \in Nat /\ AccBits \in Nat
      BY BitsAssumption, WriterAssumption
    <2> DEFINE bits == BitsOf(value, num_bits)
    <2>1. bits \in Seq(Bit) /\ Len(bits) = num_bits
      BY <2>0, BitsOfType
    <2>2. CASE UNCHANGED <<writer, written>>
      BY <1>0, <1>1, <1>3, <2>2 DEF WriteBits
    <2>3. CASE ~(UNCHANGED <<writer, written>>)
      <3>1. /\ num_bits <= AccBits /\ (num_bits = 0 \/ writer.offset + num_bits <= Capacity)
            /\ writer' = Shift(writer, bits) /\ written' = written \o bits
            /\ attached' = attached
        BY <1>3, <2>0, <2>3, <1>0, CapacityIs DEF WriteBits
      <3> HIDE DEF bits
      <3>2. Len(written) + num_bits <= Capacity
        BY <1>0, <2>0, <3>1, CapacityIs
      <3>3. Len(written) + Len(bits) <= N /\ Len(bits) <= AccBits
        BY <1>0, <2>0, <2>1, <3>1, <3>2, CapacityIs
      <3>4. Holds(writer', written')
        BY <1>0, <2>1, <3>1, <3>3, ShiftHolds
      <3>5. Len(written') = Len(written) + num_bits
        BY <1>0, <2>1, <3>1, ConcatProperties
      <3> QED BY <1>1, <3>1, <3>2, <3>4, <3>5
    <2> QED BY <2>2, <2>3
  <1>4. Len(Padding(writer)) \in Nat /\ Len(written) + Len(Padding(writer)) <= Capacity
        /\ Len(written \o Padding(writer)) = Len(written) + Len(Padding(writer))
    <2>1. /\ Padding(writer) \in Seq(Bit) /\ Len(Padding(writer)) \in Nat
          /\ \A c \in Int : c % ByteBits = 0 /\ Len(written) <= c
                => Len(written) + Len(Padding(writer)) <= c
      BY <1>0, PaddingIs, LenProperties
    <2>2. Len(written) + Len(Padding(writer)) <= Capacity
      BY <1>0, <2>1, CapacityIs
    <2>3. Len(written \o Padding(writer)) = Len(written) + Len(Padding(writer))
      BY <1>0, <2>1, ConcatProperties
    <2> QED BY <2>1, <2>2, <2>3
  <1>5. Holds(Flushed(writer), written \o Padding(writer)) /\ Flushed(writer).acc = <<>>
    <2>1. Len(written) + Len(Padding(writer)) <= N
      BY <1>0, <1>4, CapacityIs
    <2> QED BY <1>0, <2>1, FlushedHolds
  <1>6. ASSUME NEW bits \in ByteRuns, WriteBytesAligned(bits) PROVE WriterInv'
    <2>0. bits \in Seq(Bit) /\ Len(bits) \in Nat /\ Len(bits) % ByteBits = 0
      BY WriterAssumption, LenProperties
    <2>1. Padding(writer) = <<>> /\ attached' = attached
      BY <1>0, <1>6, PaddingIs DEF WriteBytesAligned
    <2>2. written \o Padding(writer) = written
      BY <1>0, <2>1, ConcatEmptySeq
    <2>3. Holds(Flushed(writer), written) /\ Flushed(writer).acc = <<>>
      BY <1>5, <2>2
    <2>4. CASE writer.offset \div ByteBits + Len(bits) \div ByteBits > Capacity \div ByteBits
      <3>1. writer' = Flushed(writer) /\ written' = written
        BY <1>6, <2>4 DEF WriteBytesAligned
      <3> QED BY <1>0, <1>1, <2>1, <2>3, <3>1
    <2>5. CASE ~(writer.offset \div ByteBits + Len(bits) \div ByteBits > Capacity \div ByteBits)
      <3>1. writer' = Copied(Flushed(writer), bits) /\ written' = written \o bits
        BY <1>6, <2>5 DEF WriteBytesAligned
      <3>2. Len(written) % ByteBits = 0
        <4>1. Len(written) + Len(Padding(writer)) = Len(written)
          BY <1>0, <2>1
        <4>2. (Len(written) + Len(Padding(writer))) % ByteBits = 0
          BY <1>0, PaddingIs
        <4> QED BY <4>1, <4>2
      <3>3. Len(written) + Len(bits) <= Capacity
        <4>1. PICK p \in Nat : p = Len(written) \div ByteBits /\ p * ByteBits = Len(written)
          BY <1>0, <3>2, CapacityIs, Undivided
        <4>2. PICK q \in Nat : q = Len(bits) \div ByteBits /\ q * ByteBits = Len(bits)
          BY <2>0, CapacityIs, Undivided
        <4>3. PICK r \in Nat : r = Capacity \div ByteBits /\ r * ByteBits = Capacity
          BY CapacityIs, Undivided
        <4>4. p + q <= r
          BY <1>0, <2>5, <4>1, <4>2, <4>3
        <4>5. (p + q) * ByteBits <= r * ByteBits
          BY <4>4, CapacityIs
        <4>6. (p + q) * ByteBits = p * ByteBits + q * ByteBits
          BY CapacityIs
        <4> QED BY <4>1, <4>2, <4>3, <4>5, <4>6
      <3>4. Len(written) + Len(bits) <= N
        BY <1>0, <2>0, <3>3, CapacityIs
      <3>5. Holds(writer', written')
        BY <2>0, <2>3, <3>1, <3>4, CopiedHolds
      <3>6. Len(written') = Len(written) + Len(bits)
        BY <1>0, <2>0, <3>1, ConcatProperties
      <3> QED BY <1>1, <2>1, <3>3, <3>5, <3>6
    <2> QED BY <2>4, <2>5
  <1>7. ASSUME NEW bits \in ByteRuns, WriteBytesShifted(bits) PROVE WriterInv'
    <2>0. bits \in Seq(Bit) /\ Len(bits) \in Nat /\ Len(bits) % ByteBits = 0
      BY WriterAssumption, LenProperties
    <2> DEFINE room == (Capacity - writer.offset) \div ByteBits
               size == Len(bits) \div ByteBits
               kept == IF size <= room THEN size ELSE room
    <2>1. /\ writer' = Stepwise(writer, bits, kept)[kept]
          /\ written' = written \o SubSeq(bits, 1, kept * ByteBits)
          /\ attached' = attached
      BY <1>7 DEF WriteBytesShifted, Stepwise, ByteAt
    <2>2. PICK left \in Nat : left = Capacity - writer.offset /\ Len(written) + left = Capacity
      BY <1>0, CapacityIs
    <2>3. size \in Nat /\ size * ByteBits = Len(bits)
      BY <2>0, CapacityIs, Undivided
    <2>4. room \in Nat
      <3>1. left \div ByteBits \in Nat
        BY CapacityIs
      <3> QED BY <2>2, <3>1
    <2>5. kept \in Nat /\ kept <= size /\ kept <= left \div ByteBits
      BY <2>2, <2>3, <2>4
    <2> HIDE DEF kept, size, room
    <2>6. kept * ByteBits <= left /\ kept * ByteBits \in Nat
      BY <2>5, CapacityIs, RoomFits
    <2>7. kept * ByteBits <= Len(bits)
      <3>1. kept * ByteBits <= size * ByteBits
        BY <2>3, <2>5, CapacityIs
      <3> QED BY <2>3, <3>1
    <2>8. Len(written) + kept * ByteBits <= Capacity
      BY <1>0, <2>2, <2>6, CapacityIs
    <2>9. Len(written) + kept * ByteBits <= N
      BY <1>0, <2>6, <2>8, CapacityIs
    <2>10. Holds(writer', written')
      BY <1>0, <2>0, <2>1, <2>5, <2>7, <2>9, StepwiseHolds
    <2>11. Len(written') = Len(written) + kept * ByteBits
      <3>1. PICK e \in Nat : e = kept * ByteBits
        BY <2>6
      <3>2. 0 + e <= Len(bits) /\ 0 + 1 = 1 /\ 0 + e = e
        BY <2>0, <2>7, <3>1
      <3>3. SubSeq(bits, 0 + 1, 0 + e) \in Seq(Bit) /\ Len(SubSeq(bits, 0 + 1, 0 + e)) = e
        BY <2>0, <3>2, Part
      <3>4. SubSeq(bits, 1, e) \in Seq(Bit) /\ Len(SubSeq(bits, 1, e)) = e
        BY <3>2, <3>3
      <3> QED BY <1>0, <2>1, <3>1, <3>4, ConcatProperties
    <2> QED BY <1>1, <2>1, <2>8, <2>10, <2>11
  <1>8. ASSUME NEW bits \in ByteRuns, WriteBytes(bits) PROVE WriterInv'
    <2>1. CASE bits = <<>>
      BY <1>0, <1>1, <1>8, <2>1 DEF WriteBytes
    <2>2. CASE bits # <<>>
      BY <1>6, <1>7, <1>8, <2>2 DEF WriteBytes
    <2> QED BY <2>1, <2>2
  <1>9. ASSUME Flush PROVE WriterInv'
    <2>1. writer' = Flushed(writer) /\ written' = written \o Padding(writer) /\ attached' = attached
      BY <1>9 DEF Flush
    <2> QED BY <1>1, <1>4, <1>5, <2>1
  <1>10. ASSUME WriterReset PROVE WriterInv'
    <2>1. DOMAIN writer.buffer = 1..N
      BY <1>0 DEF Holds
    <2> QED BY <1>0, <1>2, <1>10, <2>1 DEF WriterReset
  <1>11. ASSUME NEW aligned \in BOOLEAN, WriterSetBuffer(aligned) PROVE WriterInv'
    <2>1. CASE aligned
      <3>1. DOMAIN [i \in 1..(Bytes * ByteBits) |-> Unset] = 1..N
        BY DEF N
      <3>2. /\ attached' = TRUE /\ written' = <<>>
            /\ writer' = Fresh([i \in 1..(Bytes * ByteBits) |-> Unset])
        BY <1>11, <2>1 DEF WriterSetBuffer
      <3> QED BY <1>2, <3>1, <3>2
    <2>2. CASE ~aligned
      BY <1>0, <1>1, <1>11, <2>2 DEF WriterSetBuffer
    <2> QED BY <2>1, <2>2
  <1> QED BY <1>3, <1>8, <1>9, <1>10, <1>11 DEF WriterNext

\* The first clauses of BitsInPlace, from what the writer holds.
LEMMA WriterInPlace ==
  ASSUME WriterInv
  PROVE  BitsInPlace
  <1>0. /\ Holds(writer, written) /\ Len(written) <= Capacity
        /\ written \in Seq(Bit) /\ Len(written) \in Nat /\ writer.offset = Len(written)
        /\ writer.acc \in Seq(Bit) /\ Len(writer.acc) < AccBits
    BY HoldsParts DEF WriterInv
  <1>1. PICK a \in Nat, s \in Nat, n \in Nat :
           a = Len(writer.acc) /\ n = Len(written) /\ s = n - a /\ s % ByteBits = 0
    BY <1>0, HoldsParts
  <1>2. n = s + a
    BY <1>1
  <1>3. /\ \A i \in 1..s : writer.buffer[i] = written[i]
        /\ \A i \in 1..a : writer.acc[i] = written[s + i]
    BY <1>0, <1>1 DEF Holds
  <1>4. SubSeq(written, s + 1, n) = writer.acc
    <2>1. /\ SubSeq(written, s + 1, s + a) \in Seq(Bit)
          /\ Len(SubSeq(written, s + 1, s + a)) = a
          /\ \A i \in 1..a : SubSeq(written, s + 1, s + a)[i] = written[s + i]
      <3>1. s + a <= Len(written)
        BY <1>1, <1>2
      <3> QED BY <1>0, <3>1, Part
    <2> DEFINE z == SubSeq(written, s + 1, s + a)
    <2> HIDE DEF z
    <2>2. z \in Seq(Bit) /\ Len(z) = Len(writer.acc)
          /\ \A i \in 1..Len(z) : z[i] = writer.acc[i]
      <3>1. z \in Seq(Bit) /\ Len(z) = a /\ \A i \in 1..a : z[i] = written[s + i]
        BY <2>1 DEF z
      <3>2. a = Len(writer.acc) /\ \A i \in 1..a : writer.acc[i] = written[s + i]
        BY <1>1, <1>3
      <3>3. \A i \in 1..a : z[i] = writer.acc[i]
        BY <3>1, <3>2, Zenon
      <3>4. Len(z) = a /\ z \in Seq(Bit)
        BY <3>1
      <3> QED BY <3>2, <3>3, <3>4, Zenon
    <2>3. z = writer.acc
      BY <1>0, <2>2, SeqEqual
    <2> QED BY <1>2, <2>3 DEF z
  <1>5. writer.offset + Len(Padding(writer)) <= Capacity
    BY <1>0, PaddingIs, CapacityIs
  <1>6. writer.offset - Len(writer.acc) = s
    BY <1>0, <1>1
  <1> QED BY <1>0, <1>1, <1>3, <1>4, <1>5, <1>6 DEF BitsInPlace
-----------------------------------------------------------------------------
(***************************************************************************)
(* The reader.                                                             *)
(***************************************************************************)
\* A part of a part of a sequence.
LEMMA PartOfPart ==
  ASSUME NEW x \in Seq(Bit), NEW o \in Nat, NEW m \in Nat, o + m <= Len(x),
         NEW p \in Nat, NEW n \in Nat, p + n <= m
  PROVE  SubSeq(SubSeq(x, o + 1, o + m), p + 1, p + n)
            = SubSeq(x, (o + p) + 1, (o + p) + n)
  <1>0. Len(x) \in Nat
    BY LenProperties
  <1> DEFINE y == SubSeq(x, o + 1, o + m)
             u == SubSeq(y, p + 1, p + n)
             v == SubSeq(x, (o + p) + 1, (o + p) + n)
  <1>1. y \in Seq(Bit) /\ Len(y) = m /\ \A i \in 1..m : y[i] = x[o + i]
    BY Part
  <1> HIDE DEF y
  <1>2. u \in Seq(Bit) /\ Len(u) = n /\ \A i \in 1..n : u[i] = y[p + i]
    BY <1>1, Part
  <1>3. v \in Seq(Bit) /\ Len(v) = n /\ \A i \in 1..n : v[i] = x[(o + p) + i]
    <2>1. (o + p) + n <= Len(x) /\ o + p \in Nat
      BY <1>0
    <2>2. PICK k \in Nat : k = o + p
      BY <2>1
    <2>3. k + n <= Len(x)
      BY <2>1, <2>2
    <2>4. /\ SubSeq(x, k + 1, k + n) \in Seq(Bit) /\ Len(SubSeq(x, k + 1, k + n)) = n
          /\ \A i \in 1..n : SubSeq(x, k + 1, k + n)[i] = x[k + i]
      BY <2>3, Part
    <2> QED BY <2>2, <2>4
  <1> HIDE DEF u, v
  <1>4. ASSUME NEW i \in 1..n PROVE u[i] = v[i]
    <2>1. p + i \in 1..m /\ o + (p + i) = (o + p) + i
      OBVIOUS
    <2>2. u[i] = y[p + i] /\ y[p + i] = x[o + (p + i)] /\ v[i] = x[(o + p) + i]
      BY <1>1, <1>2, <1>3, <2>1
    <2> QED BY <2>1, <2>2
  <1>5. u = v
    <2>1. Len(u) = Len(v) /\ \A i \in 1..Len(u) : u[i] = v[i]
      BY <1>2, <1>3, <1>4
    <2> QED BY <1>2, <1>3, <2>1, SeqEqual
  <1> QED BY <1>5 DEF u, v, y

\* The accumulator a is ahead of position o of the bits x, up to whole bytes.
Ahead(x, o, a) ==
    /\ x \in Seq(Bit) /\ a \in Seq(Bit) /\ o \in Nat
    /\ Len(x) % ByteBits = 0
    /\ a = SubSeq(x, o + 1, o + Len(a))
    /\ o + Len(a) <= Len(x)
    /\ (o + Len(a)) % ByteBits = 0

\* Bits taken from the accumulator leave the rest of it ahead (advance, lines 202-221).
LEMMA AheadAdvanced ==
  ASSUME NEW x, NEW o, NEW a, Ahead(x, o, a), NEW n \in Nat, n <= Len(a)
  PROVE  Ahead(x, o + n, SubSeq(a, n + 1, Len(a)))
  <1>0. x \in Seq(Bit) /\ a \in Seq(Bit) /\ o \in Nat /\ Len(x) \in Nat /\ Len(a) \in Nat
    BY LenProperties DEF Ahead
  <1>1. PICK k \in Nat : Len(a) = n + k
    <2>1. Len(a) - n \in Nat /\ Len(a) = n + (Len(a) - n)
      BY <1>0
    <2> QED BY <2>1
  <1>2. PICK m \in Nat : m = Len(a) /\ o + m <= Len(x) /\ a = SubSeq(x, o + 1, o + m)
          /\ (o + m) % ByteBits = 0 /\ Len(x) % ByteBits = 0 /\ m = n + k
    BY <1>0, <1>1 DEF Ahead
  <1> DEFINE r == SubSeq(a, n + 1, n + k)
  <1>3. r \in Seq(Bit) /\ Len(r) = k
    <2>1. n + k <= Len(a)
      BY <1>0, <1>1
    <2> QED BY <1>0, <2>1, Part
  <1>4. r = SubSeq(x, (o + n) + 1, (o + n) + k)
    <2>1. n + k <= m
      <3>1. m = n + k
        BY <1>2
      <3> QED BY <3>1
    <2>2. SubSeq(SubSeq(x, o + 1, o + m), n + 1, n + k) = SubSeq(x, (o + n) + 1, (o + n) + k)
      BY <1>0, <1>2, <2>1, PartOfPart
    <2> QED BY <1>2, <2>2
  <1>5. (o + n) + k = o + m
    BY <1>0, <1>2
  <1>6. r = SubSeq(a, n + 1, Len(a))
    BY <1>1
  <1> HIDE DEF r
  <1>7. Ahead(x, o + n, r)
    BY <1>0, <1>2, <1>3, <1>4, <1>5 DEF Ahead
  <1> QED BY <1>6, <1>7

\* At the start, with nothing loaded, the accumulator is ahead.
LEMMA StartAhead ==
  ASSUME NEW x \in Seq(Bit), Len(x) % ByteBits = 0
  PROVE  Ahead(x, 0, <<>>)
  <1>1. Len(<<>>) = 0 /\ <<>> \in Seq(Bit) /\ Len(x) \in Nat
    BY LenProperties
  <1>2. SubSeq(x, 0 + 1, 0 + 0) = <<>>
    <2>1. 0 + 0 < 0 + 1
      OBVIOUS
    <2> QED BY <2>1, SubSeqEmpty
  <1>3. (0 + 0) % ByteBits = 0
    BY BitsAssumption
  <1> QED BY <1>1, <1>2, <1>3 DEF Ahead

ReaderInv ==
    /\ reading \in BOOLEAN
    /\ narrow \in BOOLEAN
    /\ IF reading THEN data = written ELSE data = <<>>
    /\ data \in Seq(Bit) /\ Len(data) % ByteBits = 0
    /\ narrow => Ahead(data, bit_offset, acc)
    /\ reading /\ last.result = "ok" /\ last.narrow =>
          last.value = SubSeq(written, last.at + 1, last.at + last.width)

\* What is loaded ahead (fill_accumulator, lines 147-157): the bytes that
\* follow, until they are all there or no more fits.
LEMMA FilledIs ==
  ASSUME Ahead(data, bit_offset, acc)
  PROVE  /\ Ahead(data, bit_offset, Filled)
         /\ Len(Filled) = remaining_bits \/ Len(Filled) > AccBits - ByteBits
  <1>0. /\ AccBits \in Nat \ {0} /\ ByteBits \in Nat \ {0} /\ ByteBits \in Int
        /\ data \in Seq(Bit) /\ acc \in Seq(Bit) /\ bit_offset \in Nat
        /\ Len(data) \in Nat /\ Len(acc) \in Nat /\ Len(data) % ByteBits = 0
    BY BitsAssumption, LenProperties DEF Ahead
  <1>1. PICK a \in Nat, e \in Nat, size \in Nat :
          /\ a = Len(acc) /\ e = bit_offset + a /\ size = Len(data)
          /\ e <= size /\ e % ByteBits = 0 /\ size % ByteBits = 0
          /\ acc = SubSeq(data, bit_offset + 1, e)
    <2>1. /\ acc = SubSeq(data, bit_offset + 1, bit_offset + Len(acc))
          /\ bit_offset + Len(acc) <= Len(data)
          /\ (bit_offset + Len(acc)) % ByteBits = 0
      BY DEF Ahead
    <2>2. PICK a \in Nat, size \in Nat, e \in Nat :
            a = Len(acc) /\ size = Len(data) /\ e = bit_offset + Len(acc)
      BY <1>0
    <2>3. e = bit_offset + a
      BY <2>2
    <2> QED BY <1>0, <2>1, <2>2, <2>3
  <1>2. PICK next \in Nat, all \in Nat :
          /\ next = e \div ByteBits /\ next * ByteBits = e
          /\ all = size \div ByteBits /\ all * ByteBits = size
    <2>1. e % ByteBits = 0 /\ size % ByteBits = 0 /\ ByteBits \in Nat \ {0}
      BY <1>0, <1>1
    <2>2. PICK next \in Nat : next = e \div ByteBits /\ next * ByteBits = e
      BY <2>1, Undivided
    <2>3. PICK all \in Nat : all = size \div ByteBits /\ all * ByteBits = size
      BY <2>1, Undivided
    <2> QED BY <2>2, <2>3
  <1>3. next <= all
    <2> SUFFICES ASSUME next >= all + 1 PROVE FALSE
      OBVIOUS
    <2>1. next * ByteBits >= (all + 1) * ByteBits
      BY <1>0
    <2>2. (all + 1) * ByteBits = all * ByteBits + ByteBits
      BY <1>0
    <2> QED BY <1>0, <1>1, <1>2, <2>1, <2>2
  <1> DEFINE most == AccBits - ByteBits
             fit  == IF a > most THEN 0 ELSE (most - a) \div ByteBits + 1
             left == all - next
             n    == IF left <= 0 THEN 0 ELSE IF fit <= left THEN fit ELSE left
  <1>4. Filled = acc \o SubSeq(data, e + 1, e + n * ByteBits)
    BY <1>1, <1>2 DEF Filled, ByteIndex, BitsFromByte
  <1>5. fit \in Nat /\ (fit > 0 => a + fit * ByteBits > most)
    <2>1. CASE a > most
      BY <2>1
    <2>2. CASE ~(a > most)
      <3>1. PICK d \in Nat : d = most - a
        BY <1>0, <2>2
      <3>2. PICK q \in Nat : q = d \div ByteBits
        <4>1. ByteBits \in Nat \ {0}
          BY <1>0
        <4> QED BY <4>1, QuotientIs
      <3>3. d < q * ByteBits + ByteBits
        BY <1>0, <3>2, Z3
      <3>4. fit = q + 1 /\ (q + 1) * ByteBits = q * ByteBits + ByteBits
        BY <1>0, <2>2, <3>1, <3>2
      <3>5. q * ByteBits \in Int /\ most \in Int
        BY <1>0
      <3> HIDE DEF fit, most
      <3> QED BY <1>0, <3>1, <3>3, <3>4, <3>5
    <2> QED BY <2>1, <2>2
  <1>6. /\ n \in Nat /\ n <= left
        /\ n = left \/ (n = fit /\ (fit > 0 \/ a > most))
    BY <1>0, <1>3, <1>5
  <1>7. PICK g \in Nat : g = n * ByteBits /\ g % ByteBits = 0 /\ e + g <= size
    <2>1. n * ByteBits <= left * ByteBits /\ n * ByteBits \in Nat
      BY <1>0, <1>3, <1>6
    <2>2. left * ByteBits = all * ByteBits - next * ByteBits
      BY <1>0
    <2>3. (n * ByteBits) % ByteBits = 0
      <3>1. ByteBits \in Nat \ {0} /\ n \in Int
        BY <1>0, <1>6
      <3> HIDE DEF n
      <3> QED BY <3>1, WholeTimes
    <2>4. left * ByteBits = size - e
      BY <1>2, <2>2
    <2> HIDE DEF n, left
    <2>5. e + n * ByteBits <= size
      BY <1>0, <1>3, <2>1, <2>4
    <2> QED BY <2>1, <2>3, <2>5
  <1> HIDE DEF n, fit, left, most
  <1>8. Filled = SubSeq(data, bit_offset + 1, e + g)
    <2>1. /\ bit_offset + 1 \in 1..(Len(data) + 1)
          /\ e \in ((bit_offset + 1) - 1)..Len(data) /\ e + g \in e..Len(data)
      BY <1>0, <1>1, <1>7
    <2>2. SubSeq(data, bit_offset + 1, e) \o SubSeq(data, e + 1, e + g)
            = SubSeq(data, bit_offset + 1, e + g)
      BY <1>0, <2>1, ConcatAdjacentSubSeq
    <2> QED BY <1>1, <1>4, <1>7, <2>2
  <1>9. Filled \in Seq(Bit) /\ Len(Filled) = a + g
    <2>1. PICK k \in Nat : k = a + g
      OBVIOUS
    <2>2. bit_offset + k = e + g /\ bit_offset + k <= Len(data)
      <3>1. e = bit_offset + a /\ size = Len(data) /\ e + g <= size
        BY <1>1, <1>7
      <3>2. bit_offset \in Nat
        BY <1>0
      <3> QED BY <2>1, <3>1, <3>2
    <2>3. /\ SubSeq(data, bit_offset + 1, bit_offset + k) \in Seq(Bit)
          /\ Len(SubSeq(data, bit_offset + 1, bit_offset + k)) = k
      <3>1. data \in Seq(Bit) /\ bit_offset \in Nat
        BY <1>0
      <3> QED BY <2>2, <3>1, Part
    <2> QED BY <1>8, <2>1, <2>2, <2>3
  <1>10. (e + g) % ByteBits = 0
    <2>1. e \in Int /\ g \in Int
      OBVIOUS
    <2> QED BY <1>0, <1>1, <1>7, <2>1, WholeSum, Zenon
  <1>11. bit_offset + Len(Filled) = e + g
    BY <1>0, <1>1, <1>9
  <1>12. Ahead(data, bit_offset, Filled)
    <2>1. bit_offset + Len(Filled) <= Len(data)
      BY <1>1, <1>7, <1>11
    <2> HIDE DEF Filled
    <2> QED BY <1>0, <1>8, <1>9, <1>10, <1>11, <2>1 DEF Ahead
  <1>13. Len(Filled) = remaining_bits \/ Len(Filled) > AccBits - ByteBits
    <2>1. CASE n = left
      <3>1. g = all * ByteBits - next * ByteBits
        BY <1>0, <1>7, <2>1 DEF left
      <3>2. g = size - e
        BY <1>2, <3>1
      <3>3. a + g = size - bit_offset
        BY <1>0, <1>1, <3>2
      <3> QED BY <1>1, <1>9, <3>3 DEF remaining_bits
    <2>2. CASE n = fit /\ (fit > 0 \/ a > most)
      <3>1. a + g > most
        <4>1. most \in Int
          BY <1>0 DEF most
        <4> QED BY <1>0, <1>5, <1>7, <2>2, <4>1
      <3> QED BY <1>9, <3>1 DEF most
    <2> QED BY <1>6, <2>1, <2>2
  <1> QED BY <1>12, <1>13

\* What peek_bits returns (lines 159-195) when it is not refused: from the
\* accumulator, or from it and the bytes behind it.
LEMMA PeekedIs ==
  ASSUME Ahead(data, bit_offset, acc), NEW n \in Nat, n # 0, Refusal(n) = "ok"
  PROVE  /\ n <= remaining_bits
         /\ n <= Ample => n <= Len(Filled)
         /\ Peeked(n) = SubSeq(data, bit_offset + 1, bit_offset + n)
  <1>0. /\ AccBits \in Nat /\ ByteBits \in Nat \ {0} /\ n \in Nat
        /\ bit_offset \in Nat /\ Len(data) \in Nat /\ data \in Seq(Bit)
    BY BitsAssumption, LenProperties DEF Ahead
  <1>1. n <= AccBits /\ n <= remaining_bits
    BY <1>0 DEF Refusal, remaining_bits
  <1>2. PICK m \in Nat : /\ m = Len(Filled) /\ bit_offset + m <= Len(data)
                         /\ Filled = SubSeq(data, bit_offset + 1, bit_offset + m)
                         /\ (bit_offset + m) % ByteBits = 0
                         /\ m = remaining_bits \/ m > AccBits - ByteBits
    BY FilledIs, LenProperties DEF Ahead
  <1>3. n <= Ample => n <= m
    <2>1. CASE m = remaining_bits
      BY <1>1, <2>1
    <2>2. CASE m > AccBits - ByteBits
      BY <1>0, <2>2 DEF Ample
    <2> QED BY <1>2, <2>1, <2>2
  <1>4. CASE n <= m
    <2>1. Peeked(n) = SubSeq(Filled, 1, n)
      BY <1>2, <1>4 DEF Peeked
    <2>2. SubSeq(Filled, 1, n) = SubSeq(data, bit_offset + 1, bit_offset + n)
      <3>1. 0 + n <= m
        BY <1>0, <1>4
      <3>2. SubSeq(SubSeq(data, bit_offset + 1, bit_offset + m), 0 + 1, 0 + n)
               = SubSeq(data, (bit_offset + 0) + 1, (bit_offset + 0) + n)
        BY <1>0, <1>2, <3>1, PartOfPart
      <3>3. 0 + 1 = 1 /\ 0 + n = n /\ bit_offset + 0 = bit_offset
        BY <1>0
      <3> QED BY <1>2, <3>2, <3>3
    <2> QED BY <1>1, <1>2, <1>3, <2>1, <2>2
  <1>5. CASE ~(n <= m)
    <2>1. PICK e \in Nat : e = bit_offset + m /\ e % ByteBits = 0
      <3>1. bit_offset + m \in Nat
        BY <1>0
      <3> QED BY <1>2, <3>1, Zenon
    <2>2. PICK k \in Nat : k = e \div ByteBits /\ k * ByteBits = e
      <3>1. ByteBits \in Nat \ {0}
        BY <1>0
      <3> QED BY <2>1, <3>1, Undivided
    <2>3. PICK c \in Nat : c = n - m /\ e + c = bit_offset + n /\ e + c <= Len(data)
      <3>1. n - m \in Nat /\ e + (n - m) = bit_offset + n
        <4>1. e = bit_offset + m /\ bit_offset \in Nat /\ n \in Nat /\ m \in Nat /\ m < n
          BY <1>0, <1>5, <2>1
        <4> QED BY <4>1
      <3>2. bit_offset + n <= Len(data)
        BY <1>0, <1>1 DEF remaining_bits
      <3> QED BY <3>1, <3>2
    <2>4. Peeked(n) = SubSeq(data, bit_offset + 1, e) \o SubSeq(data, e + 1, e + c)
      <3>1. Peeked(n) = Filled \o BitsFromByte(ByteIndex(bit_offset + Len(Filled)), n - Len(Filled))
        BY <1>2, <1>5 DEF Peeked
      <3>2. BitsFromByte(k, c) = SubSeq(data, e + 1, e + c)
        BY <2>2 DEF BitsFromByte
      <3>3. ByteIndex(bit_offset + Len(Filled)) = k /\ n - Len(Filled) = c
        BY <1>2, <2>1, <2>2, <2>3 DEF ByteIndex
      <3> QED BY <1>2, <2>1, <3>1, <3>2, <3>3
    <2>5. /\ bit_offset + 1 \in 1..(Len(data) + 1)
          /\ e \in ((bit_offset + 1) - 1)..Len(data) /\ e + c \in e..Len(data)
      BY <1>0, <1>2, <2>1, <2>3
    <2>6. SubSeq(data, bit_offset + 1, e) \o SubSeq(data, e + 1, e + c)
             = SubSeq(data, bit_offset + 1, e + c)
      BY <1>0, <2>5, ConcatAdjacentSubSeq
    <2> QED BY <1>1, <1>2, <1>3, <2>3, <2>4, <2>6
  <1> QED BY <1>0, <1>2, <1>4, <1>5

\* What the last call returned, when it returned bits.
Answered ==
    last.result = "ok" /\ last.narrow =>
        last.value = SubSeq(data, last.at + 1, last.at + last.width)

LEMMA NoBits ==
  ASSUME NEW o \in Nat, NEW x
  PROVE  SubSeq(x, o + 1, o + 0) = <<>>
  <1>1. o + 0 < o + 1 /\ o + 1 \in Int /\ o + 0 \in Int
    OBVIOUS
  <1> QED BY <1>1, SubSeqEmpty

\* A call that returns no bits is right about them.
LEMMA AnsweredNone ==
  ASSUME bit_offset \in Nat, NEW n, NEW r, last' = Returned(n, <<>>, r),
         n = 0 \/ r # "ok"
  PROVE  Answered'
  <1>1. last'.at = bit_offset /\ last'.width = n /\ last'.value = <<>> /\ last'.result = r
    BY DEF Returned
  <1>2. CASE n = 0
    <2>1. SubSeq(data', bit_offset + 1, bit_offset + 0) = <<>>
      BY NoBits
    <2> QED BY <1>1, <1>2, <2>1 DEF Answered
  <1>3. CASE r # "ok"
    BY <1>1, <1>3 DEF Answered
  <1> QED BY <1>2, <1>3

\* Each call of a reader that has been narrow keeps the accumulator ahead, if it is
\* narrow itself, and returns the bits that are there, of whatever width.
LEMMA ReaderStep ==
  ASSUME Ahead(data, bit_offset, acc), narrow = TRUE, ReaderCall
  PROVE  /\ data' = data /\ narrow' \in BOOLEAN
         /\ narrow' => Ahead(data', bit_offset', acc')
         /\ Answered'
  <1>0. /\ bit_offset \in Nat /\ Len(data) \in Nat /\ data \in Seq(Bit) /\ acc \in Seq(Bit)
        /\ Len(acc) \in Nat /\ AccBits \in Nat
    BY LenProperties, BitsAssumption DEF Ahead
  <1>1. Ahead(data, bit_offset, Filled) /\ Filled \in Seq(Bit) /\ Len(Filled) \in Nat
    BY FilledIs, LenProperties DEF Ahead
  <1>2. ASSUME NEW a, Ahead(data, bit_offset, a), NEW n \in Nat, n <= Len(a), AdvanceOver(a, n)
        PROVE  Ahead(data', bit_offset', acc')
    <2>1. data' = data /\ bit_offset' = bit_offset + n /\ acc' = SubSeq(a, n + 1, Len(a))
      BY <1>2 DEF AdvanceOver, AdvanceFrom
    <2>2. Ahead(data, bit_offset + n, SubSeq(a, n + 1, Len(a)))
      BY <1>2, AheadAdvanced
    <2> QED BY <2>1, <2>2
  <1>3. ASSUME NEW n \in Nat, n # 0, Refusal(n) = "ok", data' = data,
               last' = Returned(n, Peeked(n), "ok")
        PROVE  Answered'
    <2>1. Peeked(n) = SubSeq(data, bit_offset + 1, bit_offset + n)
      BY <1>3, PeekedIs
    <2>2. /\ last'.at = bit_offset /\ last'.width = n /\ last'.value = Peeked(n)
      BY <1>3 DEF Returned
    <2> QED BY <1>3, <2>1, <2>2 DEF Answered
  <1>4. ASSUME NEW n \in Nat, Peek(n)
        PROVE  data' = data /\ narrow' = narrow /\ Ahead(data', bit_offset', acc') /\ Answered'
    <2>1. CASE n = 0 \/ Refusal(n) # "ok"
      <3>1. last' = Returned(n, <<>>, Refusal(n)) /\ data' = data
            /\ bit_offset' = bit_offset /\ acc' = acc /\ narrow' = narrow
        BY <1>4, <2>1 DEF Peek
      <3>2. Answered'
        BY <1>0, <2>1, <3>1, AnsweredNone
      <3> QED BY <3>1, <3>2
    <2>2. CASE ~(n = 0 \/ Refusal(n) # "ok")
      <3>1. last' = Returned(n, Peeked(n), "ok") /\ data' = data
            /\ bit_offset' = bit_offset /\ acc' = Filled /\ narrow' = narrow
        BY <1>4, <2>2 DEF Peek
      <3>2. Answered'
        BY <1>3, <2>2, <3>1
      <3> QED BY <1>1, <3>1, <3>2
    <2> QED BY <2>1, <2>2
  <1>5. ASSUME NEW n \in Nat, ReadBits(n)
        PROVE  /\ data' = data /\ narrow' \in BOOLEAN
               /\ narrow' => Ahead(data', bit_offset', acc')
               /\ Answered'
    <2>1. CASE n = 0 \/ Refusal(n) # "ok"
      <3>1. last' = Returned(n, <<>>, Refusal(n)) /\ data' = data
            /\ bit_offset' = bit_offset /\ acc' = acc /\ narrow' = narrow
        BY <1>5, <2>1 DEF ReadBits
      <3>2. Answered'
        BY <1>0, <2>1, <3>1, AnsweredNone
      <3> QED BY <3>1, <3>2
    <2>2. CASE ~(n = 0 \/ Refusal(n) # "ok")
      <3>1. /\ last' = Returned(n, Peeked(n), "ok") /\ AdvanceOver(Filled, n)
            /\ narrow' = (narrow /\ n <= Ample)
        BY <1>5, <2>2 DEF ReadBits
      <3>2. data' = data
        BY <3>1 DEF AdvanceOver, AdvanceFrom
      <3>3. narrow' => Ahead(data', bit_offset', acc')
        <4> SUFFICES ASSUME narrow' PROVE Ahead(data', bit_offset', acc')
          OBVIOUS
        <4>1. n <= Len(Filled)
          BY <2>2, <3>1, PeekedIs
        <4> QED BY <1>1, <1>2, <3>1, <4>1
      <3>4. Answered'
        BY <1>3, <2>2, <3>1, <3>2
      <3>5. narrow' \in BOOLEAN
        BY <3>1
      <3> QED BY <3>2, <3>3, <3>4, <3>5
    <2> QED BY <2>1, <2>2
  <1>6. ASSUME NEW n \in Nat, Advance(n)
        PROVE  /\ data' = data /\ narrow' \in BOOLEAN
               /\ narrow' => Ahead(data', bit_offset', acc')
               /\ Answered'
    <2>1. CASE n > remaining_bits
      <3>1. last' = Returned(0, <<>>, "Overflow") /\ data' = data
            /\ bit_offset' = bit_offset /\ acc' = acc /\ narrow' = narrow
        BY <1>6, <2>1 DEF Advance
      <3>2. Answered'
        BY <1>0, <3>1, AnsweredNone
      <3> QED BY <3>1, <3>2
    <2>2. CASE ~(n > remaining_bits)
      <3>1. /\ last' = Returned(0, <<>>, "ok") /\ AdvanceOver(acc, n)
            /\ narrow' = (narrow /\ n <= Len(acc))
        BY <1>6, <2>2 DEF Advance
      <3>2. data' = data
        BY <3>1 DEF AdvanceOver, AdvanceFrom
      <3>3. narrow' => Ahead(data', bit_offset', acc')
        BY <1>2, <3>1
      <3>4. Answered'
        BY <1>0, <3>1, AnsweredNone
      <3>5. narrow' \in BOOLEAN
        BY <3>1
      <3> QED BY <3>2, <3>3, <3>4, <3>5
    <2> QED BY <2>1, <2>2
  <1>7. ASSUME ReaderReset
        PROVE  data' = data /\ narrow' = TRUE /\ Ahead(data', bit_offset', acc') /\ Answered'
    <2>1. data' = data /\ bit_offset' = 0 /\ acc' = <<>> /\ last' = Placed /\ narrow' = TRUE
      BY <1>7 DEF ReaderReset
    <2>2. Ahead(data, 0, <<>>)
      BY StartAhead DEF Ahead
    <2>3. Answered'
      BY <2>1, NoBits DEF Answered, Placed
    <2> QED BY <2>1, <2>2, <2>3
  <1>8. 0..(AccBits + 1) \subseteq Nat
    BY <1>0
  <1> QED BY <1>4, <1>5, <1>6, <1>7, <1>8 DEF ReaderCall

\* A call of any other reader leaves it as it is or resets it.
LEMMA WideStep ==
  ASSUME narrow = FALSE, ReaderCall, data \in Seq(Bit), Len(data) % ByteBits = 0
  PROVE  /\ data' = data /\ narrow' \in BOOLEAN
         /\ narrow' => Ahead(data', bit_offset', acc')
         /\ Answered'
  <1>1. ASSUME NEW n, Peek(n) \/ ReadBits(n) \/ Advance(n)
        PROVE  data' = data /\ narrow' = FALSE /\ last'.narrow = FALSE
    <2>0. \A w, v, r : Returned(w, v, r).narrow = FALSE
      BY DEF Returned
    <2>1. CASE Peek(n)
      BY <2>0, <2>1 DEF Peek
    <2>2. CASE ReadBits(n)
      <3>1. CASE n = 0 \/ Refusal(n) # "ok"
        BY <2>0, <2>2, <3>1 DEF ReadBits
      <3>2. CASE ~(n = 0 \/ Refusal(n) # "ok")
        <4>1. last' = Returned(n, Peeked(n), "ok") /\ data' = data /\ narrow' = (narrow /\ n <= Ample)
          BY <2>2, <3>2 DEF ReadBits, AdvanceOver, AdvanceFrom
        <4> QED BY <2>0, <4>1
      <3> QED BY <3>1, <3>2
    <2>3. CASE Advance(n)
      <3>1. CASE n > remaining_bits
        BY <2>0, <2>3, <3>1 DEF Advance
      <3>2. CASE ~(n > remaining_bits)
        <4>1. last' = Returned(0, <<>>, "ok") /\ data' = data /\ narrow' = (narrow /\ n <= Len(acc))
          BY <2>3, <3>2 DEF Advance, AdvanceOver, AdvanceFrom
        <4> QED BY <2>0, <4>1
      <3> QED BY <3>1, <3>2
    <2> QED BY <1>1, <2>1, <2>2, <2>3
  <1>2. CASE ReaderReset
    <2>1. data' = data /\ bit_offset' = 0 /\ acc' = <<>> /\ last' = Placed /\ narrow' = TRUE
      BY <1>2 DEF ReaderReset
    <2>2. Ahead(data, 0, <<>>)
      BY StartAhead
    <2>3. Answered'
      BY <2>1, NoBits DEF Answered, Placed
    <2> QED BY <2>1, <2>2, <2>3
  <1> QED BY <1>1, <1>2 DEF ReaderCall, Answered

Inv == WriterInv /\ ReaderInv

LEMMA InvInit ==
  ASSUME Init
  PROVE  Inv
  <1>1. WriterInv
    <2>1. attached \in BOOLEAN /\ written = <<>>
          /\ writer = Fresh([i \in 1..(Bytes * ByteBits) |-> Unset])
      BY DEF Init, WriterInit
    <2>2. DOMAIN [i \in 1..(Bytes * ByteBits) |-> Unset] = 1..N
      BY DEF N
    <2>3. Holds(writer, written)
      BY <2>1, <2>2, FreshHolds
    <2>4. Len(written) <= Capacity
      BY <2>1, CapacityIs
    <2> QED BY <2>1, <2>3, <2>4 DEF WriterInv
  <1>2. ReaderInv
    <2>1. data = <<>> /\ bit_offset = 0 /\ acc = <<>> /\ reading = FALSE /\ narrow = TRUE
      BY DEF Init, ReaderInit
    <2>2. Ahead(data, bit_offset, acc)
      <3>1. Len(<<>>) = 0 /\ 0 % ByteBits = 0
        BY BitsAssumption
      <3>2. data \in Seq(Bit) /\ Len(data) % ByteBits = 0
        BY <2>1, <3>1
      <3>3. Ahead(data, 0, <<>>)
        BY <3>2, StartAhead
      <3> QED BY <2>1, <3>3
    <2>3. data \in Seq(Bit) /\ Len(data) % ByteBits = 0
      BY <2>2 DEF Ahead
    <2>4. reading \in BOOLEAN /\ narrow \in BOOLEAN /\ ~reading
      BY <2>1
    <2>5. IF reading THEN data = written ELSE data = <<>>
      BY <2>1
    <2>6. reading /\ last.result = "ok" /\ last.narrow =>
             last.value = SubSeq(written, last.at + 1, last.at + last.width)
      BY <2>4
    <2>7. narrow => Ahead(data, bit_offset, acc)
      BY <2>2
    <2> QED BY <2>3, <2>4, <2>5, <2>6, <2>7 DEF ReaderInv
  <1> QED BY <1>1, <1>2 DEF Inv

\* The writer's half, whatever the reader does.
LEMMA WriterInvStep ==
  ASSUME WriterInv, [Next]_vars
  PROVE  WriterInv'
  <1>1. ASSUME writerVars' = writerVars PROVE WriterInv'
    <2>1. attached' = attached /\ writer' = writer /\ written' = written
      BY <1>1 DEF writerVars
    <2> QED BY <2>1 DEF WriterInv, Capacity
  <1>2. CASE Write
    BY <1>2, WriterStep DEF Write
  <1>3. CASE Read
    BY <1>1, <1>3 DEF Read
  <1>4. ASSUME NEW aligned \in BOOLEAN, HandOver(aligned) \/ Reattach(aligned) PROVE WriterInv'
    BY <1>1, <1>4 DEF HandOver, Reattach
  <1>5. CASE UNCHANGED vars
    BY <1>1, <1>5 DEF vars
  <1> QED BY <1>2, <1>3, <1>4, <1>5 DEF Next

LEMMA InvStep ==
  ASSUME Inv, [Next]_vars
  PROVE  Inv'
  <1>0. /\ WriterInv /\ ReaderInv /\ reading \in BOOLEAN /\ narrow \in BOOLEAN
        /\ data \in Seq(Bit) /\ Len(data) % ByteBits = 0
        /\ narrow => Ahead(data, bit_offset, acc)
        /\ Holds(writer, written)
    BY DEF Inv, WriterInv, ReaderInv
  <1>00. WriterInv'
    BY <1>0, WriterInvStep
  <1>1. CASE Write
    <2>2. /\ ~reading /\ reading' = reading /\ data' = data
          /\ bit_offset' = bit_offset /\ acc' = acc /\ narrow' = narrow
      BY <1>1 DEF Write, readerVars
    <2>3. ReaderInv'
      BY <1>0, <2>2 DEF ReaderInv
    <2> QED BY <1>00, <2>3 DEF Inv
  <1>2. ASSUME writerVars' = writerVars PROVE written' = written
    BY <1>2 DEF writerVars
  <1>3. CASE Read
    <2>1. WriterInv' /\ written' = written /\ reading /\ reading' = reading
      BY <1>00, <1>2, <1>3 DEF Read
    <2>2. /\ data' = data /\ narrow' \in BOOLEAN
          /\ narrow' => Ahead(data', bit_offset', acc')
          /\ Answered'
      BY <1>0, <1>3, ReaderStep, WideStep DEF Read
    <2>3. data = written
      BY <1>0, <2>1 DEF ReaderInv
    <2>4. ReaderInv'
      BY <1>0, <2>1, <2>2, <2>3 DEF ReaderInv, Answered
    <2> QED BY <2>1, <2>4 DEF Inv
  <1>4. ASSUME NEW aligned \in BOOLEAN, HandOver(aligned) PROVE Inv'
    <2>1. /\ WriterInv' /\ written' = written /\ ~reading /\ writer.acc = <<>>
          /\ reading' = aligned
      BY <1>00, <1>2, <1>4 DEF HandOver
    <2>2. CASE ~aligned
      <3>1. /\ data' = data /\ bit_offset' = bit_offset /\ acc' = acc /\ ~reading'
            /\ narrow' = narrow
        BY <1>4, <2>1, <2>2 DEF HandOver, ReaderSetBuffer
      <3> QED BY <1>0, <2>1, <3>1 DEF Inv, ReaderInv
    <2>3. CASE aligned
      <3>1. /\ data' = SubSeq(writer.buffer, 1, writer.offset) /\ bit_offset' = 0
            /\ acc' = <<>> /\ last'.at = 0 /\ last'.width = 0 /\ last'.value = <<>>
            /\ narrow' = TRUE
        BY <1>4, <2>3 DEF HandOver, ReaderSetBuffer, Placed
      <3>2. /\ written \in Seq(Bit) /\ Len(written) \in Nat /\ writer.offset = Len(written)
            /\ Len(written) % ByteBits = 0
            /\ \A i \in 1..Len(written) : writer.buffer[i] = written[i]
        <4>1. Len(writer.acc) = 0 /\ Len(written) - 0 = Len(written)
          BY <1>0, <2>1, HoldsParts
        <4> QED BY <1>0, <4>1, HoldsParts DEF Holds
      <3>3. data' = written
        <4> DEFINE z == SubSeq(writer.buffer, 1, Len(written))
        <4>1. \A i \in 1..Len(written) : writer.buffer[i] \in Bit
          BY <3>2, ElementOfSeq
        <4>2. /\ z \in Seq(Bit)
              /\ Len(z) = IF 1 <= Len(written) THEN Len(written) - 1 + 1 ELSE 0
              /\ \A i \in 1..(Len(written) - 1 + 1) : z[i] = writer.buffer[1 + i - 1]
          BY <3>2, <4>1, SubSeqProperties
        <4> HIDE DEF z
        <4>3. Len(z) = Len(written) /\ \A i \in 1..Len(z) : z[i] = written[i]
          BY <3>2, <4>2
        <4>4. z = written
          BY <3>2, <4>2, <4>3, SeqEqual
        <4> QED BY <3>1, <3>2, <4>4 DEF z
      <3>4. Ahead(data', bit_offset', acc')
        BY <3>1, <3>2, <3>3, StartAhead
      <3>5. last'.value = SubSeq(written', last'.at + 1, last'.at + last'.width)
        BY <3>1, NoBits
      <3>6. ReaderInv'
        BY <2>1, <2>3, <3>1, <3>3, <3>4, <3>5 DEF ReaderInv, Ahead
      <3> QED BY <2>1, <3>6 DEF Inv
    <2> QED BY <2>2, <2>3
  <1>5. ASSUME NEW aligned \in BOOLEAN, Reattach(aligned) PROVE Inv'
    <2>1. WriterInv' /\ written' = written /\ reading /\ reading' = reading /\ data = written
      BY <1>0, <1>00, <1>2, <1>5 DEF Reattach, ReaderInv
    <2>2. CASE ~aligned
      <3>1. /\ data' = data /\ bit_offset' = bit_offset /\ acc' = acc
            /\ last' = Returned(0, <<>>, "AlignmentError") /\ narrow' = narrow
        BY <1>5, <2>2 DEF Reattach, ReaderSetBuffer
      <3>2. last'.result # "ok"
        BY <3>1 DEF Returned
      <3> QED BY <1>0, <2>1, <3>1, <3>2 DEF Inv, ReaderInv
    <2>3. CASE aligned
      <3>1. /\ data' = data /\ bit_offset' = 0 /\ acc' = <<>>
            /\ last'.at = 0 /\ last'.width = 0 /\ last'.value = <<>> /\ narrow' = TRUE
        BY <1>5, <2>3 DEF Reattach, ReaderSetBuffer, Placed
      <3>2. Ahead(data', bit_offset', acc')
        BY <1>0, <3>1, StartAhead
      <3>3. last'.value = SubSeq(written', last'.at + 1, last'.at + last'.width)
        BY <3>1, NoBits
      <3>4. ReaderInv'
        BY <2>1, <3>1, <3>2, <3>3 DEF ReaderInv, Ahead
      <3> QED BY <2>1, <3>4 DEF Inv
    <2> QED BY <2>2, <2>3
  <1>6. CASE UNCHANGED vars
    <2>1. /\ written' = written /\ data' = data
          /\ bit_offset' = bit_offset /\ acc' = acc /\ last' = last /\ reading' = reading
          /\ narrow' = narrow
      BY <1>6 DEF vars, writerVars, readerVars
    <2> QED BY <1>0, <1>00, <2>1 DEF Inv, ReaderInv
  <1> QED BY <1>1, <1>3, <1>4, <1>5, <1>6 DEF Next

\* Whatever is written, in whatever calls, every accepted bit is at its place
\* in the buffer or in the accumulator.
THEOREM BitsInPlaceHolds == Spec => []BitsInPlace
  <1>1. Init => WriterInv
    BY InvInit DEF Inv
  <1>2. WriterInv /\ [Next]_vars => WriterInv'
    BY WriterInvStep
  <1>3. WriterInv => BitsInPlace
    BY WriterInPlace
  <1> QED BY <1>1, <1>2, <1>3, PTL DEF Spec

\* While no read was wider than 57 bits and no advance went past the accumulator, that
\* is ahead of the reader's position by the bits that follow (lines 147-233).
THEOREM AccIsAheadHolds == Spec => []AccIsAhead
  <1>1. Init => Inv
    BY InvInit
  <1>2. Inv /\ [Next]_vars => Inv'
    BY InvStep
  <1>3. Inv => AccIsAhead
    BY DEF Inv, ReaderInv, Ahead, AccIsAhead
  <1> QED BY <1>1, <1>2, <1>3, PTL DEF Spec

\* What a read of any width returns after such calls is what was written there.
THEOREM WrittenIsReadHolds == Spec => []WrittenIsRead
  <1>1. Init => Inv
    BY InvInit
  <1>2. Inv /\ [Next]_vars => Inv'
    BY InvStep
  <1>3. Inv => WrittenIsRead
    BY DEF Inv, ReaderInv, WrittenIsRead, Right
  <1> QED BY <1>1, <1>2, <1>3, PTL DEF Spec
=============================================================================
