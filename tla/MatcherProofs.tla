---------------------------- MODULE MatcherProofs ----------------------------
(***************************************************************************)
(* Proofs about AhoCorasick: for any alphabet, keywords, files and number  *)
(* of writers, the links that build makes are the right ones, a search     *)
(* finds what Matcher promises, and the calls of the writers are calls of  *)
(* Matcher.                                                                *)
(***************************************************************************)
EXTENDS AhoCorasick, SequenceTheorems, WellFoundedInduction, TLAPS

(***************************************************************************)
(* Induction over the natural numbers, for a set.                          *)
(***************************************************************************)
\* A set of natural numbers that is not empty has a least element.
LEMMA Least ==
  ASSUME NEW T \in SUBSET Nat, T # {}
  PROVE  \E m \in T : \A k \in T : m <= k
  <1> DEFINE R == {p \in Nat \X Nat : p[1] < p[2]}
  <1>1. IsWellFoundedOn(R, Nat)
    BY NatLessThanWellFounded DEF OpToRel
  <1>2. \A k, m \in Nat : <<k, m>> \notin R => m <= k
    OBVIOUS
  <1> HIDE DEF R
  <1>3. PICK m \in T : \A k \in T : <<k, m>> \notin R
    BY <1>1, WFMin
  <1> QED BY <1>2, <1>3, Zenon

\* A set that has zero, and with each number the next, has them all.
LEMMA Induct ==
  ASSUME NEW T, 0 \in T, \A k \in Nat : k \in T => k + 1 \in T
  PROVE  \A n \in Nat : n \in T
  <1> DEFINE Bad == Nat \ T
  <1> SUFFICES ASSUME Bad # {} PROVE FALSE
    OBVIOUS
  <1>1. Bad \in SUBSET Nat
    OBVIOUS
  <1>2. PICK m \in Bad : \A k \in Bad : m <= k
    <2> HIDE DEF Bad
    <2> QED BY <1>1, Least
  <1>3. m # 0 /\ m - 1 \in Nat /\ m - 1 \notin Bad
    BY <1>1, <1>2
  <1> QED BY <1>3

(***************************************************************************)
(* Strings of characters and their suffixes.                               *)
(***************************************************************************)
Strings == Seq(Characters)

Suffix(p, s) ==
    /\ Len(p) <= Len(s)
    /\ \A i \in 1..Len(p) : p[i] = s[(Len(s) - Len(p)) + i]

\* A string with a character more.
LEMMA OneMore ==
  ASSUME NEW s \in Strings, NEW c \in Characters, NEW n \in Nat, n = Len(s)
  PROVE  /\ Append(s, c) \in Strings /\ Len(Append(s, c)) = n + 1
         /\ \A i \in 1..n : Append(s, c)[i] = s[i]
         /\ Append(s, c)[n + 1] = c
         /\ Append(s, c) # Root
  <1>1. /\ Append(s, c) \in Seq(Characters) /\ Len(Append(s, c)) = Len(s) + 1
        /\ \A i \in 1..Len(s) : Append(s, c)[i] = s[i]
        /\ Append(s, c)[Len(s) + 1] = c
    BY AppendProperties DEF Strings
  <1>2. Append(s, c) # <<>>
    BY AppendProperties DEF Strings
  <1> QED BY <1>1, <1>2 DEF Strings, Root

\* A prefix of a string.
LEMMA PrefixIs ==
  ASSUME NEW s \in Strings, NEW k \in Nat, k <= Len(s)
  PROVE  /\ SubSeq(s, 1, k) \in Strings /\ Len(SubSeq(s, 1, k)) = k
         /\ \A i \in 1..k : SubSeq(s, 1, k)[i] = s[i]
  <1>1. Len(s) \in Nat /\ \A i \in 1..k : s[i] \in Characters
    BY LenProperties, ElementOfSeq DEF Strings
  <1>2. /\ SubSeq(s, 1, k) \in Seq(Characters)
        /\ Len(SubSeq(s, 1, k)) = IF 1 <= k THEN k - 1 + 1 ELSE 0
        /\ \A i \in 1..(k - 1 + 1) : SubSeq(s, 1, k)[i] = s[1 + i - 1]
    BY <1>1, SubSeqProperties
  <1> DEFINE z == SubSeq(s, 1, k)
  <1> HIDE DEF z
  <1>3. Len(z) = k
    BY <1>2 DEF z
  <1>4. ASSUME NEW i \in 1..k PROVE z[i] = s[i]
    <2>1. i \in 1..(k - 1 + 1) /\ 1 + i - 1 = i
      OBVIOUS
    <2>2. z[i] = s[1 + i - 1]
      BY <1>2, <2>1 DEF z
    <2> QED BY <2>1, <2>2
  <1> QED BY <1>2, <1>3, <1>4 DEF z, Strings

\* Two strings of the same length and characters.
LEMMA SameString ==
  ASSUME NEW s \in Strings, NEW t \in Strings, Len(s) = Len(t),
         \A i \in 1..Len(s) : s[i] = t[i]
  PROVE  s = t
  BY SeqEqual DEF Strings

\* A string is its front and its last character.
LEMMA FrontAndLast ==
  ASSUME NEW s \in Strings, s # Root
  PROVE  /\ Len(s) \in Nat /\ Len(s) >= 1
         /\ Front(s) \in Strings /\ Len(Front(s)) = Len(s) - 1
         /\ Last(s) \in Characters /\ s = Append(Front(s), Last(s))
         /\ \A i \in 1..(Len(s) - 1) : Front(s)[i] = s[i]
  <1>1. PICK n \in Nat : n = Len(s) /\ n >= 1
    <2>1. Len(s) \in Nat /\ (Len(s) = 0 => s = <<>>)
      BY LenProperties, EmptySeq DEF Strings
    <2> QED BY <2>1 DEF Root
  <1>2. PICK m \in Nat : m = n - 1 /\ m <= n
    <2>1. n - 1 \in Nat /\ n - 1 <= n
      BY <1>1
    <2> QED BY <2>1
  <1>3. /\ Front(s) \in Strings /\ Len(Front(s)) = m
        /\ \A i \in 1..m : Front(s)[i] = s[i]
    BY <1>1, <1>2, PrefixIs DEF Front
  <1>4. Last(s) = s[n] /\ Last(s) \in Characters
    <2>1. n \in 1..Len(s)
      BY <1>1
    <2> QED BY <1>1, <2>1, ElementOfSeq DEF Last, Strings
  <1> DEFINE a == Append(Front(s), Last(s))
  <1>5. /\ a \in Strings /\ Len(a) = m + 1 /\ a[m + 1] = s[n]
        /\ \A i \in 1..m : a[i] = Front(s)[i]
    BY <1>3, <1>4, OneMore
  <1> HIDE DEF a
  <1>6. ASSUME NEW i \in 1..n PROVE s[i] = a[i]
    <2>1. CASE i = n
      BY <1>2, <1>5, <2>1
    <2>2. CASE i # n
      <3>1. i \in 1..m
        BY <1>2, <2>2
      <3> QED BY <1>3, <1>5, <3>1
    <2> QED BY <2>1, <2>2
  <1>7. Len(s) = Len(a)
    BY <1>1, <1>2, <1>5
  <1>8. s = a
    BY <1>1, <1>5, <1>6, <1>7, SameString
  <1> QED BY <1>1, <1>2, <1>3, <1>4, <1>8 DEF a

\* The front and the last character of a string with one more.
LEMMA FrontOfMore ==
  ASSUME NEW s \in Strings, NEW c \in Characters
  PROVE  Front(Append(s, c)) = s /\ Last(Append(s, c)) = c
  <1>1. PICK n \in Nat : n = Len(s)
    BY LenProperties DEF Strings
  <1> DEFINE a == Append(s, c)
  <1>2. /\ a \in Strings /\ Len(a) = n + 1 /\ a[n + 1] = c /\ a # Root
        /\ \A i \in 1..n : a[i] = s[i]
    BY <1>1, OneMore
  <1> HIDE DEF a
  <1>3. /\ Front(a) \in Strings /\ Len(Front(a)) = Len(a) - 1
        /\ \A i \in 1..(Len(a) - 1) : Front(a)[i] = a[i]
    BY <1>2, FrontAndLast
  <1>4. Len(a) - 1 = n
    BY <1>2
  <1>5. \A i \in 1..n : Front(a)[i] = s[i]
    BY <1>2, <1>3, <1>4
  <1>6. Front(a) = s
    BY <1>1, <1>3, <1>4, <1>5, SameString
  <1>7. Last(a) = c
    BY <1>2 DEF Last
  <1> QED BY <1>6, <1>7 DEF a

\* The suffixes of a string: itself, the empty one, and of two of them the
\* shorter is a suffix of the longer.
LEMMA SuffixEnds ==
  ASSUME NEW s \in Strings
  PROVE  Suffix(s, s) /\ Suffix(Root, s) /\ Root \in Strings /\ Len(Root) = 0
  <1>1. Len(s) \in Nat /\ Len(Root) = 0 /\ Root \in Strings
    BY LenProperties DEF Strings, Root
  <1>2. \A i \in 1..Len(s) : (Len(s) - Len(s)) + i = i
    BY <1>1
  <1>3. Suffix(s, s)
    BY <1>1, <1>2 DEF Suffix
  <1>4. Suffix(Root, s)
    BY <1>1 DEF Suffix
  <1> QED BY <1>1, <1>3, <1>4

LEMMA SuffixOfLonger ==
  ASSUME NEW s \in Strings, NEW p \in Strings, NEW q \in Strings,
         Suffix(p, s), Suffix(q, s), Len(p) <= Len(q)
  PROVE  Suffix(p, q)
  <1>1. PICK k \in Nat, m \in Nat, n \in Nat : k = Len(p) /\ m = Len(q) /\ n = Len(s)
    BY LenProperties DEF Strings
  <1>2. /\ k <= m /\ m <= n
        /\ \A i \in 1..k : p[i] = s[(n - k) + i]
        /\ \A i \in 1..m : q[i] = s[(n - m) + i]
    BY <1>1 DEF Suffix
  <1>3. ASSUME NEW i \in 1..k PROVE p[i] = q[(m - k) + i]
    <2>1. (m - k) + i \in 1..m /\ (n - m) + ((m - k) + i) = (n - k) + i
      BY <1>2
    <2>2. q[(m - k) + i] = s[(n - m) + ((m - k) + i)]
      BY <1>2, <2>1
    <2>3. p[i] = s[(n - k) + i]
      BY <1>2
    <2> QED BY <2>1, <2>2, <2>3
  <1> QED BY <1>1, <1>2, <1>3 DEF Suffix

LEMMA SuffixSame ==
  ASSUME NEW p \in Strings, NEW q \in Strings, Suffix(p, q), Len(p) = Len(q)
  PROVE  p = q
  <1>1. PICK n \in Nat : n = Len(p) /\ n = Len(q)
    BY LenProperties DEF Strings
  <1>2. \A i \in 1..n : p[i] = q[(n - n) + i]
    BY <1>1 DEF Suffix
  <1>3. \A i \in 1..n : (n - n) + i = i
    OBVIOUS
  <1>4. \A i \in 1..n : p[i] = q[i]
    BY <1>2, <1>3
  <1> QED BY <1>1, <1>4, SameString

LEMMA SuffixOfSuffix ==
  ASSUME NEW p \in Strings, NEW q \in Strings, NEW s \in Strings,
         Suffix(p, q), Suffix(q, s)
  PROVE  Suffix(p, s)
  <1>1. PICK k \in Nat, m \in Nat, n \in Nat : k = Len(p) /\ m = Len(q) /\ n = Len(s)
    BY LenProperties DEF Strings
  <1>2. /\ k <= m /\ m <= n
        /\ \A i \in 1..k : p[i] = q[(m - k) + i]
        /\ \A i \in 1..m : q[i] = s[(n - m) + i]
    BY <1>1 DEF Suffix
  <1>3. ASSUME NEW i \in 1..k PROVE p[i] = s[(n - k) + i]
    <2>1. (m - k) + i \in 1..m /\ (n - m) + ((m - k) + i) = (n - k) + i
      BY <1>2
    <2>2. q[(m - k) + i] = s[(n - m) + ((m - k) + i)]
      BY <1>2, <2>1
    <2>3. p[i] = q[(m - k) + i]
      BY <1>2
    <2> QED BY <2>1, <2>2, <2>3
  <1>4. k <= n
    BY <1>2
  <1> QED BY <1>1, <1>3, <1>4 DEF Suffix

\* Suffixes grow and shrink by the last character.
LEMMA SuffixMore ==
  ASSUME NEW p \in Strings, NEW s \in Strings, NEW c \in Characters, Suffix(p, s)
  PROVE  Suffix(Append(p, c), Append(s, c))
  <1>1. PICK k \in Nat, n \in Nat : k = Len(p) /\ n = Len(s)
    BY LenProperties DEF Strings
  <1>2. k <= n /\ \A i \in 1..k : p[i] = s[(n - k) + i]
    BY <1>1 DEF Suffix
  <1> DEFINE a == Append(p, c)
             b == Append(s, c)
  <1>3. Len(a) = k + 1 /\ a[k + 1] = c /\ \A i \in 1..k : a[i] = p[i]
    BY <1>1, OneMore
  <1>4. Len(b) = n + 1 /\ b[n + 1] = c /\ \A i \in 1..n : b[i] = s[i]
    BY <1>1, OneMore
  <1> HIDE DEF a, b
  <1>5. (n + 1) - (k + 1) = n - k
    OBVIOUS
  <1>6. ASSUME NEW i \in 1..(k + 1) PROVE a[i] = b[(n - k) + i]
    <2>1. CASE i = k + 1
      <3>1. (n - k) + (k + 1) = n + 1
        OBVIOUS
      <3> QED BY <1>3, <1>4, <2>1, <3>1
    <2>2. CASE i # k + 1
      <3>1. i \in 1..k /\ (n - k) + i \in 1..n
        BY <1>2, <2>2
      <3>2. a[i] = p[i] /\ p[i] = s[(n - k) + i] /\ b[(n - k) + i] = s[(n - k) + i]
        BY <1>2, <1>3, <1>4, <3>1
      <3> QED BY <3>2
    <2> QED BY <2>1, <2>2
  <1>7. k + 1 <= n + 1
    BY <1>2
  <1>8. Suffix(a, b)
    BY <1>3, <1>4, <1>5, <1>6, <1>7 DEF Suffix
  <1> QED BY <1>8 DEF a, b

LEMMA SuffixLess ==
  ASSUME NEW q \in Strings, NEW s \in Strings, NEW c \in Characters, q # Root,
         Suffix(q, Append(s, c))
  PROVE  Last(q) = c /\ Suffix(Front(q), s)
  <1>1. PICK m \in Nat, n \in Nat : Len(q) = m + 1 /\ n = Len(s) /\ m = Len(q) - 1
    <2>1. Len(q) \in Nat /\ Len(q) >= 1
      BY FrontAndLast
    <2>2. Len(q) - 1 \in Nat /\ Len(q) = (Len(q) - 1) + 1
      BY <2>1
    <2>3. Len(s) \in Nat
      BY LenProperties DEF Strings
    <2> QED BY <2>2, <2>3
  <1> DEFINE b == Append(s, c)
             f == Front(q)
  <1>2. Len(b) = n + 1 /\ b[n + 1] = c /\ \A i \in 1..n : b[i] = s[i]
    BY <1>1, OneMore
  <1>3. Len(f) = m /\ \A i \in 1..m : f[i] = q[i]
    BY <1>1, FrontAndLast
  <1>4. Len(q) <= Len(b) /\ \A i \in 1..Len(q) : q[i] = b[(Len(b) - Len(q)) + i]
    BY DEF Suffix
  <1> HIDE DEF b, f
  <1>5. m <= n /\ \A i \in 1..(m + 1) : q[i] = b[(n - m) + i]
    <2>1. (n + 1) - (m + 1) = n - m
      OBVIOUS
    <2>2. Len(q) = m + 1 /\ Len(b) = n + 1 /\ Len(b) - Len(q) = n - m
      BY <1>1, <1>2, <2>1
    <2>3. m + 1 <= n + 1
      BY <1>4, <2>2
    <2>4. \A i \in 1..(m + 1) : q[i] = b[(n - m) + i]
      BY <1>4, <2>2
    <2> QED BY <2>3, <2>4
  <1>6. Last(q) = c
    <2>1. m + 1 \in 1..(m + 1) /\ (n - m) + (m + 1) = n + 1
      OBVIOUS
    <2>2. q[m + 1] = b[n + 1]
      BY <1>5, <2>1
    <2> QED BY <1>1, <1>2, <2>2 DEF Last
  <1>7. ASSUME NEW i \in 1..m PROVE f[i] = s[(n - m) + i]
    <2>1. i \in 1..(m + 1) /\ (n - m) + i \in 1..n
      BY <1>5
    <2>2. f[i] = q[i] /\ q[i] = b[(n - m) + i] /\ b[(n - m) + i] = s[(n - m) + i]
      BY <1>2, <1>3, <1>5, <2>1
    <2> QED BY <2>2
  <1>8. Suffix(f, s)
    BY <1>1, <1>3, <1>5, <1>7 DEF Suffix
  <1> QED BY <1>6, <1>8 DEF f

-----------------------------------------------------------------------------
(***************************************************************************)
(* The trie.                                                               *)
(***************************************************************************)
\* Links that end: each leads to a shallower node, until the root.
Shortens(link, nodes) ==
    /\ link \in [nodes -> nodes]
    /\ \A n \in nodes : n # Root => Len(link[n]) < Len(n)

\* The nodes are strings with their prefixes, as deep as the longest keyword.
NodesOK(nodes) ==
    /\ Root \in nodes /\ nodes \subseteq Strings
    /\ \A n \in nodes : Prefixes(n) \subseteq nodes
    /\ \E b \in Nat : \A n \in nodes : Len(n) <= b

TrieOK(t) ==
    /\ t = [nodes |-> t.nodes, fail_link |-> t.fail_link,
            output_link |-> t.output_link, patterns |-> t.patterns]
    /\ NodesOK(t.nodes)
    /\ t.patterns \in [t.nodes -> Nat] /\ t.patterns[Root] = 0
    /\ Shortens(t.fail_link, t.nodes)
    /\ Shortens(t.output_link, t.nodes) /\ t.output_link[Root] = Root

\* The parent of a node is a node.
LEMMA ParentIs ==
  ASSUME NEW nodes, NodesOK(nodes), NEW n \in nodes, n # Root
  PROVE  Front(n) \in nodes /\ Front(n) \in Strings /\ n \in Strings
  <1>1. n \in Strings /\ Prefixes(n) \subseteq nodes
    BY DEF NodesOK
  <1>2. Len(n) \in Nat /\ Len(n) >= 1 /\ Front(n) \in Strings
    BY <1>1, FrontAndLast
  <1>3. Len(n) - 1 \in 0..Len(n)
    BY <1>2
  <1>4. Front(n) \in Prefixes(n)
    BY <1>3 DEF Front, Prefixes
  <1> QED BY <1>1, <1>2, <1>4

\* A recursion along links: where it stops, what it returns there, and what it
\* makes of the result for the link elsewhere.
Walk(nodes, link, stop, S, base, step) ==
    /\ nodes \subseteq Strings /\ \E b \in Nat : \A m \in nodes : Len(m) <= b
    /\ link \in [nodes -> nodes] /\ stop \subseteq nodes
    /\ \A m \in nodes \ stop : Len(link[m]) < Len(m)
    /\ base \in [nodes -> S] /\ step \in [nodes \X S -> S]

\* A recursion along links that shorten has a result.
LEMMA WalkExists ==
  ASSUME NEW nodes, NEW link, NEW stop, NEW S, NEW base, NEW step,
         Walk(nodes, link, stop, S, base, step)
  PROVE  \E g \in [nodes -> S] : \A m \in nodes :
            g[m] = IF m \in stop THEN base[m] ELSE step[<<m, g[link[m]]>>]
  <1> DEFINE Upto(k) == {m \in nodes : Len(m) <= k}
             Is(g, k) == \A m \in Upto(k) :
                g[m] = IF m \in stop THEN base[m] ELSE step[<<m, g[link[m]]>>]
             T == {k \in Nat : \E g \in [Upto(k) -> S] : Is(g, k)}
  <1> USE DEF Walk
  <1>00. PICK b \in Nat : \A m \in nodes : Len(m) <= b
    OBVIOUS
  <1>0. \A m \in nodes : Len(m) \in Nat
    BY LenProperties DEF Strings
  <1>1. 0 \in T
    <2>1. \A m \in Upto(0) : m \in stop
      BY <1>0
    <2>2. PICK g : g = [m \in Upto(0) |-> base[m]]
      OBVIOUS
    <2>3. g \in [Upto(0) -> S] /\ Is(g, 0)
      BY <2>1, <2>2
    <2> QED BY <2>3
  <1>2. ASSUME NEW k \in Nat, k \in T PROVE k + 1 \in T
    <2>1. PICK g \in [Upto(k) -> S] : Is(g, k)
      BY <1>2
    <2>2. \A m \in Upto(k + 1) \ stop : link[m] \in Upto(k)
      <3> SUFFICES ASSUME NEW m \in Upto(k + 1), m \notin stop PROVE link[m] \in Upto(k)
        OBVIOUS
      <3>1. m \in nodes /\ link[m] \in nodes /\ Len(m) <= k + 1
        OBVIOUS
      <3>2. Len(link[m]) < Len(m) /\ Len(m) \in Nat /\ Len(link[m]) \in Nat
        BY <1>0, <3>1
      <3>3. Len(link[m]) <= k
        BY <3>1, <3>2
      <3> QED BY <3>1, <3>3
    <2>3. PICK h : h = [m \in Upto(k + 1) |-> IF m \in stop THEN base[m]
                                               ELSE step[<<m, g[link[m]]>>]]
      OBVIOUS
    <2>4. Upto(k) \subseteq Upto(k + 1)
      BY <1>0
    <2>5. h \in [Upto(k + 1) -> S]
      <3> SUFFICES ASSUME NEW m \in Upto(k + 1) PROVE h[m] \in S
        BY <2>3
      <3>1. CASE m \in stop
        BY <2>3, <3>1
      <3>2. CASE m \notin stop
        <4>1. g[link[m]] \in S /\ m \in nodes
          BY <2>2, <3>2
        <4>2. step[<<m, g[link[m]]>>] \in S
          BY <4>1
        <4> QED BY <2>3, <3>2, <4>2
      <3> QED BY <3>1, <3>2
    <2>6. \A m \in Upto(k) : h[m] = g[m]
      BY <2>1, <2>3, <2>4
    <2>7. Is(h, k + 1)
      <3> SUFFICES ASSUME NEW m \in Upto(k + 1)
                   PROVE  h[m] = IF m \in stop THEN base[m] ELSE step[<<m, h[link[m]]>>]
        OBVIOUS
      <3>1. CASE m \in stop
        BY <2>3, <3>1
      <3>2. CASE m \notin stop
        <4>1. h[link[m]] = g[link[m]]
          BY <2>2, <2>6, <3>2
        <4>2. h[m] = step[<<m, g[link[m]]>>]
          BY <2>3, <3>2
        <4> QED BY <3>2, <4>1, <4>2
      <3> QED BY <3>1, <3>2
    <2> HIDE DEF Is, Upto
    <2> QED BY <2>5, <2>7
  <1> HIDE DEF T
  <1>3. b \in T
    BY <1>1, <1>2, Induct
  <1>4. Upto(b) = nodes
    BY <1>00
  <1> QED BY <1>3, <1>4 DEF T

\* The walk down the failure links, a step of it at a time (lines 185-187).
LEMMA FallbackIs ==
  ASSUME NEW t, NodesOK(t.nodes), Shortens(t.fail_link, t.nodes),
         NEW c, NEW n \in t.nodes
  PROVE  Fallback(t, n, c) = IF n = Root \/ HasChild(t, n, c) THEN n
                             ELSE Fallback(t, t.fail_link[n], c)
  <1>1. \E b \in Nat : \A m \in t.nodes : Len(m) <= b
    BY DEF NodesOK
  <1> DEFINE stop == {m \in t.nodes : m = Root \/ HasChild(t, m, c)}
             base == [m \in t.nodes |-> m]
             step == [p \in t.nodes \X t.nodes |-> p[2]]
  <1>2. \A m \in t.nodes \ stop : Len(t.fail_link[m]) < Len(m)
    BY DEF Shortens
  <1>3. /\ base \in [t.nodes -> t.nodes] /\ step \in [t.nodes \X t.nodes -> t.nodes]
        /\ t.fail_link \in [t.nodes -> t.nodes] /\ t.nodes \in SUBSET Strings
        /\ stop \in SUBSET t.nodes
    BY DEF Shortens, NodesOK
  <1>4. PICK g \in [t.nodes -> t.nodes] : \A m \in t.nodes :
            g[m] = IF m \in stop THEN base[m] ELSE step[<<m, g[t.fail_link[m]]>>]
    <2> HIDE DEF stop, base, step
    <2>1. Walk(t.nodes, t.fail_link, stop, t.nodes, base, step)
      BY <1>1, <1>2, <1>3 DEF Walk
    <2> QED BY <2>1, WalkExists
  <1>5. g = [m \in t.nodes |-> IF m = Root \/ HasChild(t, m, c) THEN m
                               ELSE g[t.fail_link[m]]]
    BY <1>3, <1>4
  <1> DEFINE w == CHOOSE w : w = [m \in t.nodes |-> IF m = Root \/ HasChild(t, m, c) THEN m
                                                   ELSE w[t.fail_link[m]]]
  <1>6. w = [m \in t.nodes |-> IF m = Root \/ HasChild(t, m, c) THEN m
                               ELSE w[t.fail_link[m]]]
    BY <1>5, Zenon
  <1>7. \A m \in t.nodes : Fallback(t, m, c) = w[m]
    BY DEF Fallback
  <1> HIDE DEF w
  <1>8. w[n] = IF n = Root \/ HasChild(t, n, c) THEN n ELSE w[t.fail_link[n]]
    BY <1>6, Zenon
  <1>9. t.fail_link[n] \in t.nodes
    BY <1>3
  <1> QED BY <1>7, <1>8, <1>9

\* The walk along the output links, a step of it at a time (lines 196-200).
LEMMA AlongIs ==
  ASSUME NEW t, TrieOK(t), NEW i \in Nat, NEW n \in t.nodes
  PROVE  /\ Along(t, n, i) \in Seq([pattern : t.nodes, end_pos : Nat])
         /\ Along(t, n, i) = IF n = Root THEN <<>>
                             ELSE Own(t, n, i) \o Along(t, t.output_link[n], i)
  <1> DEFINE S == Seq([pattern : t.nodes, end_pos : Nat])
             stop == {Root}
             base == [m \in t.nodes |-> <<>>]
             step == [p \in t.nodes \X S |-> Own(t, p[1], i) \o p[2]]
  <1>1. NodesOK(t.nodes) /\ Shortens(t.output_link, t.nodes) /\ t.patterns \in [t.nodes -> Nat]
    BY DEF TrieOK
  <1>2. \A m \in t.nodes : Own(t, m, i) \in S
    <2> SUFFICES ASSUME NEW m \in t.nodes PROVE Own(t, m, i) \in S
      OBVIOUS
    <2>1. PICK p \in Nat : p = t.patterns[m]
      BY <1>1
    <2>2. [k \in 1..p |-> [pattern |-> m, end_pos |-> i]]
            \in [1..p -> [pattern : t.nodes, end_pos : Nat]]
      OBVIOUS
    <2>3. Own(t, m, i) = [k \in 1..p |-> [pattern |-> m, end_pos |-> i]]
      BY <2>1 DEF Own
    <2>4. Own(t, m, i) \in [1..p -> [pattern : t.nodes, end_pos : Nat]]
      BY <2>2, <2>3
    <2> DEFINE R == [pattern : t.nodes, end_pos : Nat]
    <2> HIDE DEF R
    <2>5. Own(t, m, i) \in [1..p -> R]
      BY <2>4 DEF R
    <2>6. Own(t, m, i) \in Seq(R)
      BY <2>5, SeqDef
    <2> QED BY <2>6 DEF R
  <1>3. /\ base \in [t.nodes -> S] /\ stop \subseteq t.nodes
        /\ step \in [t.nodes \X S -> S]
    <2>1. stop \subseteq t.nodes
      BY <1>1 DEF NodesOK
    <2>2. base \in [t.nodes -> S]
      OBVIOUS
    <2>3. \A m \in t.nodes, r \in S : Own(t, m, i) \o r \in S
      <3> HIDE DEF S
      <3>1. \A q, r \in S : q \o r \in S
        BY ConcatProperties DEF S
      <3> QED BY <1>2, <3>1
    <2>4. step \in [t.nodes \X S -> S]
      <3> HIDE DEF S
      <3> QED BY <2>3
    <2> QED BY <2>1, <2>2, <2>4
  <1>4. PICK g \in [t.nodes -> S] : \A m \in t.nodes :
            g[m] = IF m \in stop THEN base[m] ELSE step[<<m, g[t.output_link[m]]>>]
    <2> HIDE DEF stop, base, step, S
    <2>1. \A m \in t.nodes \ stop : Len(t.output_link[m]) < Len(m)
      BY <1>1 DEF Shortens, stop
    <2>2. Walk(t.nodes, t.output_link, stop, S, base, step)
      BY <1>1, <1>3, <2>1 DEF Walk, NodesOK, Shortens
    <2> QED BY <2>2, WalkExists
  <1>5. \A m \in t.nodes : t.output_link[m] \in t.nodes
    BY <1>1 DEF Shortens
  <1>6. \A m \in t.nodes :
            g[m] = IF m = Root THEN <<>> ELSE Own(t, m, i) \o g[t.output_link[m]]
    <2> SUFFICES ASSUME NEW m \in t.nodes
                 PROVE  g[m] = IF m = Root THEN <<>> ELSE Own(t, m, i) \o g[t.output_link[m]]
      OBVIOUS
    <2>1. g[m] = IF m \in stop THEN base[m] ELSE step[<<m, g[t.output_link[m]]>>]
      BY <1>4
    <2>2. step[<<m, g[t.output_link[m]]>>] = Own(t, m, i) \o g[t.output_link[m]]
      <3> HIDE DEF S
      <3>1. g[t.output_link[m]] \in S
        BY <1>5
      <3> QED BY <3>1
    <2> QED BY <2>1, <2>2
  <1>7. g = [m \in t.nodes |-> IF m = Root THEN <<>>
                               ELSE Own(t, m, i) \o g[t.output_link[m]]]
    BY <1>6
  <1> DEFINE w == CHOOSE w : w = [m \in t.nodes |-> IF m = Root THEN <<>>
                                      ELSE Own(t, m, i) \o w[t.output_link[m]]]
  <1>8. w = [m \in t.nodes |-> IF m = Root THEN <<>>
                               ELSE Own(t, m, i) \o w[t.output_link[m]]]
    BY <1>7, Zenon
  <1>9. \A m \in t.nodes : Along(t, m, i) = w[m]
    BY DEF Along
  <1> HIDE DEF w
  <1>10. \A m \in t.nodes :
            w[m] = IF m = Root THEN <<>> ELSE Own(t, m, i) \o w[t.output_link[m]]
    BY <1>8, Zenon
  <1>11. \A m \in t.nodes : w[m] \in S
    <2> DEFINE T == {k \in Nat : \A m \in t.nodes : Len(m) <= k => w[m] \in S}
    <2> HIDE DEF S
    <2>0. \A m \in t.nodes : m \in Strings /\ Len(m) \in Nat
      BY <1>1, LenProperties DEF NodesOK, Strings
    <2>00. <<>> \in S
      BY DEF S
    <2>1. 0 \in T
      <3>1. \A m \in t.nodes : Len(m) <= 0 => m = Root
        BY <2>0, EmptySeq DEF Strings, Root
      <3> QED BY <1>10, <2>00, <3>1
    <2>2. ASSUME NEW k \in Nat, k \in T PROVE k + 1 \in T
      <3> SUFFICES ASSUME NEW m \in t.nodes, Len(m) <= k + 1 PROVE w[m] \in S
        OBVIOUS
      <3>1. CASE m = Root
        BY <1>10, <2>00, <3>1
      <3>2. CASE m # Root
        <4> DEFINE l == t.output_link[m]
        <4>1. l \in t.nodes /\ Len(l) < Len(m)
          BY <1>1, <3>2 DEF Shortens
        <4>2. Len(l) <= k
          BY <2>0, <4>1
        <4>3. w[l] \in S
          BY <2>2, <4>1, <4>2
        <4>4. Own(t, m, i) \o w[l] \in S
          BY <1>2, <4>3, ConcatProperties DEF S
        <4> QED BY <1>10, <3>2, <4>4
      <3> QED BY <3>1, <3>2
    <2> HIDE DEF T
    <2>3. \A k \in Nat : k \in T
      BY <2>1, <2>2, Induct
    <2> SUFFICES ASSUME NEW m \in t.nodes PROVE w[m] \in S
      OBVIOUS
    <2>4. Len(m) \in T /\ Len(m) <= Len(m)
      BY <2>0, <2>3
    <2> QED BY <2>4 DEF T
  <1> QED BY <1>5, <1>9, <1>10, <1>11

(***************************************************************************)
(* The links that are right.                                               *)
(***************************************************************************)
\* n is the longest node of at most k characters that is a suffix of s.
Longest(t, s, k, n) ==
    /\ n \in t.nodes /\ Suffix(n, s) /\ Len(n) <= k
    /\ \A q \in t.nodes : Suffix(q, s) /\ Len(q) <= k => Len(q) <= Len(n)

FailRight(t, n) == Longest(t, n, Len(n) - 1, t.fail_link[n])

\* A walk for c that is at the suffix m of s: no node that ends s and c, with at
\* most k characters of s, is missed by it.
Down(t, s, c, k, m) ==
    /\ m \in t.nodes /\ Suffix(m, s) /\ Len(m) <= k
    /\ \A q \in t.nodes \ {Root} :
          Suffix(q, Append(s, c)) /\ Len(q) <= k + 1 => Len(Front(q)) <= Len(m)

LEMMA StepIs ==
  ASSUME NEW t, NodesOK(t.nodes), Shortens(t.fail_link, t.nodes),
         NEW c, NEW n \in t.nodes
  PROVE  Step(t, n, c) = IF HasChild(t, n, c) THEN Append(n, c)
                         ELSE IF n = Root THEN Root
                         ELSE Step(t, t.fail_link[n], c)
  <1>1. Fallback(t, n, c) = IF n = Root \/ HasChild(t, n, c) THEN n
                            ELSE Fallback(t, t.fail_link[n], c)
    BY FallbackIs
  <1> QED BY <1>1 DEF Step

\* The end of the walk (lines 189-191).
LEMMA DownEnds ==
  ASSUME NEW t, NodesOK(t.nodes), NEW s \in Strings, NEW c \in Characters,
         NEW k \in Nat, NEW m, Down(t, s, c, k, m), HasChild(t, m, c) \/ m = Root
  PROVE  Longest(t, Append(s, c), k + 1, IF HasChild(t, m, c) THEN Append(m, c) ELSE Root)
  <1>1. m \in Strings /\ Len(m) \in Nat /\ Root \in t.nodes
    BY LenProperties DEF NodesOK, Strings, Down
  <1>2. Append(s, c) \in Strings
    <2>1. Len(s) \in Nat
      BY LenProperties DEF Strings
    <2> QED BY <2>1, OneMore
  <1>3. ASSUME NEW q \in t.nodes, q # Root, Suffix(q, Append(s, c)), Len(q) <= k + 1
        PROVE  /\ Len(Front(q)) <= Len(m) /\ Last(q) = c /\ q = Append(Front(q), c)
               /\ Len(Front(q)) \in Nat /\ Len(q) = Len(Front(q)) + 1
               /\ Front(q) \in Strings
    <2>1. q \in Strings
      BY DEF NodesOK
    <2>2. /\ Len(q) \in Nat /\ Len(q) >= 1 /\ Front(q) \in Strings
          /\ Len(Front(q)) = Len(q) - 1 /\ q = Append(Front(q), Last(q))
      BY <1>3, <2>1, FrontAndLast
    <2>3. Last(q) = c
      BY <1>3, <2>1, SuffixLess
    <2>4. Len(Front(q)) <= Len(m)
      BY <1>3 DEF Down
    <2>5. Len(Front(q)) \in Nat /\ Len(q) = Len(Front(q)) + 1
      BY <2>2
    <2> QED BY <2>2, <2>3, <2>4, <2>5
  <1>4. \A q \in t.nodes : Len(q) \in Nat
    BY LenProperties DEF NodesOK, Strings
  <1>5. CASE HasChild(t, m, c)
    <2> DEFINE a == Append(m, c)
    <2>1. a \in t.nodes /\ Len(a) = Len(m) + 1
      BY <1>1, <1>5, OneMore DEF HasChild
    <2>2. Suffix(a, Append(s, c))
      BY <1>1, SuffixMore DEF Down
    <2> HIDE DEF a
    <2>3. Len(m) <= k
      BY DEF Down
    <2>4. Len(a) <= k + 1
      BY <1>1, <2>1, <2>3
    <2>5. ASSUME NEW q \in t.nodes, Suffix(q, Append(s, c)), Len(q) <= k + 1
          PROVE  Len(q) <= Len(a)
      <3>1. CASE q = Root
        <4>1. Len(q) = 0 /\ 0 <= Len(m) + 1
          BY <1>1, <3>1 DEF Root
        <4> QED BY <2>1, <4>1
      <3>2. CASE q # Root
        <4>1. Len(Front(q)) <= Len(m) /\ Len(Front(q)) \in Nat /\ Len(q) = Len(Front(q)) + 1
          BY <1>3, <2>5, <3>2
        <4> QED BY <1>1, <2>1, <4>1
      <3> QED BY <3>1, <3>2
    <2>6. Longest(t, Append(s, c), k + 1, a)
      BY <2>1, <2>2, <2>4, <2>5 DEF Longest
    <2> QED BY <1>5, <2>6 DEF a
  <1>6. CASE m = Root /\ ~HasChild(t, m, c)
    <2>1. Suffix(Root, Append(s, c)) /\ Len(Root) = 0
      BY <1>2, SuffixEnds
    <2>2. ASSUME NEW q \in t.nodes, Suffix(q, Append(s, c)), Len(q) <= k + 1
          PROVE  Len(q) <= Len(Root)
      <3>1. CASE q = Root
        BY <1>4, <3>1
      <3>2. CASE q # Root
        <4>1. /\ Len(Front(q)) <= Len(m) /\ Len(Front(q)) \in Nat
              /\ Front(q) \in Strings /\ q = Append(Front(q), c)
          BY <1>3, <2>2, <3>2
        <4>2. Len(Front(q)) = 0
          BY <1>6, <2>1, <4>1
        <4>3. Front(q) = Root
          BY <4>1, <4>2, EmptySeq DEF Strings, Root
        <4>4. HasChild(t, m, c)
          BY <1>6, <4>1, <4>3 DEF HasChild
        <4> QED BY <1>6, <4>4
      <3> QED BY <3>1, <3>2
    <2>3. Len(Root) <= k + 1
      BY <2>1
    <2>4. Longest(t, Append(s, c), k + 1, Root)
      BY <1>1, <2>1, <2>2, <2>3 DEF Longest
    <2> QED BY <1>6, <2>4
  <1> QED BY <1>5, <1>6

\* A link of the walk misses no node.
LEMMA DownOne ==
  ASSUME NEW t, NodesOK(t.nodes), NEW s \in Strings, NEW c \in Characters,
         NEW k \in Nat, NEW m, Down(t, s, c, k, m), m # Root, ~HasChild(t, m, c),
         FailRight(t, m)
  PROVE  Down(t, s, c, k, t.fail_link[m]) /\ Len(t.fail_link[m]) < Len(m)
  <1> DEFINE f == t.fail_link[m]
  <1>1. m \in Strings /\ Suffix(m, s) /\ Len(m) <= k /\ m \in t.nodes
    BY DEF NodesOK, Down
  <1>2. f \in t.nodes /\ Suffix(f, m) /\ Len(f) <= Len(m) - 1 /\ f \in Strings
    BY DEF FailRight, Longest, NodesOK
  <1>3. Len(m) \in Nat /\ Len(f) \in Nat
    BY <1>1, <1>2, LenProperties DEF Strings
  <1>4. Suffix(f, s)
    BY <1>1, <1>2, SuffixOfSuffix
  <1>5. Len(f) <= k /\ Len(f) < Len(m)
    BY <1>1, <1>2, <1>3
  <1>6. ASSUME NEW q \in t.nodes \ {Root}, Suffix(q, Append(s, c)), Len(q) <= k + 1
        PROVE  Len(Front(q)) <= Len(f)
    <2> DEFINE p == Front(q)
    <2>1. q \in Strings /\ q # Root /\ p \in t.nodes /\ p \in Strings
      BY ParentIs
    <2>2. Len(p) \in Nat /\ q = Append(p, Last(q))
      BY <2>1, FrontAndLast, LenProperties DEF Strings
    <2>3. Last(q) = c /\ Suffix(p, s)
      BY <1>6, <2>1, SuffixLess
    <2>4. Len(p) <= Len(m)
      BY <1>6 DEF Down
    <2> HIDE DEF p
    <2>5. Suffix(p, m)
      BY <1>1, <2>1, <2>3, <2>4, SuffixOfLonger
    <2>6. Len(p) # Len(m)
      <3> SUFFICES ASSUME Len(p) = Len(m) PROVE FALSE
        OBVIOUS
      <3>1. p = m
        BY <1>1, <2>1, <2>5, SuffixSame
      <3> QED BY <2>1, <2>2, <2>3, <3>1 DEF HasChild
    <2>7. Len(p) <= Len(m) - 1
      BY <1>3, <2>2, <2>4, <2>6
    <2>8. Len(p) <= Len(f)
      BY <2>1, <2>5, <2>7 DEF FailRight, Longest
    <2> QED BY <2>8 DEF p
  <1> HIDE DEF f
  <1>7. Down(t, s, c, k, f)
    BY <1>2, <1>4, <1>5, <1>6 DEF Down
  <1> QED BY <1>5, <1>7 DEF f

\* The walk from the longest node that is a suffix of s ends at the longest one
\* that is a suffix of s and c, if the links of the nodes on it are right.
LEMMA StepRight ==
  ASSUME NEW t, NodesOK(t.nodes), Shortens(t.fail_link, t.nodes),
         NEW s \in Strings, NEW c \in Characters, NEW k \in Nat, NEW n,
         Longest(t, s, k, n),
         \A m \in t.nodes : m # Root /\ Len(m) <= Len(n) => FailRight(t, m)
  PROVE  Longest(t, Append(s, c), k + 1, Step(t, n, c))
  <1> DEFINE T == {j \in Nat : \A m \in t.nodes :
                     Len(m) <= j /\ Len(m) <= Len(n) /\ Down(t, s, c, k, m) =>
                        Longest(t, Append(s, c), k + 1, Step(t, m, c))}
  <1>0. \A m \in t.nodes : m \in Strings /\ Len(m) \in Nat
    BY LenProperties DEF NodesOK, Strings
  <1>1. ASSUME NEW m \in t.nodes, Down(t, s, c, k, m), HasChild(t, m, c) \/ m = Root
        PROVE  Longest(t, Append(s, c), k + 1, Step(t, m, c))
    <2>1. Step(t, m, c) = IF HasChild(t, m, c) THEN Append(m, c) ELSE Root
      BY <1>1, StepIs
    <2> QED BY <1>1, <2>1, DownEnds
  <1>2. 0 \in T
    <2>1. \A m \in t.nodes : Len(m) <= 0 => m = Root
      BY <1>0, EmptySeq DEF Strings, Root
    <2> QED BY <1>1, <2>1
  <1>3. ASSUME NEW j \in Nat, j \in T PROVE j + 1 \in T
    <2> SUFFICES ASSUME NEW m \in t.nodes, Len(m) <= j + 1, Len(m) <= Len(n),
                        Down(t, s, c, k, m)
                 PROVE  Longest(t, Append(s, c), k + 1, Step(t, m, c))
      OBVIOUS
    <2>1. CASE HasChild(t, m, c) \/ m = Root
      BY <1>1, <2>1
    <2>2. CASE ~HasChild(t, m, c) /\ m # Root
      <3> DEFINE f == t.fail_link[m]
      <3>1. FailRight(t, m) /\ f \in t.nodes
        BY <2>2 DEF Shortens
      <3>2. Down(t, s, c, k, f) /\ Len(f) < Len(m)
        BY <2>2, <3>1, DownOne
      <3>3. Step(t, m, c) = Step(t, f, c)
        BY <2>2, StepIs
      <3>4. Len(n) \in Nat
        BY <1>0 DEF Longest
      <3>5. Len(f) <= j /\ Len(f) <= Len(n)
        BY <1>0, <3>1, <3>2, <3>4
      <3> HIDE DEF f
      <3> QED BY <1>3, <3>1, <3>2, <3>3, <3>5
    <2> QED BY <2>1, <2>2
  <1> HIDE DEF T
  <1>4. \A j \in Nat : j \in T
    BY <1>2, <1>3, Induct
  <1>5. Down(t, s, c, k, n)
    <2>1. ASSUME NEW q \in t.nodes \ {Root}, Suffix(q, Append(s, c)), Len(q) <= k + 1
          PROVE  Len(Front(q)) <= Len(n)
      <3>1. q \in Strings /\ q # Root /\ Front(q) \in t.nodes
        BY ParentIs
      <3>2. Len(q) \in Nat /\ Len(Front(q)) = Len(q) - 1 /\ Suffix(Front(q), s)
        BY <2>1, <3>1, FrontAndLast, SuffixLess
      <3>3. Len(Front(q)) <= k
        BY <2>1, <3>2
      <3> QED BY <3>1, <3>2, <3>3 DEF Longest
    <2> QED BY <2>1 DEF Down, Longest
  <1>6. n \in t.nodes /\ Len(n) \in T /\ Len(n) <= Len(n)
    BY <1>0, <1>4 DEF Longest
  <1> QED BY <1>5, <1>6 DEF T

\* The output link of n: the longest keyword that is a suffix of n and not n.
OutRight(t, n) ==
    /\ Suffix(t.output_link[n], n)
    /\ t.output_link[n] = Root \/ t.patterns[t.output_link[n]] > 0
    /\ \A q \in t.nodes :
          t.patterns[q] > 0 /\ Suffix(q, n) /\ Len(q) <= Len(n) - 1 =>
             Len(q) <= Len(t.output_link[n])

Right(t, n) == FailRight(t, n) /\ OutRight(t, n)

\* One level of the breadth-first pass: the links of that level are right when
\* those of the shallower ones are.
LEMMA LevelIs ==
  ASSUME NEW t, TrieOK(t), NEW d \in Nat, NEW u, u = LinkedLevel(t, d)
  PROVE  /\ u.nodes = t.nodes /\ u.patterns = t.patterns
         /\ u = [nodes |-> u.nodes, fail_link |-> u.fail_link,
                 output_link |-> u.output_link, patterns |-> u.patterns]
         /\ u.fail_link = [n \in t.nodes |-> IF Len(n) = d THEN FailOf(t, n)
                                             ELSE t.fail_link[n]]
         /\ u.output_link = [n \in t.nodes |->
                               IF Len(n) = d /\ d > 1 THEN OutputOf(t, FailOf(t, n))
                               ELSE t.output_link[n]]
  <1> DEFINE level == {n \in t.nodes : Len(n) = d}
             fail  == [n \in t.nodes |-> IF n \in level THEN FailOf(t, n)
                                         ELSE t.fail_link[n]]
             out   == [n \in t.nodes |->
                        IF n \in level /\ d > 1 THEN OutputOf(t, fail[n])
                        ELSE t.output_link[n]]
  <1>1. u = [t EXCEPT !.fail_link = fail, !.output_link = out]
    BY DEF LinkedLevel
  <1>2. fail = [n \in t.nodes |-> IF Len(n) = d THEN FailOf(t, n) ELSE t.fail_link[n]]
    OBVIOUS
  <1>3. out = [n \in t.nodes |->
                 IF Len(n) = d /\ d > 1 THEN OutputOf(t, FailOf(t, n))
                 ELSE t.output_link[n]]
    OBVIOUS
  <1> HIDE DEF fail, out
  <1>4. u = [nodes |-> t.nodes, fail_link |-> fail, output_link |-> out,
             patterns |-> t.patterns]
    <2>1. t = [nodes |-> t.nodes, fail_link |-> t.fail_link,
               output_link |-> t.output_link, patterns |-> t.patterns]
      BY DEF TrieOK
    <2> QED BY <1>1, <2>1
  <1> QED BY <1>2, <1>3, <1>4

\* What the failure link of a node is set to.
LEMMA FailOfRight ==
  ASSUME NEW t, TrieOK(t), NEW n \in t.nodes, n # Root,
         \A m \in t.nodes : m # Root /\ Len(m) < Len(n) => FailRight(t, m)
  PROVE  Longest(t, n, Len(n) - 1, FailOf(t, n))
  <1>1. NodesOK(t.nodes) /\ Shortens(t.fail_link, t.nodes) /\ n \in Strings
    BY DEF TrieOK, NodesOK
  <1>2. /\ Len(n) \in Nat /\ Len(n) >= 1 /\ Front(n) \in Strings
        /\ Len(Front(n)) = Len(n) - 1 /\ Last(n) \in Characters
        /\ n = Append(Front(n), Last(n)) /\ Front(n) \in t.nodes
    BY <1>1, FrontAndLast, ParentIs
  <1>3. CASE Len(n) = 1
    <2>1. Root \in t.nodes /\ Suffix(Root, n) /\ Len(Root) = 0
      BY <1>1, SuffixEnds DEF NodesOK
    <2>2. FailOf(t, n) = Root /\ Len(n) - 1 = 0
      BY <1>3 DEF FailOf
    <2>3. Longest(t, n, 0, Root)
      BY <2>1 DEF Longest
    <2> QED BY <2>2, <2>3
  <1>4. CASE Len(n) # 1
    <2> DEFINE p == Front(n)
               f == t.fail_link[p]
               k == Len(p) - 1
    <2>1. p # Root /\ k \in Nat /\ k + 1 = Len(n) - 1 /\ Len(p) < Len(n)
      BY <1>2, <1>4 DEF Root
    <2>2. Longest(t, p, k, f)
      BY <1>2, <2>1 DEF FailRight
    <2>3. \A m \in t.nodes : m # Root /\ Len(m) <= Len(f) => FailRight(t, m)
      <3>1. Len(f) <= k /\ f \in t.nodes
        BY <2>2 DEF Longest
      <3>2. \A m \in t.nodes : Len(m) \in Nat
        BY <1>1, LenProperties DEF NodesOK, Strings
      <3>3. k < Len(n)
        BY <1>2
      <3>4. \A m \in t.nodes : Len(m) <= Len(f) => Len(m) < Len(n)
        BY <1>2, <3>1, <3>2, <3>3
      <3> QED BY <3>4
    <2> HIDE DEF p, k
    <2>4. Longest(t, Append(p, Last(n)), k + 1, Step(t, f, Last(n)))
      BY <1>1, <1>2, <2>1, <2>2, <2>3, StepRight DEF p
    <2>5. FailOf(t, n) = Step(t, f, Last(n))
      BY <1>4 DEF FailOf, p
    <2> QED BY <1>2, <2>1, <2>4, <2>5 DEF p
  <1> QED BY <1>3, <1>4

\* What its output link is set to.
LEMMA OutputOfRight ==
  ASSUME NEW t, TrieOK(t), NEW n \in t.nodes, n # Root, NEW f \in t.nodes,
         Longest(t, n, Len(n) - 1, f), f # Root => OutRight(t, f),
         NEW o, o = OutputOf(t, f)
  PROVE  /\ o \in t.nodes /\ Suffix(o, n) /\ Len(o) < Len(n)
         /\ o = Root \/ t.patterns[o] > 0
         /\ \A q \in t.nodes : t.patterns[q] > 0 /\ Suffix(q, n) /\ Len(q) <= Len(n) - 1
                                 => Len(q) <= Len(o)
  <1>1. /\ \A m \in t.nodes : m \in Strings /\ Len(m) \in Nat
        /\ t.patterns \in [t.nodes -> Nat] /\ t.patterns[Root] = 0
        /\ t.output_link[Root] = Root /\ Root \in t.nodes
        /\ Shortens(t.output_link, t.nodes)
    BY LenProperties DEF TrieOK, NodesOK, Strings
  <1>2. /\ Suffix(f, n) /\ Len(f) <= Len(n) - 1
        /\ \A q \in t.nodes : Suffix(q, n) /\ Len(q) <= Len(n) - 1 => Len(q) <= Len(f)
    BY DEF Longest
  <1>3. CASE t.patterns[f] > 0
    <2>1. o = f /\ Len(f) < Len(n)
      BY <1>1, <1>2, <1>3 DEF OutputOf
    <2> QED BY <1>2, <1>3, <2>1
  <1>4. CASE ~(t.patterns[f] > 0)
    <2>1. o = t.output_link[f] /\ o \in t.nodes
      BY <1>1, <1>4 DEF OutputOf, Shortens
    <2>2. Suffix(o, f) /\ Len(o) <= Len(f)
      <3>1. CASE f = Root
        BY <1>1, <2>1, <3>1, SuffixEnds
      <3>2. CASE f # Root
        <4>1. Suffix(o, f) /\ Len(o) < Len(f)
          BY <1>1, <2>1, <3>2 DEF OutRight, Shortens
        <4> QED BY <1>1, <2>1, <4>1
      <3> QED BY <3>1, <3>2
    <2>3. Suffix(o, n) /\ Len(o) < Len(n)
      <3>1. Suffix(o, n)
        BY <1>1, <1>2, <2>1, <2>2, SuffixOfSuffix
      <3> QED BY <1>1, <1>2, <2>1, <2>2, <3>1
    <2>4. o = Root \/ t.patterns[o] > 0
      BY <1>1, <2>1 DEF OutRight
    <2>5. ASSUME NEW q \in t.nodes, t.patterns[q] > 0, Suffix(q, n), Len(q) <= Len(n) - 1
          PROVE  Len(q) <= Len(o)
      <3>1. Len(q) <= Len(f)
        BY <1>2, <2>5
      <3>2. Suffix(q, f)
        BY <1>1, <1>2, <2>5, <3>1, SuffixOfLonger
      <3>3. Len(q) # Len(f)
        <4>1. q # f
          BY <1>4, <2>5
        <4> QED BY <1>1, <3>2, <4>1, SuffixSame
      <3>4. Len(q) <= Len(f) - 1
        BY <1>1, <3>1, <3>3
      <3>5. f # Root
        <4>1. Len(Root) = 0
          BY DEF Root
        <4> QED BY <1>1, <3>4, <4>1
      <3> QED BY <2>1, <2>5, <3>2, <3>4, <3>5 DEF OutRight
    <2> QED BY <2>1, <2>3, <2>4, <2>5
  <1> QED BY <1>3, <1>4

LEMMA LevelRight ==
  ASSUME NEW t, TrieOK(t), NEW d \in Nat, d >= 1, NEW u, u = LinkedLevel(t, d),
         \A n \in t.nodes : n # Root /\ Len(n) < d => Right(t, n)
  PROVE  /\ TrieOK(u) /\ u.nodes = t.nodes /\ u.patterns = t.patterns
         /\ \A n \in t.nodes : n # Root /\ Len(n) <= d => Right(u, n)
  <1>1. /\ u.nodes = t.nodes /\ u.patterns = t.patterns
        /\ u = [nodes |-> u.nodes, fail_link |-> u.fail_link,
                output_link |-> u.output_link, patterns |-> u.patterns]
        /\ u.fail_link = [n \in t.nodes |-> IF Len(n) = d THEN FailOf(t, n)
                                            ELSE t.fail_link[n]]
        /\ u.output_link = [n \in t.nodes |->
                              IF Len(n) = d /\ d > 1 THEN OutputOf(t, FailOf(t, n))
                              ELSE t.output_link[n]]
    BY LevelIs
  <1>2. /\ \A m \in t.nodes : m \in Strings /\ Len(m) \in Nat
        /\ t.patterns \in [t.nodes -> Nat] /\ t.patterns[Root] = 0
        /\ t.output_link[Root] = Root /\ Root \in t.nodes /\ Len(Root) = 0
        /\ Shortens(t.output_link, t.nodes) /\ Shortens(t.fail_link, t.nodes)
    BY LenProperties DEF TrieOK, NodesOK, Strings, Root
  <1>3. ASSUME NEW n \in t.nodes, n # Root, Len(n) <= d
        PROVE  Longest(t, n, Len(n) - 1, u.fail_link[n])
    <2>1. CASE Len(n) = d
      <3>1. u.fail_link[n] = FailOf(t, n)
        BY <1>1, <2>1
      <3>2. \A m \in t.nodes : m # Root /\ Len(m) < Len(n) => FailRight(t, m)
        BY <2>1 DEF Right
      <3> QED BY <1>3, <3>1, <3>2, FailOfRight
    <2>2. CASE Len(n) # d
      <3>1. Len(n) < d
        BY <1>2, <1>3, <2>2
      <3>2. u.fail_link[n] = t.fail_link[n]
        BY <1>1, <2>2
      <3> QED BY <1>3, <3>1, <3>2 DEF Right, FailRight
    <2> QED BY <2>1, <2>2
  <1>4. ASSUME NEW n \in t.nodes, n # Root, Len(n) <= d
        PROVE  /\ u.output_link[n] \in t.nodes /\ Len(u.output_link[n]) < Len(n)
               /\ OutRight(u, n)
    <2> DEFINE o == u.output_link[n]
    <2>1. CASE Len(n) = d /\ d > 1
      <3> DEFINE f == FailOf(t, n)
      <3>1. Longest(t, n, Len(n) - 1, f)
        BY <1>1, <1>3, <1>4, <2>1
      <3>2. f \in t.nodes /\ Len(f) < d
        <4>1. f \in t.nodes /\ Len(f) <= Len(n) - 1
          BY <3>1 DEF Longest
        <4> QED BY <1>2, <2>1, <4>1
      <3>3. f # Root => OutRight(t, f)
        BY <3>2 DEF Right
      <3>4. o = OutputOf(t, f)
        BY <1>1, <2>1
      <3> HIDE DEF f, o
      <3>5. /\ o \in t.nodes /\ Suffix(o, n) /\ Len(o) < Len(n)
            /\ o = Root \/ t.patterns[o] > 0
            /\ \A q \in t.nodes : t.patterns[q] > 0 /\ Suffix(q, n) /\ Len(q) <= Len(n) - 1
                                 => Len(q) <= Len(o)
        BY <1>4, <3>1, <3>2, <3>3, <3>4, OutputOfRight
      <3> QED BY <1>1, <3>5 DEF OutRight, o
    <2>2. CASE Len(n) = d /\ ~(d > 1)
      <3>1. o = t.output_link[n] /\ Len(n) = 1
        BY <1>1, <2>2
      <3>2. o \in t.nodes /\ Len(o) < 1 /\ Len(o) \in Nat
        BY <1>2, <1>4, <3>1 DEF Shortens
      <3>3. o = Root
        BY <1>2, <3>2, EmptySeq DEF Strings, Root
      <3>4. Suffix(Root, n)
        BY <1>2, SuffixEnds
      <3>5. \A q \in t.nodes : Len(q) <= Len(n) - 1 => Len(q) <= Len(Root)
        BY <1>2, <3>1
      <3> HIDE DEF o
      <3> QED BY <1>1, <3>1, <3>2, <3>3, <3>4, <3>5 DEF OutRight, o
    <2>3. CASE Len(n) # d
      <3>1. Len(n) < d
        BY <1>2, <1>4, <2>3
      <3>2. o = t.output_link[n] /\ OutRight(t, n)
        BY <1>1, <1>4, <2>3, <3>1 DEF Right
      <3>3. o \in t.nodes /\ Len(o) < Len(n)
        BY <1>2, <1>4, <3>2 DEF Shortens
      <3> HIDE DEF o
      <3> QED BY <1>1, <3>2, <3>3 DEF OutRight, o
    <2> QED BY <2>1, <2>2, <2>3
  <1>5. Shortens(u.fail_link, t.nodes)
    <2>1. ASSUME NEW n \in t.nodes
          PROVE  u.fail_link[n] \in t.nodes /\ (n # Root => Len(u.fail_link[n]) < Len(n))
      <3>1. CASE n # Root /\ Len(n) <= d
        <4>1. u.fail_link[n] \in t.nodes /\ Len(u.fail_link[n]) <= Len(n) - 1
          BY <1>3, <3>1 DEF Longest
        <4> QED BY <1>2, <4>1
      <3>2. CASE ~(n # Root /\ Len(n) <= d)
        <4>1. Len(n) # d
          BY <1>2, <3>2
        <4>2. u.fail_link[n] = t.fail_link[n]
          BY <1>1, <4>1
        <4> QED BY <1>2, <4>2 DEF Shortens
      <3> QED BY <3>1, <3>2
    <2> QED BY <1>1, <2>1 DEF Shortens
  <1>6. Shortens(u.output_link, t.nodes) /\ u.output_link[Root] = Root
    <2>1. ASSUME NEW n \in t.nodes
          PROVE  u.output_link[n] \in t.nodes /\ (n # Root => Len(u.output_link[n]) < Len(n))
      <3>1. CASE n # Root /\ Len(n) <= d
        BY <1>4, <3>1
      <3>2. CASE ~(n # Root /\ Len(n) <= d)
        <4>1. Len(n) # d
          BY <1>2, <3>2
        <4>2. u.output_link[n] = t.output_link[n]
          BY <1>1, <4>1
        <4> QED BY <1>2, <4>2 DEF Shortens
      <3> QED BY <3>1, <3>2
    <2>2. Len(Root) # d
      BY <1>2
    <2>3. u.output_link[Root] = t.output_link[Root]
      BY <1>1, <1>2, <2>2
    <2> QED BY <1>1, <1>2, <2>1, <2>3 DEF Shortens
  <1>7. TrieOK(u)
    <2>1. NodesOK(u.nodes)
      BY <1>1 DEF TrieOK
    <2> QED BY <1>1, <1>2, <1>5, <1>6, <2>1 DEF TrieOK
  <1>8. ASSUME NEW n \in t.nodes, n # Root, Len(n) <= d PROVE Right(u, n)
    <2>1. Longest(u, n, Len(n) - 1, u.fail_link[n])
      BY <1>1, <1>3, <1>8 DEF Longest
    <2> QED BY <1>4, <1>8, <2>1 DEF Right, FailRight
  <1> QED BY <1>1, <1>7, <1>8

(***************************************************************************)
(* Recursions over the numbers from zero.                                  *)
(***************************************************************************)
Recursion(S, base, step) == base \in S /\ step \in [S \X Nat -> S]

Result(S, base, step, n, g) ==
    g \in [0..n -> S] /\ g[0] = base /\ \A i \in 1..n : g[i] = step[<<g[i - 1], i>>]

LEMMA RecursionIs ==
  ASSUME NEW S, NEW base, NEW step, Recursion(S, base, step), NEW n \in Nat
  PROVE  \E g : Result(S, base, step, n, g)
  <1> DEFINE Is(g, k) == g[0] = base /\ \A i \in 1..k : g[i] = step[<<g[i - 1], i>>]
             T == {k \in Nat : \E g \in [0..k -> S] : Is(g, k)}
  <1> USE DEF Recursion
  <1>1. 0 \in T
    <2>1. [i \in 0..0 |-> base] \in [0..0 -> S] /\ Is([i \in 0..0 |-> base], 0)
      OBVIOUS
    <2> QED BY <2>1
  <1>2. ASSUME NEW k \in Nat, k \in T PROVE k + 1 \in T
    <2>1. PICK g \in [0..k -> S] : Is(g, k)
      BY <1>2
    <2>2. PICK new \in S : new = step[<<g[k], k + 1>>]
      OBVIOUS
    <2>3. PICK h : h = [i \in 0..(k + 1) |-> IF i = k + 1 THEN new ELSE g[i]]
      OBVIOUS
    <2>4. h[k + 1] = new /\ \A i \in 0..k : h[i] = g[i]
      BY <2>3
    <2>5. h \in [0..(k + 1) -> S]
      <3> SUFFICES ASSUME NEW i \in 0..(k + 1) PROVE h[i] \in S
        BY <2>3
      <3>1. i = k + 1 \/ i \in 0..k
        OBVIOUS
      <3> QED BY <2>4, <3>1
    <2>6. ASSUME NEW i \in 1..(k + 1) PROVE h[i] = step[<<h[i - 1], i>>]
      <3>1. CASE i = k + 1
        <4>1. h[i - 1] = g[k]
          BY <2>4, <3>1
        <4> QED BY <2>2, <2>4, <3>1, <4>1
      <3>2. CASE i # k + 1
        <4>1. i \in 1..k /\ i - 1 \in 0..k /\ i \in 0..k
          BY <3>2
        <4> QED BY <2>1, <2>4, <4>1
      <3> QED BY <3>1, <3>2
    <2>7. Is(h, k + 1)
      BY <2>1, <2>4, <2>6
    <2> HIDE DEF Is
    <2> QED BY <2>5, <2>7
  <1> HIDE DEF T
  <1>3. n \in T
    BY <1>1, <1>2, Induct
  <1>4. PICK g \in [0..n -> S] : Is(g, n)
    BY <1>3 DEF T
  <1>5. Result(S, base, step, n, g)
    BY <1>4 DEF Result
  <1> QED BY <1>5

(***************************************************************************)
(* build (lines 79-142): every link is right.                              *)
(***************************************************************************)
\* The deepest level is that of the longest node.
LEMMA DeepestIs ==
  ASSUME NEW nodes, NodesOK(nodes)
  PROVE  /\ Max({Len(n) : n \in nodes}) \in Nat
         /\ \A n \in nodes : Len(n) <= Max({Len(m) : m \in nodes})
  <1> DEFINE D == {Len(n) : n \in nodes}
             Above == {b \in Nat : \A d \in D : d <= b}
  <1>1. D \in SUBSET Nat /\ 0 \in D
    <2>1. \A n \in nodes : Len(n) \in Nat
      BY LenProperties DEF NodesOK, Strings
    <2>2. Root \in nodes /\ Len(Root) = 0
      BY DEF NodesOK, Root
    <2> QED BY <2>1, <2>2
  <1>2. Above # {} /\ Above \in SUBSET Nat
    BY DEF NodesOK
  <1>3. PICK b \in Above : \A k \in Above : b <= k
    <2> HIDE DEF Above
    <2> QED BY <1>2, Least
  <1>4. b \in D
    <2> SUFFICES ASSUME b \notin D PROVE FALSE
      OBVIOUS
    <2>1. b # 0 /\ b - 1 \in Nat
      BY <1>1, <1>2
    <2> HIDE DEF D
    <2>2. \A d \in D : d <= b - 1
      BY <1>1, <2>1
    <2>3. b - 1 \in Above
      BY <2>1, <2>2
    <2> QED BY <1>3, <2>1, <2>3
  <1>5. \A d \in D : b >= d
    BY <1>1, <1>2
  <1> HIDE DEF D, Above
  <1>6. Max(D) \in D /\ \A d \in D : Max(D) >= d
    BY <1>4, <1>5 DEF Max
  <1>7. Max(D) \in Nat /\ \A d \in D : d <= Max(D)
    BY <1>1, <1>6
  <1> QED BY <1>7 DEF D

LEMMA LinkedRight ==
  ASSUME NEW t, TrieOK(t)
  PROVE  /\ TrieOK(Linked(t)) /\ Linked(t).nodes = t.nodes
         /\ Linked(t).patterns = t.patterns
         /\ \A n \in t.nodes : n # Root => Right(Linked(t), n)
  <1> DEFINE deepest == Max({Len(n) : n \in t.nodes})
  <1>1. deepest \in Nat /\ \A n \in t.nodes : Len(n) <= deepest
    BY DeepestIs DEF TrieOK
  <1>2. \A n \in t.nodes : Len(n) \in Nat /\ (n # Root => Len(n) >= 1)
    <2>1. \A n \in t.nodes : n \in Strings
      BY DEF TrieOK, NodesOK
    <2> QED BY <2>1, FrontAndLast, LenProperties DEF Strings
  <1> HIDE DEF deepest
  <1> DEFINE Is(f, m) == f = [depth \in 0..m |->
                IF depth = 0 THEN t ELSE LinkedLevel(f[depth - 1], depth)]
             E == {m \in Nat : \E f : Is(f, m)}
  <1>3. 0 \in E
    <2>1. \A k \in 0..0 : k = 0
      OBVIOUS
    <2>2. Is([k \in 0..0 |-> t], 0)
      BY <2>1
    <2> QED BY <2>2
  <1>4. ASSUME NEW m \in Nat, m \in E PROVE m + 1 \in E
    <2>1. PICK f : Is(f, m)
      BY <1>4
    <2>2. PICK new : new = LinkedLevel(f[m], m + 1)
      OBVIOUS
    <2>3. PICK g : g = [k \in 0..(m + 1) |-> IF k = m + 1 THEN new ELSE f[k]]
      OBVIOUS
    <2>4. g[m + 1] = new /\ \A k \in 0..m : g[k] = f[k]
      BY <2>3
    <2>5. f[0] = t /\ \A k \in 1..m : f[k] = LinkedLevel(f[k - 1], k)
      BY <2>1
    <2>6. g[0] = t
      BY <2>4, <2>5
    <2>7. ASSUME NEW k \in 1..(m + 1) PROVE g[k] = LinkedLevel(g[k - 1], k)
      <3>1. CASE k = m + 1
        <4>1. g[k - 1] = f[m]
          BY <2>4, <3>1
        <4> QED BY <2>2, <2>4, <3>1, <4>1
      <3>2. CASE k # m + 1
        <4>1. k \in 1..m /\ k - 1 \in 0..m /\ k \in 0..m
          BY <3>2
        <4>2. g[k] = f[k] /\ g[k - 1] = f[k - 1] /\ f[k] = LinkedLevel(f[k - 1], k)
          BY <2>4, <2>5, <4>1
        <4> QED BY <4>2
      <3> QED BY <3>1, <3>2
    <2>8. g = [k \in 0..(m + 1) |-> g[k]]
      BY <2>3
    <2>9. \A k \in 0..(m + 1) : g[k] = IF k = 0 THEN t ELSE LinkedLevel(g[k - 1], k)
      BY <2>6, <2>7
    <2>10. Is(g, m + 1)
      <3>1. PICK h : h = [k \in 0..(m + 1) |-> IF k = 0 THEN t ELSE LinkedLevel(g[k - 1], k)]
        OBVIOUS
      <3>2. h = g
        BY <2>8, <2>9, <3>1
      <3> QED BY <3>1, <3>2
    <2> HIDE DEF Is
    <2> QED BY <2>10
  <1> HIDE DEF E
  <1>5. deepest \in E
    BY <1>1, <1>3, <1>4, Induct
  <1>6. \E f : f = [depth \in 0..deepest |->
                      IF depth = 0 THEN t ELSE LinkedLevel(f[depth - 1], depth)]
    BY <1>5 DEF E
  <1> DEFINE after == CHOOSE f : f = [depth \in 0..deepest |->
                      IF depth = 0 THEN t ELSE LinkedLevel(f[depth - 1], depth)]
  <1>7. after = [depth \in 0..deepest |->
                   IF depth = 0 THEN t ELSE LinkedLevel(after[depth - 1], depth)]
    BY <1>6, Zenon
  <1>8. Linked(t) = after[deepest]
    BY DEF Linked, deepest
  <1> HIDE DEF after
  <1>9. after[0] = t /\ \A k \in 1..deepest : after[k] = LinkedLevel(after[k - 1], k)
    BY <1>1, <1>7
  <1> DEFINE Good(u, d) ==
                /\ TrieOK(u) /\ u.nodes = t.nodes /\ u.patterns = t.patterns
                /\ \A n \in t.nodes : n # Root /\ Len(n) <= d => Right(u, n)
             T == {k \in Nat : k <= deepest => Good(after[k], k)}
  <1>10. 0 \in T
    <2>1. \A n \in t.nodes : n # Root => ~(Len(n) <= 0)
      BY <1>2
    <2> QED BY <1>9, <2>1
  <1>11. ASSUME NEW k \in Nat, k \in T PROVE k + 1 \in T
    <2> SUFFICES ASSUME k + 1 <= deepest PROVE Good(after[k + 1], k + 1)
      OBVIOUS
    <2> DEFINE u == after[k]
               v == after[k + 1]
    <2>1. Good(u, k)
      BY <1>1, <1>11
    <2>2. v = LinkedLevel(u, k + 1)
      BY <1>1, <1>9
    <2> HIDE DEF u, v
    <2>3. \A n \in u.nodes : n # Root /\ Len(n) < k + 1 => Right(u, n)
      BY <1>2, <2>1
    <2>4. k + 1 \in Nat /\ k + 1 >= 1
      OBVIOUS
    <2>5. /\ TrieOK(v) /\ v.nodes = u.nodes /\ v.patterns = u.patterns
          /\ \A n \in u.nodes : n # Root /\ Len(n) <= k + 1 => Right(v, n)
      BY <2>1, <2>2, <2>3, <2>4, LevelRight
    <2>6. Good(v, k + 1)
      BY <2>1, <2>5
    <2> QED BY <2>6 DEF v
  <1> HIDE DEF T
  <1>12. deepest \in T
    BY <1>1, <1>10, <1>11, Induct
  <1>13. Good(after[deepest], deepest)
    BY <1>1, <1>12 DEF T
  <1> QED BY <1>1, <1>8, <1>13

(***************************************************************************)
(* search and contains_any (lines 144-253).                                *)
(***************************************************************************)
Ready(t) == TrieOK(t) /\ \A n \in t.nodes : n # Root => Right(t, n)

Matches(t) == [pattern : t.nodes, end_pos : Nat]

\* The longest match comes first.
LongestFirst(found) ==
    found # <<>> => \A o \in ToSet(found) : Len(found[1].pattern) >= Len(o.pattern)

\* The keywords that end at node n.
Ending(t, n) == {q \in t.nodes : t.patterns[q] > 0 /\ Suffix(q, n)}

Hits(t, n, i) == {[pattern |-> q, end_pos |-> i] : q \in Ending(t, n)}

\* What a sequence in two parts holds and begins with.
LEMMA Parts ==
  ASSUME NEW S, NEW p \in Seq(S), NEW q \in Seq(S)
  PROVE  /\ ToSet(p \o q) = ToSet(p) \cup ToSet(q)
         /\ p # <<>> => p \o q # <<>> /\ (p \o q)[1] = p[1] /\ p[1] \in ToSet(p)
         /\ p = <<>> => p \o q = q
         /\ p = <<>> <=> ToSet(p) = {}
  <1>1. PICK m \in Nat, n \in Nat : m = Len(p) /\ n = Len(q)
    BY LenProperties
  <1> DEFINE r == p \o q
  <1>2. /\ r \in Seq(S) /\ Len(r) = m + n
        /\ \A i \in 1..(m + n) : r[i] = IF i <= m THEN p[i] ELSE q[i - m]
    BY <1>1, ConcatProperties
  <1> HIDE DEF r
  <1>3. DOMAIN p = 1..m /\ DOMAIN q = 1..n /\ DOMAIN r = 1..(m + n)
    BY <1>1, <1>2, LenProperties
  <1>4. \A i \in 1..m : i \in 1..(m + n) /\ r[i] = p[i]
    BY <1>2
  <1>5. \A i \in 1..n : m + i \in 1..(m + n) /\ r[m + i] = q[i]
    <2> SUFFICES ASSUME NEW i \in 1..n PROVE m + i \in 1..(m + n) /\ r[m + i] = q[i]
      OBVIOUS
    <2>1. m + i \in 1..(m + n) /\ ~(m + i <= m) /\ (m + i) - m = i
      OBVIOUS
    <2> QED BY <1>2, <2>1
  <1>6. ToSet(r) = ToSet(p) \cup ToSet(q)
    <2>1. ASSUME NEW i \in 1..(m + n) PROVE r[i] \in ToSet(p) \cup ToSet(q)
      <3>1. CASE i <= m
        <4>1. i \in 1..m /\ r[i] = p[i]
          BY <1>4, <3>1
        <4> QED BY <1>3, <4>1 DEF ToSet
      <3>2. CASE ~(i <= m)
        <4>1. i - m \in 1..n /\ r[i] = q[i - m]
          BY <1>2, <3>2
        <4> QED BY <1>3, <4>1 DEF ToSet
      <3> QED BY <3>1, <3>2
    <2>2. ToSet(p) \subseteq ToSet(r)
      BY <1>3, <1>4 DEF ToSet
    <2>3. ToSet(q) \subseteq ToSet(r)
      BY <1>3, <1>5 DEF ToSet
    <2>4. ToSet(r) \subseteq ToSet(p) \cup ToSet(q)
      BY <1>3, <2>1 DEF ToSet
    <2> QED BY <2>2, <2>3, <2>4
  <1>7. ASSUME p # <<>> PROVE r # <<>> /\ r[1] = p[1] /\ p[1] \in ToSet(p)
    <2>1. 1 \in 1..m
      BY <1>1, <1>7, EmptySeq
    <2>2. r # <<>>
      BY <1>2, <2>1, EmptySeq
    <2> QED BY <1>3, <1>4, <2>1, <2>2 DEF ToSet
  <1>8. p = <<>> => r = q
    BY ConcatEmptySeq DEF r
  <1>9. p = <<>> <=> ToSet(p) = {}
    <2>1. p = <<>> => m = 0
      BY <1>1, EmptySeq
    <2>2. m = 0 => ToSet(p) = {}
      BY <1>3 DEF ToSet
    <2> QED BY <1>7, <2>1, <2>2
  <1> QED BY <1>6, <1>7, <1>8, <1>9 DEF r

\* What the node itself is reported as (lines 171-178).
LEMMA OwnIs ==
  ASSUME NEW t, TrieOK(t), NEW i \in Nat, NEW n \in t.nodes
  PROVE  /\ Own(t, n, i) \in Seq(Matches(t))
         /\ ToSet(Own(t, n, i)) = {[pattern |-> n, end_pos |-> i] : q \in
                                      {q \in {n} : t.patterns[q] > 0}}
         /\ t.patterns[n] > 0 => Own(t, n, i) # <<>>
                                 /\ Own(t, n, i)[1] = [pattern |-> n, end_pos |-> i]
         /\ ~(t.patterns[n] > 0) => Own(t, n, i) = <<>>
  <1>1. PICK p \in Nat : p = t.patterns[n]
    BY DEF TrieOK
  <1> DEFINE m == [pattern |-> n, end_pos |-> i]
  <1>2. m \in Matches(t)
    BY DEF Matches
  <1> HIDE DEF m
  <1>3. Own(t, n, i) = [k \in 1..p |-> m]
    BY <1>1 DEF Own, m
  <1>4. Own(t, n, i) \in [1..p -> Matches(t)]
    BY <1>2, <1>3
  <1>5. Own(t, n, i) \in Seq(Matches(t))
    BY <1>4, SeqDef
  <1>6. DOMAIN Own(t, n, i) = 1..p /\ Len(Own(t, n, i)) = p
    BY <1>3, <1>5, LenProperties
  <1>7. CASE p > 0
    <2>1. 1 \in 1..p
      BY <1>7
    <2>2. Own(t, n, i)[1] = m /\ Own(t, n, i) # <<>>
      BY <1>3, <1>5, <1>6, <1>7, <2>1, EmptySeq
    <2>3. ToSet(Own(t, n, i)) = {m}
      BY <1>3, <1>6, <2>1 DEF ToSet
    <2> QED BY <1>1, <1>5, <1>7, <2>2, <2>3 DEF m
  <1>8. CASE ~(p > 0)
    <2>1. p = 0
      BY <1>8
    <2>2. Own(t, n, i) = <<>>
      BY <1>5, <1>6, <2>1, EmptySeq
    <2>3. ToSet(Own(t, n, i)) = {}
      BY <1>6, <2>1 DEF ToSet
    <2> QED BY <1>1, <1>5, <1>8, <2>2, <2>3
  <1> QED BY <1>7, <1>8

\* The keywords that end at a node are its own and those that end at its
\* output link.
LEMMA EndingIs ==
  ASSUME NEW t, Ready(t), NEW n \in t.nodes
  PROVE  /\ Ending(t, Root) = {}
         /\ n # Root => Ending(t, n) = {q \in {n} : t.patterns[q] > 0}
                                       \cup Ending(t, t.output_link[n])
         /\ \A q \in Ending(t, n) : Len(q) <= Len(n) /\ q # Root
  <1>1. /\ \A m \in t.nodes : m \in Strings /\ Len(m) \in Nat
        /\ t.patterns \in [t.nodes -> Nat] /\ t.patterns[Root] = 0 /\ Len(Root) = 0
        /\ Shortens(t.output_link, t.nodes) /\ Root \in t.nodes
    BY LenProperties DEF Ready, TrieOK, NodesOK, Strings, Root
  <1>2. \A m \in t.nodes : \A q \in Ending(t, m) : Len(q) <= Len(m) /\ q # Root
    BY <1>1 DEF Ending, Suffix
  <1>3. Ending(t, Root) = {}
    <2> SUFFICES ASSUME NEW q \in Ending(t, Root) PROVE FALSE
      OBVIOUS
    <2>1. q \in t.nodes /\ q # Root /\ Len(q) <= 0
      BY <1>1, <1>2 DEF Ending
    <2> QED BY <1>1, <2>1, EmptySeq DEF Strings, Root
  <1>4. ASSUME n # Root
        PROVE  Ending(t, n) = {q \in {n} : t.patterns[q] > 0}
                              \cup Ending(t, t.output_link[n])
    <2> DEFINE o == t.output_link[n]
    <2>1. OutRight(t, n) /\ o \in t.nodes
      BY <1>1, <1>4 DEF Ready, Right, Shortens
    <2>2. Suffix(o, n)
      BY <2>1 DEF OutRight
    <2>3. ASSUME NEW q \in Ending(t, n), q # n PROVE q \in Ending(t, o)
      <3>1. q \in t.nodes /\ t.patterns[q] > 0 /\ Suffix(q, n) /\ Len(q) <= Len(n)
        BY <1>2 DEF Ending
      <3>2. Len(q) # Len(n)
        BY <1>1, <2>3, <3>1, SuffixSame
      <3>3. Len(q) <= Len(n) - 1
        BY <1>1, <3>1, <3>2
      <3>4. Len(q) <= Len(o)
        BY <2>1, <3>1, <3>3 DEF OutRight
      <3> HIDE DEF o
      <3>5. Suffix(q, o)
        BY <1>1, <2>1, <2>2, <3>1, <3>4, SuffixOfLonger
      <3> QED BY <3>1, <3>5 DEF Ending
    <2>4. ASSUME NEW q \in Ending(t, o) PROVE q \in Ending(t, n)
      <3> HIDE DEF o
      <3>1. Suffix(q, n)
        BY <1>1, <2>1, <2>2, SuffixOfSuffix DEF Ending
      <3> QED BY <3>1 DEF Ending
    <2>5. t.patterns[n] > 0 => n \in Ending(t, n)
      BY <1>1, SuffixEnds DEF Ending
    <2>6. ~(t.patterns[n] > 0) => n \notin Ending(t, n)
      BY DEF Ending
    <2> HIDE DEF o
    <2> QED BY <2>3, <2>4, <2>5, <2>6 DEF o
  <1> QED BY <1>2, <1>3, <1>4

\* Along the output links all the keywords that end at a node are reported, the
\* longest first.
LEMMA AlongRight ==
  ASSUME NEW t, Ready(t), NEW i \in Nat, NEW n \in t.nodes
  PROVE  /\ Along(t, n, i) \in Seq(Matches(t))
         /\ ToSet(Along(t, n, i)) = Hits(t, n, i)
         /\ LongestFirst(Along(t, n, i))
  <1> DEFINE Good(m) == /\ ToSet(Along(t, m, i)) = Hits(t, m, i)
                        /\ LongestFirst(Along(t, m, i))
             T == {k \in Nat : \A m \in t.nodes : Len(m) <= k => Good(m)}
  <1>1. /\ TrieOK(t) /\ Shortens(t.output_link, t.nodes)
        /\ \A m \in t.nodes : m \in Strings /\ Len(m) \in Nat
    BY LenProperties DEF Ready, TrieOK, NodesOK, Strings
  <1>2. \A m \in t.nodes :
          /\ Along(t, m, i) \in Seq(Matches(t))
          /\ Along(t, m, i) = IF m = Root THEN <<>>
                              ELSE Own(t, m, i) \o Along(t, t.output_link[m], i)
    BY <1>1, AlongIs DEF Matches
  <1>3. Root \in t.nodes => Good(Root)
    <2> SUFFICES ASSUME Root \in t.nodes PROVE Good(Root)
      OBVIOUS
    <2>1. Along(t, Root, i) = <<>>
      BY <1>2
    <2>2. Hits(t, Root, i) = {}
      BY EndingIs DEF Hits
    <2>3. ToSet(<<>>) = {}
      BY DEF ToSet
    <2> QED BY <2>1, <2>2, <2>3 DEF LongestFirst
  <1>4. 0 \in T
    <2>1. \A m \in t.nodes : Len(m) <= 0 => m = Root
      BY <1>1, EmptySeq DEF Strings, Root
    <2> HIDE DEF Good
    <2> QED BY <1>3, <2>1
  <1>5. ASSUME NEW k \in Nat, k \in T PROVE k + 1 \in T
    <2> SUFFICES ASSUME NEW m \in t.nodes, Len(m) <= k + 1 PROVE Good(m)
      OBVIOUS
    <2>1. CASE m = Root
      BY <1>3, <2>1
    <2>2. CASE m # Root
      <3> DEFINE o == t.output_link[m]
                 own == Own(t, m, i)
                 rest == Along(t, o, i)
      <3>1. o \in t.nodes /\ Len(o) < Len(m)
        BY <1>1, <2>2 DEF Shortens
      <3>2. Len(o) <= k
        BY <1>1, <3>1
      <3>3. Good(o)
        BY <1>5, <3>1, <3>2
      <3>4. Along(t, m, i) = own \o rest /\ rest \in Seq(Matches(t))
        BY <1>2, <2>2, <3>1
      <3>5. /\ own \in Seq(Matches(t))
            /\ ToSet(own) = {[pattern |-> m, end_pos |-> i] : q \in
                               {q \in {m} : t.patterns[q] > 0}}
            /\ t.patterns[m] > 0 => own # <<>> /\ own[1] = [pattern |-> m, end_pos |-> i]
            /\ ~(t.patterns[m] > 0) => own = <<>>
        BY <1>1, OwnIs
      <3>6. Ending(t, m) = {q \in {m} : t.patterns[q] > 0} \cup Ending(t, o)
        BY <2>2, EndingIs
      <3> HIDE DEF o, own, rest
      <3>7. /\ ToSet(own \o rest) = ToSet(own) \cup ToSet(rest)
            /\ own # <<>> => own \o rest # <<>> /\ (own \o rest)[1] = own[1]
            /\ own = <<>> => own \o rest = rest
        BY <3>4, <3>5, Parts
      <3>8. ToSet(own) = {[pattern |-> q, end_pos |-> i] : q \in
                               {q \in {m} : t.patterns[q] > 0}}
        BY <3>5
      <3>9. ToSet(Along(t, m, i)) = Hits(t, m, i)
        <4>1. ToSet(rest) = Hits(t, o, i)
          BY <3>3 DEF rest
        <4> QED BY <3>4, <3>6, <3>7, <3>8, <4>1 DEF Hits
      <3>10. LongestFirst(Along(t, m, i))
        <4>1. CASE t.patterns[m] > 0
          <5>1. (own \o rest)[1] = [pattern |-> m, end_pos |-> i]
            BY <3>5, <3>7, <4>1
          <5>2. \A q \in Ending(t, m) : Len(q) <= Len(m)
            BY EndingIs
          <5>3. \A h \in Hits(t, m, i) : Len(h.pattern) <= Len(m) /\ Len(h.pattern) \in Nat
            BY <1>1, <5>2 DEF Hits, Ending
          <5> QED BY <1>1, <3>4, <3>9, <5>1, <5>3 DEF LongestFirst
        <4>2. CASE ~(t.patterns[m] > 0)
          <5>1. Along(t, m, i) = rest
            BY <3>4, <3>5, <3>7, <4>2
          <5> QED BY <3>3, <5>1 DEF rest
        <4> QED BY <4>1, <4>2
      <3> QED BY <3>9, <3>10
    <2> QED BY <2>1, <2>2
  <1> HIDE DEF T
  <1>6. Len(n) \in T /\ Len(n) <= Len(n)
    BY <1>1, <1>4, <1>5, Induct
  <1> QED BY <1>2, <1>6 DEF T

\* What is reported at a node is what is reported along its output links, the
\* node itself the first of them.
LEMMA CollectedIs ==
  ASSUME NEW t, TrieOK(t), NEW i \in Nat, NEW n \in t.nodes
  PROVE  Collected(t, n, i) = Along(t, n, i)
  <1>1. CASE n = Root
    <2>1. t.output_link[Root] = Root /\ ~(t.patterns[Root] > 0)
      BY DEF TrieOK
    <2>2. Own(t, Root, i) = <<>>
      BY <1>1, <2>1, OwnIs
    <2>4. Along(t, Root, i) = <<>>
      BY <1>1, AlongIs
    <2>3. <<>> \o <<>> = <<>>
      BY ConcatEmptySeq, EmptySeq
    <2> QED BY <1>1, <2>1, <2>2, <2>3, <2>4 DEF Collected
  <1>2. CASE n # Root
    BY <1>2, AlongIs DEF Collected
  <1> QED BY <1>1, <1>2

\* A prefix of the text and the next character.
LEMMA PrefixMore ==
  ASSUME NEW s \in Strings, NEW k \in Nat, k + 1 <= Len(s)
  PROVE  /\ SubSeq(s, 1, k + 1) = Append(SubSeq(s, 1, k), s[k + 1])
         /\ s[k + 1] \in Characters /\ SubSeq(s, 1, k) \in Strings
  <1> DEFINE p == SubSeq(s, 1, k)
             q == SubSeq(s, 1, k + 1)
             a == Append(p, s[k + 1])
  <1>1. Len(s) \in Nat /\ k <= Len(s) /\ k + 1 \in Nat
    BY LenProperties DEF Strings
  <1>2. s[k + 1] \in Characters
    BY <1>1, ElementOfSeq DEF Strings
  <1>3. p \in Strings /\ Len(p) = k /\ \A i \in 1..k : p[i] = s[i]
    BY <1>1, PrefixIs
  <1>4. q \in Strings /\ Len(q) = k + 1 /\ \A i \in 1..(k + 1) : q[i] = s[i]
    BY <1>1, PrefixIs
  <1> HIDE DEF p, q
  <1>5. /\ a \in Strings /\ Len(a) = k + 1 /\ a[k + 1] = s[k + 1]
        /\ \A i \in 1..k : a[i] = p[i]
    BY <1>2, <1>3, OneMore
  <1> HIDE DEF a
  <1>6. \A i \in 1..(k + 1) : q[i] = a[i]
    <2>1. \A i \in 1..(k + 1) : i = k + 1 \/ i \in 1..k
      OBVIOUS
    <2> QED BY <1>3, <1>4, <1>5, <2>1
  <1>7. q = a
    BY <1>4, <1>5, <1>6, SameString
  <1> QED BY <1>2, <1>3, <1>7 DEF p, q, a

\* The node a search is at: the longest that ends the text read so far.
LEMMA AtIs ==
  ASSUME NEW t, Ready(t), NEW text \in Strings
  PROVE  \A i \in 0..Len(text) : Longest(t, SubSeq(text, 1, i), i, At(t, text, i))
  <1>1. PICK len \in Nat : len = Len(text)
    BY LenProperties DEF Strings
  <1> DEFINE Is(f, m) == f = [k \in 0..m |-> IF k = 0 THEN Root
                                             ELSE Step(t, f[k - 1], text[k])]
             E == {m \in Nat : \E f : Is(f, m)}
  <1>2. 0 \in E
    <2>1. \A k \in 0..0 : k = 0
      OBVIOUS
    <2>2. Is([k \in 0..0 |-> Root], 0)
      BY <2>1
    <2> QED BY <2>2
  <1>3. ASSUME NEW m \in Nat, m \in E PROVE m + 1 \in E
    <2>1. PICK f : Is(f, m)
      BY <1>3
    <2>2. PICK new : new = Step(t, f[m], text[m + 1])
      OBVIOUS
    <2>3. PICK g : g = [k \in 0..(m + 1) |-> IF k = m + 1 THEN new ELSE f[k]]
      OBVIOUS
    <2>4. g[m + 1] = new /\ \A k \in 0..m : g[k] = f[k]
      BY <2>3
    <2>5. f[0] = Root /\ \A k \in 1..m : f[k] = Step(t, f[k - 1], text[k])
      BY <2>1
    <2>6. g[0] = Root
      BY <2>4, <2>5
    <2>7. ASSUME NEW k \in 1..(m + 1) PROVE g[k] = Step(t, g[k - 1], text[k])
      <3>1. CASE k = m + 1
        <4>1. g[k - 1] = f[m]
          BY <2>4, <3>1
        <4> QED BY <2>2, <2>4, <3>1, <4>1
      <3>2. CASE k # m + 1
        <4>1. k \in 1..m /\ k - 1 \in 0..m /\ k \in 0..m
          BY <3>2
        <4>2. g[k] = f[k] /\ g[k - 1] = f[k - 1] /\ f[k] = Step(t, f[k - 1], text[k])
          BY <2>4, <2>5, <4>1
        <4> QED BY <4>2
      <3> QED BY <3>1, <3>2
    <2>8. g = [k \in 0..(m + 1) |-> g[k]]
      BY <2>3
    <2>9. \A k \in 0..(m + 1) : g[k] = IF k = 0 THEN Root ELSE Step(t, g[k - 1], text[k])
      BY <2>6, <2>7
    <2>10. Is(g, m + 1)
      <3>1. PICK h : h = [k \in 0..(m + 1) |-> IF k = 0 THEN Root
                                               ELSE Step(t, g[k - 1], text[k])]
        OBVIOUS
      <3>2. h = g
        BY <2>8, <2>9, <3>1
      <3> QED BY <3>1, <3>2
    <2> HIDE DEF Is
    <2> QED BY <2>10
  <1> HIDE DEF E
  <1>4. len \in E
    BY <1>2, <1>3, Induct
  <1>5. \E f : f = [k \in 0..Len(text) |-> IF k = 0 THEN Root
                                           ELSE Step(t, f[k - 1], text[k])]
    BY <1>1, <1>4 DEF E
  <1> DEFINE at == CHOOSE f : f = [k \in 0..Len(text) |-> IF k = 0 THEN Root
                                           ELSE Step(t, f[k - 1], text[k])]
  <1>6. at = [k \in 0..Len(text) |-> IF k = 0 THEN Root ELSE Step(t, at[k - 1], text[k])]
    BY <1>5, Zenon
  <1>7. \A i \in 0..Len(text) : At(t, text, i) = at[i]
    BY DEF At
  <1> HIDE DEF at
  <1>8. at[0] = Root /\ \A k \in 1..len : at[k] = Step(t, at[k - 1], text[k])
    BY <1>1, <1>6
  <1>9. /\ NodesOK(t.nodes) /\ Shortens(t.fail_link, t.nodes)
        /\ \A m \in t.nodes : m # Root => FailRight(t, m)
    BY DEF Ready, TrieOK, Right
  <1> DEFINE T == {k \in Nat : k <= len => Longest(t, SubSeq(text, 1, k), k, at[k])}
  <1>10. 0 \in T
    <2>1. SubSeq(text, 1, 0) \in Strings
      BY <1>1, PrefixIs
    <2>2. Suffix(Root, SubSeq(text, 1, 0)) /\ Len(Root) = 0
      BY <2>1, SuffixEnds
    <2>3. Root \in t.nodes
      BY <1>9 DEF NodesOK
    <2>4. Longest(t, SubSeq(text, 1, 0), 0, Root)
      BY <2>2, <2>3 DEF Longest
    <2> QED BY <1>8, <2>4
  <1>11. ASSUME NEW k \in Nat, k \in T PROVE k + 1 \in T
    <2> SUFFICES ASSUME k + 1 <= len
                 PROVE  Longest(t, SubSeq(text, 1, k + 1), k + 1, at[k + 1])
      OBVIOUS
    <2>1. Longest(t, SubSeq(text, 1, k), k, at[k])
      BY <1>1, <1>11
    <2>2. at[k + 1] = Step(t, at[k], text[k + 1])
      BY <1>1, <1>8
    <2> DEFINE s == SubSeq(text, 1, k)
               c == text[k + 1]
               n == at[k]
    <2>3. SubSeq(text, 1, k + 1) = Append(s, c) /\ c \in Characters /\ s \in Strings
      BY <1>1, PrefixMore
    <2> HIDE DEF s, c, n
    <2>4. Longest(t, Append(s, c), k + 1, Step(t, n, c))
      BY <1>9, <2>1, <2>3, StepRight DEF s, n
    <2> QED BY <2>2, <2>3, <2>4 DEF c, n
  <1> HIDE DEF T
  <1>12. \A k \in Nat : k \in T
    BY <1>10, <1>11, Induct
  <1> SUFFICES ASSUME NEW i \in 0..Len(text)
               PROVE  Longest(t, SubSeq(text, 1, i), i, At(t, text, i))
    OBVIOUS
  <1>13. i \in Nat /\ i <= len
    BY <1>1
  <1>14. i \in T
    BY <1>12, <1>13
  <1> QED BY <1>7, <1>13, <1>14 DEF T

\* A keyword ends at the node a search is at exactly when it occurs there.
LEMMA OccursIs ==
  ASSUME NEW t, Ready(t), NEW text \in Strings, NEW i \in 0..Len(text),
         NEW q \in t.nodes
  PROVE  Suffix(q, At(t, text, i)) <=>
         Len(q) <= i /\ SubSeq(text, (i - Len(q)) + 1, i) = q
  <1>1. PICK k \in Nat, len \in Nat : k = Len(q) /\ len = Len(text)
    BY LenProperties DEF Ready, TrieOK, NodesOK, Strings
  <1> DEFINE s == SubSeq(text, 1, i)
             n == At(t, text, i)
  <1>2. q \in Strings /\ i \in Nat /\ i <= len
    BY <1>1 DEF Ready, TrieOK, NodesOK
  <1>3. s \in Strings /\ Len(s) = i /\ \A j \in 1..i : s[j] = text[j]
    BY <1>1, <1>2, PrefixIs
  <1>4. Longest(t, s, i, n)
    BY AtIs
  <1> HIDE DEF s, n
  <1>5. n \in Strings
    BY <1>4 DEF Longest, Ready, TrieOK, NodesOK
  <1>6. Suffix(q, n) <=> Suffix(q, s)
    <2>1. Suffix(q, n) => Suffix(q, s)
      BY <1>2, <1>3, <1>4, <1>5, SuffixOfSuffix DEF Longest
    <2>2. ASSUME Suffix(q, s) PROVE Suffix(q, n)
      <3>1. Len(q) <= i
        BY <1>3, <2>2 DEF Suffix
      <3>2. Len(q) <= Len(n)
        BY <1>4, <2>2, <3>1 DEF Longest
      <3> QED BY <1>2, <1>3, <1>4, <1>5, <2>2, <3>2, SuffixOfLonger DEF Longest
    <2> QED BY <2>1, <2>2
  <1>7. ASSUME k <= i PROVE Suffix(q, s) <=> SubSeq(text, (i - k) + 1, i) = q
    <2> DEFINE z == SubSeq(text, (i - k) + 1, i)
    <2>1. \A j \in ((i - k) + 1)..i : text[j] \in Characters
      <3> SUFFICES ASSUME NEW j \in ((i - k) + 1)..i PROVE text[j] \in Characters
        OBVIOUS
      <3>1. j \in 1..Len(text)
        BY <1>1, <1>2, <1>7
      <3> QED BY <3>1, ElementOfSeq DEF Strings
    <2>2. (i - k) + 1 \in Int /\ i \in Int
      BY <1>2
    <2>3. /\ z \in Strings
          /\ Len(z) = IF (i - k) + 1 <= i THEN i - ((i - k) + 1) + 1 ELSE 0
          /\ \A j \in 1..(i - ((i - k) + 1) + 1) : z[j] = text[((i - k) + 1) + j - 1]
      BY <2>1, <2>2, SubSeqProperties DEF Strings
    <2> HIDE DEF z
    <2>4. Len(z) = k
      BY <1>2, <1>7, <2>3
    <2>5. ASSUME NEW j \in 1..k PROVE z[j] = s[(i - k) + j]
      <3>1. /\ j \in 1..(i - ((i - k) + 1) + 1)
            /\ ((i - k) + 1) + j - 1 = (i - k) + j /\ (i - k) + j \in 1..i
        BY <1>2, <1>7
      <3> QED BY <1>3, <2>3, <3>1
    <2>6. Suffix(q, s) <=> \A j \in 1..k : q[j] = z[j]
      BY <1>1, <1>3, <1>7, <2>5 DEF Suffix
    <2>7. (\A j \in 1..k : q[j] = z[j]) => z = q
      BY <1>1, <1>2, <2>3, <2>4, SameString
    <2>8. Suffix(q, s) <=> z = q
      BY <2>6, <2>7
    <2> QED BY <2>8 DEF z
  <1>8. Suffix(q, s) => k <= i
    BY <1>1, <1>3 DEF Suffix
  <1> QED BY <1>1, <1>6, <1>7, <1>8 DEF n

(***************************************************************************)
(* What a search returns.                                                  *)
(***************************************************************************)
\* The matches found in the first i characters.
Upto(t, text, i) == UNION {Hits(t, At(t, text, j), j) : j \in 1..i}

LEMMA SearchIs ==
  ASSUME Ready(trie), is_built, NEW text \in Strings
  PROVE  /\ ToSet(search(text)) = Upto(trie, text, Len(text))
         /\ search(text) \in Seq(Matches(trie))
         /\ search(text) # <<>> => Promise!IsFirst(search(text)[1], ToSet(search(text)))
  <1>1. PICK len \in Nat : len = Len(text)
    BY LenProperties DEF Strings
  <1> DEFINE S == Seq(Matches(trie))
             All(i) == Collected(trie, At(trie, text, i), i)
             step == [p \in S \X Nat |-> IF p[2] \in 1..len THEN p[1] \o All(p[2]) ELSE p[1]]
  <1>2. \A i \in 1..len : At(trie, text, i) \in trie.nodes
    <2>1. \A i \in 1..len : i \in 0..Len(text)
      BY <1>1
    <2> QED BY <2>1, AtIs DEF Longest
  <1>3. ASSUME NEW i \in 1..len
        PROVE  /\ All(i) \in S /\ ToSet(All(i)) = Hits(trie, At(trie, text, i), i)
               /\ LongestFirst(All(i))
    <2>1. i \in Nat /\ At(trie, text, i) \in trie.nodes
      BY <1>2
    <2> QED BY <2>1, CollectedIs, AlongRight DEF Ready
  <1>4. <<>> \in S
    BY EmptySeq
  <1> HIDE DEF S, All
  <1>5. step \in [S \X Nat -> S]
    <2>1. \A x, y \in S : x \o y \in S
      BY ConcatProperties DEF S
    <2>2. ASSUME NEW x \in S, NEW i \in Nat
          PROVE  (IF i \in 1..len THEN x \o All(i) ELSE x) \in S
      BY <1>3, <2>1, <2>2
    <2> QED BY <2>2
  <1>6. PICK g : /\ g \in [0..len -> S] /\ g[0] = <<>>
                 /\ \A i \in 1..len : g[i] = step[<<g[i - 1], i>>]
    <2> HIDE DEF step
    <2>1. Recursion(S, <<>>, step)
      BY <1>4, <1>5 DEF Recursion
    <2>2. PICK g : Result(S, <<>>, step, len, g)
      BY <2>1, RecursionIs
    <2> QED BY <2>2 DEF Result
  <1>7. \A i \in 0..len : g[i] = IF i = 0 THEN <<>> ELSE g[i - 1] \o All(i)
    <2> SUFFICES ASSUME NEW i \in 0..len, i # 0 PROVE g[i] = g[i - 1] \o All(i)
      BY <1>6
    <2>1. i \in 1..len /\ i \in Nat /\ g[i - 1] \in S
      BY <1>6
    <2>2. g[i] = step[<<g[i - 1], i>>]
      <3> HIDE DEF step
      <3> QED BY <1>6, <2>1
    <2>3. step[<<g[i - 1], i>>] = g[i - 1] \o All(i)
      BY <2>1
    <2> QED BY <2>2, <2>3
  <1>8. g = [i \in 0..Len(text) |->
               IF i = 0 THEN <<>>
               ELSE g[i - 1] \o Collected(trie, At(trie, text, i), i)]
    <2>1. g = [i \in 0..Len(text) |-> g[i]]
      BY <1>1, <1>6
    <2> QED BY <1>1, <1>7, <2>1 DEF All
  <1> DEFINE found == CHOOSE f : f = [i \in 0..Len(text) |->
               IF i = 0 THEN <<>>
               ELSE f[i - 1] \o Collected(trie, At(trie, text, i), i)]
  <1>9. found = [i \in 0..Len(text) |->
               IF i = 0 THEN <<>>
               ELSE found[i - 1] \o Collected(trie, At(trie, text, i), i)]
    BY <1>8, Zenon
  <1>10. search(text) = found[Len(text)]
    BY DEF search
  <1> HIDE DEF found
  <1>11. found[0] = <<>> /\ \A i \in 1..len : found[i] = found[i - 1] \o All(i)
    <2>1. found = [i \in 0..len |-> IF i = 0 THEN <<>> ELSE found[i - 1] \o All(i)]
      BY <1>1, <1>9 DEF All
    <2>2. \A i \in 0..len : found[i] = IF i = 0 THEN <<>> ELSE found[i - 1] \o All(i)
      BY <2>1, Zenon
    <2>3. 0 \in 0..len /\ \A i \in 1..len : i \in 0..len /\ i # 0
      OBVIOUS
    <2> QED BY <2>2, <2>3
  <1> DEFINE Good(f, i) == /\ f \in S /\ ToSet(f) = Upto(trie, text, i)
                           /\ f # <<>> => Promise!IsFirst(f[1], ToSet(f))
             T == {i \in Nat : i <= len => Good(found[i], i)}
  <1>12. 0 \in T
    <2>1. Upto(trie, text, 0) = {} /\ ToSet(<<>>) = {}
      BY DEF Upto, ToSet
    <2> QED BY <1>4, <1>11, <2>1
  <1>13. ASSUME NEW i \in Nat, i \in T PROVE i + 1 \in T
    <2> SUFFICES ASSUME i + 1 <= len PROVE Good(found[i + 1], i + 1)
      OBVIOUS
    <2> DEFINE p == found[i]
               q == All(i + 1)
    <2>1. Good(p, i)
      BY <1>1, <1>13
    <2>2. i + 1 \in 1..len
      BY <1>1
    <2>3. found[i + 1] = p \o q
      <3>1. (i + 1) - 1 = i
        OBVIOUS
      <3>2. found[i + 1] = found[(i + 1) - 1] \o All(i + 1)
        BY <1>11, <2>2
      <3> QED BY <3>1, <3>2
    <2>4. /\ q \in S /\ ToSet(q) = Hits(trie, At(trie, text, i + 1), i + 1)
          /\ LongestFirst(q)
      BY <1>3, <2>2
    <2> HIDE DEF p, q
    <2>5. /\ ToSet(p \o q) = ToSet(p) \cup ToSet(q) /\ p \o q \in S
          /\ p # <<>> => (p \o q)[1] = p[1] /\ p[1] \in ToSet(p)
          /\ p = <<>> => p \o q = q
          /\ p = <<>> <=> ToSet(p) = {}
      <3>1. p \in Seq(Matches(trie)) /\ q \in Seq(Matches(trie))
        BY <2>1, <2>4 DEF S
      <3>2. p \o q \in S
        BY <3>1, ConcatProperties DEF S
      <3> QED BY <3>1, <3>2, Parts
    <2>51. q # <<>> => q[1] \in ToSet(q)
      BY <2>4, Parts DEF S
    <2>6. ToSet(p \o q) = Upto(trie, text, i + 1)
      <3>1. 1..(i + 1) = (1..i) \cup {i + 1}
        OBVIOUS
      <3> QED BY <2>1, <2>4, <2>5, <3>1 DEF Upto
    <2>7. \A h \in ToSet(p) : h.end_pos \in 1..i
      BY <2>1 DEF Upto, Hits
    <2>8. \A h \in ToSet(q) : h.end_pos = i + 1
      BY <2>4 DEF Hits
    <2>9. ASSUME p \o q # <<>> PROVE Promise!IsFirst((p \o q)[1], ToSet(p \o q))
      <3>1. CASE p # <<>>
        <4>1. (p \o q)[1] = p[1] /\ p[1].end_pos \in 1..i
          BY <2>5, <2>7, <3>1
        <4>2. Promise!IsFirst(p[1], ToSet(p))
          BY <2>1, <3>1
        <4>3. \A h \in ToSet(q) : p[1].end_pos < h.end_pos
          BY <2>8, <4>1
        <4> QED BY <2>5, <4>1, <4>2, <4>3 DEF Promise!IsFirst
      <3>2. CASE p = <<>>
        <4>1. p \o q = q
          BY <2>5, <3>2
        <4>2. q # <<>> /\ q[1].end_pos = i + 1
          BY <2>8, <2>9, <2>51, <4>1
        <4> QED BY <2>4, <2>8, <4>1, <4>2 DEF LongestFirst, Promise!IsFirst
      <3> QED BY <3>1, <3>2
    <2>10. Good(p \o q, i + 1)
      BY <2>5, <2>6, <2>9
    <2> HIDE DEF Good
    <2> QED BY <2>3, <2>10
  <1> HIDE DEF T
  <1>14. len \in T
    BY <1>12, <1>13, Induct
  <1>15. Good(found[len], len)
    BY <1>14 DEF T
  <1> QED BY <1>1, <1>10, <1>15 DEF S

\* In every state whose links are right when it is built, search and
\* contains_any answer as Matcher promises.
LEMMA SearchExactFrom ==
  ASSUME is_built \in BOOLEAN, is_built => Ready(trie)
  PROVE  SearchExact
  <1> SUFFICES ASSUME NEW text \in Texts
               PROVE  /\ ToSet(search(text)) = Promise!Found(text)
                      /\ search(text) # <<>> =>
                            Promise!IsFirst(search(text)[1], ToSet(search(text)))
                      /\ contains_any(text) <=> search(text) # <<>>
    BY Zenon DEF SearchExact
  <1>1. text \in Strings
    BY AhoCorasickAssumption DEF Strings
  <1>2. CASE is_built
    <2>1. Ready(trie)
      BY <1>2
    <2>2. PICK found : found = search(text)
      OBVIOUS
    <2>3. /\ ToSet(found) = Upto(trie, text, Len(text))
          /\ found \in Seq(Matches(trie))
          /\ found # <<>> => Promise!IsFirst(found[1], ToSet(found))
      BY <1>1, <1>2, <2>1, <2>2, SearchIs
    <2>4. \A i \in 1..Len(text) : At(trie, text, i) \in trie.nodes
      <3>1. \A i \in 1..Len(text) : i \in 0..Len(text)
        BY <1>1, LenProperties DEF Strings
      <3> QED BY <1>1, <2>1, <3>1, AtIs DEF Longest
    <2>5. ASSUME NEW i \in 1..Len(text), NEW q \in trie.nodes
          PROVE  Suffix(q, At(trie, text, i)) <=> Promise!Occurs(q, text, i)
      <3>1. i \in 0..Len(text)
        BY <1>1, LenProperties DEF Strings
      <3>2. Suffix(q, At(trie, text, i)) <=>
              Len(q) <= i /\ SubSeq(text, (i - Len(q)) + 1, i) = q
        BY <1>1, <2>1, <3>1, OccursIs
      <3> QED BY <3>2 DEF Promise!Occurs
    <2>6. Upto(trie, text, Len(text)) = Promise!Found(text)
      <3>1. ASSUME NEW i \in 1..Len(text), NEW h \in Hits(trie, At(trie, text, i), i)
            PROVE  h \in Promise!Found(text)
        <4>1. PICK q \in trie.nodes : /\ trie.patterns[q] > 0
                                      /\ Suffix(q, At(trie, text, i))
                                      /\ h = [pattern |-> q, end_pos |-> i]
          BY DEF Hits, Ending
        <4>2. h \in [pattern : Dictionary, end_pos : 1..Len(text)]
          BY <4>1 DEF Dictionary
        <4>3. Promise!Occurs(h.pattern, text, h.end_pos)
          BY <2>5, <4>1
        <4> QED BY <1>2, <4>2, <4>3 DEF Promise!Found
      <3>2. ASSUME NEW h \in Promise!Found(text)
            PROVE  h \in Upto(trie, text, Len(text))
        <4>1. PICK q \in Dictionary, i \in 1..Len(text) :
                h = [pattern |-> q, end_pos |-> i] /\ Promise!Occurs(h.pattern, text, h.end_pos)
          BY <1>2 DEF Promise!Found
        <4>2. q \in trie.nodes /\ trie.patterns[q] > 0
          BY DEF Dictionary
        <4>3. Suffix(q, At(trie, text, i))
          BY <2>5, <4>1, <4>2
        <4>4. h \in Hits(trie, At(trie, text, i), i)
          BY <4>1, <4>2, <4>3 DEF Hits, Ending
        <4> QED BY <4>4 DEF Upto
      <3> QED BY <3>1, <3>2 DEF Upto
    <2>7. contains_any(text) <=> Upto(trie, text, Len(text)) # {}
      <3>1. ASSUME NEW n \in trie.nodes
            PROVE  trie.patterns[n] > 0 \/ trie.output_link[n] # Root <=> Ending(trie, n) # {}
        <4>1. /\ trie.patterns[Root] = 0 /\ trie.output_link[Root] = Root
              /\ trie.output_link[n] \in trie.nodes /\ n \in Strings
          BY <2>1 DEF Ready, TrieOK, Shortens, NodesOK
        <4>2. CASE n = Root
          <5>1. Ending(trie, Root) = {}
            BY <2>1, EndingIs
          <5> QED BY <4>1, <4>2, <5>1
        <4>3. CASE n # Root
          <5> DEFINE o == trie.output_link[n]
          <5>1. Ending(trie, n) = {q \in {n} : trie.patterns[q] > 0} \cup Ending(trie, o)
            BY <2>1, <4>3, EndingIs
          <5>2. o # Root => o \in Ending(trie, o)
            <6>1. o = Root \/ trie.patterns[o] > 0
              BY <2>1, <4>3 DEF Ready, Right, OutRight
            <6>2. o \in trie.nodes /\ o \in Strings
              BY <2>1, <4>1 DEF Ready, TrieOK, NodesOK
            <6>3. Suffix(o, o)
              BY <6>2, SuffixEnds
            <6> QED BY <6>1, <6>2, <6>3 DEF Ending
          <5>3. o = Root => Ending(trie, o) = {}
            BY <2>1, EndingIs
          <5> HIDE DEF o
          <5>4. trie.patterns[n] > 0 \/ o # Root <=> Ending(trie, n) # {}
            BY <5>1, <5>2, <5>3
          <5> QED BY <5>4 DEF o
        <4> QED BY <4>2, <4>3
      <3>2. \A i \in 1..Len(text) :
              Hits(trie, At(trie, text, i), i) # {} <=> Ending(trie, At(trie, text, i)) # {}
        BY DEF Hits
      <3>3. \A i \in 1..Len(text) :
              LET n == At(trie, text, i)
              IN  trie.patterns[n] > 0 \/ trie.output_link[n] # Root
                    <=> Hits(trie, n, i) # {}
        BY <2>4, <3>1, <3>2
      <3>4. Upto(trie, text, Len(text)) # {} <=>
              \E i \in 1..Len(text) : Hits(trie, At(trie, text, i), i) # {}
        BY DEF Upto
      <3> QED BY <1>2, <3>3, <3>4, Zenon DEF contains_any
    <2>8. found # <<>> <=> ToSet(found) # {}
      BY <2>3, Parts
    <2> QED BY <2>2, <2>3, <2>6, <2>7, <2>8
  <1>3. CASE ~is_built
    <2>1. search(text) = <<>>
      BY <1>3 DEF search
    <2>2. Promise!Found(text) = {}
      BY <1>3 DEF Promise!Found
    <2>3. ToSet(<<>>) = {}
      BY DEF ToSet
    <2>4. ~contains_any(text)
      BY <1>3 DEF contains_any
    <2> QED BY <2>1, <2>2, <2>3, <2>4
  <1> QED BY <1>2, <1>3

-----------------------------------------------------------------------------
(***************************************************************************)
(* The calls on the matcher.                                               *)
(***************************************************************************)
\* A prefix of a prefix is a prefix, and a string is one of its own.
LEMMA PrefixesOf ==
  ASSUME NEW s \in Strings
  PROVE  /\ s \in Prefixes(s) /\ Root \in Prefixes(s) /\ Prefixes(s) \subseteq Strings
         /\ \A p \in Prefixes(s) : Prefixes(p) \subseteq Prefixes(s) /\ Len(p) <= Len(s)
  <1>1. PICK n \in Nat : n = Len(s)
    BY LenProperties DEF Strings
  <1>2. \A k \in 0..n : /\ SubSeq(s, 1, k) \in Strings /\ Len(SubSeq(s, 1, k)) = k
                        /\ \A i \in 1..k : SubSeq(s, 1, k)[i] = s[i]
    BY <1>1, PrefixIs
  <1>3. \A p \in Prefixes(s) : \E k \in 0..n : p = SubSeq(s, 1, k)
    BY <1>1 DEF Prefixes
  <1>4. \A k \in 0..n : SubSeq(s, 1, k) \in Prefixes(s)
    BY <1>1 DEF Prefixes
  <1>5. SubSeq(s, 1, n) = s
    <2>1. n \in 0..n
      OBVIOUS
    <2> QED BY <1>1, <1>2, <2>1, SameString
  <1>6. SubSeq(s, 1, 0) = Root
    <2>1. 0 \in 0..n
      OBVIOUS
    <2> QED BY <1>2, <2>1, EmptySeq DEF Strings, Root
  <1>7. ASSUME NEW p \in Prefixes(s)
        PROVE  Prefixes(p) \subseteq Prefixes(s) /\ Len(p) <= Len(s) /\ p \in Strings
    <2>1. PICK k \in 0..n : p = SubSeq(s, 1, k)
      BY <1>3
    <2>2. p \in Strings /\ Len(p) = k /\ \A i \in 1..k : p[i] = s[i]
      BY <1>2, <2>1
    <2>3. ASSUME NEW q \in Prefixes(p) PROVE q \in Prefixes(s)
      <3>1. PICK j \in 0..k : q = SubSeq(p, 1, j)
        BY <2>2, <2>3 DEF Prefixes
      <3>2. j \in Nat /\ j <= Len(p) /\ j \in 0..n
        BY <2>2
      <3>3. q \in Strings /\ Len(q) = j /\ \A i \in 1..j : q[i] = p[i]
        BY <2>2, <3>1, <3>2, PrefixIs
      <3>4. \A i \in 1..j : q[i] = SubSeq(s, 1, j)[i]
        <4>1. \A i \in 1..j : i \in 1..k
          OBVIOUS
        <4> QED BY <1>2, <2>2, <3>2, <3>3, <4>1
      <3>5. q = SubSeq(s, 1, j)
        BY <1>2, <3>2, <3>3, <3>4, SameString
      <3> QED BY <1>4, <3>2, <3>5
    <2> QED BY <1>1, <2>2, <2>3
  <1>8. n \in 0..n /\ 0 \in 0..n
    OBVIOUS
  <1> QED BY <1>4, <1>5, <1>6, <1>7, <1>8

LEMMA EmptyTrieOK == TrieOK(EmptyTrie) /\ Ready(EmptyTrie)
  <1>1. Root \in Strings /\ Len(Root) = 0
    BY EmptySeq DEF Strings, Root
  <1>2. Prefixes(Root) \subseteq {Root}
    <2>1. ASSUME NEW p \in Prefixes(Root) PROVE p = Root
      <3>1. PICK k \in 0..0 : p = SubSeq(Root, 1, k)
        BY <1>1 DEF Prefixes
      <3>2. k = 0
        OBVIOUS
      <3>3. p \in Strings /\ Len(p) = 0
        BY <1>1, <3>1, <3>2, PrefixIs
      <3> QED BY <3>3, EmptySeq DEF Strings, Root
    <2> QED BY <2>1
  <1>3. NodesOK({Root})
    BY <1>1, <1>2 DEF NodesOK
  <1> QED BY <1>3 DEF TrieOK, Ready, EmptyTrie, Shortens

\* add_keyword (lines 23-52): one keyword more, and the trie stays a trie.
LEMMA AddedIs ==
  ASSUME NEW t, TrieOK(t), NEW word \in Strings, word # Root
  PROVE  /\ TrieOK(Added(t, word))
         /\ {n \in Added(t, word).nodes : Added(t, word).patterns[n] > 0}
              = {n \in t.nodes : t.patterns[n] > 0} \cup {word}
  <1> DEFINE nodes == t.nodes \cup Prefixes(word)
             ext == Extended(t.patterns, nodes, 0)
             u == Added(t, word)
  <1>1. /\ word \in Prefixes(word) /\ Root \in Prefixes(word) /\ Prefixes(word) \subseteq Strings
        /\ \A p \in Prefixes(word) : Prefixes(p) \subseteq Prefixes(word)
                                     /\ Len(p) <= Len(word)
    BY PrefixesOf
  <1>2. NodesOK(t.nodes) /\ t.patterns \in [t.nodes -> Nat] /\ t.patterns[Root] = 0
    BY DEF TrieOK
  <1>3. NodesOK(nodes)
    <2>1. PICK b \in Nat : \A n \in t.nodes : Len(n) <= b
      BY <1>2 DEF NodesOK
    <2>2. PICK k \in Nat : k = Len(word)
      BY LenProperties DEF Strings
    <2>3. \A n \in nodes : n \in Strings /\ Len(n) \in Nat
      BY <1>1, <1>2, LenProperties DEF NodesOK, Strings
    <2>4. \A n \in nodes : Len(n) <= b + k
      <3> SUFFICES ASSUME NEW n \in nodes PROVE Len(n) <= b + k
        OBVIOUS
      <3>1. Len(n) <= b \/ Len(n) <= k
        BY <1>1, <2>1, <2>2
      <3> QED BY <2>3, <3>1
    <2>5. \A n \in nodes : Prefixes(n) \subseteq nodes
      BY <1>1, <1>2 DEF NodesOK
    <2>6. Root \in nodes /\ b + k \in Nat
      BY <1>1
    <2> HIDE DEF nodes
    <2> QED BY <2>3, <2>4, <2>5, <2>6 DEF NodesOK
  <1>4. ASSUME NEW link, Shortens(link, t.nodes)
        PROVE  /\ Shortens(Extended(link, nodes, Root), nodes)
               /\ Extended(link, nodes, Root)[Root] = link[Root]
    <2>1. Root \in t.nodes /\ \A n \in nodes : n # Root => Len(n) > Len(Root)
      <3>1. \A n \in nodes : n \in Strings
        BY <1>3 DEF NodesOK
      <3>2. Len(Root) = 0 /\ \A n \in nodes : n # Root => Len(n) \in Nat /\ Len(n) >= 1
        BY <3>1, FrontAndLast, EmptySeq DEF Root
      <3>3. \A n \in nodes : n # Root => Len(n) > 0
        BY <3>2
      <3> QED BY <1>2, <3>2, <3>3 DEF NodesOK
    <2>2. DOMAIN link = t.nodes /\ Root \in nodes /\ t.nodes \subseteq nodes
      BY <1>1, <1>4 DEF Shortens
    <2>3. \A n \in nodes : Len(Root) < Len(n) <=> Len(n) > Len(Root)
      <3>1. Len(Root) \in Nat /\ \A n \in nodes : Len(n) \in Nat
        BY <1>3, LenProperties, EmptySeq DEF NodesOK, Strings, Root
      <3> QED BY <3>1
    <2> HIDE DEF nodes
    <2> QED BY <1>4, <2>1, <2>2, <2>3 DEF Shortens, Extended
  <1>5. /\ u = [nodes |-> u.nodes, fail_link |-> u.fail_link,
                output_link |-> u.output_link, patterns |-> u.patterns]
        /\ u.nodes = nodes
        /\ u.fail_link = Extended(t.fail_link, nodes, Root)
        /\ u.output_link = Extended(t.output_link, nodes, Root)
        /\ u.patterns = [ext EXCEPT ![word] = @ + 1]
    BY DEF Added
  <1>6. ext \in [nodes -> Nat] /\ word \in nodes /\ Root \in nodes
        /\ \A n \in nodes : ext[n] = IF n \in t.nodes THEN t.patterns[n] ELSE 0
    BY <1>1, <1>2 DEF Extended
  <1> HIDE DEF u, ext
  <1>7. /\ u.patterns \in [nodes -> Nat]
        /\ \A n \in nodes : u.patterns[n] = IF n = word THEN ext[word] + 1 ELSE ext[n]
    <2> HIDE DEF nodes
    <2> QED BY <1>5, <1>6
  <1>8. u.patterns[Root] = 0
    BY <1>2, <1>6, <1>7 DEF NodesOK
  <1>9. TrieOK(u)
    <2>1. Shortens(t.fail_link, t.nodes) /\ Shortens(t.output_link, t.nodes)
          /\ t.output_link[Root] = Root
      BY DEF TrieOK
    <2> HIDE DEF nodes
    <2> QED BY <1>3, <1>4, <1>5, <1>7, <1>8, <2>1 DEF TrieOK
  <1>10. {n \in nodes : u.patterns[n] > 0} = {n \in t.nodes : t.patterns[n] > 0} \cup {word}
    <2>1. ext[word] + 1 > 0
      BY <1>6
    <2>2. \A n \in nodes : n # word => (u.patterns[n] > 0 <=> n \in t.nodes /\ t.patterns[n] > 0)
      BY <1>6, <1>7
    <2>3. u.patterns[word] > 0
      BY <1>6, <1>7, <2>1
    <2>4. t.nodes \subseteq nodes
      OBVIOUS
    <2> HIDE DEF nodes
    <2> QED BY <1>6, <2>2, <2>3, <2>4
  <1> QED BY <1>5, <1>9, <1>10 DEF u

(***************************************************************************)
(* The calls of the writers.                                               *)
(***************************************************************************)
\* The keywords that are given to add_keyword.
Given == {word \in Keywords : word \in Strings /\ word # Root}

Adds == {Add(word) : word \in Given}

Calls == Adds \cup {Clear, Build}

LEMMA CallIs ==
  ASSUME NEW c \in Calls
  PROVE  /\ c.call = "add" => c \in Adds /\ c.word \in Given /\ c = Add(c.word)
         /\ c.call = "clear" => c = Clear
         /\ c.call = "build" => c = Build
         /\ c \in Adds => c.call = "add" /\ c # Build /\ c # Clear
         /\ Clear # Build /\ Clear.call = "clear" /\ Build.call = "build"
  BY DEF Calls, Adds, Add, Clear, Build

Tokens == [token : STRING, value : Strings]

\* What the parser may expect.
Modes == {"start", "key", "colon", "bracket", "value", "after value", "after list", "end"}

States == [expects : Modes, headed : BOOLEAN, keywords : Seq(Strings)]

LEMMA ModesAre ==
  /\ "start" \in Modes /\ "key" \in Modes /\ "colon" \in Modes /\ "bracket" \in Modes
  /\ "value" \in Modes /\ "after value" \in Modes /\ "after list" \in Modes
  /\ "end" \in Modes
  BY DEF Modes

LEMMA ParseTokenIn ==
  ASSUME NEW p \in States, NEW t \in Tokens
  PROVE  ParseToken(p, t) \in States
  <1> DEFINE S == Seq(Strings)
  <1>1. t.value \in Strings /\ Append(p.keywords, t.value) \in S /\ p.keywords \in S
    BY AppendProperties DEF States, Tokens
  <1> HIDE DEF S
  <1>2. \A e \in Modes : [p EXCEPT !.expects = e] \in States
    BY DEF States
  <1>3. \A e \in Modes, h \in BOOLEAN :
          [[p EXCEPT !.expects = e] EXCEPT !.headed = h] \in States
    BY DEF States
  <1>4. \A e \in Modes, k \in S :
          [p EXCEPT !.expects = e, !.keywords = k] \in States
    BY DEF States, S
  <1>5. AfterList(p, t) \in States
    BY <1>2, ModesAre DEF AfterList
  <1>6. AfterValue(p, t) \in States
    BY <1>2, <1>5, ModesAre DEF AfterValue
  <1>7. Value(p, t) \in States
    <2> DEFINE k == IF t.value = <<>> THEN p.keywords ELSE Append(p.keywords, t.value)
    <2>1. k \in S
      BY <1>1
    <2>2. [p EXCEPT !.expects = "after value",
                    !.keywords = IF t.value = <<>> THEN @ ELSE Append(@, t.value)]
            = [p EXCEPT !.expects = "after value", !.keywords = k]
      BY DEF States
    <2> HIDE DEF k
    <2>3. [p EXCEPT !.expects = "after value", !.keywords = k] \in States
      BY <1>4, <2>1, ModesAre
    <2> QED BY <1>2, <1>6, <2>2, <2>3, ModesAre DEF Value
  <1>8. \A mark \in BOOLEAN, then \in Modes : Expect(p, mark, then) \in States
    BY <1>2, ModesAre DEF Expect
  <1>9. \A mark \in BOOLEAN, then \in Modes, h \in BOOLEAN :
            [Expect(p, mark, then) EXCEPT !.headed = h] \in States
    BY <1>3, ModesAre DEF Expect
  <1>10. (t.token = "{") \in BOOLEAN /\ (t.token = ":") \in BOOLEAN
         /\ (t.token = "[") \in BOOLEAN
         /\ (t.token = "string" /\ t.value # <<>>) \in BOOLEAN
    OBVIOUS
  <1> QED BY <1>5, <1>6, <1>7, <1>8, <1>9, <1>10, ModesAre DEF ParseToken

\* The parser of a dictionary file, a token at a time.
LEMMA ParsedIn ==
  ASSUME NEW doc \in Seq(Tokens)
  PROVE  Parsed(doc) \in States
  <1>1. PICK len \in Nat : len = Len(doc)
    BY LenProperties
  <1> DEFINE start == [expects |-> "start", headed |-> FALSE, keywords |-> <<>>]
             step == [p \in States \X Nat |-> IF p[2] \in 1..len
                                              THEN ParseToken(p[1], doc[p[2]]) ELSE p[1]]
  <1>2. start \in States
    BY EmptySeq, ModesAre DEF States
  <1>3. \A i \in 1..len : doc[i] \in Tokens
    BY <1>1, ElementOfSeq
  <1>4. step \in [States \X Nat -> States]
    BY <1>3, ParseTokenIn
  <1>5. PICK g : /\ g \in [0..len -> States] /\ g[0] = start
                 /\ \A i \in 1..len : g[i] = step[<<g[i - 1], i>>]
    <2> HIDE DEF start, step
    <2>1. Recursion(States, start, step)
      BY <1>2, <1>4 DEF Recursion
    <2>2. PICK g : Result(States, start, step, len, g)
      BY <2>1, RecursionIs
    <2> QED BY <2>2 DEF Result
  <1>6. \A i \in 1..len : g[i] = ParseToken(g[i - 1], doc[i])
    <2> SUFFICES ASSUME NEW i \in 1..len PROVE g[i] = ParseToken(g[i - 1], doc[i])
      OBVIOUS
    <2>1. g[i - 1] \in States /\ i \in Nat
      BY <1>5
    <2>2. g[i] = step[<<g[i - 1], i>>]
      <3> HIDE DEF step
      <3> QED BY <1>5
    <2> QED BY <2>1, <2>2
  <1> HIDE DEF step
  <1>7. g = [i \in 0..Len(doc) |-> IF i = 0 THEN start ELSE ParseToken(g[i - 1], doc[i])]
    <2>1. g = [i \in 0..len |-> g[i]]
      BY <1>5
    <2>2. \A i \in 0..len : g[i] = IF i = 0 THEN start ELSE ParseToken(g[i - 1], doc[i])
      BY <1>5, <1>6
    <2> HIDE DEF start
    <2> QED BY <1>1, <2>1, <2>2
  <1> DEFINE after == CHOOSE f : f = [i \in 0..Len(doc) |->
                         IF i = 0 THEN start ELSE ParseToken(f[i - 1], doc[i])]
  <1>8. after = [i \in 0..Len(doc) |->
                   IF i = 0 THEN start ELSE ParseToken(after[i - 1], doc[i])]
    BY <1>7, Zenon
  <1>9. Parsed(doc) = after[Len(doc)]
    BY DEF Parsed
  <1> HIDE DEF after, start
  <1>10. after[0] = start /\ \A i \in 1..len : after[i] = ParseToken(after[i - 1], doc[i])
    BY <1>1, <1>8
  <1> DEFINE T == {i \in Nat : i <= len => after[i] \in States}
  <1>11. 0 \in T
    BY <1>2, <1>10
  <1>12. ASSUME NEW i \in Nat, i \in T PROVE i + 1 \in T
    <2> SUFFICES ASSUME i + 1 <= len PROVE after[i + 1] \in States
      OBVIOUS
    <2>1. after[i] \in States /\ i + 1 \in 1..len /\ (i + 1) - 1 = i
      BY <1>1, <1>12
    <2>2. after[i + 1] = ParseToken(after[i], doc[i + 1])
      BY <1>10, <2>1
    <2> QED BY <1>3, <2>1, <2>2, ParseTokenIn
  <1> HIDE DEF T
  <1>13. len \in T
    BY <1>11, <1>12, Induct
  <1> QED BY <1>1, <1>9, <1>13 DEF T

LEMMA AppendedSet ==
  ASSUME NEW S, NEW s \in Seq(S), NEW e \in S
  PROVE  ToSet(Append(s, e)) = ToSet(s) \cup {e}
  <1>1. <<e>> \in Seq(S) /\ ToSet(<<e>>) = {e}
    BY DEF ToSet
  <1>2. Append(s, e) = s \o <<e>>
    BY AppendIsConcat
  <1> DEFINE q == <<e>>
  <1> HIDE DEF q
  <1>3. ToSet(s \o q) = ToSet(s) \cup ToSet(q)
    <2>1. q \in Seq(S)
      BY <1>1 DEF q
    <2> QED BY <2>1, Parts
  <1> QED BY <1>1, <1>2, <1>3 DEF q

\* The calls of add_keywords.
LEMMA AddAllIn ==
  ASSUME NEW words \in Seq(Strings), ToSet(words) \subseteq Keywords
  PROVE  /\ AddAll(words) \in Seq(Adds)
         /\ ToSet(AddAll(words)) = {Add(word) : word \in ToSet(words) \ {<<>>}}
  <1>1. PICK len \in Nat : len = Len(words)
    BY LenProperties
  <1> DEFINE S == Seq(Adds)
             step == [p \in S \X Nat |->
                        IF p[2] \in 1..len /\ words[p[2]] # <<>>
                        THEN Append(p[1], Add(words[p[2]])) ELSE p[1]]
  <1>2. <<>> \in S
    BY EmptySeq
  <1>3. \A i \in 1..len : words[i] # <<>> => Add(words[i]) \in Adds
    <2> SUFFICES ASSUME NEW i \in 1..len, words[i] # <<>> PROVE Add(words[i]) \in Adds
      OBVIOUS
    <2>1. words[i] \in Strings /\ words[i] \in ToSet(words)
      BY <1>1, ElementOfSeq, LenProperties DEF ToSet
    <2>2. words[i] \in Given
      BY <2>1 DEF Given, Root
    <2> QED BY <2>2 DEF Adds
  <1>4. \A x \in S, a \in Adds : Append(x, a) \in S
    BY AppendProperties
  <1> HIDE DEF S
  <1>5. step \in [S \X Nat -> S]
    BY <1>3, <1>4
  <1>6. PICK g : /\ g \in [0..len -> S] /\ g[0] = <<>>
                 /\ \A i \in 1..len : g[i] = step[<<g[i - 1], i>>]
    <2> HIDE DEF step
    <2>1. Recursion(S, <<>>, step)
      BY <1>2, <1>5 DEF Recursion
    <2>2. PICK g : Result(S, <<>>, step, len, g)
      BY <2>1, RecursionIs
    <2> QED BY <2>2 DEF Result
  <1>7. \A i \in 1..len : g[i] = IF words[i] = <<>> THEN g[i - 1]
                                 ELSE Append(g[i - 1], Add(words[i]))
    <2> SUFFICES ASSUME NEW i \in 1..len
                 PROVE  g[i] = IF words[i] = <<>> THEN g[i - 1]
                               ELSE Append(g[i - 1], Add(words[i]))
      OBVIOUS
    <2>1. g[i - 1] \in S /\ i \in Nat
      BY <1>6
    <2>2. g[i] = step[<<g[i - 1], i>>]
      <3> HIDE DEF step
      <3> QED BY <1>6
    <2> QED BY <2>1, <2>2
  <1> HIDE DEF step
  <1>8. g = [i \in 0..Len(words) |->
               IF i = 0 THEN <<>>
               ELSE IF words[i] = <<>> THEN g[i - 1] ELSE Append(g[i - 1], Add(words[i]))]
    <2>1. g = [i \in 0..len |-> g[i]]
      BY <1>6
    <2>2. \A i \in 0..len : g[i] = IF i = 0 THEN <<>>
               ELSE IF words[i] = <<>> THEN g[i - 1] ELSE Append(g[i - 1], Add(words[i]))
      <3>1. \A i \in 0..len : i = 0 \/ (i \in 1..len /\ i # 0)
        OBVIOUS
      <3> QED BY <1>6, <1>7, <3>1, Zenon
    <2> QED BY <1>1, <2>1, <2>2
  <1> DEFINE adds == CHOOSE f : f = [i \in 0..Len(words) |->
               IF i = 0 THEN <<>>
               ELSE IF words[i] = <<>> THEN f[i - 1] ELSE Append(f[i - 1], Add(words[i]))]
  <1>9. adds = [i \in 0..Len(words) |->
               IF i = 0 THEN <<>>
               ELSE IF words[i] = <<>> THEN adds[i - 1]
                    ELSE Append(adds[i - 1], Add(words[i]))]
    BY <1>8, Zenon
  <1>10. AddAll(words) = adds[Len(words)]
    BY DEF AddAll
  <1> HIDE DEF adds
  <1>11. adds[0] = <<>> /\ \A i \in 1..len : adds[i] =
            IF words[i] = <<>> THEN adds[i - 1] ELSE Append(adds[i - 1], Add(words[i]))
    <2>1. \A i \in 0..len : adds[i] =
            IF i = 0 THEN <<>>
            ELSE IF words[i] = <<>> THEN adds[i - 1]
                 ELSE Append(adds[i - 1], Add(words[i]))
      BY <1>1, <1>9, Zenon
    <2>2. 0 \in 0..len /\ \A i \in 1..len : i \in 0..len /\ i # 0
      OBVIOUS
    <2> QED BY <2>1, <2>2, Zenon
  <1> DEFINE Of(i) == {words[j] : j \in 1..i} \ {<<>>}
             Good(a, i) == a \in S /\ ToSet(a) = {Add(word) : word \in Of(i)}
             T == {i \in Nat : i <= len => Good(adds[i], i)}
  <1>12. 0 \in T
    <2>1. Of(0) = {} /\ ToSet(<<>>) = {}
      BY DEF ToSet
    <2> QED BY <1>2, <1>11, <2>1
  <1>13. ASSUME NEW i \in Nat, i \in T PROVE i + 1 \in T
    <2> SUFFICES ASSUME i + 1 <= len PROVE Good(adds[i + 1], i + 1)
      OBVIOUS
    <2>1. Good(adds[i], i) /\ i + 1 \in 1..len /\ (i + 1) - 1 = i
      BY <1>1, <1>13
    <2>2. adds[i + 1] = IF words[i + 1] = <<>> THEN adds[i]
                        ELSE Append(adds[i], Add(words[i + 1]))
      BY <1>11, <2>1
    <2>3. Of(i + 1) = Of(i) \cup ({words[i + 1]} \ {<<>>})
      <3>1. 1..(i + 1) = (1..i) \cup {i + 1}
        OBVIOUS
      <3> QED BY <3>1
    <2>4. CASE words[i + 1] = <<>>
      <3>1. Of(i + 1) = Of(i)
        BY <2>3, <2>4
      <3> HIDE DEF Of
      <3> QED BY <2>1, <2>2, <2>4, <3>1
    <2>5. CASE words[i + 1] # <<>>
      <3> DEFINE a == adds[i]
                 new == words[i + 1]
      <3>1. Of(i + 1) = Of(i) \cup {new}
        BY <2>3, <2>5
      <3>2. Add(new) \in Adds /\ a \in S
        BY <1>3, <2>1, <2>5
      <3> HIDE DEF a, new, Of
      <3>3. Append(a, Add(new)) \in S /\ ToSet(Append(a, Add(new))) = ToSet(a) \cup {Add(new)}
        BY <1>4, <3>2, AppendedSet DEF S
      <3>4. ToSet(a) = {Add(word) : word \in Of(i)}
        BY <2>1 DEF a
      <3>5. Good(Append(a, Add(new)), i + 1)
        BY <3>1, <3>3, <3>4
      <3> QED BY <2>2, <2>5, <3>5 DEF a, new
    <2> QED BY <2>4, <2>5
  <1> HIDE DEF T
  <1>14. len \in T
    BY <1>12, <1>13, Induct
  <1>15. ToSet(words) = {words[j] : j \in 1..len}
    BY <1>1, LenProperties DEF ToSet
  <1> QED BY <1>1, <1>10, <1>14, <1>15 DEF T, S

\* Calls that end with a build.
Pending(c) == c # <<>> /\ c[Len(c)] = Build

\* Calls with an addition among them end with a build.
Guarded(c) == (\E i \in 1..Len(c) : c[i] \in Adds) => Pending(c)

LEMMA ThenBuild ==
  ASSUME NEW c \in Seq(Calls)
  PROVE  c \o <<Build>> \in Seq(Calls) /\ Pending(c \o <<Build>>)
  <1>1. <<Build>> \in Seq(Calls) /\ Len(<<Build>>) = 1 /\ <<Build>>[1] = Build
    BY DEF Calls
  <1>2. PICK n \in Nat : n = Len(c)
    BY LenProperties
  <1> DEFINE b == c \o <<Build>>
  <1>3. /\ b \in Seq(Calls) /\ Len(b) = n + 1
        /\ \A i \in 1..(n + 1) : b[i] = IF i <= n THEN c[i] ELSE <<Build>>[i - n]
    BY <1>1, <1>2, ConcatProperties
  <1>4. n + 1 \in 1..(n + 1) /\ ~(n + 1 <= n) /\ (n + 1) - n = 1
    OBVIOUS
  <1>5. b[n + 1] = Build
    BY <1>1, <1>3, <1>4
  <1> HIDE DEF b
  <1>6. b # <<>>
    BY <1>3, <1>4, EmptySeq
  <1> QED BY <1>3, <1>5, <1>6 DEF Pending, b

LEMMA AfterClear ==
  ASSUME NEW c \in Seq(Calls)
  PROVE  <<Clear>> \o c \in Seq(Calls) /\ (Pending(c) => Pending(<<Clear>> \o c))
  <1>1. <<Clear>> \in Seq(Calls) /\ Len(<<Clear>>) = 1
    BY DEF Calls
  <1>2. PICK n \in Nat : n = Len(c)
    BY LenProperties
  <1> DEFINE b == <<Clear>> \o c
  <1>3. /\ b \in Seq(Calls) /\ Len(b) = 1 + n
        /\ \A i \in 1..(1 + n) : b[i] = IF i <= 1 THEN <<Clear>>[i] ELSE c[i - 1]
    BY <1>1, <1>2, ConcatProperties
  <1> HIDE DEF b
  <1>4. ASSUME Pending(c) PROVE Pending(b)
    <2>1. n # 0
      BY <1>2, <1>4, EmptySeq DEF Pending
    <2>2. 1 + n \in 1..(1 + n) /\ ~(1 + n <= 1) /\ (1 + n) - 1 = n
      BY <2>1
    <2>3. b[1 + n] = c[n]
      BY <1>3, <2>2
    <2>4. b # <<>>
      BY <1>3, <2>2, EmptySeq
    <2> QED BY <1>2, <1>3, <1>4, <2>3, <2>4 DEF Pending
  <1> QED BY <1>3, <1>4 DEF b

\* The calls of every change: if they add, a build is the last of them.
LEMMA CallsOfIs ==
  ASSUME NEW op \in Changes
  PROVE  CallsOf(op) \in Seq(Calls) /\ Guarded(CallsOf(op))
  <1>0. \A a \in Seq(Adds) : a \in Seq(Calls)
    BY SeqMonotonic DEF Calls
  <1>1. CASE \E word \in Words : op = AddKeyword(word)
    <2>1. PICK word \in Words : op = AddKeyword(word)
      BY <1>1
    <2>2. word \in Given
      BY AhoCorasickAssumption DEF Given, Keywords, Strings, Root
    <2>3. CallsOf(op) = <<Add(word), Build>>
      BY <2>1 DEF CallsOf, AddKeyword
    <2>4. Add(word) \in Calls /\ Build \in Calls
      BY <2>2 DEF Calls, Adds
    <2>5. /\ <<Add(word), Build>> \in Seq(Calls) /\ Len(<<Add(word), Build>>) = 2
          /\ <<Add(word), Build>>[2] = Build /\ <<Add(word), Build>> # <<>>
      BY <2>4
    <2> QED BY <2>3, <2>5 DEF Guarded, Pending
  <1>2. CASE \E words \in WordLists : op = AddKeywords(words)
    <2>1. PICK words \in WordLists : op = AddKeywords(words)
      BY <1>2
    <2>2. words \in Seq(Strings) /\ ToSet(words) \subseteq Keywords
      BY AhoCorasickAssumption DEF Keywords, Strings
    <2>3. CallsOf(op) = IF words = <<>> THEN <<>> ELSE AddAll(words) \o <<Build>>
      BY <2>1 DEF CallsOf, AddKeywords
    <2>4. AddAll(words) \in Seq(Calls)
      BY <1>0, <2>2, AddAllIn
    <2>5. AddAll(words) \o <<Build>> \in Seq(Calls) /\ Pending(AddAll(words) \o <<Build>>)
      BY <2>4, ThenBuild
    <2>6. <<>> \in Seq(Calls) /\ Guarded(<<>>)
      BY EmptySeq DEF Guarded
    <2> QED BY <2>3, <2>5, <2>6 DEF Guarded
  <1>3. CASE \E doc \in Documents : op = Load(doc)
    <2>1. PICK doc \in Documents : op = Load(doc)
      BY <1>3
    <2>2. doc \in Seq(Tokens)
      BY AhoCorasickAssumption DEF Tokens, Strings
    <2>3. Parsed(doc) \in States
      BY <2>2, ParsedIn
    <2>4. Parsed(doc).keywords \in Seq(Strings) /\ ToSet(Parsed(doc).keywords) \subseteq Keywords
      <3>1. Parsed(doc).keywords \in Seq(Strings)
        BY <2>3 DEF States
      <3> DEFINE F == {ToSet(Parsed(d).keywords) : d \in Documents}
                 k == ToSet(Parsed(doc).keywords)
                 others == Words \cup (UNION {ToSet(words) : words \in WordLists})
      <3>2. k \in F
        BY Zenon
      <3>3. Keywords = others \cup UNION F
        BY DEF Keywords
      <3> HIDE DEF F, k, others
      <3>4. k \subseteq Keywords
        BY <3>2, <3>3
      <3> QED BY <3>1, <3>4 DEF k
    <2> DEFINE rest == AddAll(Parsed(doc).keywords) \o <<Build>>
    <2>5. rest \in Seq(Calls) /\ Pending(rest)
      BY <1>0, <2>4, AddAllIn, ThenBuild
    <2>6. CallsOf(op) = LoadCalls(doc)
      BY <2>1 DEF CallsOf, Load
    <2> HIDE DEF rest
    <2>7. CASE Parsed(doc).headed
      <3>1. LoadCalls(doc) = <<Clear>> \o rest
        BY <2>7 DEF LoadCalls, rest
      <3> QED BY <2>5, <2>6, <3>1, AfterClear DEF Guarded
    <2>8. CASE ~Parsed(doc).headed
      <3>1. LoadCalls(doc) = <<Clear>>
        <4>1. <<Clear>> \o <<>> = <<Clear>>
          BY ConcatEmptySeq DEF Calls
        <4> QED BY <2>8, <4>1 DEF LoadCalls
      <3>2. <<Clear>> \in Seq(Calls) /\ Len(<<Clear>>) = 1 /\ <<Clear>>[1] = Clear
        BY DEF Calls
      <3>3. Clear \notin Adds
        BY CallIs DEF Calls
      <3>4. Guarded(<<Clear>>)
        BY <3>2, <3>3 DEF Guarded
      <3> QED BY <2>6, <3>1, <3>2, <3>4
    <2> QED BY <2>7, <2>8
  <1> QED BY <1>1, <1>2, <1>3 DEF Changes

\* The calls after the first.
LEMMA TailIs ==
  ASSUME NEW c \in Seq(Calls), c # <<>>, Guarded(c)
  PROVE  /\ Head(c) \in Calls /\ Head(c) = c[1] /\ Tail(c) \in Seq(Calls)
         /\ Guarded(Tail(c))
         /\ Head(c) \in Adds => Pending(Tail(c))
         /\ Pending(c) /\ Head(c) # Build => Pending(Tail(c))
  <1>1. PICK n \in Nat : Len(c) = n + 1
    <2>1. Len(c) \in Nat /\ Len(c) # 0
      BY EmptySeq, LenProperties
    <2>2. Len(c) - 1 \in Nat /\ Len(c) = (Len(c) - 1) + 1
      BY <2>1
    <2> QED BY <2>2
  <1> DEFINE b == Tail(c)
  <1>2. /\ Head(c) \in Calls /\ b \in Seq(Calls) /\ Len(b) = n
        /\ \A i \in 1..n : b[i] = c[i + 1]
    BY <1>1, HeadTailProperties
  <1>3. Head(c) = c[1]
    OBVIOUS
  <1> HIDE DEF b
  <1>4. ASSUME Pending(c), Head(c) # Build PROVE Pending(b)
    <2>1. c[n + 1] = Build
      BY <1>1, <1>4 DEF Pending
    <2>2. n # 0
      BY <1>3, <1>4, <2>1
    <2>3. n \in 1..n
      BY <2>2
    <2>4. b[n] = Build /\ b # <<>>
      BY <1>2, <2>1, <2>2, <2>3, EmptySeq
    <2> QED BY <1>2, <2>4 DEF Pending
  <1>5. ASSUME NEW i \in 1..n, b[i] \in Adds PROVE Pending(b)
    <2>1. i + 1 \in 1..Len(c) /\ c[i + 1] \in Adds
      BY <1>1, <1>2, <1>5
    <2>2. Pending(c)
      BY <2>1 DEF Guarded
    <2>3. c[n + 1] = Build
      BY <1>1, <2>2 DEF Pending
    <2>4. n \in 1..n
      OBVIOUS
    <2>5. b[n] = Build /\ b # <<>>
      <3>1. b # <<>>
        BY <1>2, <2>4, EmptySeq
      <3> QED BY <1>2, <2>3, <2>4, <3>1
    <2> QED BY <1>2, <2>5 DEF Pending
  <1>6. Guarded(b)
    BY <1>2, <1>5 DEF Guarded
  <1>7. ASSUME Head(c) \in Adds PROVE Pending(b)
    <2>1. 1 \in 1..Len(c)
      BY <1>1
    <2>2. Pending(c)
      BY <1>3, <1>7, <2>1 DEF Guarded
    <2>3. Head(c) # Build
      BY <1>2, <1>7, CallIs
    <2> QED BY <1>4, <2>2, <2>3
  <1> QED BY <1>2, <1>3, <1>4, <1>6, <1>7 DEF b

-----------------------------------------------------------------------------
(***************************************************************************)
(* The inductive invariant.  The links are right only when the trie is     *)
(* built; a writer that has yet to add has yet to build, so that the       *)
(* dictionary never stays unsearchable.                                    *)
(***************************************************************************)
Asked == Changes \cup {[kind |-> "none"]}

Doings == [op : Asked, calls : Seq(Calls)]

InvTrie == TrieOK(trie) /\ is_built \in BOOLEAN /\ (is_built => Ready(trie))

InvDoing ==
    /\ doing \in [Writers -> Doings]
    /\ \A w \in Writers : Guarded(doing[w].calls)
    /\ begun \in 0..MaxCalls /\ alone \subseteq Writers

InvQuiet ==
    is_built \/ Dictionary = {} \/ \E w \in Writers : Pending(doing[w].calls)

Inv == InvTrie /\ InvDoing /\ InvQuiet

LEMMA InvInit == Init => Inv
  <1> SUFFICES ASSUME Init PROVE Inv
    OBVIOUS
  <1>1. InvTrie
    BY EmptyTrieOK DEF Init, InvTrie
  <1>2. InvDoing
    <2>1. Idle \in Doings
      BY EmptySeq DEF Doings, Asked, Idle
    <2>2. Guarded(Idle.calls)
      BY EmptySeq DEF Idle, Guarded
    <2>3. 0 \in 0..MaxCalls
      BY AhoCorasickAssumption
    <2> QED BY <2>1, <2>2, <2>3 DEF Init, InvDoing
  <1>3. InvQuiet
    <2>1. Dictionary = {}
      BY DEF Init, Dictionary, EmptyTrie
    <2> QED BY <2>1 DEF InvQuiet
  <1> QED BY <1>1, <1>2, <1>3 DEF Inv

\* What a call of w leaves of what is being done.
LEMMA CallingIs ==
  ASSUME InvDoing, NEW w \in Writers, NEW call, Calling(w, call)
  PROVE  LET c == doing[w].calls
         IN  /\ InvDoing'
             /\ c \in Seq(Calls) /\ c # <<>> /\ Guarded(c)
             /\ Head(c) \in Calls /\ Head(c).call = call
             /\ doing'[w].calls = Tail(c) /\ doing'[w].op = doing[w].op
             /\ \A o \in Writers : o # w => doing'[o] = doing[o]
  <1> DEFINE c == doing[w].calls
             d == [doing[w] EXCEPT !.calls = Tail(c)]
  <1>1. doing \in [Writers -> Doings] /\ doing[w] \in Doings /\ Guarded(c)
    BY DEF InvDoing
  <1>2. c \in Seq(Calls) /\ doing[w].op \in Asked
        /\ doing[w] = [op |-> doing[w].op, calls |-> c]
    BY <1>1 DEF Doings
  <1>3. c # <<>> /\ Head(c).call = call /\ UNCHANGED <<begun, alone>>
        /\ doing' = [doing EXCEPT ![w] = d]
    BY DEF Calling
  <1>4. Head(c) \in Calls /\ Tail(c) \in Seq(Calls) /\ Guarded(Tail(c))
    BY <1>1, <1>2, <1>3, TailIs
  <1>6. d \in Doings /\ d.calls = Tail(c) /\ d.op = doing[w].op
    <2>1. ASSUME NEW r \in Doings, NEW k \in Seq(Calls)
          PROVE  /\ [r EXCEPT !.calls = k] \in Doings
                 /\ [r EXCEPT !.calls = k].calls = k /\ [r EXCEPT !.calls = k].op = r.op
      BY DEF Doings
    <2> HIDE DEF c
    <2> QED BY <1>1, <1>4, <2>1
  <1> HIDE DEF c, d
  <1>7. doing'[w] = d /\ (\A o \in Writers : o # w => doing'[o] = doing[o])
        /\ doing' \in [Writers -> Doings]
    BY <1>1, <1>3, <1>6
  <1>8. \A o \in Writers : Guarded(doing'[o].calls)
    BY <1>4, <1>6, <1>7 DEF InvDoing
  <1>9. InvDoing'
    BY <1>3, <1>7, <1>8 DEF InvDoing
  <1> QED BY <1>1, <1>2, <1>3, <1>4, <1>6, <1>7, <1>9 DEF c

LEMMA InvBegin ==
  ASSUME Inv, NEW w \in Writers, NEW op \in Changes, Begin(w, op)
  PROVE  Inv'
  <1> DEFINE d == [op |-> op, calls |-> CallsOf(op)]
  <1>1. doing \in [Writers -> Doings] /\ begun \in 0..MaxCalls /\ MaxCalls \in Nat
    BY AhoCorasickAssumption DEF Inv, InvDoing
  <1>2. /\ doing' = [doing EXCEPT ![w] = d] /\ begun' = begun + 1 /\ begun < MaxCalls
        /\ alone' = IF \A o \in Writers : doing[o].calls = <<>> THEN {w} ELSE {}
        /\ trie' = trie /\ is_built' = is_built /\ doing[w].calls = <<>>
    BY DEF Begin
  <1>3. CallsOf(op) \in Seq(Calls) /\ Guarded(CallsOf(op))
    BY CallsOfIs
  <1>4. d \in Doings /\ d.calls = CallsOf(op)
    BY <1>3 DEF Doings, Asked
  <1> HIDE DEF d
  <1>5. doing' \in [Writers -> Doings] /\ doing'[w] = d
        /\ \A o \in Writers : o # w => doing'[o] = doing[o]
    BY <1>1, <1>2, <1>4
  <1>6. InvDoing'
    <2>1. \A o \in Writers : Guarded(doing'[o].calls)
      BY <1>3, <1>4, <1>5 DEF Inv, InvDoing
    <2>2. begun' \in 0..MaxCalls
      BY <1>1, <1>2
    <2>3. alone' \subseteq Writers
      BY <1>2
    <2> QED BY <1>5, <2>1, <2>2, <2>3 DEF InvDoing
  <1>7. InvTrie'
    BY <1>2 DEF Inv, InvTrie
  <1>8. InvQuiet'
    <2>1. Dictionary' = Dictionary
      BY <1>2 DEF Dictionary
    <2>2. ASSUME NEW o \in Writers, Pending(doing[o].calls) PROVE Pending(doing'[o].calls)
      BY <1>2, <1>5, <2>2 DEF Pending
    <2> QED BY <1>2, <2>1, <2>2 DEF Inv, InvQuiet
  <1> QED BY <1>6, <1>7, <1>8 DEF Inv

LEMMA InvDoAdd ==
  ASSUME Inv, NEW w \in Writers, DoAdd(w)
  PROVE  /\ Inv' /\ is_built' = FALSE
         /\ \E word \in Given : Head(doing[w].calls) = Add(word)
                                /\ Dictionary' = Dictionary \cup {word}
  <1> DEFINE c == doing[w].calls
  <1>1. Calling(w, "add") /\ trie' = Added(trie, Head(c).word) /\ is_built' = FALSE
    BY DEF DoAdd
  <1>2. /\ InvDoing' /\ c \in Seq(Calls) /\ c # <<>> /\ Guarded(c)
        /\ Head(c) \in Calls /\ Head(c).call = "add" /\ doing'[w].calls = Tail(c)
    BY <1>1, CallingIs DEF Inv
  <1>3. Head(c) \in Adds /\ Head(c).word \in Given /\ Head(c) = Add(Head(c).word)
    BY <1>2, CallIs
  <1> HIDE DEF c
  <1>4. PICK word \in Given : word = Head(c).word
    BY <1>3
  <1>5. word \in Strings /\ word # Root /\ TrieOK(trie)
    BY DEF Given, Inv, InvTrie
  <1>6. /\ TrieOK(Added(trie, word))
        /\ {n \in Added(trie, word).nodes : Added(trie, word).patterns[n] > 0}
              = {n \in trie.nodes : trie.patterns[n] > 0} \cup {word}
    BY <1>5, AddedIs
  <1>7. Dictionary' = Dictionary \cup {word}
    BY <1>1, <1>4, <1>6 DEF Dictionary
  <1>8. InvTrie'
    BY <1>1, <1>4, <1>6 DEF InvTrie
  <1>9. Pending(doing'[w].calls)
    BY <1>2, <1>3, TailIs
  <1>10. InvQuiet'
    BY <1>9 DEF InvQuiet
  <1> QED BY <1>1, <1>2, <1>3, <1>4, <1>7, <1>8, <1>10 DEF Inv, c

LEMMA InvDoClear ==
  ASSUME Inv, NEW w \in Writers, DoClear(w)
  PROVE  Inv' /\ is_built' = FALSE /\ Dictionary' = {}
  <1>1. Calling(w, "clear") /\ trie' = EmptyTrie /\ is_built' = FALSE
    BY DEF DoClear
  <1>2. InvDoing'
    BY <1>1, CallingIs DEF Inv
  <1>3. Dictionary' = {}
    BY <1>1 DEF Dictionary, EmptyTrie
  <1>4. InvTrie'
    BY <1>1, EmptyTrieOK DEF InvTrie
  <1> QED BY <1>1, <1>2, <1>3, <1>4 DEF Inv, InvQuiet

LEMMA InvDoBuild ==
  ASSUME Inv, NEW w \in Writers, DoBuild(w)
  PROVE  Inv' /\ is_built' = TRUE /\ Dictionary' = Dictionary
  <1>1. Calling(w, "build") /\ trie' = Linked(trie) /\ is_built' = TRUE
    BY DEF DoBuild
  <1>2. InvDoing'
    BY <1>1, CallingIs DEF Inv
  <1>3. /\ TrieOK(Linked(trie)) /\ Linked(trie).nodes = trie.nodes
        /\ Linked(trie).patterns = trie.patterns
        /\ \A n \in trie.nodes : n # Root => Right(Linked(trie), n)
    BY LinkedRight DEF Inv, InvTrie
  <1>4. InvTrie'
    BY <1>1, <1>3 DEF InvTrie, Ready
  <1>5. Dictionary' = Dictionary
    BY <1>1, <1>3 DEF Dictionary
  <1> QED BY <1>1, <1>2, <1>4, <1>5 DEF Inv, InvQuiet

LEMMA InvStep == Inv /\ [Next]_vars => Inv'
  <1> SUFFICES ASSUME Inv, [Next]_vars PROVE Inv'
    OBVIOUS
  <1>1. ASSUME NEW w \in Writers, NEW op \in Changes, Begin(w, op) PROVE Inv'
    BY <1>1, InvBegin
  <1>2. ASSUME NEW w \in Writers, DoAdd(w) PROVE Inv'
    BY <1>2, InvDoAdd
  <1>3. ASSUME NEW w \in Writers, DoClear(w) PROVE Inv'
    BY <1>3, InvDoClear
  <1>4. ASSUME NEW w \in Writers, DoBuild(w) PROVE Inv'
    BY <1>4, InvDoBuild
  <1>5. CASE UNCHANGED vars
    BY <1>5 DEF vars, Inv, InvTrie, InvDoing, InvQuiet, Dictionary
  <1> QED BY <1>1, <1>2, <1>3, <1>4, <1>5 DEF Next

LEMMA InvHolds == Spec => []Inv
  BY InvInit, InvStep, PTL DEF Spec

(***************************************************************************)
(* The theorems.                                                           *)
(***************************************************************************)
\* The trie holds the prefixes of its nodes, and its links lead to shallower
\* nodes, in every state (clear, add_keyword and build, lines 7-142).
THEOREM TypeCorrect == Spec => []TypeOK
  <1>1. Inv => TypeOK
    <2> SUFFICES ASSUME Inv PROVE TypeOK
      OBVIOUS
    <2>1. /\ Root \in trie.nodes /\ \A n \in trie.nodes : Prefixes(n) \subseteq trie.nodes
          /\ trie.patterns \in [trie.nodes -> Nat]
          /\ Shortens(trie.fail_link, trie.nodes) /\ Shortens(trie.output_link, trie.nodes)
      BY DEF Inv, InvTrie, TrieOK, NodesOK
    <2>2. is_built \in BOOLEAN /\ doing \in [Writers -> Doings]
          /\ begun \in 0..MaxCalls /\ alone \subseteq Writers
      BY DEF Inv, InvTrie, InvDoing
    <2>3. DOMAIN trie.patterns = trie.nodes /\ DOMAIN doing = Writers
      BY <2>1, <2>2
    <2>4. \A links \in {trie.fail_link, trie.output_link} :
            /\ DOMAIN links = trie.nodes
            /\ \A n \in trie.nodes :
                  links[n] \in trie.nodes /\ (n # Root => Len(links[n]) < Len(n))
      BY <2>1 DEF Shortens
    <2> QED BY <2>1, <2>2, <2>3, <2>4 DEF TypeOK
  <1> QED BY <1>1, InvHolds, PTL

\* A search finds every occurrence of every keyword and nothing else, whatever
\* keywords were added to the trie after it was built (search, contains_any and
\* build, lines 79-253).
THEOREM SearchExactHolds == Spec => []SearchExact
  <1>1. Inv => SearchExact
    BY SearchExactFrom DEF Inv, InvTrie
  <1> QED BY <1>1, InvHolds, PTL

\* When no writer is under way, the matcher is searchable or has no keyword
\* (add_keyword, add_keywords and load_dictionary of ShieldEngine).
THEOREM QuiescentSearchableHolds == Spec => []QuiescentSearchable
  <1>1. Inv => QuiescentSearchable
    BY DEF Inv, InvQuiet, QuiescentSearchable, Pending
  <1> QED BY <1>1, InvHolds, PTL

\* Every step on the trie is one on the dictionary that Matcher promises.
LEMMA RefinementStep == Inv /\ [Next]_vars => [Promise!Next]_(Promise!vars)
  <1> SUFFICES ASSUME Inv, [Next]_vars PROVE [Promise!Next]_(Promise!vars)
    OBVIOUS
  <1>1. ASSUME NEW w \in Writers, NEW op \in Changes, Begin(w, op)
        PROVE  UNCHANGED Promise!vars
    BY <1>1 DEF Begin, Promise!vars, Dictionary
  <1>2. ASSUME NEW w \in Writers, DoAdd(w) PROVE Promise!Next
    <2>1. PICK word \in Given : Dictionary' = Dictionary \cup {word} /\ is_built' = FALSE
      BY <1>2, InvDoAdd
    <2>2. word \in Keywords
      BY DEF Given
    <2>3. Promise!Add(word)
      BY <2>1 DEF Promise!Add
    <2> QED BY <2>2, <2>3 DEF Promise!Next
  <1>3. ASSUME NEW w \in Writers, DoClear(w) PROVE Promise!Next
    BY <1>3, InvDoClear DEF Promise!Next, Promise!Clear
  <1>4. ASSUME NEW w \in Writers, DoBuild(w) PROVE Promise!Next
    BY <1>4, InvDoBuild DEF Promise!Next, Promise!Build
  <1>5. CASE UNCHANGED vars
    BY <1>5 DEF vars, Promise!vars, Dictionary
  <1> QED BY <1>1, <1>2, <1>3, <1>4, <1>5 DEF Next

\* The automaton implements the dictionary that Shield builds on.
THEOREM Refinement == Spec => ImplementsMatcher
  <1>1. Init => Promise!Init
    BY DEF Init, Promise!Init, Dictionary, EmptyTrie
  <1> QED BY <1>1, InvHolds, RefinementStep, PTL DEF Spec, ImplementsMatcher, Promise!Spec

-----------------------------------------------------------------------------
(***************************************************************************)
(* The loading of a well-formed file (load_dictionary_from_json).          *)
(***************************************************************************)
\* The parser on a part of a file.
Run(p, s) ==
    LET f[i \in 0..Len(s)] == IF i = 0 THEN p ELSE ParseToken(f[i - 1], s[i])
    IN  f[Len(s)]

Runs(f, p, s, n) == f[0] = p /\ \A i \in 1..n : f[i] = ParseToken(f[i - 1], s[i])

LEMMA RunIs ==
  ASSUME NEW p, NEW s, Len(s) \in Nat
  PROVE  \E f : Runs(f, p, s, Len(s)) /\ Run(p, s) = f[Len(s)]
  <1>1. PICK len \in Nat : len = Len(s)
    OBVIOUS
  <1> DEFINE Is(f, m) == f = [k \in 0..m |-> IF k = 0 THEN p
                                             ELSE ParseToken(f[k - 1], s[k])]
             E == {m \in Nat : \E f : Is(f, m)}
  <1>2. 0 \in E
    <2>1. \A k \in 0..0 : k = 0
      OBVIOUS
    <2>2. Is([k \in 0..0 |-> p], 0)
      BY <2>1
    <2> QED BY <2>2
  <1>3. ASSUME NEW m \in Nat, m \in E PROVE m + 1 \in E
    <2>1. PICK f : Is(f, m)
      BY <1>3
    <2>2. PICK new : new = ParseToken(f[m], s[m + 1])
      OBVIOUS
    <2>3. PICK g : g = [k \in 0..(m + 1) |-> IF k = m + 1 THEN new ELSE f[k]]
      OBVIOUS
    <2>4. g[m + 1] = new /\ \A k \in 0..m : g[k] = f[k]
      BY <2>3
    <2>5. f[0] = p /\ \A k \in 1..m : f[k] = ParseToken(f[k - 1], s[k])
      BY <2>1
    <2>6. g[0] = p
      BY <2>4, <2>5
    <2>7. ASSUME NEW k \in 1..(m + 1) PROVE g[k] = ParseToken(g[k - 1], s[k])
      <3>1. CASE k = m + 1
        <4>1. g[k - 1] = f[m]
          BY <2>4, <3>1
        <4> QED BY <2>2, <2>4, <3>1, <4>1
      <3>2. CASE k # m + 1
        <4>1. k \in 1..m /\ k - 1 \in 0..m /\ k \in 0..m
          BY <3>2
        <4>2. g[k] = f[k] /\ g[k - 1] = f[k - 1] /\ f[k] = ParseToken(f[k - 1], s[k])
          BY <2>4, <2>5, <4>1
        <4> QED BY <4>2
      <3> QED BY <3>1, <3>2
    <2>8. g = [k \in 0..(m + 1) |-> g[k]]
      BY <2>3
    <2>9. \A k \in 0..(m + 1) : g[k] = IF k = 0 THEN p ELSE ParseToken(g[k - 1], s[k])
      BY <2>6, <2>7
    <2>10. Is(g, m + 1)
      <3>1. PICK h : h = [k \in 0..(m + 1) |-> IF k = 0 THEN p
                                               ELSE ParseToken(g[k - 1], s[k])]
        OBVIOUS
      <3>2. h = g
        BY <2>8, <2>9, <3>1
      <3> QED BY <3>1, <3>2
    <2> HIDE DEF Is
    <2> QED BY <2>10
  <1> HIDE DEF E
  <1>4. len \in E
    BY <1>2, <1>3, Induct
  <1>5. \E f : f = [i \in 0..Len(s) |-> IF i = 0 THEN p ELSE ParseToken(f[i - 1], s[i])]
    BY <1>1, <1>4 DEF E
  <1> DEFINE r == CHOOSE f : f = [i \in 0..Len(s) |-> IF i = 0 THEN p
                                                      ELSE ParseToken(f[i - 1], s[i])]
  <1>6. r = [i \in 0..Len(s) |-> IF i = 0 THEN p ELSE ParseToken(r[i - 1], s[i])]
    BY <1>5, Zenon
  <1>7. Run(p, s) = r[Len(s)]
    BY DEF Run
  <1> HIDE DEF r
  <1>8. Runs(r, p, s, Len(s))
    BY <1>1, <1>6 DEF Runs
  <1> QED BY <1>7, <1>8

\* The parser has no choice.
LEMMA RunOnce ==
  ASSUME NEW p, NEW s, Len(s) \in Nat, NEW g, Runs(g, p, s, Len(s))
  PROVE  Run(p, s) = g[Len(s)]
  <1>1. PICK f : Runs(f, p, s, Len(s)) /\ Run(p, s) = f[Len(s)]
    BY RunIs
  <1> DEFINE T == {i \in Nat : i <= Len(s) => f[i] = g[i]}
  <1>2. 0 \in T
    BY <1>1 DEF Runs
  <1>3. ASSUME NEW i \in Nat, i \in T PROVE i + 1 \in T
    <2> SUFFICES ASSUME i + 1 <= Len(s) PROVE f[i + 1] = g[i + 1]
      OBVIOUS
    <2>1. i + 1 \in 1..Len(s) /\ (i + 1) - 1 = i /\ f[i] = g[i]
      BY <1>3
    <2>2. f[i + 1] = ParseToken(f[i], s[i + 1]) /\ g[i + 1] = ParseToken(g[i], s[i + 1])
      BY <1>1, <2>1 DEF Runs
    <2> QED BY <2>1, <2>2
  <1> HIDE DEF T
  <1>4. Len(s) \in T
    BY <1>2, <1>3, Induct
  <1> QED BY <1>1, <1>4 DEF T

LEMMA RunConcat ==
  ASSUME NEW S, NEW a \in Seq(S), NEW b \in Seq(S), NEW p
  PROVE  Run(p, a \o b) = Run(Run(p, a), b)
  <1>1. PICK m \in Nat, n \in Nat : m = Len(a) /\ n = Len(b)
    BY LenProperties
  <1>2. PICK f : Runs(f, p, a, m) /\ Run(p, a) = f[m]
    BY <1>1, RunIs
  <1>3. PICK g : Runs(g, f[m], b, n) /\ Run(f[m], b) = g[n]
    BY <1>1, RunIs
  <1> DEFINE c == a \o b
  <1>4. Len(c) = m + n /\ \A i \in 1..(m + n) : c[i] = IF i <= m THEN a[i] ELSE b[i - m]
    BY <1>1, ConcatProperties
  <1> HIDE DEF c
  <1>5. PICK h : h = [i \in 0..(m + n) |-> IF i <= m THEN f[i] ELSE g[i - m]]
    OBVIOUS
  <1>6. (\A i \in 0..m : h[i] = f[i]) /\ (\A i \in 0..n : h[m + i] = g[i])
    <2>1. \A i \in 0..m : h[i] = f[i]
      BY <1>5
    <2>2. ASSUME NEW i \in 0..n PROVE h[m + i] = g[i]
      <3>1. CASE i = 0
        <4>1. m + i = m /\ m \in 0..m
          BY <3>1
        <4>2. g[0] = f[m]
          BY <1>3 DEF Runs
        <4> QED BY <2>1, <3>1, <4>1, <4>2
      <3>2. CASE i # 0
        <4>1. m + i \in 0..(m + n) /\ ~(m + i <= m) /\ (m + i) - m = i
          BY <3>2
        <4> QED BY <1>5, <4>1
      <3> QED BY <3>1, <3>2
    <2> QED BY <2>1, <2>2
  <1>7. ASSUME NEW i \in 1..(m + n) PROVE h[i] = ParseToken(h[i - 1], c[i])
    <2>1. CASE i <= m
      <3>1. i \in 1..m /\ i \in 0..m /\ i - 1 \in 0..m
        BY <2>1
      <3>2. h[i] = f[i] /\ h[i - 1] = f[i - 1] /\ c[i] = a[i]
        BY <1>4, <1>6, <2>1, <3>1
      <3>3. f[i] = ParseToken(f[i - 1], a[i])
        BY <1>2, <3>1 DEF Runs
      <3> QED BY <3>2, <3>3
    <2>2. CASE ~(i <= m)
      <3>1. PICK j \in 1..n : i = m + j
        <4>1. i - m \in 1..n /\ i = m + (i - m)
          BY <2>2
        <4> QED BY <4>1
      <3>2. j \in 0..n /\ j - 1 \in 0..n /\ i - 1 = m + (j - 1) /\ i - m = j
        BY <3>1
      <3>3. h[i] = g[j] /\ h[i - 1] = g[j - 1] /\ c[i] = b[j]
        BY <1>4, <1>6, <2>2, <3>1, <3>2
      <3>4. g[j] = ParseToken(g[j - 1], b[j])
        BY <1>3 DEF Runs
      <3> QED BY <3>3, <3>4
    <2> QED BY <2>1, <2>2
  <1>8. h[0] = p
    <2>1. 0 \in 0..m
      OBVIOUS
    <2> QED BY <1>2, <1>6, <2>1 DEF Runs
  <1>9. m + n \in Nat /\ h[m + n] = g[n]
    <2>1. n \in 0..n
      OBVIOUS
    <2> QED BY <1>6, <2>1
  <1>10. Runs(h, p, c, m + n)
    BY <1>7, <1>8 DEF Runs
  <1>11. Run(p, c) = h[m + n]
    BY <1>4, <1>9, <1>10, RunOnce
  <1> QED BY <1>2, <1>3, <1>9, <1>11 DEF c

LEMMA RunOne ==
  ASSUME NEW p, NEW t
  PROVE  Run(p, <<t>>) = ParseToken(p, t) /\ Run(p, <<>>) = p
  <1>1. Run(p, <<t>>) = ParseToken(p, t)
    <2>1. Len(<<t>>) = 1 /\ <<t>>[1] = t
      OBVIOUS
    <2>2. PICK f : Runs(f, p, <<t>>, 1) /\ Run(p, <<t>>) = f[1]
      BY <2>1, RunIs
    <2>3. 1 \in 1..1 /\ 1 - 1 = 0
      OBVIOUS
    <2> QED BY <2>1, <2>2, <2>3 DEF Runs
  <1>2. Run(p, <<>>) = p
    <2>1. Len(<<>>) = 0
      OBVIOUS
    <2>2. PICK f : Runs(f, p, <<>>, 0) /\ Run(p, <<>>) = f[0]
      BY <2>1, RunIs
    <2> QED BY <2>2 DEF Runs
  <1> QED BY <1>1, <1>2

\* The parser in the middle of a well-formed file, with the keywords it has.
State(mode, k) == [expects |-> mode, headed |-> TRUE, keywords |-> k]

Stands(p, mode, found) ==
    \E k \in Seq(Strings) : p = State(mode, k) /\ ToSet(k) = found

\* The marks of a well-formed file, where they stand.
LEMMA ParsesMarks ==
  ASSUME NEW k
  PROVE  /\ ParseToken(State("key", k), String(<<"k">>)) = State("colon", k)
         /\ ParseToken(State("colon", k), Mark(":")) = State("bracket", k)
         /\ ParseToken(State("bracket", k), Mark("[")) = State("value", k)
         /\ ParseToken(State("value", k), Mark("]")) = State("after list", k)
         /\ ParseToken(State("after value", k), Mark("]")) = State("after list", k)
         /\ ParseToken(State("after value", k), Mark(",")) = State("value", k)
         /\ ParseToken(State("after list", k), Mark(",")) = State("key", k)
         /\ ParseToken(State("after list", k), Mark("}")) = State("end", k)
  <1>1. ParseToken(State("key", k), String(<<"k">>)) = State("colon", k)
    <2>1. <<"k">> # <<>>
      OBVIOUS
    <2> QED BY <2>1 DEF State, ParseToken, Expect, String
  <1>2. ParseToken(State("colon", k), Mark(":")) = State("bracket", k)
    BY DEF State, ParseToken, Expect, Mark
  <1>3. ParseToken(State("bracket", k), Mark("[")) = State("value", k)
    BY DEF State, ParseToken, Expect, Mark
  <1>4. ParseToken(State("value", k), Mark("]")) = State("after list", k)
    BY DEF State, ParseToken, Value, Mark
  <1>5. ParseToken(State("after value", k), Mark("]")) = State("after list", k)
    BY DEF State, ParseToken, AfterValue, Mark
  <1>6. ParseToken(State("after value", k), Mark(",")) = State("value", k)
    BY DEF State, ParseToken, AfterValue, Mark
  <1>7. ParseToken(State("after list", k), Mark(",")) = State("key", k)
    BY DEF State, ParseToken, AfterList, Mark
  <1>8. ParseToken(State("after list", k), Mark("}")) = State("end", k)
    BY DEF State, ParseToken, AfterList, Mark
  <1> QED BY <1>1, <1>2, <1>3, <1>4, <1>5, <1>6, <1>7, <1>8

LEMMA ParsesString ==
  ASSUME NEW p, NEW found, NEW word \in Strings, Stands(p, "value", found)
  PROVE  Stands(ParseToken(p, String(word)), "after value", found \cup ({word} \ {<<>>}))
  <1>1. PICK k \in Seq(Strings) : p = State("value", k) /\ ToSet(k) = found
    BY DEF Stands
  <1> DEFINE l == IF word = <<>> THEN k ELSE Append(k, word)
  <1>2. l \in Seq(Strings) /\ ToSet(l) = found \cup ({word} \ {<<>>})
    <2>1. Append(k, word) \in Seq(Strings) /\ ToSet(Append(k, word)) = found \cup {word}
      BY <1>1, AppendProperties, AppendedSet
    <2> QED BY <1>1, <2>1
  <1>3. ParseToken(p, String(word)) = State("after value", l)
    BY <1>1 DEF ParseToken, Value, String, State
  <1> HIDE DEF l
  <1> QED BY <1>2, <1>3 DEF Stands

LEMMA StandsMarks ==
  ASSUME NEW p, NEW found
  PROVE  /\ Stands(p, "key", found) =>
               Stands(ParseToken(p, String(<<"k">>)), "colon", found)
         /\ Stands(p, "colon", found) => Stands(ParseToken(p, Mark(":")), "bracket", found)
         /\ Stands(p, "bracket", found) => Stands(ParseToken(p, Mark("[")), "value", found)
         /\ Stands(p, "value", found) => Stands(Run(p, <<Mark("]")>>), "after list", found)
         /\ Stands(p, "after value", found) =>
               Stands(Run(p, <<Mark("]")>>), "after list", found)
         /\ Stands(p, "after value", found) => Stands(Run(p, <<Mark(",")>>), "value", found)
         /\ Stands(p, "after list", found) => Stands(Run(p, <<Mark(",")>>), "key", found)
         /\ Stands(p, "after list", found) => Stands(Run(p, <<Mark("}")>>), "end", found)
  <1>1. \A t : Run(p, <<t>>) = ParseToken(p, t)
    BY RunOne
  <1>2. ASSUME NEW a, NEW b, NEW sign, \A k : ParseToken(State(a, k), sign) = State(b, k),
               Stands(p, a, found)
        PROVE  Stands(ParseToken(p, sign), b, found)
    BY <1>2, Zenon DEF Stands
  <1>3. Stands(p, "key", found) =>
          Stands(ParseToken(p, String(<<"k">>)), "colon", found)
    BY <1>2, ParsesMarks
  <1>4. Stands(p, "colon", found) => Stands(ParseToken(p, Mark(":")), "bracket", found)
    BY <1>2, ParsesMarks
  <1>5. Stands(p, "bracket", found) => Stands(ParseToken(p, Mark("[")), "value", found)
    BY <1>2, ParsesMarks
  <1>6. Stands(p, "value", found) => Stands(ParseToken(p, Mark("]")), "after list", found)
    BY <1>2, ParsesMarks
  <1>7. Stands(p, "after value", found) =>
          Stands(ParseToken(p, Mark("]")), "after list", found)
    BY <1>2, ParsesMarks
  <1>8. Stands(p, "after value", found) => Stands(ParseToken(p, Mark(",")), "value", found)
    BY <1>2, ParsesMarks
  <1>9. Stands(p, "after list", found) => Stands(ParseToken(p, Mark(",")), "key", found)
    BY <1>2, ParsesMarks
  <1>10. Stands(p, "after list", found) => Stands(ParseToken(p, Mark("}")), "end", found)
    BY <1>2, ParsesMarks
  <1> QED BY <1>1, <1>3, <1>4, <1>5, <1>6, <1>7, <1>8, <1>9, <1>10

\* The tokens of a written dictionary.
Signs ==
    {String(s) : s \in Strings \cup {<<"k">>}}
    \cup {Mark(m) : m \in {"{", "}", "[", "]", ":", ","}}

LEMMA SignsAre ==
  /\ Mark("{") \in Signs /\ Mark("}") \in Signs /\ Mark("[") \in Signs
  /\ Mark("]") \in Signs /\ Mark(":") \in Signs /\ Mark(",") \in Signs
  /\ String(<<"k">>) \in Signs /\ \A s \in Strings : String(s) \in Signs
  BY Zenon DEF Signs

LEMMA FlattenIs ==
  ASSUME NEW S, NEW n \in Nat, NEW seqs \in [1..(n + 1) -> Seq(S)]
  PROVE  \E f : /\ f[1] = seqs[1]
                /\ \A i \in 1..n : f[i + 1] = f[i] \o seqs[i + 1]
                /\ FlattenSeq(seqs) = f[n + 1]
  <1> DEFINE C == Seq(S)
             step == [p \in C \X Nat |-> IF p[2] \in 1..n THEN p[1] \o seqs[p[2] + 1]
                                         ELSE p[1]]
  <1>1. \A i \in 1..n : i + 1 \in 1..(n + 1)
    OBVIOUS
  <1>2. seqs[1] \in C /\ \A i \in 1..n : seqs[i + 1] \in C
    BY <1>1
  <1>3. \A x, y \in C : x \o y \in C
    BY ConcatProperties
  <1>4. seqs \in Seq(C) /\ Len(seqs) = n + 1
    <2> HIDE DEF C
    <2>1. seqs \in [1..(n + 1) -> C] /\ n + 1 \in Nat
      BY DEF C
    <2>2. seqs \in Seq(C)
      BY <2>1, SeqDef
    <2>3. DOMAIN seqs = 1..(n + 1) /\ DOMAIN seqs = 1..Len(seqs) /\ Len(seqs) \in Nat
      BY <2>1, <2>2, LenProperties
    <2> QED BY <2>1, <2>2, <2>3
  <1> HIDE DEF C
  <1>5. step \in [C \X Nat -> C]
    BY <1>2, <1>3
  <1>6. PICK g : /\ g \in [0..n -> C] /\ g[0] = seqs[1]
                 /\ \A i \in 1..n : g[i] = step[<<g[i - 1], i>>]
    <2> HIDE DEF step
    <2>1. Recursion(C, seqs[1], step)
      BY <1>2, <1>5 DEF Recursion
    <2>2. PICK g : Result(C, seqs[1], step, n, g)
      BY <2>1, RecursionIs
    <2> QED BY <2>2 DEF Result
  <1>7. \A i \in 1..n : g[i] = g[i - 1] \o seqs[i + 1]
    <2> SUFFICES ASSUME NEW i \in 1..n PROVE g[i] = g[i - 1] \o seqs[i + 1]
      OBVIOUS
    <2>1. g[i - 1] \in C /\ i \in Nat
      BY <1>6
    <2>2. g[i] = step[<<g[i - 1], i>>]
      <3> HIDE DEF step
      <3> QED BY <1>6
    <2> QED BY <2>1, <2>2
  <1> HIDE DEF step
  <1>8. PICK h : h = [i \in 1..Len(seqs) |-> g[i - 1]]
    OBVIOUS
  <1>9. h = [i \in 1..Len(seqs) |-> IF i = 1 THEN seqs[i] ELSE h[i - 1] \o seqs[i]]
    <2>1. ASSUME NEW i \in 1..(n + 1)
          PROVE  h[i] = IF i = 1 THEN seqs[i] ELSE h[i - 1] \o seqs[i]
      <3>1. CASE i = 1
        <4>1. 1 - 1 = 0 /\ h[1] = g[1 - 1]
          BY <1>4, <1>8
        <4> QED BY <1>6, <3>1, <4>1
      <3>2. CASE i # 1
        <4>1. PICK j \in 1..n : j = i - 1 /\ i = j + 1
          <5>1. i - 1 \in 1..n /\ i = (i - 1) + 1
            BY <3>2
          <5> QED BY <5>1
        <4>2. j \in 1..(n + 1)
          BY <4>1
        <4>3. h[i] = g[j] /\ h[i - 1] = g[j - 1]
          BY <1>4, <1>8, <4>1, <4>2
        <4>4. g[j] = g[j - 1] \o seqs[i]
          BY <1>7, <4>1
        <4> QED BY <3>2, <4>3, <4>4
      <3> QED BY <3>1, <3>2
    <2>2. h = [i \in 1..(n + 1) |-> IF i = 1 THEN seqs[i] ELSE h[i - 1] \o seqs[i]]
      <3>1. h = [i \in 1..(n + 1) |-> h[i]]
        BY <1>4, <1>8
      <3> QED BY <2>1, <3>1, Zenon
    <2> QED BY <1>4, <2>2
  <1> DEFINE flatten == CHOOSE f : f = [i \in 1..Len(seqs) |->
                              IF i = 1 THEN seqs[i] ELSE f[i - 1] \o seqs[i]]
  <1>10. flatten = [i \in 1..Len(seqs) |->
                      IF i = 1 THEN seqs[i] ELSE flatten[i - 1] \o seqs[i]]
    BY <1>9, Zenon
  <1>11. FlattenSeq(seqs) = flatten[Len(seqs)]
    <2>1. Len(seqs) # 0
      BY <1>4
    <2> QED BY <2>1 DEF FlattenSeq
  <1> HIDE DEF flatten
  <1>12. \A i \in 1..Len(seqs) : flatten[i] =
            IF i = 1 THEN seqs[i] ELSE flatten[i - 1] \o seqs[i]
    BY <1>10, Zenon
  <1>13. flatten[1] = seqs[1]
    <2>1. 1 \in 1..Len(seqs)
      BY <1>4
    <2> QED BY <1>12, <2>1
  <1>14. \A i \in 1..n : flatten[i + 1] = flatten[i] \o seqs[i + 1]
    <2> SUFFICES ASSUME NEW i \in 1..n PROVE flatten[i + 1] = flatten[i] \o seqs[i + 1]
      OBVIOUS
    <2>1. i + 1 \in 1..Len(seqs) /\ i + 1 # 1 /\ (i + 1) - 1 = i
      BY <1>4
    <2> QED BY <1>12, <2>1
  <1> QED BY <1>4, <1>11, <1>13, <1>14

\* The strings of a category, between the brackets.
Items(words) ==
    [i \in 1..Len(words) |->
        (IF i = 1 THEN <<>> ELSE <<Mark(",")>>) \o <<String(words[i])>>]

Kept(words, i) == {words[j] : j \in 1..i} \ {<<>>}

LEMMA ParsesItems ==
  ASSUME NEW words \in Seq(Strings), NEW p, NEW found, Stands(p, "value", found)
  PROVE  /\ FlattenSeq(Items(words)) \in Seq(Signs)
         /\ \/ Stands(Run(p, FlattenSeq(Items(words))), "value",
                      found \cup (ToSet(words) \ {<<>>}))
            \/ Stands(Run(p, FlattenSeq(Items(words))), "after value",
                      found \cup (ToSet(words) \ {<<>>}))
  <1>1. PICK len \in Nat : len = Len(words)
    BY LenProperties
  <1>2. ToSet(words) = {words[j] : j \in 1..len}
    BY <1>1, LenProperties DEF ToSet
  <1>3. CASE len = 0
    <2>1. Items(words) = <<>>
      BY <1>1, <1>3 DEF Items
    <2>2. FlattenSeq(<<>>) = <<>>
      BY DEF FlattenSeq
    <2>3. Run(p, <<>>) = p
      BY RunOne
    <2>4. ToSet(words) = {}
      BY <1>2, <1>3
    <2>5. found \cup (ToSet(words) \ {<<>>}) = found
      BY <2>4
    <2> QED BY <2>1, <2>2, <2>3, <2>5, EmptySeq
  <1>4. CASE len # 0
    <2>1. PICK n \in Nat : len = n + 1
      <3>1. len - 1 \in Nat /\ len = (len - 1) + 1
        BY <1>4
      <3> QED BY <3>1
    <2> DEFINE seqs == Items(words)
               comma == <<Mark(",")>>
               str(i) == <<String(words[i])>>
    <2>2. comma \in Seq(Signs) /\ \A i \in 1..(n + 1) : str(i) \in Seq(Signs)
      <3>1. \A i \in 1..(n + 1) : words[i] \in Strings
        BY <1>1, <2>1, ElementOfSeq
      <3>2. \A e \in Signs : <<e>> \in Seq(Signs)
        OBVIOUS
      <3> QED BY <3>1, <3>2, SignsAre
    <2>3. seqs = [i \in 1..(n + 1) |-> (IF i = 1 THEN <<>> ELSE comma) \o str(i)]
      BY <1>1, <2>1 DEF Items
    <2> HIDE DEF seqs, comma, str
    <2>4. seqs[1] = str(1) /\ \A i \in 1..n : seqs[i + 1] = comma \o str(i + 1)
      <3>1. 1 \in 1..(n + 1) /\ \A i \in 1..n : i + 1 \in 1..(n + 1) /\ i + 1 # 1
        OBVIOUS
      <3>2. seqs[1] = <<>> \o str(1)
        BY <2>3, <3>1
      <3>3. <<>> \o str(1) = str(1)
        BY <2>2, <3>1, ConcatEmptySeq
      <3>4. \A i \in 1..n : seqs[i + 1] = comma \o str(i + 1)
        BY <2>3, <3>1
      <3> QED BY <3>2, <3>3, <3>4
    <2>5. \A i \in 1..n : comma \o str(i + 1) \in Seq(Signs)
      <3> SUFFICES ASSUME NEW i \in 1..n PROVE comma \o str(i + 1) \in Seq(Signs)
        OBVIOUS
      <3>1. i + 1 \in 1..(n + 1)
        OBVIOUS
      <3>2. str(i + 1) \in Seq(Signs)
        BY <2>2, <3>1
      <3> QED BY <2>2, <3>2, ConcatProperties
    <2>6. seqs \in [1..(n + 1) -> Seq(Signs)]
      <3> DEFINE C == Seq(Signs)
      <3>1. \A i \in 1..(n + 1) : i = 1 \/ \E j \in 1..n : i = j + 1
        <4> SUFFICES ASSUME NEW i \in 1..(n + 1), i # 1 PROVE \E j \in 1..n : i = j + 1
          OBVIOUS
        <4>1. i - 1 \in 1..n /\ i = (i - 1) + 1
          OBVIOUS
        <4> QED BY <4>1
      <3>2. str(1) \in C
        BY <2>2
      <3>3. \A i \in 1..n : seqs[i + 1] \in C
        BY <2>4, <2>5
      <3> HIDE DEF C
      <3>4. \A i \in 1..(n + 1) : seqs[i] \in C
        BY <2>4, <3>1, <3>2, <3>3
      <3>5. seqs = [i \in 1..(n + 1) |-> seqs[i]]
        BY <2>3
      <3>6. seqs \in [1..(n + 1) -> C]
        BY <3>4, <3>5
      <3> QED BY <3>6 DEF C
    <2>7. PICK f : /\ f[1] = seqs[1]
                   /\ \A i \in 1..n : f[i + 1] = f[i] \o seqs[i + 1]
                   /\ FlattenSeq(seqs) = f[n + 1]
      BY <2>6, FlattenIs
    <2>8. ASSUME NEW i \in 1..(n + 1), NEW q, NEW kept, Stands(q, "value", kept)
          PROVE  Stands(Run(q, str(i)), "after value", kept \cup ({words[i]} \ {<<>>}))
      <3>1. PICK word \in Strings : word = words[i]
        BY <1>1, <2>1, ElementOfSeq
      <3>2. Run(q, str(i)) = ParseToken(q, String(word))
        BY <3>1, RunOne DEF str
      <3>3. Stands(ParseToken(q, String(word)), "after value", kept \cup ({word} \ {<<>>}))
        BY <2>8, ParsesString
      <3> QED BY <3>1, <3>2, <3>3
    <2> DEFINE Good(s, i) == /\ s \in Seq(Signs)
                             /\ Stands(Run(p, s), "after value", found \cup Kept(words, i))
               T == {i \in Nat : i <= n => Good(f[i + 1], i + 1)}
    <2>9. 0 \in T
      <3>1. Kept(words, 1) = {words[1]} \ {<<>>}
        <4>1. 1..1 = {1}
          OBVIOUS
        <4> QED BY <4>1 DEF Kept
      <3>2. 1 \in 1..(n + 1) /\ 0 + 1 = 1
        OBVIOUS
      <3>3. f[1] = str(1) /\ str(1) \in Seq(Signs)
        BY <2>2, <2>4, <2>7, <3>2
      <3>4. Stands(Run(p, str(1)), "after value", found \cup Kept(words, 1))
        BY <2>8, <3>1, <3>2
      <3>5. Good(f[1], 1)
        BY <3>3, <3>4
      <3> HIDE DEF Good
      <3> QED BY <3>2, <3>5
    <2>10. ASSUME NEW i \in Nat, i \in T PROVE i + 1 \in T
      <3> HIDE DEF Good
      <3> SUFFICES ASSUME i + 1 <= n PROVE Good(f[(i + 1) + 1], (i + 1) + 1)
        OBVIOUS
      <3>1. PICK k \in 1..n : k = i + 1
        OBVIOUS
      <3>2. Good(f[k], k) /\ k + 1 \in 1..(n + 1)
        BY <2>10, <3>1
      <3>3. f[k + 1] = f[k] \o (comma \o str(k + 1))
        BY <2>4, <2>7
      <3>4. comma \in Seq(Signs) /\ str(k + 1) \in Seq(Signs) /\ f[k] \in Seq(Signs)
            /\ comma \o str(k + 1) \in Seq(Signs)
        BY <2>2, <2>5, <3>2 DEF Good
      <3> DEFINE q == Run(p, f[k])
                 kept == found \cup Kept(words, k)
      <3>5. Stands(q, "after value", kept)
        BY <3>2 DEF Good
      <3>6. Run(p, f[k + 1]) = Run(Run(q, comma), str(k + 1))
        <4>1. Run(p, f[k + 1]) = Run(q, comma \o str(k + 1))
          <5> DEFINE m == comma \o str(k + 1)
          <5>1. m \in Seq(Signs) /\ f[k] \in Seq(Signs)
            BY <3>4
          <5> HIDE DEF m
          <5>2. Run(p, f[k] \o m) = Run(Run(p, f[k]), m)
            BY <5>1, RunConcat
          <5> QED BY <3>3, <5>2 DEF m
        <4>2. Run(q, comma \o str(k + 1)) = Run(Run(q, comma), str(k + 1))
          BY <3>4, RunConcat
        <4> QED BY <4>1, <4>2
      <3> HIDE DEF q, kept
      <3>7. Stands(Run(q, comma), "value", kept)
        BY <3>5, StandsMarks DEF comma
      <3>8. Stands(Run(Run(q, comma), str(k + 1)), "after value",
                   kept \cup ({words[k + 1]} \ {<<>>}))
        BY <2>8, <3>2, <3>7
      <3>9. kept \cup ({words[k + 1]} \ {<<>>}) = found \cup Kept(words, k + 1)
        <4>1. 1..(k + 1) = (1..k) \cup {k + 1}
          OBVIOUS
        <4> QED BY <4>1 DEF Kept, kept
      <3>10. f[k + 1] \in Seq(Signs)
        BY <3>3, <3>4, ConcatProperties
      <3>11. Good(f[k + 1], k + 1)
        BY <3>6, <3>8, <3>9, <3>10 DEF Good
      <3> QED BY <3>1, <3>11
    <2> HIDE DEF T, Good
    <2>11. n \in T
      BY <2>9, <2>10, Induct
    <2>12. Good(f[n + 1], n + 1)
      BY <2>11 DEF T
    <2>13. Kept(words, n + 1) = ToSet(words) \ {<<>>}
      BY <1>2, <2>1 DEF Kept
    <2> QED BY <2>7, <2>12, <2>13 DEF seqs, Good
  <1> QED BY <1>3, <1>4

\* A category of a written dictionary.
LEMMA ParsesList ==
  ASSUME NEW words \in Seq(Strings), NEW p, NEW found, Stands(p, "key", found)
  PROVE  /\ WrittenList(words) \in Seq(Signs)
         /\ Stands(Run(p, WrittenList(words)), "after list",
                   found \cup (ToSet(words) \ {<<>>}))
  <1> DEFINE head == <<String(<<"k">>), Mark(":"), Mark("[")>>
             middle == FlattenSeq(Items(words))
             end == <<Mark("]")>>
             q == Run(p, head)
             r == Run(q, middle)
             all == found \cup (ToSet(words) \ {<<>>})
  <1>1. WrittenList(words) = (head \o middle) \o end
    BY DEF WrittenList, Items
  <1>2. head \in Seq(Signs) /\ end \in Seq(Signs)
    <2>1. \A a, b, c \in Signs : <<a, b, c>> \in Seq(Signs) /\ <<a>> \in Seq(Signs)
      OBVIOUS
    <2> QED BY <2>1, SignsAre
  <1>3. Stands(q, "value", found)
    <2>1. Len(head) = 3 /\ head[1] = String(<<"k">>) /\ head[2] = Mark(":") /\ head[3] = Mark("[")
      OBVIOUS
    <2> HIDE DEF head
    <2>2. PICK f : Runs(f, p, head, 3) /\ Run(p, head) = f[3]
      <3>1. Len(head) \in Nat
        BY <2>1
      <3>2. PICK f : Runs(f, p, head, Len(head)) /\ Run(p, head) = f[Len(head)]
        BY <3>1, RunIs
      <3> QED BY <2>1, <3>2
    <2>3. /\ f[0] = p /\ f[1] = ParseToken(f[0], head[1])
          /\ f[2] = ParseToken(f[1], head[2]) /\ f[3] = ParseToken(f[2], head[3])
      <3>1. 1 \in 1..3 /\ 2 \in 1..3 /\ 3 \in 1..3 /\ 1 - 1 = 0 /\ 2 - 1 = 1 /\ 3 - 1 = 2
        OBVIOUS
      <3> QED BY <2>2, <3>1 DEF Runs
    <2>4. Stands(f[1], "colon", found)
      BY <2>1, <2>3, StandsMarks
    <2>5. Stands(f[2], "bracket", found)
      BY <2>1, <2>3, <2>4, StandsMarks
    <2>6. Stands(f[3], "value", found)
      BY <2>1, <2>3, <2>5, StandsMarks
    <2> QED BY <2>2, <2>6
  <1> HIDE DEF head, q
  <1>4. /\ middle \in Seq(Signs)
        /\ Stands(r, "value", all) \/ Stands(r, "after value", all)
    BY <1>3, ParsesItems
  <1> HIDE DEF middle
  <1>5. Stands(Run(r, end), "after list", all)
    <2> HIDE DEF r, all
    <2> QED BY <1>4, StandsMarks
  <1> HIDE DEF end
  <1>6. head \o middle \in Seq(Signs) /\ (head \o middle) \o end \in Seq(Signs)
    <2>1. head \o middle \in Seq(Signs)
      BY <1>2, <1>4, ConcatProperties
    <2> QED BY <1>2, <2>1, ConcatProperties
  <1>7. Run(p, head \o middle) = r
    BY <1>2, <1>4, RunConcat DEF q
  <1>8. Run(p, (head \o middle) \o end) = Run(r, end)
    <2> DEFINE m == head \o middle
    <2>1. m \in Seq(Signs) /\ end \in Seq(Signs)
      BY <1>2, <1>6
    <2> HIDE DEF m
    <2>2. Run(p, m \o end) = Run(Run(p, m), end)
      BY <2>1, RunConcat
    <2> QED BY <1>7, <2>2 DEF m
  <1> HIDE DEF r, all
  <1> QED BY <1>1, <1>5, <1>6, <1>8 DEF all

\* A well-formed file of two categories: its keywords, whole.
LEMMA FileParsed ==
  ASSUME NEW first \in Seq(Strings), NEW second \in Seq(Strings)
  PROVE  LET p == Parsed(Written(<<first, second>>))
         IN  p.headed /\ ToSet(p.keywords) \ {<<>>} = ToSet(first \o second) \ {<<>>}
  <1> DEFINE open == <<Mark("{")>>
             comma == <<Mark(",")>>
             close == <<Mark("}")>>
             one == WrittenList(first)
             two == WrittenList(second)
             p0 == [expects |-> "start", headed |-> FALSE, keywords |-> <<>>]
             p1 == Run(p0, open)
             p2 == Run(p1, one)
             p3 == Run(p2, comma)
             p4 == Run(p3, two)
             p5 == Run(p4, close)
             ones == ToSet(first) \ {<<>>}
             twos == ToSet(second) \ {<<>>}
             lists == [i \in 1..2 |-> (IF i = 1 THEN <<>> ELSE comma)
                                      \o WrittenList(<<first, second>>[i])]
             body == FlattenSeq(lists)
  <1>1. Written(<<first, second>>) = (open \o body) \o close
    <2>1. Len(<<first, second>>) = 2
      OBVIOUS
    <2> QED BY <2>1 DEF Written
  <1>2. open \in Seq(Signs) /\ comma \in Seq(Signs) /\ close \in Seq(Signs)
    <2>1. \A a \in Signs : <<a>> \in Seq(Signs)
      OBVIOUS
    <2> QED BY <2>1, SignsAre
  <1>3. Stands(p1, "key", {})
    <2>1. p1 = ParseToken(p0, Mark("{"))
      BY RunOne
    <2>2. ParseToken(p0, Mark("{")) = State("key", <<>>)
      BY DEF ParseToken, Expect, Mark, State
    <2>3. <<>> \in Seq(Strings) /\ ToSet(<<>>) = {}
      BY EmptySeq DEF ToSet
    <2> QED BY <2>1, <2>2, <2>3 DEF Stands
  <1> HIDE DEF p1
  <1>4. one \in Seq(Signs) /\ Stands(p2, "after list", ones)
    <2>1. one \in Seq(Signs) /\ Stands(p2, "after list", {} \cup ones)
      BY <1>3, ParsesList
    <2>2. {} \cup ones = ones
      OBVIOUS
    <2> QED BY <2>1, <2>2
  <1> HIDE DEF p2
  <1>5. Stands(p3, "key", ones)
    <2> HIDE DEF ones
    <2> QED BY <1>4, StandsMarks
  <1> HIDE DEF p3
  <1>6. two \in Seq(Signs) /\ Stands(p4, "after list", ones \cup twos)
    <2> HIDE DEF ones
    <2> QED BY <1>5, ParsesList
  <1> HIDE DEF p4
  <1>7. Stands(p5, "end", ones \cup twos)
    <2> DEFINE all == ones \cup twos
    <2>1. Stands(p4, "after list", all)
      BY <1>6
    <2> HIDE DEF all
    <2> QED BY <2>1, StandsMarks DEF all
  <1>8. lists[1] = one /\ lists[2] = comma \o two
    <2>1. <<first, second>>[1] = first /\ <<first, second>>[2] = second
          /\ 1 \in 1..2 /\ 2 \in 1..2 /\ 2 # 1
      OBVIOUS
    <2>2. lists[1] = <<>> \o one
      BY <2>1
    <2>3. lists[2] = comma \o two
      BY <2>1
    <2>4. <<>> \o one = one
      BY <1>4, ConcatEmptySeq
    <2> QED BY <2>2, <2>3, <2>4
  <1>9. lists = [i \in 1..2 |-> lists[i]]
    OBVIOUS
  <1> HIDE DEF open, comma, close, one, two, lists, p0
  <1>10. comma \o two \in Seq(Signs) /\ one \o (comma \o two) \in Seq(Signs)
    <2>1. comma \o two \in Seq(Signs)
      BY <1>2, <1>6, ConcatProperties
    <2> QED BY <1>4, <2>1, ConcatProperties
  <1>11. body = one \o (comma \o two)
    <2> DEFINE C == Seq(Signs)
    <2>1. lists \in [1..2 -> C]
      <3>1. lists[1] \in C /\ lists[2] \in C
        BY <1>4, <1>8, <1>10
      <3> HIDE DEF C
      <3>2. \A i \in 1..2 : i = 1 \/ i = 2
        OBVIOUS
      <3>3. \A i \in 1..2 : lists[i] \in C
        BY <3>1, <3>2
      <3> QED BY <1>9, <3>3
    <2>2. 1 + 1 = 2 /\ 1 \in Nat
      OBVIOUS
    <2>3. lists \in [1..(1 + 1) -> Seq(Signs)]
      BY <2>1, <2>2
    <2>4. PICK f : /\ f[1] = lists[1]
                   /\ \A i \in 1..1 : f[i + 1] = f[i] \o lists[i + 1]
                   /\ body = f[1 + 1]
      BY <2>2, <2>3, FlattenIs
    <2>5. f[1 + 1] = f[1] \o lists[1 + 1]
      <3>1. 1 \in 1..1
        OBVIOUS
      <3> QED BY <2>4, <3>1
    <2>6. f[2] = f[1] \o lists[2] /\ body = f[2]
      BY <2>2, <2>4, <2>5
    <2> QED BY <1>8, <2>4, <2>6
  <1> HIDE DEF body
  <1> DEFINE doc == (open \o body) \o close
             more == comma \o two
             start == open \o body
  <1>12. body \in Seq(Signs) /\ start \in Seq(Signs) /\ more \in Seq(Signs)
    <2>1. body \in Seq(Signs)
      BY <1>10, <1>11
    <2> QED BY <1>2, <1>10, <2>1, ConcatProperties
  <1>13. Run(p0, doc) = p5
    <2>1. Run(p2, more) = p4
      BY <1>2, <1>6, RunConcat DEF p3, p4
    <2> HIDE DEF more
    <2>2. Run(p1, one \o more) = p4
      BY <1>4, <1>12, <2>1, RunConcat DEF p2
    <2>3. body = one \o more
      BY <1>11 DEF more
    <2>4. Run(p0, start) = p4
      BY <1>2, <1>12, <2>2, <2>3, RunConcat DEF p1
    <2> HIDE DEF start, p5
    <2>5. Run(p0, start \o close) = Run(p4, close)
      BY <1>2, <1>12, <2>4, RunConcat
    <2> QED BY <2>5 DEF start, p5
  <1>14. Parsed(doc) = Run(p0, doc)
    BY DEF Parsed, Run, p0
  <1> HIDE DEF p5, doc
  <1>15. PICK k \in Seq(Strings) : Parsed(doc) = State("end", k) /\ ToSet(k) = ones \cup twos
    BY <1>7, <1>13, <1>14 DEF Stands
  <1>16. ToSet(first \o second) = ToSet(first) \cup ToSet(second)
    BY Parts
  <1>17. (ones \cup twos) \ {<<>>} = ToSet(first \o second) \ {<<>>}
    BY <1>16
  <1>18. Parsed(doc).headed /\ Parsed(doc).keywords = k
    BY <1>15 DEF State
  <1> HIDE DEF ones, twos
  <1> QED BY <1>1, <1>15, <1>17, <1>18 DEF doc

\* What a load leaves, and what the calls c have yet to add.
Loaded(doc) == ToSet(Parsed(doc).keywords) \ {<<>>}

Rest(c) == {word \in Given : Add(word) \in ToSet(c)}

\* The calls of a load after its clear, or none.
AddsThenBuild(c) ==
    \A i \in 1..Len(c) : IF i = Len(c) THEN c[i] = Build ELSE c[i] \in Adds

LEMMA LoadCallsIs ==
  ASSUME NEW doc \in Documents, Parsed(doc).headed
  PROVE  LET c == LoadCalls(doc)
         IN  /\ c # <<>> /\ Head(c) = Clear /\ Tail(c) # <<>>
             /\ AddsThenBuild(Tail(c)) /\ Rest(Tail(c)) = Loaded(doc)
  <1> DEFINE k == Parsed(doc).keywords
             adds == AddAll(k)
             last == <<Build>>
             first == <<Clear>>
             rest == adds \o last
             c == LoadCalls(doc)
  <1>1. k \in Seq(Strings) /\ ToSet(k) \subseteq Keywords
    <2>1. doc \in Seq(Tokens)
      BY AhoCorasickAssumption DEF Tokens, Strings
    <2>2. k \in Seq(Strings)
      BY <2>1, ParsedIn DEF States
    <2> DEFINE F == {ToSet(Parsed(d).keywords) : d \in Documents}
               kept == ToSet(k)
               others == Words \cup (UNION {ToSet(words) : words \in WordLists})
    <2>3. kept \in F
      BY Zenon
    <2>4. Keywords = others \cup UNION F
      BY DEF Keywords
    <2> HIDE DEF F, kept, others
    <2>5. kept \subseteq Keywords
      BY <2>3, <2>4
    <2> QED BY <2>2, <2>5 DEF kept
  <1>2. adds \in Seq(Adds) /\ ToSet(adds) = {Add(word) : word \in ToSet(k) \ {<<>>}}
    BY <1>1, AddAllIn
  <1>3. c = first \o rest
    BY DEF LoadCalls
  <1>4. /\ last \in Seq(Calls) /\ Len(last) = 1 /\ last[1] = Build
        /\ first \in Seq(Calls) /\ Len(first) = 1 /\ first[1] = Clear
        /\ ToSet(last) = {Build}
    BY DEF Calls, ToSet
  <1>5. adds \in Seq(Calls)
    BY <1>2, SeqMonotonic DEF Calls
  <1> HIDE DEF k, adds, last, first
  <1>6. PICK n \in Nat : n = Len(adds)
    BY <1>5, LenProperties
  <1>7. /\ rest \in Seq(Calls) /\ Len(rest) = n + 1
        /\ \A i \in 1..(n + 1) : rest[i] = IF i <= n THEN adds[i] ELSE last[i - n]
    <2>1. /\ rest \in Seq(Calls) /\ Len(rest) = Len(adds) + Len(last)
          /\ \A i \in 1..(Len(adds) + Len(last)) :
                rest[i] = IF i <= Len(adds) THEN adds[i] ELSE last[i - Len(adds)]
      BY <1>4, <1>5, ConcatProperties
    <2> HIDE DEF rest
    <2> QED BY <1>4, <1>6, <2>1
  <1>8. ToSet(rest) = ToSet(adds) \cup {Build}
    BY <1>4, <1>5, Parts
  <1> HIDE DEF rest
  <1>9. AddsThenBuild(rest)
    <2> SUFFICES ASSUME NEW i \in 1..(n + 1)
                 PROVE  IF i = n + 1 THEN rest[i] = Build ELSE rest[i] \in Adds
      BY <1>7 DEF AddsThenBuild
    <2>1. CASE i = n + 1
      <3>1. ~(i <= n) /\ i - n = 1
        BY <2>1
      <3> QED BY <1>4, <1>7, <2>1, <3>1
    <2>2. CASE i # n + 1
      <3>1. i <= n /\ i \in 1..n
        BY <2>2
      <3>2. adds[i] \in Adds
        BY <1>2, <1>6, <3>1, ElementOfSeq
      <3> QED BY <1>7, <2>2, <3>1, <3>2
    <2> QED BY <2>1, <2>2
  <1>10. rest # <<>>
    BY <1>7, EmptySeq
  <1>11. c # <<>> /\ Head(c) = Clear /\ Tail(c) = rest
    <2> HIDE DEF c
    <2>1. /\ c \in Seq(Calls) /\ Len(c) = n + 2
          /\ \A i \in 1..(n + 2) : c[i] = IF i <= 1 THEN first[i] ELSE rest[i - 1]
      <3>1. /\ c \in Seq(Calls) /\ Len(c) = 1 + (n + 1)
            /\ \A i \in 1..(1 + (n + 1)) : c[i] = IF i <= 1 THEN first[i] ELSE rest[i - 1]
        <4>1. /\ c \in Seq(Calls) /\ Len(c) = Len(first) + Len(rest)
              /\ \A i \in 1..(Len(first) + Len(rest)) :
                    c[i] = IF i <= Len(first) THEN first[i] ELSE rest[i - Len(first)]
          <5>1. first \in Seq(Calls) /\ rest \in Seq(Calls)
            BY <1>4, <1>7
          <5> QED BY <1>3, <5>1, ConcatProperties
        <4> QED BY <1>4, <1>7, <4>1
      <3>2. 1 + (n + 1) = n + 2
        OBVIOUS
      <3> QED BY <3>1, <3>2
    <2>2. c # <<>>
      BY <2>1, EmptySeq
    <2>3. c[1] = Clear
      BY <1>4, <2>1
    <2>4. /\ Head(c) = c[1] /\ Tail(c) \in Seq(Calls) /\ Len(Tail(c)) = n + 1
          /\ \A i \in 1..(n + 1) : Tail(c)[i] = c[i + 1]
      <3>1. /\ Tail(c) \in Seq(Calls) /\ Len(Tail(c)) = Len(c) - 1
            /\ \A i \in 1..Len(Tail(c)) : Tail(c)[i] = c[i + 1]
        BY <2>1, <2>2, HeadTailProperties
      <3>2. Len(c) - 1 = n + 1
        BY <2>1
      <3>3. Head(c) = c[1]
        OBVIOUS
      <3> QED BY <3>1, <3>2, <3>3
    <2>5. \A i \in 1..(n + 1) : Tail(c)[i] = rest[i]
      <3> SUFFICES ASSUME NEW i \in 1..(n + 1) PROVE Tail(c)[i] = rest[i]
        OBVIOUS
      <3>1. i + 1 \in 1..(n + 2) /\ ~(i + 1 <= 1) /\ (i + 1) - 1 = i
        OBVIOUS
      <3> QED BY <2>1, <2>4, <3>1
    <2> DEFINE t == Tail(c)
    <2>6. t \in Seq(Calls) /\ Len(t) = Len(rest) /\ \A i \in 1..Len(t) : t[i] = rest[i]
      BY <1>7, <2>4, <2>5
    <2> HIDE DEF t
    <2>7. t = rest
      BY <1>7, <2>6, SeqEqual
    <2> QED BY <2>2, <2>3, <2>4, <2>7 DEF t
  <1>12. Rest(rest) = ToSet(k) \ {<<>>}
    <2>1. \A word : word \in ToSet(k) => word \in Strings
      BY <1>1, LenProperties, ElementOfSeq DEF ToSet
    <2>2. \A word \in Given : Add(word) \in ToSet(rest)
              <=> word \in ToSet(k) \ {<<>>}
      <3>1. \A x, y : Add(x) # Build /\ (Add(x) = Add(y) => x = y)
        <4> SUFFICES ASSUME NEW x, NEW y PROVE Add(x) # Build /\ (Add(x) = Add(y) => x = y)
          OBVIOUS
        <4>1. Add(x).call = "add" /\ Build.call = "build" /\ Add(x).word = x /\ Add(y).word = y
          BY DEF Add, Build
        <4> QED BY <4>1
      <3> QED BY <1>2, <1>8, <3>1
    <2>3. \A word \in ToSet(k) \ {<<>>} : word \in Given
      BY <1>1, <2>1 DEF Given, Root
    <2> QED BY <2>2, <2>3 DEF Rest
  <1> QED BY <1>9, <1>10, <1>11, <1>12 DEF Loaded, k

\* A load that no other change overlaps with has all its calls to make, or has
\* cleared the dictionary and adds what is missing.
OnItsWay(w, doc) ==
    LET c == doing[w].calls
    IN  \/ c = LoadCalls(doc)
        \/ /\ AddsThenBuild(c)
           /\ Dictionary \cup Rest(c) = Loaded(doc)
           /\ c = <<>> => is_built

InvAlone ==
    \A w \in alone :
        /\ \A o \in Writers : o # w => doing[o].calls = <<>>
        /\ \A doc \in Documents :
              doing[w].op = Load(doc) /\ Parsed(doc).headed => OnItsWay(w, doc)

LEMMA InvAloneBegin ==
  ASSUME Inv, InvAlone, NEW w \in Writers, NEW op \in Changes, Begin(w, op)
  PROVE  InvAlone'
  <1> DEFINE d == [op |-> op, calls |-> CallsOf(op)]
  <1>1. /\ doing' = [doing EXCEPT ![w] = d] /\ doing \in [Writers -> Doings]
        /\ alone' = IF \A o \in Writers : doing[o].calls = <<>> THEN {w} ELSE {}
    BY DEF Begin, Inv, InvDoing
  <1>2. d.op = op /\ d.calls = CallsOf(op)
    OBVIOUS
  <1> HIDE DEF d
  <1>3. doing'[w] = d /\ \A o \in Writers : o # w => doing'[o] = doing[o]
    BY <1>1
  <1> SUFFICES ASSUME NEW v \in alone'
               PROVE  /\ \A o \in Writers : o # v => doing'[o].calls = <<>>
                      /\ \A doc \in Documents :
                            doing'[v].op = Load(doc) /\ Parsed(doc).headed =>
                                OnItsWay(v, doc)'
    BY DEF InvAlone
  <1>4. v = w /\ \A o \in Writers : doing[o].calls = <<>>
    BY <1>1
  <1>5. ASSUME NEW doc \in Documents, doing'[v].op = Load(doc)
        PROVE  OnItsWay(v, doc)'
    <2>1. op = Load(doc) /\ doing'[v].calls = CallsOf(op)
      BY <1>2, <1>3, <1>4, <1>5
    <2>2. CallsOf(Load(doc)) = LoadCalls(doc)
      BY DEF CallsOf, Load
    <2> QED BY <2>1, <2>2 DEF OnItsWay
  <1> QED BY <1>3, <1>4, <1>5

\* The next call of a load that is alone.
LEMMA OnItsWayStep ==
  ASSUME Inv, NEW w \in Writers, NEW doc \in Documents, Parsed(doc).headed,
         OnItsWay(w, doc), DoAdd(w) \/ DoClear(w) \/ DoBuild(w)
  PROVE  OnItsWay(w, doc)'
  <1> DEFINE c == doing[w].calls
             b == Tail(c)
  <1>1. /\ c \in Seq(Calls) /\ c # <<>> /\ Guarded(c) /\ doing'[w].calls = b
        /\ Head(c) \in Calls
        /\ DoAdd(w) => Head(c).call = "add"
        /\ DoClear(w) => Head(c).call = "clear"
        /\ DoBuild(w) => Head(c).call = "build"
    BY CallingIs DEF Inv, DoAdd, DoClear, DoBuild
  <1>2. /\ DoAdd(w) => Head(c) \in Adds
        /\ DoClear(w) => Head(c) = Clear
        /\ DoBuild(w) => Head(c) = Build
        /\ Clear # Build /\ Clear \notin Adds /\ Build \notin Adds
        /\ Clear.call = "clear" /\ Build.call = "build"
    <2>1. Clear \in Calls /\ Build \in Calls
      BY DEF Calls
    <2> QED BY <1>1, <2>1, CallIs
  <1>3. PICK n \in Nat : /\ Len(c) = n + 1 /\ b \in Seq(Calls) /\ Len(b) = n
                         /\ Head(c) = c[1]
                         /\ \A i \in 1..n : b[i] = c[i + 1]
    <2>1. Len(c) \in Nat /\ Len(c) # 0
      BY <1>1, EmptySeq, LenProperties
    <2>2. PICK n \in Nat : Len(c) = n + 1
      <3>1. Len(c) - 1 \in Nat /\ Len(c) = (Len(c) - 1) + 1
        BY <2>1
      <3> QED BY <3>1
    <2> QED BY <1>1, <2>2, HeadTailProperties
  <1>4. CASE c = LoadCalls(doc)
    <2>1. Head(c) = Clear /\ b # <<>> /\ AddsThenBuild(b) /\ Rest(b) = Loaded(doc)
      BY <1>4, LoadCallsIs
    <2> HIDE DEF b, c
    <2>2. DoClear(w)
      BY <1>2, <2>1
    <2>3. Dictionary' = {}
      BY <2>2, InvDoClear
    <2>4. Dictionary' \cup Rest(b) = Loaded(doc)
      BY <2>1, <2>3
    <2> QED BY <1>1, <2>1, <2>4 DEF OnItsWay, Rest, Loaded
  <1>5. CASE /\ AddsThenBuild(c) /\ Dictionary \cup Rest(c) = Loaded(doc)
    <2> HIDE DEF b, c
    <2>1. AddsThenBuild(b)
      <3> SUFFICES ASSUME NEW i \in 1..n
                   PROVE  IF i = n THEN b[i] = Build ELSE b[i] \in Adds
        BY <1>3 DEF AddsThenBuild
      <3>1. i + 1 \in 1..(n + 1) /\ (i = n <=> i + 1 = n + 1)
        OBVIOUS
      <3>2. IF i + 1 = n + 1 THEN c[i + 1] = Build ELSE c[i + 1] \in Adds
        BY <1>3, <1>5, <3>1 DEF AddsThenBuild
      <3> QED BY <1>3, <3>1, <3>2
    <2>2. IF n = 0 THEN c[1] = Build ELSE c[1] \in Adds
      <3>1. 1 \in 1..(n + 1) /\ (n = 0 <=> 1 = n + 1)
        OBVIOUS
      <3> QED BY <1>3, <1>5, <3>1 DEF AddsThenBuild
    <2>3. ToSet(c) = {c[1]} \cup ToSet(b)
      <3>1. ToSet(c) = {c[i] : i \in 1..(n + 1)} /\ ToSet(b) = {b[i] : i \in 1..n}
        BY <1>1, <1>3, LenProperties DEF ToSet
      <3>2. \A i \in 1..(n + 1) : i = 1 \/ \E j \in 1..n : i = j + 1
        <4> SUFFICES ASSUME NEW i \in 1..(n + 1), i # 1 PROVE \E j \in 1..n : i = j + 1
          OBVIOUS
        <4>1. i - 1 \in 1..n /\ i = (i - 1) + 1
          OBVIOUS
        <4> QED BY <4>1
      <3>3. 1 \in 1..(n + 1) /\ \A j \in 1..n : j + 1 \in 1..(n + 1)
        OBVIOUS
      <3>4. \A x \in ToSet(c) : x \in {c[1]} \cup ToSet(b)
        <4> SUFFICES ASSUME NEW i \in 1..(n + 1) PROVE c[i] \in {c[1]} \cup ToSet(b)
          BY <3>1
        <4>1. CASE i = 1
          BY <4>1
        <4>2. CASE i # 1
          <5>1. PICK j \in 1..n : i = j + 1
            BY <3>2, <4>2
          <5> QED BY <1>3, <3>1, <5>1
        <4> QED BY <4>1, <4>2
      <3>5. \A x \in {c[1]} \cup ToSet(b) : x \in ToSet(c)
        BY <1>3, <3>1, <3>3
      <3> QED BY <3>4, <3>5
    <2>4. CASE DoAdd(w)
      <3>1. PICK word \in Given : c[1] = Add(word) /\ Dictionary' = Dictionary \cup {word}
        BY <1>3, <2>4, InvDoAdd DEF c
      <3>2. n # 0 /\ b # <<>>
        BY <1>2, <1>3, <2>2, <2>4
      <3>3. \A x \in Given : Add(x) = Add(word) => x = word
        <4> SUFFICES ASSUME NEW x \in Given, Add(x) = Add(word) PROVE x = word
          OBVIOUS
        <4>1. Add(x).word = x /\ Add(word).word = word
          BY DEF Add
        <4> QED BY <4>1
      <3>4. Rest(c) = Rest(b) \cup {word}
        BY <2>3, <3>1, <3>3 DEF Rest
      <3>5. Dictionary' \cup Rest(b) = Loaded(doc)
        BY <1>5, <3>1, <3>4
      <3> QED BY <1>1, <2>1, <3>2, <3>5 DEF OnItsWay, Rest, Loaded
    <2>5. CASE DoClear(w)
      BY <1>2, <1>3, <2>2, <2>5
    <2>6. CASE DoBuild(w)
      <3>1. n = 0 /\ c[1] = Build
        BY <1>2, <1>3, <2>2, <2>6
      <3>2. is_built' = TRUE /\ Dictionary' = Dictionary
        BY <2>6, InvDoBuild
      <3>3. Rest(c) = Rest(b)
        <4>1. \A x \in Given : Add(x) # Build
          BY <1>2 DEF Adds
        <4> QED BY <2>3, <3>1, <4>1 DEF Rest
      <3>4. Dictionary' \cup Rest(b) = Loaded(doc)
        BY <1>5, <3>2, <3>3
      <3> QED BY <1>1, <2>1, <3>2, <3>4 DEF OnItsWay, Rest, Loaded
    <2> QED BY <2>4, <2>5, <2>6
  <1> QED BY <1>4, <1>5 DEF OnItsWay, c

LEMMA InvAloneStep == Inv /\ InvAlone /\ [Next]_vars => InvAlone'
  <1> SUFFICES ASSUME Inv, InvAlone, [Next]_vars PROVE InvAlone'
    OBVIOUS
  <1>1. ASSUME NEW w \in Writers, NEW op \in Changes, Begin(w, op) PROVE InvAlone'
    BY <1>1, InvAloneBegin
  <1>2. ASSUME NEW w \in Writers, DoAdd(w) \/ DoClear(w) \/ DoBuild(w) PROVE InvAlone'
    <2>1. alone' = alone
      BY <1>2 DEF DoAdd, DoClear, DoBuild, Calling
    <2>2. /\ doing[w].calls # <<>> /\ doing'[w].op = doing[w].op
          /\ \A o \in Writers : o # w => doing'[o] = doing[o]
      BY <1>2, CallingIs DEF DoAdd, DoClear, DoBuild, Inv
    <2> SUFFICES ASSUME NEW v \in alone
                 PROVE  /\ \A o \in Writers : o # v => doing'[o].calls = <<>>
                        /\ \A doc \in Documents :
                              doing'[v].op = Load(doc) /\ Parsed(doc).headed =>
                                  OnItsWay(v, doc)'
      BY <2>1 DEF InvAlone
    <2>3. v = w
      BY <2>2 DEF InvAlone
    <2>4. \A o \in Writers : o # v => doing'[o].calls = <<>>
      BY <2>2, <2>3 DEF InvAlone
    <2>5. ASSUME NEW doc \in Documents, doing'[v].op = Load(doc), Parsed(doc).headed
          PROVE  OnItsWay(v, doc)'
      <3>1. OnItsWay(v, doc)
        BY <2>2, <2>3, <2>5 DEF InvAlone
      <3> QED BY <1>2, <2>3, <2>5, <3>1, OnItsWayStep
    <2> QED BY <2>4, <2>5
  <1>3. CASE UNCHANGED vars
    BY <1>3 DEF vars, InvAlone, OnItsWay, Dictionary
  <1> QED BY <1>1, <1>2, <1>3 DEF Next

\* A well-formed file is loaded whole and replaces what was there, unless another
\* change overlaps with the load (load_dictionary_from_json, clear, add_keyword
\* and build).
THEOREM LoadedWholeHolds == Spec => []LoadedWhole
  <1>1. Init => InvAlone
    BY DEF Init, InvAlone
  <1>2. Inv /\ InvAlone => LoadedWhole
    <2> SUFFICES ASSUME Inv, InvAlone,
                        NEW w \in alone, NEW first \in WordLists, NEW second \in WordLists,
                        doing[w].calls = <<>>,
                        doing[w].op = Load(Written(<<first, second>>))
                 PROVE  is_built /\ Dictionary = ToSet(first \o second) \ {<<>>}
      BY DEF LoadedWhole
    <2> DEFINE doc == Written(<<first, second>>)
    <2>1. first \in Seq(Strings) /\ second \in Seq(Strings)
      BY AhoCorasickAssumption DEF Strings
    <2>2. Parsed(doc).headed /\ Loaded(doc) = ToSet(first \o second) \ {<<>>}
      BY <2>1, FileParsed DEF Loaded
    <2> HIDE DEF doc
    <2>3. doing[w].op = Load(doc) /\ doing[w].op \in Asked
      BY DEF doc, Inv, InvDoing, Doings
    <2>4. doc \in Documents
      <3>1. \A word : AddKeyword(word) # Load(doc)
        BY DEF AddKeyword, Load
      <3>2. \A words : AddKeywords(words) # Load(doc)
        BY DEF AddKeywords, Load
      <3>3. [kind |-> "none"] # Load(doc)
        BY DEF Load
      <3>4. \A d : Load(d) = Load(doc) => d = doc
        <4> SUFFICES ASSUME NEW d, Load(d) = Load(doc) PROVE d = doc
          OBVIOUS
        <4>1. Load(d).doc = d /\ Load(doc).doc = doc
          BY DEF Load
        <4> QED BY <4>1
      <3>5. Load(doc) \in Asked
        BY <2>3
      <3> QED BY <3>1, <3>2, <3>3, <3>4, <3>5 DEF Asked, Changes
    <2>5. OnItsWay(w, doc)
      BY <2>2, <2>3, <2>4 DEF InvAlone
    <2>6. <<>> # LoadCalls(doc)
      BY <2>2, <2>4, LoadCallsIs
    <2>7. Rest(<<>>) = {}
      <3>1. ToSet(<<>>) = {}
        BY DEF ToSet
      <3> QED BY <3>1 DEF Rest
    <2>8. is_built /\ Dictionary = Loaded(doc)
      BY <2>5, <2>6, <2>7 DEF OnItsWay
    <2> QED BY <2>2, <2>8
  <1>3. Spec => []InvAlone
    BY <1>1, InvHolds, InvAloneStep, PTL DEF Spec
  <1> QED BY <1>2, <1>3, InvHolds, PTL
=============================================================================
