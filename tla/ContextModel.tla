---------------------------- MODULE ContextModel ----------------------------
(***************************************************************************)
(* The adaptive frequency model of the arithmetic coder                    *)
(* (src/src/comp_core/context_model.cpp).  A model is a record of the      *)
(* history of symbols, latest first, and for each context a table of       *)
(* frequencies with its total.                                             *)
(***************************************************************************)
EXTENDS Integers, Sequences, FiniteSetsExt

CONSTANTS
    kAlphabetSize,  \* 256 in the code
    kMaxFrequency,  \* 0xFFFF in the code, the largest 16-bit number
    Order,          \* m_order: how many symbols of history select a context
    Contexts,       \* the indices of the tables, 0..255 in the code
    ContextOf(_)    \* the hash of a history of Order symbols to an index

ASSUME ContextModelAssumption ==
    /\ kAlphabetSize \in Nat \ {0}
    /\ kMaxFrequency \in Nat /\ kMaxFrequency > kAlphabetSize + 3
    /\ Order \in 1..4
    /\ \A history \in [1..Order -> 0..(kAlphabetSize - 1)] : ContextOf(history) \in Contexts

Symbol == 0..(kAlphabetSize - 1)

\* What a 16-bit counter holds of n.
U16(n) == n % (kMaxFrequency + 1)

\* The constructor's and reset's model.
FreshModel ==
    [history |-> [i \in 1..Order |-> 0],
     freq    |-> [c \in Contexts |-> [s \in Symbol |-> 1]],
     total   |-> [c \in Contexts |-> kAlphabetSize]]

get_context_index(m) == ContextOf(m.history)

\* Halved, and one more where that is even, so that no count becomes zero.
Halved(n) == LET h == n \div 2 IN IF h % 2 = 0 THEN h + 1 ELSE h

Rescaled(table) == [s \in Symbol |-> Halved(table[s])]

\* The sums of the frequencies below each symbol, and of all.
Sums(table) ==
    LET sum[i \in 0..kAlphabetSize] == IF i = 0 THEN 0 ELSE sum[i - 1] + table[i - 1]
    IN  sum

SumOf(table) == Sums(table)[kAlphabetSize]

NeverFull(total) == FALSE  \* fault: the tables are never rescaled

Full(total) == total + 2 >= kMaxFrequency

Updated(m, symbol) ==
    LET c     == get_context_index(m)
        full  == Full(m.total[c])
        table == IF full THEN Rescaled(m.freq[c]) ELSE m.freq[c]
        total == IF full THEN SumOf(table) ELSE m.total[c]
    IN  [history |-> <<symbol>> \o SubSeq(m.history, 1, Order - 1),
         freq    |-> [m.freq EXCEPT ![c] = [table EXCEPT ![symbol] = U16(@ + 2)]],
         total   |-> [m.total EXCEPT ![c] = total + 2]]

\* A 16-bit counter of the frequencies below a symbol.
Below(m, symbol) == U16(Sums(m.freq[get_context_index(m)])[symbol])

total_frequency(m) == U16(m.total[get_context_index(m)])

get_stats(m, symbol) ==
    [low   |-> Below(m, symbol),
     high  |-> U16(Below(m, symbol) + m.freq[get_context_index(m)][symbol]),
     total |-> total_frequency(m)]

\* The first symbol whose interval ends beyond the target, or the last symbol.
SymbolAt(m, target) ==
    LET beyond == {s \in Symbol : target < get_stats(m, s).high}
    IN  IF beyond = {} THEN kAlphabetSize - 1 ELSE Min(beyond)

\* The frequencies of every context add up to its total, none is zero, and all
\* of them fit 16 bits: no addition in update, get_stats and decode_symbol
\* wraps around.
Sound(m) ==
    \A c \in Contexts :
        /\ \A s \in Symbol : m.freq[c][s] > 0
        /\ m.total[c] = SumOf(m.freq[c])
        /\ m.total[c] < kMaxFrequency
=============================================================================
