------------------------------ MODULE Matcher -------------------------------
(***************************************************************************)
(* What KhShield expects of its keyword matcher: a set of patterns, which  *)
(* changes only by adding one and by forgetting all, and which answers     *)
(* after a build and before the next change.  AhoCorasick implements it;   *)
(* Shield is built on it.                                                  *)
(***************************************************************************)
EXTENDS Integers, Sequences

CONSTANT Patterns  \* every sequence of characters that may be a pattern

VARIABLES
    patterns,   \* the dictionary
    searchable

vars == <<patterns, searchable>>

Init == patterns = {} /\ searchable = FALSE

Add(word) ==
    /\ patterns' = patterns \cup {word}
    /\ searchable' = FALSE

Clear == patterns' = {} /\ searchable' = FALSE

Build == searchable' = TRUE /\ UNCHANGED patterns

Next == (\E word \in Patterns : Add(word)) \/ Clear \/ Build

Spec == Init /\ [][Next]_vars
-----------------------------------------------------------------------------
Occurs(word, text, i) ==
    Len(word) <= i /\ SubSeq(text, i - Len(word) + 1, i) = word

\* What a search of text finds.
Found(text) ==
    {m \in [pattern : IF searchable THEN patterns ELSE {}, end_pos : 1..Len(text)] :
        Occurs(m.pattern, text, m.end_pos)}

\* The match a search reports first: of those that end first, the longest.
IsFirst(m, found) ==
    \A o \in found : \/ m.end_pos < o.end_pos
                     \/ /\ m.end_pos = o.end_pos
                        /\ Len(m.pattern) >= Len(o.pattern)
=============================================================================
