---------------------------- MODULE AhoCorasick -----------------------------
(***************************************************************************)
(* The keyword matcher (src/src/shield_core/text/aho_corasick.cpp) and the *)
(* calls ShieldEngine makes to change its dictionary.  A shared mutex      *)
(* makes each call of AhoCorasick atomic, but add_keyword(s) and the       *)
(* loading of a dictionary are several calls: clear, one add for each      *)
(* keyword, build.  A search may come between any two of them.             *)
(*                                                                         *)
(* A node of the trie is the path that leads to it, the root is <<>>: the  *)
(* child of n for c is Append(n, c), a link to the root is the code's 0,   *)
(* and a keyword is stored at the node that is its path.                   *)
(***************************************************************************)
EXTENDS Integers, SequencesExt

CONSTANTS
    Characters, \* of keywords and texts: the bytes
    Writers,    \* the threads that change the dictionary
    Words,      \* the keywords given to add_keyword
    WordLists,  \* the lists given to add_keywords
    Documents,  \* the dictionary files: sequences of tokens
    Texts,      \* the texts searched
    MaxCalls    \* bound: the number of changes

\* An empty keyword is refused at once (lines 25 and 54).
ASSUME AhoCorasickAssumption ==
    /\ MaxCalls \in Nat
    /\ Words \subseteq Seq(Characters) \ {<<>>}
    /\ WordLists \subseteq Seq(Seq(Characters))
    /\ Documents \subseteq Seq([token : STRING, value : Seq(Characters)])
    /\ Texts \subseteq Seq(Characters)

VARIABLES
    trie,      \* nodes_: [nodes, fail_link, output_link, patterns], the last
               \* the number of times the keyword of a node was added
    is_built,
    doing,     \* [op, calls]: what a writer was asked, the calls it has left
    begun,     \* the number of changes begun
    alone      \* history: the writer whose change was begun with no other under
               \* way, until the next one is begun

vars == <<trie, is_built, doing, begun, alone>>

Root == <<>>
-----------------------------------------------------------------------------
(***************************************************************************)
(* The dictionary file.  A token is a punctuation mark, a string, or       *)
(* "cut": a string the end of the file cuts off.  The parser is tolerant:  *)
(* it stops at the first token it does not expect and keeps what it has.   *)
(***************************************************************************)
Mark(t) == [token |-> t, value |-> <<>>]
String(s) == [token |-> "string", value |-> s]

AfterFirstList(p, t) == [p EXCEPT !.expects = "end"]  \* fault: one category only

AfterList(p, t) ==
    [p EXCEPT !.expects = IF t.token = "," THEN "key" ELSE "end"]

AfterValue(p, t) ==
    CASE t.token = "," -> [p EXCEPT !.expects = "value"]
      [] t.token = "]" -> [p EXCEPT !.expects = "after list"]
      [] OTHER -> AfterList(p, t)

\* A token that is no string is an empty value, and then comes after it.
Value(p, t) ==
    CASE t.token = "]" -> [p EXCEPT !.expects = "after list"]
      [] t.token = "string" ->
            [p EXCEPT !.expects = "after value",
                      !.keywords = IF t.value = <<>> THEN @ ELSE Append(@, t.value)]
      [] t.token = "cut" -> [p EXCEPT !.expects = "end"]
      [] OTHER -> AfterValue(p, t)

Expect(p, mark, then) ==
    [p EXCEPT !.expects = IF mark THEN then ELSE "end"]

ParseToken(p, t) ==
    CASE p.expects = "start" ->
            [Expect(p, t.token = "{", "key") EXCEPT !.headed = t.token = "{"]
      [] p.expects = "key" ->
            Expect(p, t.token = "string" /\ t.value # <<>>, "colon")
      [] p.expects = "colon" -> Expect(p, t.token = ":", "bracket")
      [] p.expects = "bracket" -> Expect(p, t.token = "[", "value")
      [] p.expects = "value" -> Value(p, t)
      [] p.expects = "after value" -> AfterValue(p, t)
      [] p.expects = "after list" -> AfterList(p, t)
      [] OTHER -> p

Parsed(doc) ==
    LET after[i \in 0..Len(doc)] ==
            IF i = 0 THEN [expects |-> "start", headed |-> FALSE, keywords |-> <<>>]
            ELSE ParseToken(after[i - 1], doc[i])
    IN  after[Len(doc)]
-----------------------------------------------------------------------------
(***************************************************************************)
(* The automaton.                                                          *)
(***************************************************************************)
EmptyTrie == [nodes       |-> {Root},
              fail_link   |-> [n \in {Root} |-> Root],
              output_link |-> [n \in {Root} |-> Root],
              patterns    |-> [n \in {Root} |-> 0]]

Extended(f, nodes, default) ==
    [n \in nodes |-> IF n \in DOMAIN f THEN f[n] ELSE default]

\* add_keyword: the path's nodes that are new have no links yet.
Added(t, word) ==
    LET nodes == t.nodes \cup Prefixes(word)
    IN  [nodes       |-> nodes,
         fail_link   |-> Extended(t.fail_link, nodes, Root),
         output_link |-> Extended(t.output_link, nodes, Root),
         patterns    |-> [Extended(t.patterns, nodes, 0) EXCEPT ![word] = @ + 1]]

HasChild(t, n, c) == Append(n, c) \in t.nodes

\* Down the failure links from n to a node with a child for c, or the root.
Fallback(t, n, c) ==
    LET walk[m \in t.nodes] ==
            IF m = Root \/ HasChild(t, m, c) THEN m ELSE walk[t.fail_link[m]]
    IN  walk[n]

Step(t, n, c) ==
    LET m == Fallback(t, n, c)
    IN  IF HasChild(t, m, c) THEN Append(m, c) ELSE m

FailWithItself(t, n) == Step(t, t.fail_link[Front(n)], Last(n))  \* fault

\* The failure and the output link of a child, from those of its parent.
FailOf(t, n) ==
    IF Len(n) = 1 THEN Root ELSE Step(t, t.fail_link[Front(n)], Last(n))

OutputInherited(t, fail) == t.output_link[fail]  \* fault: only inherited

OutputOf(t, fail) ==
    IF t.patterns[fail] > 0 THEN fail ELSE t.output_link[fail]

\* The breadth-first pass: a level's links come from shallower nodes only.
LinkedLevel(t, depth) ==
    LET level == {n \in t.nodes : Len(n) = depth}
        fail  == [n \in t.nodes |-> IF n \in level THEN FailOf(t, n) ELSE t.fail_link[n]]
    IN  [t EXCEPT !.fail_link = fail,
                  !.output_link = [n \in t.nodes |->
                      IF n \in level /\ depth > 1 THEN OutputOf(t, fail[n])
                      ELSE t.output_link[n]]]

Linked(t) ==
    LET deepest == Max({Len(n) : n \in t.nodes})
        after[depth \in 0..deepest] ==
            IF depth = 0 THEN t ELSE LinkedLevel(after[depth - 1], depth)
    IN  after[deepest]

\* The matches reported at node n after i characters: the node's own keyword,
\* then those along the output links.
Own(t, n, i) == [k \in 1..t.patterns[n] |-> [pattern |-> n, end_pos |-> i]]

Along(t, n, i) ==
    LET along[m \in t.nodes] ==
            IF m = Root THEN <<>> ELSE Own(t, m, i) \o along[t.output_link[m]]
    IN  along[n]

Collected(t, n, i) == Own(t, n, i) \o Along(t, t.output_link[n], i)

\* The node a search is at after i characters of the text.
At(t, text, i) ==
    LET at[k \in 0..Len(text)] ==
            IF k = 0 THEN Root ELSE Step(t, at[k - 1], text[k])
    IN  at[i]

search(text) ==
    LET found[i \in 0..Len(text)] ==
            IF i = 0 THEN <<>>
            ELSE found[i - 1] \o Collected(trie, At(trie, text, i), i)
    IN  IF is_built THEN found[Len(text)] ELSE <<>>

contains_any(text) ==
    is_built /\ \E i \in 1..Len(text) :
        LET n == At(trie, text, i)
        IN  trie.patterns[n] > 0 \/ trie.output_link[n] # Root
-----------------------------------------------------------------------------
(***************************************************************************)
(* The changes, as the calls on the matcher each of them makes.            *)
(***************************************************************************)
Idle == [op |-> [kind |-> "none"], calls |-> <<>>]

Add(word) == [call |-> "add", word |-> word]
Clear == [call |-> "clear"]
Build == [call |-> "build"]

\* Empty keywords are skipped.
AddAll(words) ==
    LET adds[i \in 0..Len(words)] ==
            IF i = 0 THEN <<>>
            ELSE IF words[i] = <<>> THEN adds[i - 1] ELSE Append(adds[i - 1], Add(words[i]))
    IN  adds[Len(words)]

AddKeyword(word) == [kind |-> "keyword", word |-> word]
AddKeywords(words) == [kind |-> "list", words |-> words]
Load(doc) == [kind |-> "load", doc |-> doc]

\* A file that does not start as an object only clears the dictionary.
LoadCalls(doc) ==
    <<Clear>> \o (IF Parsed(doc).headed THEN AddAll(Parsed(doc).keywords) \o <<Build>>
                  ELSE <<>>)

CallsNoBuild(op) ==  \* fault: a keyword is added and the links left as they are
    CASE op.kind = "keyword" -> <<Add(op.word)>>
      [] op.kind = "list" -> AddAll(op.words)
      [] op.kind = "load" -> LoadCalls(op.doc)

CallsOf(op) ==
    CASE op.kind = "keyword" -> <<Add(op.word), Build>>
      [] op.kind = "list" ->
            IF op.words = <<>> THEN <<>> ELSE AddAll(op.words) \o <<Build>>
      [] op.kind = "load" -> LoadCalls(op.doc)

Changes == {AddKeyword(word) : word \in Words}
           \cup {AddKeywords(words) : words \in WordLists}
           \cup {Load(doc) : doc \in Documents}

Dictionary == {n \in trie.nodes : trie.patterns[n] > 0}

Init ==
    /\ trie = EmptyTrie
    /\ is_built = FALSE
    /\ doing = [w \in Writers |-> Idle]
    /\ begun = 0
    /\ alone = {}

Begin(w, op) ==
    /\ begun < MaxCalls
    /\ doing[w].calls = <<>>
    /\ doing' = [doing EXCEPT ![w] = [op |-> op, calls |-> CallsOf(op)]]
    /\ begun' = begun + 1
    /\ alone' = IF \A o \in Writers : doing[o].calls = <<>> THEN {w} ELSE {}
    /\ UNCHANGED <<trie, is_built>>

\* The next call of w, under the exclusive lock.
Calling(w, call) ==
    /\ doing[w].calls # <<>>
    /\ Head(doing[w].calls).call = call
    /\ doing' = [doing EXCEPT ![w].calls = Tail(@)]
    /\ UNCHANGED <<begun, alone>>

AddUnseen(w) ==  \* fault: the links of the last build are taken for current
    /\ Calling(w, "add")
    /\ trie' = Added(trie, Head(doing[w].calls).word)
    /\ UNCHANGED is_built

DoAdd(w) ==
    /\ Calling(w, "add")
    /\ trie' = Added(trie, Head(doing[w].calls).word)
    /\ is_built' = FALSE

DoClear(w) ==
    /\ Calling(w, "clear")
    /\ trie' = EmptyTrie
    /\ is_built' = FALSE

DoBuild(w) ==
    /\ Calling(w, "build")
    /\ trie' = Linked(trie)
    /\ is_built' = TRUE

Next == \E w \in Writers :
    \/ \E op \in Changes : Begin(w, op)
    \/ DoAdd(w) \/ DoClear(w) \/ DoBuild(w)

Spec == Init /\ [][Next]_vars

\* What the engine builds on: the keywords and whether they are searched.
Keywords ==
    Words \cup (UNION {ToSet(words) : words \in WordLists})
          \cup (UNION {ToSet(Parsed(doc).keywords) : doc \in Documents})

Promise == INSTANCE Matcher WITH
    patterns <- Dictionary, searchable <- is_built, Patterns <- Keywords
-----------------------------------------------------------------------------
(***************************************************************************)
(* Properties.                                                             *)
(***************************************************************************)
\* The links stay inside the trie and lead to shallower nodes, so that every
\* walk along them ends; with the prefixes of a node its ancestors are there.
TypeOK ==
    /\ Root \in trie.nodes
    /\ \A n \in trie.nodes : Prefixes(n) \subseteq trie.nodes
    /\ DOMAIN trie.patterns = trie.nodes
    /\ \A links \in {trie.fail_link, trie.output_link} :
          /\ DOMAIN links = trie.nodes
          /\ \A n \in trie.nodes :
                links[n] \in trie.nodes /\ (n # Root => Len(links[n]) < Len(n))
    /\ is_built \in BOOLEAN /\ begun \in 0..MaxCalls
    /\ DOMAIN doing = Writers /\ alone \subseteq Writers

\* A search finds every occurrence of every keyword, overlapping and nested
\* ones too, and nothing else; also after keywords were added to a trie that
\* was built before.  The match that is reported, the first one, is the longest
\* of the keywords that end first.  contains_any, which looks at the first output
\* link only, says in every state whether a search finds something.
SearchExact ==
    \A text \in Texts :
        LET found == search(text)
        IN  /\ ToSet(found) = Promise!Found(text)
            /\ found # <<>> => Promise!IsFirst(found[1], ToSet(found))
            /\ contains_any(text) <=> found # <<>>

\* Every call on the trie is one on the dictionary that Matcher promises, so that
\* what Shield shows of the analyses holds of them with this matcher.
ImplementsMatcher == Promise!Spec

\* Whatever the order of the writers' calls was: when none is under way, the
\* matcher is searchable, or has no keyword.
QuiescentSearchable ==
    (\A w \in Writers : doing[w].calls = <<>>) => is_built \/ Dictionary = {}

\* A dictionary as a file.
WrittenList(words) ==
    <<String(<<"k">>), Mark(":"), Mark("[")>>
    \o FlattenSeq([i \in 1..Len(words) |->
          (IF i = 1 THEN <<>> ELSE <<Mark(",")>>) \o <<String(words[i])>>])
    \o <<Mark("]")>>

Written(lists) ==
    <<Mark("{")>>
    \o FlattenSeq([i \in 1..Len(lists) |->
          (IF i = 1 THEN <<>> ELSE <<Mark(",")>>) \o WrittenList(lists[i])])
    \o <<Mark("}")>>

\* A well-formed file is loaded whole and replaces what was there, unless
\* another writer's change overlaps with the load.
LoadedWhole ==
    \A w \in alone, first, second \in WordLists :
        doing[w].calls = <<>> /\ doing[w].op = Load(Written(<<first, second>>)) =>
            is_built /\ Dictionary = ToSet(first \o second) \ {<<>>}
=============================================================================
