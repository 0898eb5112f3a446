\* Two writers whose calls interleave, every three changes; they stop when the
\* changes are done.
SPECIFICATION Spec
CONSTANTS
    w1 = w1  w2 = w2
    Characters = {"a", "b", "k"}
    Writers = {w1, w2}
    Words <- SomeWords
    WordLists <- SomeLists
    Documents <- SomeFiles
    Texts <- AllTexts
    MaxCalls = 3
SYMMETRY Symmetric
INVARIANTS TypeOK SearchExact QuiescentSearchable LoadedWhole
PROPERTIES ImplementsMatcher
CHECK_DEADLOCK FALSE
