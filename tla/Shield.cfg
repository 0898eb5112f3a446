\* Two changes, of the dictionary or the model, the former interleaved with the
\* searches of an analysis; any recording with its lags; every mask of three by three pixels.
SPECIFICATION Spec
CONSTANTS
    Characters <- Letters
    ARABIZI_MULTI_MAP <- Multi
    ARABIZI_SINGLE_MAP <- Single
    Spaces = {" "}
    Puncts = {",", "'"}
    Keywords <- SomeKeywords
    Lists <- SomeLists
    ModelFiles <- SomeFiles
    Texts <- SomeTexts
    Images <- SomeImages
    Recordings <- SomeRecordings
    Masks <- AllMasks
    Width = 3
    Height = 3
    MaxChanges = 2
INVARIANTS VerdictExact ReportConsistent ModelWhole SlowestTempo ComponentsExact
