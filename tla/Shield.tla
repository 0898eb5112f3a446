------------------------------- MODULE Shield -------------------------------
(***************************************************************************)
(* ShieldEngine (src/src/shield_core/shield_engine.cpp): the analyses of a *)
(* text, an image and a recording, between changes of the dictionary, the  *)
(* semantic model and the preset.  The matcher is the one of Matcher, with *)
(* a lock of its own: another thread may change the dictionary between two *)
(* searches of one analysis.  Model and preset have no lock; they change   *)
(* between analyses only, as a caller has to see to.                       *)
(***************************************************************************)
EXTENDS TextAnalysis, AudioAnalysis, VisualAnalysis

CONSTANTS
    Keywords,     \* given to add_keyword
    Lists,        \* the keywords of the dictionary files
    ModelFiles,
    Texts,
    Images,       \* [kind, skin, channels]
    Recordings,   \* [kind, size, rate, invalid]
    Masks,        \* [kind, skin, channels, min_pixel_area]
    Width, Height,
    MaxChanges    \* bound: changes of the dictionary and the model

\* What is given is made of characters, counts are numbers, and a keyword is not
\* the name of what the semantic model reports.  An image without pixels, which
\* is safe at once, is left out.
ASSUME ShieldAssumption ==
    /\ Keywords \subseteq Seq(Characters) /\ Lists \subseteq Seq(Seq(Characters))
    /\ Texts \subseteq Seq(Characters) /\ "SEMANTIC_RISK" \notin Characters
    /\ \A f \in ModelFiles : IsFile(f)
    /\ Width \in Nat \ {0} /\ Height \in Nat \ {0}
    /\ \A image \in Images : image.kind = "image" /\ image.channels \in Nat
    /\ \A mask \in Masks :
          /\ mask.kind = "mask" /\ mask.channels \in Nat /\ mask.min_pixel_area \in Nat
          /\ mask.skin \subseteq (0..(Width - 1)) \X (0..(Height - 1))
    /\ \A pcm \in Recordings :
          pcm.kind = "audio" /\ pcm.size \in Nat /\ pcm.rate \in Nat

VARIABLES
    patterns, searchable,  \* text_matcher_
    changes,   \* the matcher calls left of the change under way
    begun,     \* changes so far
    model,     \* sam_engine_
    file,      \* history: the last model file tried
    preset,
    pc,        \* "idle", "whole", "tokens", "sam", "done"
    input,     \* what is analysed
    next,      \* the token searched next
    report,
    components,
    offered,   \* history: the patterns held since the analysis began
    disturbed  \* history: the dictionary has changed since then

ruleVars  == <<patterns, searchable, changes, begun>>
stateVars == <<model, file, preset>>
workVars  == <<pc, input, next, report, components>>
vars == <<ruleVars, stateVars, workVars, offered, disturbed>>

Rules == INSTANCE Matcher WITH Patterns <- Keywords

None  == [kind |-> "none"]
Clean == [is_safe |-> TRUE, violation_type |-> "NONE", text |-> FALSE,
          matched_pattern |-> <<>>, visual |-> FALSE, audio |-> FALSE,
          corrupted |-> FALSE, bpm |-> 0]

Init ==
    /\ Rules!Init
    /\ changes = <<>> /\ begun = 0
    /\ model = NoModel /\ file = None /\ preset = "STRICT"
    /\ pc = "idle" /\ input = None /\ next = 1
    /\ report = Clean /\ components = <<>>
    /\ offered = {} /\ disturbed = FALSE
-----------------------------------------------------------------------------
(***************************************************************************)
(* Changes.                                                                *)
(***************************************************************************)
Adds(words) == [i \in DOMAIN words |-> [call |-> "add", word |-> words[i]]]
Calls(name) == <<[call |-> name]>>

Change(calls) ==
    /\ changes = <<>> /\ begun < MaxChanges
    /\ changes' = calls
    /\ begun' = begun + 1
    /\ UNCHANGED <<patterns, searchable, stateVars, workVars, offered, disturbed>>

add_keyword(word) == Change(Adds(<<word>>) \o Calls("build"))

add_keywords(words) == words # <<>> /\ Change(Adds(words) \o Calls("build"))

\* A file that is no object only clears.
load_profanity_dictionary(words) ==
    \/ Change(Calls("clear") \o Adds(words) \o Calls("build"))
    \/ words = <<>> /\ Change(Calls("clear"))

ChangeStep ==
    /\ changes # <<>>
    /\ LET c == Head(changes)
       IN  \/ c.call = "add" /\ Rules!Add(c.word)
           \/ c.call = "clear" /\ Rules!Clear
           \/ c.call = "build" /\ Rules!Build
    /\ changes' = Tail(changes)
    /\ offered' = offered \cup patterns'
    /\ disturbed' = TRUE
    /\ UNCHANGED <<begun, stateVars, workVars>>

load_model(f) ==
    /\ pc = "idle" /\ begun < MaxChanges
    /\ model' = Loaded(model, f) /\ file' = f
    /\ begun' = begun + 1
    /\ UNCHANGED <<patterns, searchable, changes, preset, workVars, offered, disturbed>>

\* Bound: what does not read the dictionary or the model is explored without them.
Unread == begun = 0

set_preset(p) ==
    /\ pc = "idle" /\ Unread
    /\ preset' = p
    /\ UNCHANGED <<ruleVars, model, file, workVars, offered, disturbed>>
-----------------------------------------------------------------------------
(***************************************************************************)
(* analyze_text: the whole text, its tokens, the semantic model.           *)
(***************************************************************************)
Start(what, at, answer) ==
    /\ pc = "idle"
    /\ input' = what /\ pc' = at /\ report' = answer /\ next' = 1
    /\ offered' = patterns /\ disturbed' = FALSE
    /\ UNCHANGED <<ruleVars, stateVars>>

Goto(at, answer) ==
    /\ pc' = at /\ report' = answer
    /\ UNCHANGED <<ruleVars, stateVars, input, components, offered, disturbed>>

analyze_text(text) ==
    /\ Start([kind |-> "text", text |-> text],
             IF text = <<>> THEN "done" ELSE "whole", Clean)
    /\ UNCHANGED components

Text == Normalised(input.text)

Exact(m) == [Clean EXCEPT !.is_safe = FALSE, !.violation_type = "PROFANITY_EXACT",
                          !.text = TRUE, !.matched_pattern = m.pattern]

\* A search that finds something decides; another goes on.
Search(text, otherwise) ==
    LET found == Rules!Found(text)
    IN  \/ \E m \in found : Rules!IsFirst(m, found) /\ Goto("done", Exact(m))
        \/ found = {} /\ Goto(otherwise, report)

SearchRaw ==  \* fault: the text is not normalised
    pc = "whole" /\ Search(input.text, "tokens") /\ UNCHANGED next

SearchWhole == pc = "whole" /\ Search(Text, "tokens") /\ UNCHANGED next

SearchToken ==
    LET tokens == Split(Text, Spaces)
    IN  /\ pc = "tokens"
        /\ \/ next <= Len(tokens) /\ Search(tokens[next], "tokens") /\ next' = next + 1
           \/ next > Len(tokens) /\ Goto("sam", report) /\ UNCHANGED next

JudgeByThreshold ==  \* fault: the decision is the threshold's, the type is not set
    LET e == Evaluated(model, Text)
    IN  /\ pc = "sam"
        /\ Goto("done",
             IF model.loaded /\ (e.half \/ e.category # "NONE")
             THEN [Clean EXCEPT !.is_safe = FALSE, !.matched_pattern = <<"SEMANTIC_RISK">>]
             ELSE Clean)
        /\ UNCHANGED next

Judge ==
    LET e == Evaluated(model, Text)
    IN  /\ pc = "sam"
        /\ Goto("done",
             IF model.loaded /\ e.half
             THEN [Clean EXCEPT !.is_safe = FALSE, !.violation_type = e.category,
                                !.text = TRUE, !.matched_pattern = <<"SEMANTIC_RISK">>]
             ELSE Clean)
        /\ UNCHANGED next
-----------------------------------------------------------------------------
(***************************************************************************)
(* The other analyses.                                                     *)
(***************************************************************************)
\* The OCR bridge extracts the empty text from every image, in which nothing is
\* looked for: an image is judged by its skin.
analyze_image_buffer(image) ==
    LET threshold == IF preset = "STRICT" THEN 25 ELSE 45
        exposed == 100 * SkinCount(image.skin, image.channels) >= threshold * Width * Height
    IN  /\ Unread
        /\ Start(image, "done",
             IF exposed
             THEN [Clean EXCEPT !.visual = TRUE, !.is_safe = FALSE,
                                !.violation_type = "EXPLICIT_BODY"]
             ELSE Clean)
        /\ UNCHANGED components

\* What is reported when the detectors found nothing wrong with the samples; the
\* confidence and the energy are any.
Flagged(type, bpm) ==
    [Clean EXCEPT !.audio = TRUE, !.is_safe = FALSE, !.violation_type = type, !.bpm = bpm]

AudioReport(tempo, confident, loud) ==
    LET music == tempo.fast /\ confident
    IN  CASE music /\ preset = "STRICT" -> Flagged("MUSIC_DETECTED", tempo.bpm)
          [] music /\ preset = "MODERATE" /\ loud -> Flagged("HIGH_ENERGY_AUDIO", tempo.bpm)
          [] OTHER -> [Clean EXCEPT !.bpm = tempo.bpm]

analyze_audio_buffer(pcm) ==
    /\ Unread
    /\ IF pcm.size = 0 \/ pcm.rate = 0 THEN Start(pcm, "done", Clean)
       ELSE IF IsCorrupted(pcm.size, pcm.invalid)
       THEN Start(pcm, "done", [Clean EXCEPT !.corrupted = TRUE, !.is_safe = FALSE,
                                             !.violation_type = "CORRUPTED_AUDIO"])
       ELSE \E tempo \in Tempos(pcm.size, pcm.rate), confident, loud \in BOOLEAN :
               Start(pcm, "done", AudioReport(tempo, confident, loud))
    /\ UNCHANGED components

\* The geometry analyser is a class of its own that the engine does not call.
find_connected_components(mask) ==
    /\ Unread
    /\ Start(mask, "done", Clean)
    /\ components' = FindComponents(SkinMask(mask.skin, mask.channels), Width, Height,
                                    mask.min_pixel_area)

\* The caller is done with the result.
Return ==
    /\ pc = "done"
    /\ pc' = "idle" /\ input' = None /\ next' = 1
    /\ report' = Clean /\ components' = <<>>
    /\ offered' = {} /\ disturbed' = FALSE
    /\ UNCHANGED <<ruleVars, stateVars>>
-----------------------------------------------------------------------------
Next ==
    \/ \E word \in Keywords : add_keyword(word)
    \/ \E words \in Lists : add_keywords(words) \/ load_profanity_dictionary(words)
    \/ ChangeStep
    \/ \E f \in ModelFiles : load_model(f)
    \/ \E p \in {"STRICT", "MODERATE"} : set_preset(p)
    \/ \E text \in Texts : analyze_text(text)
    \/ SearchWhole \/ SearchToken \/ Judge
    \/ \E image \in Images : analyze_image_buffer(image)
    \/ \E pcm \in Recordings : analyze_audio_buffer(pcm)
    \/ \E mask \in Masks : find_connected_components(mask)
    \/ Return

Spec == Init /\ [][Next]_vars
-----------------------------------------------------------------------------
(***************************************************************************)
(* Properties.                                                             *)
(***************************************************************************)
OccursIn(word, text) == \E i \in 1..Len(text) : Rules!Occurs(word, text, i)

\* An exact verdict names a pattern of some dictionary held during the analysis
\* that occurs in the normalised text.  While nothing changes, a text is safe from
\* an exact verdict only if no pattern occurs in it once normalised, or the matcher
\* was left between an add and its build.
VerdictExact ==
    pc = "done" /\ input.kind = "text" =>
        /\ report.violation_type = "PROFANITY_EXACT" =>
              /\ report.matched_pattern \in offered
              /\ OccursIn(report.matched_pattern, Text)
        /\ ~disturbed =>
              (report.violation_type = "PROFANITY_EXACT" <=>
                  searchable /\ \E word \in patterns : OccursIn(word, Text))

\* Unsafe is what some detector has flagged, and it has a type.  Two exceptions
\* of the code: the semantic model decides at one half and names the type by its
\* threshold, so a threshold above gives an unsafe report of type NONE; and an
\* image of fewer than three channels, all the daemon sends, is always safe.
ReportConsistent ==
    pc = "done" =>
        /\ ~report.is_safe <=>
              report.text \/ report.visual \/ report.audio \/ report.corrupted
        /\ report.violation_type = "NONE" <=>
              \/ report.is_safe
              \/ report.matched_pattern = <<"SEMANTIC_RISK">> /\ model.threshold > 0
                 /\ Evaluated(model, Text).category = "NONE"
        /\ input.kind = "image" /\ report.visual => input.channels >= 3

\* The weights that evaluate adds up by the model's dimension have that dimension,
\* whatever was loaded before; a loaded model is the last file's, whole, and a
\* file that failed leaves none.
ModelWhole ==
    /\ \A w \in DOMAIN model.vocabulary : Len(model.vocabulary[w]) = model.dim
    /\ DOMAIN model.vocabulary =
          IF model.loaded THEN WordsOf(file) ELSE {}

\* However short or coarse a recording is, its tempo is not slower than the limit
\* of 60 beats per minute, and it is only reported as music, or as loud music, with
\* a tempo of 110 or more and never when it is corrupted.
SlowestTempo ==
    pc = "done" /\ input.kind = "audio" =>
        /\ report.bpm # 0 => report.bpm >= 60
        /\ report.audio => report.bpm >= 110 /\ ~report.corrupted
        /\ report.corrupted => report.bpm = 0

\* The components found are the classes of connected pixels that are large enough,
\* in raster order, each with its bounding box and its pixels counted once.  Whatever
\* of them is left out of it, the exposure is no more than the skin.
ComponentsExact ==
    pc = "done" /\ input.kind = "mask" =>
        LET mask == SkinMask(input.skin, input.channels)
        IN  /\ AreComponents(components, mask, input.min_pixel_area)
            /\ Exposed(components, Width * Height) <= SkinCount(input.skin, input.channels)
=============================================================================
