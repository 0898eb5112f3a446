--------------------------- MODULE VisualAnalysis ---------------------------
(***************************************************************************)
(* The visual detectors of KhShield (src/src/shield_core/visual): the skin *)
(* ratio and mask, the connected components of a mask and the exposure     *)
(* they make.  A pixel is <<x, y>>; a frame is the set of its pixels that  *)
(* have the colour of skin, a test of one pixel that is left out.          *)
(***************************************************************************)
EXTENDS Integers, Sequences, SequencesExt, FiniteSetsExt

\* calculate_skin_ratio, as the count the ratio is made of; a frame of fewer
\* than three channels has no colours.
SkinCount(skin, channels) == IF channels < 3 THEN 0 ELSE Cardinality(skin)

\* generate_skin_mask.
SkinMask(skin, channels) == IF channels < 3 THEN {} ELSE skin

Neighbours(p) ==
    {q \in ((p[1] - 1)..(p[1] + 1)) \X ((p[2] - 1)..(p[2] + 1)) : q # p}

TurnMarkingLate(mask, r) ==  \* fault: marked when it leaves the queue
    IF r.queue = <<>> THEN r
    ELSE LET marked == r.visited \cup {Head(r.queue)}
             new == (Neighbours(Head(r.queue)) \cap mask) \ marked
         IN  [queue |-> Tail(r.queue) \o SetToSeq(new), visited |-> marked,
              taken |-> Append(r.taken, Head(r.queue))]

\* A pixel is marked when it enters the queue and counted when it leaves.
Turn(mask, r) ==
    IF r.queue = <<>> THEN r
    ELSE LET new == (Neighbours(Head(r.queue)) \cap mask) \ r.visited
         IN  [queue |-> Tail(r.queue) \o SetToSeq(new), visited |-> r.visited \cup new,
              taken |-> Append(r.taken, Head(r.queue))]

\* The breadth-first search from p: each pixel enters the queue once, so that as
\* many turns as there are pixels empty it.
Flood(mask, p, visited) ==
    LET turn[n \in 0..Cardinality(mask)] ==
            IF n = 0 THEN [queue |-> <<p>>, visited |-> visited \cup {p}, taken |-> <<>>]
            ELSE Turn(mask, turn[n - 1])
    IN  turn[Cardinality(mask)]

Component(pixels, pixel_count) ==
    LET xs == {p[1] : p \in pixels}
        ys == {p[2] : p \in pixels}
        width  == Max(xs) - Min(xs) + 1
        height == Max(ys) - Min(ys) + 1
    IN  [bbox |-> [x |-> Min(xs), y |-> Min(ys), width |-> width, height |-> height,
                   area |-> width * height],
         pixel_count |-> pixel_count]

\* The i-th pixel of the scan.
Raster(i, width) == <<(i - 1) % width, (i - 1) \div width>>

\* A pixel of the scan that is set and not visited starts a component, which is kept
\* if it is large enough.
Scan(mask, min_pixel_area, p, r) ==
    IF p \notin mask \ r.visited THEN r
    ELSE LET f == Flood(mask, p, r.visited)
         IN  [visited |-> f.visited,
              components |-> r.components \o
                  (IF Len(f.taken) < min_pixel_area THEN <<>>
                   ELSE <<Component(ToSet(f.taken), Len(f.taken))>>)]

FindComponents(mask, width, height, min_pixel_area) ==
    LET scanned[i \in 0..(width * height)] ==
            IF i = 0 THEN [visited |-> {}, components |-> <<>>]
            ELSE Scan(mask, min_pixel_area, Raster(i, width), scanned[i - 1])
    IN  scanned[width * height].components

\* evaluate_exposure_ratio, as the count the ratio is made of.
Exposed(components, total_frame_area) ==
    LET sum[i \in 0..Len(components)] ==
            IF i = 0 THEN 0
            ELSE sum[i - 1] + (IF components[i].pixel_count > total_frame_area \div 100
                               THEN components[i].pixel_count ELSE 0)
    IN  sum[Len(components)]

(***************************************************************************)
(* What the components of a mask are: its connected classes, in the order  *)
(* in which a scan meets them.  A set of pixels is closed if it has the    *)
(* neighbours of its pixels, and a class is a smallest such set.           *)
(***************************************************************************)
Closed(mask) == {c \in SUBSET mask : \A p \in c : Neighbours(p) \cap mask \subseteq c}

Classes(mask) ==
    {c \in Closed(mask) \ {{}} : \A d \in Closed(mask) \ {{}} : d \subseteq c => d = c}

Before(p, q) == p[2] < q[2] \/ (p[2] = q[2] /\ p[1] < q[1])

AreComponents(components, mask, min_pixel_area) ==
    LET kept == {class \in Classes(mask) : Cardinality(class) >= min_pixel_area}
    IN  \E order \in [1..Cardinality(kept) -> kept] :
           /\ \A i, j \in DOMAIN order :
                 i < j => \E p \in order[i] : \A q \in order[j] : Before(p, q)
           /\ components =
                 [i \in DOMAIN order |-> Component(order[i], Cardinality(order[i]))]
=============================================================================
