------------------------ MODULE ObjectDetectorProofs -------------------------
(***************************************************************************)
(* The face detector's suppression is right for any boxes, scores, weight  *)
(* vectors and thresholds.  What carries it is the order of the pool: a    *)
(* window that was kept is at least as confident as all that come after it *)
(* in the pool, so that it may suppress any of them.                       *)
(***************************************************************************)
EXTENDS ObjectDetector, SequenceTheorems, TLAPS

-----------------------------------------------------------------------------
(* Rectangles *)

\* A rectangle that shares area with another one is not empty, nor is the other.
LEMMA SharedArea ==
  ASSUME NEW a \in Rectangles, NEW b \in Rectangles, Area(Intersect(a, b)) # 0
  PROVE  ~IsEmpty(a) /\ ~IsEmpty(b)
  <1> DEFINE inner == Intersect(a, b)
  <1>1. ~IsEmpty(inner)
    BY DEF Area, Width, Height
  <1>2. inner = [l |-> Greater(a.l, b.l), t |-> Greater(a.t, b.t),
                 r |-> Lower(a.r, b.r),   b |-> Lower(a.b, b.b)]
    BY DEF Intersect
  <1>3. /\ Greater(a.l, b.l) <= Lower(a.r, b.r)
        /\ Greater(a.t, b.t) <= Lower(a.b, b.b)
    BY <1>1, <1>2 DEF IsEmpty, Rectangles, Lower, Greater
  <1> QED
    BY <1>3 DEF IsEmpty, Rectangles, Lower, Greater

\* The overlap of two rectangles does not depend on which is named first, though
\* operator+ returns its left argument unchanged when the right one is empty.
LEMMA OverlapIsSymmetric ==
  ASSUME NEW a \in Rectangles, NEW b \in Rectangles, Overlap(a, b)
  PROVE  Overlap(b, a)
  <1>1. Intersect(a, b) = Intersect(b, a)
    BY DEF Intersect, Rectangles, Lower, Greater
  <1>2. Area(Intersect(a, b)) # 0
    BY DEF Overlap, BoxesOverlap
  <1>3. ~IsEmpty(a) /\ ~IsEmpty(b)
    BY <1>2, SharedArea
  <1>4. Around(a, b) = Around(b, a)
    BY <1>3 DEF Around, Rectangles, Lower, Greater
  <1> QED
    BY <1>1, <1>4, Zenon DEF Overlap, BoxesOverlap

-----------------------------------------------------------------------------
(* Types *)

\* No window of the pool is under its threshold, and the suppression loop starts
\* at the pool's beginning.
PoolInv ==
  /\ DetectorTypeOK
  /\ \A k \in DOMAIN dets_accum : dets_accum[k].confidence >= 0
  /\ stage # "suppress" => next = 1

\* What a weight vector reports is a detection over its threshold.
LEMMA CandidatesAreDetections ==
  ASSUME NEW i \in 1 .. NumWeights, NEW d \in Candidates(i)
  PROVE  d \in Detections /\ d.confidence >= 0
  <1>1. PICK s \in {v \in Scores : v >= Threshold[i]} : d.confidence = s - Threshold[i]
    BY DEF Candidates
  <1>2. s \in Int /\ Threshold[i] \in Int /\ s >= Threshold[i]
    BY DetectorAssumption
  <1>3. d.confidence \in Int /\ d.confidence >= 0
    BY <1>1, <1>2
  <1>4. d = [confidence |-> d.confidence, weight_index |-> i, rect |-> d.rect]
    BY DEF Candidates
  <1>5. d.rect \in Boxes
    BY DEF Candidates
  <1> QED
    BY <1>3, <1>4, <1>5 DEF Detections

\* So is all that scanner.detect returns, in the order of its scores.
LEMMA ScansAreSorted ==
  ASSUME NEW i \in 1 .. NumWeights, NEW hits \in Scans(i)
  PROVE  /\ hits \in Seq(Detections) /\ Descending(hits)
         /\ \A k \in DOMAIN hits : hits[k].confidence >= 0
  <1>1. PICK n \in 0 .. MaxHits : hits \in [1 .. n -> Candidates(i)]
    BY DEF Scans
  <1>2. n \in Nat /\ DOMAIN hits = 1 .. n
    BY <1>1, DetectorAssumption
  <1>3. \A k \in 1 .. n : hits[k] \in Detections /\ hits[k].confidence >= 0
    BY <1>1, CandidatesAreDetections
  <1>4. hits \in [1 .. n -> Detections]
    BY <1>1, <1>3
  <1>5. hits \in Seq(Detections)
    BY <1>2, <1>4, IsASeq
  <1> QED
    BY <1>2, <1>3, <1>5 DEF Scans

\* Sorting keeps the windows and only changes their order.
LEMMA SortingKeepsWindows ==
  ASSUME NEW s \in Seq(Detections), NEW t \in Sorted(s)
  PROVE  /\ t \in Seq(Detections) /\ Len(t) = Len(s) /\ Descending(t)
         /\ \A k \in DOMAIN t : \E j \in DOMAIN s : t[k] = s[j]
  <1>1. PICK p \in Bijection(DOMAIN s, DOMAIN s) : t = [k \in DOMAIN s |-> s[p[k]]]
    BY DEF Sorted
  <1>2. p \in [DOMAIN s -> DOMAIN s]
    BY DEF Bijection, Injection
  <1>3. /\ Len(s) \in Nat /\ DOMAIN s = 1 .. Len(s)
        /\ \A j \in DOMAIN s : s[j] \in Detections
    BY LenProperties, ElementOfSeq
  <1>4. t \in [1 .. Len(s) -> Detections]
    BY <1>1, <1>2, <1>3
  <1>5. t \in Seq(Detections) /\ Len(t) = Len(s)
    BY <1>3, <1>4, IsASeq, LenProperties
  <1> QED
    BY <1>1, <1>2, <1>5 DEF Sorted

\* A new detector has not found anything.
LEMMA PoolInit == DetectorInit => PoolInv
  <1> SUFFICES ASSUME DetectorInit PROVE PoolInv
    OBVIOUS
  <1>1. << >> \in Seq(Detections) /\ Len(<< >>) = 0 /\ DOMAIN << >> = {}
    BY EmptySeq
  <1> QED
    BY <1>1, DetectorAssumption DEF DetectorInit, PoolInv, DetectorTypeOK

\* Scanning, sorting and suppressing preserve the types.
LEMMA PoolStep == PoolInv /\ [DetectorNext]_detectorVars => PoolInv'
  <1> SUFFICES ASSUME PoolInv, [DetectorNext]_detectorVars PROVE PoolInv'
    OBVIOUS
  <1> USE DEF PoolInv, DetectorTypeOK
  <1>a. /\ << >> \in Seq(Detections) /\ Len(<< >>) = 0 /\ DOMAIN << >> = {}
        /\ NumWeights \in Nat \ {0}
    BY EmptySeq, DetectorAssumption
  <1>b. /\ Len(dets_accum) \in Nat /\ DOMAIN dets_accum = 1 .. Len(dets_accum)
        /\ Len(final_dets) \in Nat /\ DOMAIN final_dets = 1 .. Len(final_dets)
    BY LenProperties
  <1>1. CASE BeginDetection
    BY <1>1, <1>a DEF BeginDetection
  <1>2. CASE ScanWith
    <2>1. PICK hits \in Scans(weight) : dets_accum' = dets_accum \o hits
      BY <1>2 DEF ScanWith
    <2>2. /\ hits \in Seq(Detections)
          /\ \A k \in DOMAIN hits : hits[k].confidence >= 0
      BY <1>2, ScansAreSorted DEF ScanWith
    <2>3. /\ Len(hits) \in Nat /\ DOMAIN hits = 1 .. Len(hits)
          /\ dets_accum' \in Seq(Detections)
          /\ Len(dets_accum') = Len(dets_accum) + Len(hits)
          /\ DOMAIN dets_accum' = 1 .. Len(dets_accum')
          /\ \A k \in 1 .. Len(dets_accum) : dets_accum'[k] = dets_accum[k]
          /\ \A k \in Len(dets_accum) + 1 .. Len(dets_accum) + Len(hits) :
               dets_accum'[k] = hits[k - Len(dets_accum)]
      BY <2>1, <2>2, ConcatProperties, LenProperties
    <2>4. \A k \in DOMAIN dets_accum' : dets_accum'[k].confidence >= 0
      <3> SUFFICES ASSUME NEW k \in DOMAIN dets_accum'
                   PROVE  dets_accum'[k].confidence >= 0
        OBVIOUS
      <3>1. CASE k \in 1 .. Len(dets_accum)
        BY <3>1, <2>3, <1>b
      <3>2. CASE k \in Len(dets_accum) + 1 .. Len(dets_accum) + Len(hits)
        <4>1. k - Len(dets_accum) \in DOMAIN hits
          BY <3>2, <2>3, <1>b
        <4> QED
          BY <3>2, <4>1, <2>2, <2>3
      <3> QED
        BY <3>1, <3>2, <2>3, <1>b
    <2> QED
      BY <1>2, <1>a, <1>b, <2>3, <2>4 DEF ScanWith
  <1>3. CASE SortDetections
    <2>1. /\ dets_accum' \in Seq(Detections) /\ Len(dets_accum') = Len(dets_accum)
          /\ \A k \in DOMAIN dets_accum' : dets_accum'[k].confidence >= 0
      BY <1>3, SortingKeepsWindows DEF SortDetections
    <2> QED
      BY <1>3, <1>b, <2>1 DEF SortDetections
  <1>4. CASE Suppress
    <2>1. dets_accum[next] \in Detections /\ dets_accum[next].confidence >= 0
      BY <1>4, <1>b, ElementOfSeq DEF Suppress
    <2>2. /\ final_dets' \in Seq(Detections)
          /\ \A k \in DOMAIN final_dets' : final_dets'[k].confidence >= 0
      BY <1>4, <1>b, <2>1, AppendProperties DEF Suppress
    <2> QED
      BY <1>4, <1>b, <2>2 DEF Suppress
  <1>5. CASE ReturnDetections
    BY <1>5, <1>a DEF ReturnDetections
  <1>6. CASE UNCHANGED detectorVars
    BY <1>6 DEF detectorVars
  <1> QED
    BY <1>1, <1>2, <1>3, <1>4, <1>5, <1>6 DEF DetectorNext, DetectionStep

\* In every reachable state the detector's variables have their types, and what it
\* returns is over the threshold of the weight vector that found it.
THEOREM DetectionsTyped == DetectorSpec => []DetectorTypeOK
  <1>1. PoolInv => DetectorTypeOK
    BY DEF PoolInv
  <1> QED
    BY <1>1, PoolInit, PoolStep, PTL DEF DetectorSpec

-----------------------------------------------------------------------------
(* Suppression *)

\* Before the loop nothing is kept, and the pool of a single weight vector is in
\* order although it will not be sorted.
ScanInv ==
  stage = "scan" =>
    /\ final_dets = << >>
    /\ weight = 1 => dets_accum = << >>
    /\ NumWeights = 1 => Descending(dets_accum)

\* In the loop, what was kept is at least as confident as what is still to come.
OrderInv ==
  stage = "suppress" =>
    /\ Descending(dets_accum)
    /\ \A k \in DOMAIN final_dets : \A c \in next .. Len(dets_accum) :
         final_dets[k].confidence >= dets_accum[c].confidence

SuppressionInv ==
  /\ PoolInv /\ ScanInv /\ OrderInv
  /\ NoFaceTwice /\ NoFaceLost /\ BestFirst

\* It holds of a new detector.
LEMMA SuppressionInit == DetectorInit => SuppressionInv
  <1> SUFFICES ASSUME DetectorInit PROVE SuppressionInv
    OBVIOUS
  <1>1. stage = "idle" /\ final_dets = << >> /\ DOMAIN << >> = {}
    BY EmptySeq DEF DetectorInit
  <1> QED
    BY <1>1, PoolInit DEF SuppressionInv, ScanInv, OrderInv, NoFaceTwice, NoFaceLost,
                          BestFirst, Descending

\* A window that overlaps one that was kept is covered by it.
LEMMA SuppressedWindow ==
  ASSUME SuppressionInv, Suppress, OverlapsAnyBox(final_dets, dets_accum[next].rect)
  PROVE  OrderInv' /\ NoFaceTwice' /\ NoFaceLost' /\ BestFirst'
  <1> USE DEF SuppressionInv
  <1>1. /\ stage = "suppress" /\ stage' = "suppress" /\ next' = next + 1
        /\ final_dets' = final_dets /\ dets_accum' = dets_accum
        /\ next \in 1 .. Len(dets_accum) /\ Len(dets_accum) \in Nat
    BY LenProperties DEF Suppress, PoolInv, DetectorTypeOK
  <1>2. PICK k \in DOMAIN final_dets :
          Overlap(final_dets[k].rect, dets_accum[next].rect)
    BY DEF OverlapsAnyBox
  <1>3. final_dets[k].confidence >= dets_accum[next].confidence
    BY <1>1, <1>2 DEF OrderInv
  <1>4. OrderInv'
    <2>1. next + 1 .. Len(dets_accum) \subseteq next .. Len(dets_accum)
      BY <1>1
    <2> QED
      BY <1>1, <2>1 DEF OrderInv, Descending
  <1>5. NoFaceLost'
    <2> SUFFICES ASSUME NEW c \in 1 .. next
                 PROVE  \E j \in DOMAIN final_dets : Covers(final_dets[j], dets_accum[c])
      BY <1>1 DEF NoFaceLost
    <2>1. CASE c = next
      BY <2>1, <1>2, <1>3 DEF Covers
    <2>2. CASE c \in 1 .. next - 1
      BY <2>2, <1>1 DEF NoFaceLost
    <2>3. c = next \/ c \in 1 .. next - 1
      BY <1>1
    <2> QED
      BY <2>1, <2>2, <2>3
  <1> QED
    BY <1>1, <1>4, <1>5 DEF NoFaceTwice, BestFirst, Descending

\* A window that overlaps none is kept, behind all that are more confident.
LEMMA KeptWindow ==
  ASSUME SuppressionInv, Suppress, ~OverlapsAnyBox(final_dets, dets_accum[next].rect)
  PROVE  OrderInv' /\ NoFaceTwice' /\ NoFaceLost' /\ BestFirst'
  <1> USE DEF SuppressionInv
  <1> DEFINE d == dets_accum[next]
             n == Len(final_dets)
  <1>1. /\ stage = "suppress" /\ stage' = "suppress" /\ next' = next + 1
        /\ final_dets' = Append(final_dets, d) /\ dets_accum' = dets_accum
        /\ next \in 1 .. Len(dets_accum) /\ Len(dets_accum) \in Nat
        /\ DOMAIN dets_accum = 1 .. Len(dets_accum)
    BY LenProperties DEF Suppress, PoolInv, DetectorTypeOK
  <1>2. /\ n \in Nat /\ DOMAIN final_dets = 1 .. n
        /\ d \in Detections
        /\ \A k \in 1 .. n : final_dets[k] \in Detections
        /\ \A c \in 1 .. Len(dets_accum) : dets_accum[c] \in Detections
    BY <1>1, LenProperties, ElementOfSeq DEF PoolInv, DetectorTypeOK
  <1>3. /\ DOMAIN final_dets' = 1 .. n + 1
        /\ final_dets'[n + 1] = d
        /\ \A k \in 1 .. n : final_dets'[k] = final_dets[k]
    BY <1>1, <1>2, AppendProperties, LenProperties DEF PoolInv, DetectorTypeOK
  <1>4. \A k \in 1 .. n : final_dets[k].confidence >= d.confidence
    BY <1>1, <1>2 DEF OrderInv
  <1> HIDE DEF d, n
  <1>5. \A e \in Detections : e.rect \in Rectangles /\ e.confidence \in Int
    BY DetectorAssumption DEF Detections
  <1>6. OrderInv'
    <2> SUFFICES ASSUME NEW k \in 1 .. n + 1, NEW c \in next + 1 .. Len(dets_accum)
                 PROVE  final_dets'[k].confidence >= dets_accum[c].confidence
      BY <1>1, <1>3 DEF OrderInv, Descending
    <2>1. CASE k = n + 1
      <3>1. d.confidence >= dets_accum[c].confidence
        BY <1>1 DEF OrderInv, Descending, d
      <3> QED
        BY <2>1, <3>1, <1>3
    <2>2. CASE k \in 1 .. n
      BY <2>2, <1>1, <1>2, <1>3 DEF OrderInv
    <2> QED
      BY <1>2, <2>1, <2>2
  <1>7. NoFaceTwice'
    <2>1. \A k \in 1 .. n : ~Overlap(final_dets[k].rect, d.rect)
      BY <1>2 DEF OverlapsAnyBox, d
    <2>2. \A k \in 1 .. n : ~Overlap(d.rect, final_dets[k].rect)
      BY <2>1, <1>2, <1>5, OverlapIsSymmetric
    <2> SUFFICES ASSUME NEW j \in 1 .. n + 1, NEW k \in 1 .. n + 1, j # k
                 PROVE  ~Overlap(final_dets'[j].rect, final_dets'[k].rect)
      BY <1>3 DEF NoFaceTwice
    <2>3. CASE j = n + 1 /\ k \in 1 .. n
      <3>1. final_dets'[j] = d /\ final_dets'[k] = final_dets[k]
        BY <2>3, <1>3
      <3> QED
        BY <2>3, <3>1, <2>2
    <2>4. CASE k = n + 1 /\ j \in 1 .. n
      <3>1. final_dets'[k] = d /\ final_dets'[j] = final_dets[j]
        BY <2>4, <1>3
      <3> QED
        BY <2>4, <3>1, <2>1
    <2>5. CASE j \in 1 .. n /\ k \in 1 .. n
      BY <2>5, <1>2, <1>3 DEF NoFaceTwice
    <2>6. \/ j = n + 1 /\ k \in 1 .. n
          \/ k = n + 1 /\ j \in 1 .. n
          \/ j \in 1 .. n /\ k \in 1 .. n
      BY <1>2
    <2> QED
      BY <2>3, <2>4, <2>5, <2>6
  <1>8. NoFaceLost'
    <2> SUFFICES ASSUME NEW c \in 1 .. next
                 PROVE  \E j \in 1 .. n + 1 : Covers(final_dets'[j], dets_accum[c])
      <3>1. 1 .. next' - 1 = 1 .. next
        BY <1>1
      <3>2. DOMAIN final_dets' = 1 .. n + 1
        BY <1>3
      <3> QED
        BY <1>1, <1>2, <3>1, <3>2 DEF NoFaceLost
    <2>1. CASE c = next
      <3>1. n + 1 \in 1 .. n + 1 /\ Covers(final_dets'[n + 1], dets_accum[c])
        BY <2>1, <1>2, <1>3 DEF d, Covers
      <3> QED
        BY <3>1
    <2>2. CASE c \in 1 .. next - 1
      <3>1. PICK j \in 1 .. n : Covers(final_dets[j], dets_accum[c])
        BY <2>2, <1>1, <1>2 DEF NoFaceLost
      <3>2. j \in 1 .. n + 1 /\ final_dets'[j] = final_dets[j]
        BY <1>2, <1>3
      <3> QED
        BY <3>1, <3>2
    <2>3. c = next \/ c \in 1 .. next - 1
      BY <1>1
    <2> QED
      BY <2>1, <2>2, <2>3
  <1>9. BestFirst'
    <2> SUFFICES ASSUME NEW j \in 1 .. n + 1, NEW k \in 1 .. n + 1, j < k
                 PROVE  final_dets'[j].confidence >= final_dets'[k].confidence
      BY <1>3 DEF BestFirst, Descending
    <2>1. CASE k = n + 1
      BY <2>1, <1>2, <1>3, <1>4
    <2>2. CASE k \in 1 .. n
      BY <2>2, <1>2, <1>3 DEF BestFirst, Descending
    <2>3. k = n + 1 \/ k \in 1 .. n
      BY <1>2
    <2> QED
      BY <2>1, <2>2, <2>3
  <1> QED
    BY <1>6, <1>7, <1>8, <1>9

\* The other steps keep or clear what was found.
LEMMA SuppressionStep == SuppressionInv /\ [DetectorNext]_detectorVars => SuppressionInv'
  <1> SUFFICES ASSUME SuppressionInv, [DetectorNext]_detectorVars PROVE SuppressionInv'
    OBVIOUS
  <1>a. PoolInv'
    BY PoolStep DEF SuppressionInv
  <1>b. DOMAIN << >> = {} /\ NumWeights \in Nat \ {0}
    BY EmptySeq, DetectorAssumption
  <1> USE DEF SuppressionInv
  <1>1. CASE BeginDetection
    BY <1>1, <1>a, <1>b DEF BeginDetection, ScanInv, OrderInv, NoFaceTwice, NoFaceLost,
                            BestFirst, Descending
  <1>2. CASE ScanWith
    <2>1. weight \in 1 .. NumWeights /\ weight' = weight + 1
      BY <1>2 DEF ScanWith, PoolInv, DetectorTypeOK
    <2>2. NumWeights = 1 => Descending(dets_accum')
      <3> SUFFICES ASSUME NumWeights = 1 PROVE Descending(dets_accum')
        OBVIOUS
      <3>1. PICK hits \in Scans(weight) : dets_accum' = dets_accum \o hits
        BY <1>2 DEF ScanWith
      <3>2. dets_accum = << >>
        BY <1>2, <2>1 DEF ScanWith, ScanInv
      <3>3. hits \in Seq(Detections) /\ Descending(hits)
        BY <2>1, ScansAreSorted
      <3>4. dets_accum' = hits
        BY <3>1, <3>2, <3>3, ConcatEmptySeq
      <3> QED
        BY <3>3, <3>4
    <2>3. ScanInv'
      BY <1>2, <1>b, <2>1, <2>2 DEF ScanWith, ScanInv
    <2> QED
      BY <1>2, <1>a, <2>3 DEF ScanWith, OrderInv, NoFaceTwice, NoFaceLost, BestFirst,
                              Descending
  <1>3. CASE SortDetections
    <2>1. Descending(dets_accum')
      <3>1. CASE NumWeights > 1
        <4>1. dets_accum' \in Sorted(dets_accum) /\ dets_accum \in Seq(Detections)
          BY <1>3, <3>1 DEF SortDetections, PoolInv, DetectorTypeOK
        <4> QED
          BY <4>1, SortingKeepsWindows
      <3>2. CASE NumWeights = 1
        BY <1>3, <3>2 DEF SortDetections, ScanInv
      <3> QED
        BY <3>1, <3>2, <1>b
    <2>2. final_dets' = << >> /\ stage' = "suppress" /\ next' = 1
      BY <1>3 DEF SortDetections, ScanInv
    <2> QED
      BY <1>a, <1>b, <2>1, <2>2 DEF ScanInv, OrderInv, NoFaceTwice, NoFaceLost,
                                    BestFirst, Descending
  <1>4. CASE Suppress
    <2>1. ScanInv'
      BY <1>4 DEF Suppress, ScanInv
    <2> QED
      BY <1>4, <1>a, <2>1, SuppressedWindow, KeptWindow
  <1>5. CASE ReturnDetections
    BY <1>5, <1>a DEF ReturnDetections, ScanInv, OrderInv, NoFaceTwice, NoFaceLost,
                      BestFirst, Descending
  <1>6. CASE UNCHANGED detectorVars
    BY <1>6, <1>a DEF detectorVars, ScanInv, OrderInv, NoFaceTwice, NoFaceLost,
                      BestFirst, Descending
  <1> QED
    BY <1>1, <1>2, <1>3, <1>4, <1>5, <1>6 DEF DetectorNext, DetectionStep

\* The whole invariant, for any boxes, scores and thresholds.
THEOREM SuppressionHolds == DetectorSpec => []SuppressionInv
  BY SuppressionInit, SuppressionStep, PTL DEF DetectorSpec

\* No two of the boxes found overlap, whichever weight vectors found them.
THEOREM FacesAreDistinct == DetectorSpec => []NoFaceTwice
  <1>1. SuppressionInv => NoFaceTwice
    BY DEF SuppressionInv
  <1> QED
    BY <1>1, SuppressionHolds, PTL

\* A window is suppressed only for one that overlaps it and is as confident.
THEOREM FacesAreKept == DetectorSpec => []NoFaceLost
  <1>1. SuppressionInv => NoFaceLost
    BY DEF SuppressionInv
  <1> QED
    BY <1>1, SuppressionHolds, PTL

\* The boxes come in the order of their confidence.
THEOREM FacesAreRanked == DetectorSpec => []BestFirst
  <1>1. SuppressionInv => BestFirst
    BY DEF SuppressionInv
  <1> QED
    BY <1>1, SuppressionHolds, PTL
=============================================================================
