--------------------------- MODULE ObjectDetector ----------------------------
(***************************************************************************)
(* dlib's frontal face detector, object_detector::operator(), as           *)
(* runFaceDetector calls it: each of its weight vectors scans the image,   *)
(* the windows over the threshold are pooled, sorted by confidence, and    *)
(* those that overlap a better one are suppressed.                         *)
(*                                                                         *)
(* What the filters answer depends on the image: any windows can be over   *)
(* the threshold, with any score.                                          *)
(***************************************************************************)
EXTENDS DlibRectangle, Sequences, Functions

CONSTANTS
  Boxes,         \* what the scanner maps windows to, in pixels of the image
  Scores,        \* bound: the filters' answers
  NumWeights,    \* w.size(); the frontal face detector has 5
  Threshold,     \* of each weight vector, its last component
  MaxHits,       \* bound: windows over the threshold, per weight vector
  MatchThresh, OverlapThresh   \* of the overlap tester, in percent

ASSUME DetectorAssumption ==
  /\ Boxes \subseteq Rectangles
  /\ Scores \subseteq Int
  /\ NumWeights \in Nat \ {0}
  /\ Threshold \in [1 .. NumWeights -> Int]
  /\ MaxHits \in Nat
  /\ MatchThresh \in 0 .. 100 /\ OverlapThresh \in 0 .. 100

VARIABLES
  stage,        \* of operator(): "idle", "scan", "suppress" or "done"
  weight,       \* the weight vector that scans next
  dets_accum,   \* the windows over the threshold so far
  next,         \* the one the suppression loop looks at next
  final_dets    \* the result

detectorVars == <<stage, weight, dets_accum, next, final_dets>>

\* The threshold is forgotten.
BadCandidates(i) ==
  [confidence   : {s - Threshold[i] : s \in Scores},
   weight_index : {i},
   rect         : Boxes]

\* A rect_detection of one weight vector.
Candidates(i) ==
  [confidence   : {s - Threshold[i] : s \in {v \in Scores : v >= Threshold[i]}},
   weight_index : {i},
   rect         : Boxes]

Detections == [confidence : Int, weight_index : 1 .. NumWeights, rect : Boxes]

Descending(s) ==
  \A j, k \in DOMAIN s : j < k => s[j].confidence >= s[k].confidence

\* What scanner.detect can return: sorted, windows of equal score in any order.
Scans(i) ==
  {s \in UNION {[1 .. n -> Candidates(i)] : n \in 0 .. MaxHits} : Descending(s)}

\* std::sort from the back with operator<, which compares confidences only.
Sorted(s) ==
  {t \in {[k \in DOMAIN s |-> s[p[k]]] : p \in Bijection(DOMAIN s, DOMAIN s)} :
     Descending(t)}

Overlap(a, b) == BoxesOverlap(a, b, MatchThresh, OverlapThresh)

OverlapsAnyBox(rects, rect) == \E k \in DOMAIN rects : Overlap(rects[k].rect, rect)

DetectorInit ==
  /\ stage = "idle" /\ weight = 1 /\ next = 1
  /\ dets_accum = << >> /\ final_dets = << >>

BeginDetection ==
  /\ stage \in {"idle", "done"}
  /\ stage' = "scan" /\ weight' = 1
  /\ dets_accum' = << >> /\ final_dets' = << >>
  /\ UNCHANGED next

ScanWith ==
  /\ stage = "scan" /\ weight <= NumWeights
  /\ \E hits \in Scans(weight) : dets_accum' = dets_accum \o hits
  /\ weight' = weight + 1
  /\ UNCHANGED <<stage, next, final_dets>>

\* The pool is not sorted.
BadSortDetections ==
  /\ stage = "scan" /\ weight > NumWeights
  /\ stage' = "suppress" /\ next' = 1
  /\ UNCHANGED <<weight, dets_accum, final_dets>>

\* One weight vector's windows were sorted by the scanner.
SortDetections ==
  /\ stage = "scan" /\ weight > NumWeights
  /\ IF NumWeights > 1 THEN dets_accum' \in Sorted(dets_accum)
                       ELSE UNCHANGED dets_accum
  /\ stage' = "suppress" /\ next' = 1
  /\ UNCHANGED <<weight, final_dets>>

\* Only the window kept last is compared.
BadSuppress ==
  /\ stage = "suppress" /\ next <= Len(dets_accum)
  /\ final_dets' =
       IF /\ final_dets # << >>
          /\ Overlap(final_dets[Len(final_dets)].rect, dets_accum[next].rect)
       THEN final_dets ELSE Append(final_dets, dets_accum[next])
  /\ next' = next + 1
  /\ UNCHANGED <<stage, weight, dets_accum>>

\* One candidate of the suppression loop.
Suppress ==
  /\ stage = "suppress" /\ next <= Len(dets_accum)
  /\ final_dets' = IF OverlapsAnyBox(final_dets, dets_accum[next].rect)
                   THEN final_dets ELSE Append(final_dets, dets_accum[next])
  /\ next' = next + 1
  /\ UNCHANGED <<stage, weight, dets_accum>>

ReturnDetections ==
  /\ stage = "suppress" /\ next > Len(dets_accum)
  /\ stage' = "done" /\ dets_accum' = << >> /\ next' = 1 /\ weight' = 1
  /\ UNCHANGED final_dets

DetectionStep == ScanWith \/ SortDetections \/ Suppress \/ ReturnDetections

DetectorNext == BeginDetection \/ DetectionStep

DetectorSpec == DetectorInit /\ [][DetectorNext]_detectorVars

-----------------------------------------------------------------------------
(* Properties *)

\* Every variable holds a value of its type; without adjust_threshold no
\* confidence, measured from the threshold of its own weight vector, is negative.
DetectorTypeOK ==
  /\ stage \in {"idle", "scan", "suppress", "done"}
  /\ weight \in 1 .. NumWeights + 1
  /\ dets_accum \in Seq(Detections) /\ final_dets \in Seq(Detections)
  /\ \A k \in DOMAIN final_dets : final_dets[k].confidence >= 0
  /\ next \in 1 .. Len(dets_accum) + 1

\* "The output detections will never contain any overlaps": no face is given to
\* the rectangle tracker twice, whichever weight vectors found it.
NoFaceTwice ==
  \A j, k \in DOMAIN final_dets :
    j # k => ~Overlap(final_dets[j].rect, final_dets[k].rect)

\* A window that was kept speaks for itself and for those it overlaps, if they are
\* not more confident.
Covers(kept, window) ==
  \/ kept = window
  \/ Overlap(kept.rect, window.rect) /\ kept.confidence >= window.confidence

\* No face is lost: a window is suppressed only by a kept one that overlaps it
\* and that is at least as confident.
NoFaceLost ==
  stage = "suppress" =>
    \A c \in 1 .. next - 1 : \E k \in DOMAIN final_dets :
      Covers(final_dets[k], dets_accum[c])

\* The best face comes first, and the others in the order of their confidence.
BestFirst == Descending(final_dets)
=============================================================================
