-------------------------- MODULE FaceFindingProofs --------------------------
(***************************************************************************)
(* The composition runs the face detector and the shape predictor as they  *)
(* are meant to be run, so that what is proved of each holds of both       *)
(* together; every box the detector returns is fitted, in its place; and   *)
(* every step of update() leaves less of it to do.                         *)
(***************************************************************************)
EXTENDS FaceFinding, ObjectDetectorProofs, ShapePredictorProofs

\* An instance: a rectangle and the leaves that were added to its shape.
Faces == [rect : Rectangles, shape : Seq([iter : Nat, tree : Nat, leaf : Nat])]

\* What TrackFaces stored, and what was made of it so far: the rectangle in hand is
\* that of the first face not yet fitted.
FittingInv ==
  /\ phase \in {"detect", "fit", "finished"}
  /\ faces \in Seq(Faces)
  /\ phase = "detect" => known = << >> /\ faces = << >> /\ fit = "idle"
  /\ phase # "detect" =>
       /\ known = [k \in DOMAIN final_dets |-> CvRect(final_dets[k].rect)]
       /\ Len(faces) <= Len(final_dets)
       /\ \A k \in DOMAIN faces : faces[k].rect = FaceRect(CvRect(final_dets[k].rect))
       /\ fit # "idle" =>
            /\ Len(faces) < Len(final_dets)
            /\ rect = FaceRect(CvRect(final_dets[Len(faces) + 1].rect))
  /\ phase = "finished" => Len(faces) = Len(final_dets) /\ fit = "idle"

FindingInv == PoolInv /\ PredictorInv /\ FittingInv

-----------------------------------------------------------------------------
(* The two parts *)

\* A step of update() is a step of the detector or none of it.
LEMMA DetectorRuns == [Next]_vars => [DetectorNext]_detectorVars
  <1> SUFFICES ASSUME [Next]_vars PROVE [DetectorNext]_detectorVars
    OBVIOUS
  <1>1. CASE StartDetector \/ RunDetector
    BY <1>1 DEF StartDetector, RunDetector, DetectorNext
  <1>2. CASE TrackFaces \/ StartFit \/ RunFit \/ PushInstance \/ FinishUpdate
    BY <1>2 DEF TrackFaces, StartFit, RunFit, PushInstance, FinishUpdate
  <1>3. CASE Finished \/ UNCHANGED vars
    BY <1>3 DEF Finished, vars
  <1> QED
    BY <1>1, <1>2, <1>3 DEF Next

\* The faces the tracker knows are the boxes found, one each.
LEMMA KnownFaces ==
  ASSUME FindingInv, phase # "detect"
  PROVE  /\ Len(final_dets) \in Nat /\ DOMAIN final_dets = 1 .. Len(final_dets)
         /\ Len(known) = Len(final_dets)
         /\ Len(faces) \in Nat /\ DOMAIN faces = 1 .. Len(faces)
         /\ \A k \in 1 .. Len(final_dets) :
              /\ final_dets[k].rect \in Boxes
              /\ known[k] = CvRect(final_dets[k].rect)
  <1> USE DEF FindingInv
  <1>1. final_dets \in Seq(Detections) /\ faces \in Seq(Faces)
    BY DEF PoolInv, DetectorTypeOK, FittingInv
  <1>2. /\ Len(final_dets) \in Nat /\ DOMAIN final_dets = 1 .. Len(final_dets)
        /\ Len(faces) \in Nat /\ DOMAIN faces = 1 .. Len(faces)
    BY <1>1, LenProperties
  <1>3. \A k \in 1 .. Len(final_dets) : final_dets[k].rect \in Boxes
    <2>1. \A k \in 1 .. Len(final_dets) : final_dets[k] \in Detections
      BY <1>1, ElementOfSeq
    <2> QED
      BY <2>1 DEF Detections
  <1>4. known = [k \in 1 .. Len(final_dets) |-> CvRect(final_dets[k].rect)]
    BY <1>2 DEF FittingInv
  <1>5. Len(known) = Len(final_dets)
    BY <1>2, <1>4
  <1> QED
    BY <1>2, <1>3, <1>4, <1>5

\* A step of update() is a step of the shape predictor or none of it: the rectangle
\* handed to it is one the detector found.
LEMMA PredictorRuns == FindingInv /\ [Next]_vars => [PredictorNext]_predictorVars
  <1> SUFFICES ASSUME FindingInv, [Next]_vars PROVE [PredictorNext]_predictorVars
    OBVIOUS
  <1>1. CASE StartFit
    <2> DEFINE k == Len(faces) + 1
               r == FaceRect(known[k])
    <2>1. BeginFit(r)
      BY <1>1 DEF StartFit
    <2>2. k \in 1 .. Len(final_dets)
      BY <1>1, KnownFaces DEF StartFit
    <2>3. final_dets[k].rect \in Boxes /\ known[k] = CvRect(final_dets[k].rect)
      BY <1>1, <2>2, KnownFaces DEF StartFit
    <2>4. r \in Rects
      BY <2>3, FindingAssumption
    <2> QED
      BY <2>1, <2>4 DEF PredictorNext
  <1>2. CASE RunFit \/ PushInstance
    BY <1>2 DEF RunFit, PushInstance, PredictorNext
  <1>3. CASE StartDetector \/ RunDetector \/ TrackFaces \/ FinishUpdate
    BY <1>3 DEF StartDetector, RunDetector, TrackFaces, FinishUpdate
  <1>4. CASE Finished \/ UNCHANGED vars
    BY <1>4 DEF Finished, vars
  <1> QED
    BY <1>1, <1>2, <1>3, <1>4 DEF Next

-----------------------------------------------------------------------------
(* The composition *)

\* Every step of update() preserves what was stored, found and fitted.
LEMMA FittingStep == FindingInv /\ [Next]_vars => FittingInv'
  <1> SUFFICES ASSUME FindingInv, [Next]_vars PROVE FittingInv'
    OBVIOUS
  <1> USE DEF FindingInv, FittingInv
  <1>1. CASE StartDetector
    BY <1>1 DEF StartDetector, predictorVars, findingVars
  <1>2. CASE RunDetector
    BY <1>2 DEF RunDetector, predictorVars, findingVars
  <1>3. CASE TrackFaces
    <2>1. Len(<< >>) = 0 /\ DOMAIN << >> = {} /\ Len(final_dets) \in Nat
      BY EmptySeq, LenProperties DEF PoolInv, DetectorTypeOK
    <2> QED
      BY <1>3, <2>1 DEF TrackFaces, detectorVars, predictorVars
  <1>4. CASE StartFit
    <2>1. Len(faces) + 1 \in 1 .. Len(final_dets)
      BY <1>4, KnownFaces DEF StartFit
    <2>2. rect' = FaceRect(CvRect(final_dets[Len(faces) + 1].rect))
      BY <1>4, <2>1, KnownFaces DEF StartFit, BeginFit
    <2> QED
      BY <1>4, <2>1, <2>2, KnownFaces DEF StartFit, detectorVars, findingVars
  <1>5. CASE RunFit
    <2>1. fit # "idle" /\ rect' = rect
      BY <1>5 DEF RunFit, FitStep, ExtractPixels, Descend, AddLeaf
    <2> QED
      BY <1>5, <2>1 DEF RunFit, detectorVars, findingVars
  <1>6. CASE PushInstance
    <2> DEFINE face == [rect |-> rect, shape |-> shape]
               n    == Len(faces)
    <2>1. face \in Faces
      BY DEF PredictorInv, PredictorTypeOK, Faces
    <2>2. /\ faces' = Append(faces, face) /\ fit = "done" /\ fit' = "idle"
          /\ phase = "fit" /\ phase' = phase /\ known' = known
          /\ final_dets' = final_dets
      BY <1>6 DEF PushInstance, ReturnShape, detectorVars
    <2>3. n < Len(final_dets) /\ rect = FaceRect(CvRect(final_dets[n + 1].rect))
      BY <2>2
    <2>4. n \in Nat /\ Len(final_dets) \in Nat /\ DOMAIN faces = 1 .. n
      BY <2>2, KnownFaces
    <2> HIDE DEF face, n
    <2>5. /\ faces' \in Seq(Faces) /\ Len(faces') = n + 1
          /\ faces'[n + 1] = face /\ \A k \in 1 .. n : faces'[k] = faces[k]
      BY <2>1, <2>2, AppendProperties DEF n
    <2>6. DOMAIN faces' = 1 .. n + 1
      BY <2>5, LenProperties
    <2>7. \A k \in DOMAIN faces' : faces'[k].rect = FaceRect(CvRect(final_dets[k].rect))
      <3> SUFFICES ASSUME NEW k \in 1 .. n + 1
                   PROVE  faces'[k].rect = FaceRect(CvRect(final_dets[k].rect))
        BY <2>6
      <3>1. CASE k = n + 1
        BY <3>1, <2>3, <2>5 DEF face
      <3>2. CASE k \in 1 .. n
        BY <3>2, <2>2, <2>4, <2>5
      <3>3. k = n + 1 \/ k \in 1 .. n
        BY <2>4
      <3> QED
        BY <3>1, <3>2, <3>3
    <2>8. Len(faces') <= Len(final_dets)
      BY <2>3, <2>4, <2>5
    <2> QED
      BY <2>2, <2>5, <2>7, <2>8
  <1>7. CASE FinishUpdate
    BY <1>7, KnownFaces DEF FinishUpdate, detectorVars, predictorVars
  <1>8. CASE Finished \/ UNCHANGED vars
    BY <1>8 DEF Finished, vars, detectorVars, predictorVars, findingVars
  <1> QED
    BY <1>1, <1>2, <1>3, <1>4, <1>5, <1>6, <1>7, <1>8 DEF Next

\* In every reachable state of update() the invariants of the parts hold, and that
\* of their composition.
THEOREM FindingInvHolds == Spec => []FindingInv
  <1>1. Init => FindingInv
    <2> SUFFICES ASSUME Init PROVE FindingInv
      OBVIOUS
    <2>1. PoolInv /\ PredictorInv
      BY PoolInit, PredictorInvInit DEF Init
    <2>2. << >> \in Seq(Faces)
      BY EmptySeq
    <2> QED
      BY <2>1, <2>2 DEF Init, PredictorInit, FindingInv, FittingInv
  <1>2. FindingInv /\ [Next]_vars => FindingInv'
    <2> SUFFICES ASSUME FindingInv, [Next]_vars PROVE FindingInv'
      OBVIOUS
    <2>1. PoolInv'
      BY DetectorRuns, PoolStep DEF FindingInv
    <2>2. PredictorInv'
      BY PredictorRuns, PredictorInvStep DEF FindingInv
    <2>3. FittingInv'
      BY FittingStep
    <2> QED
      BY <2>1, <2>2, <2>3 DEF FindingInv
  <1> QED
    BY <1>1, <1>2, PTL DEF Spec

\* dlib's rectangle is a cv::Rect of whole numbers.
LEMMA CvRectTyped ==
  ASSUME NEW a \in Rectangles
  PROVE  CvRect(a) \in [x : Int, y : Int, w : Int, h : Int]
  BY DEF CvRect, Width, Height, Rectangles

\* Every variable of update() and of the parts it calls has its type.
THEOREM FindingTypeCorrect == Spec => []TypeOK
  <1>1. FindingInv => TypeOK
    <2> SUFFICES ASSUME FindingInv PROVE TypeOK
      OBVIOUS
    <2> DEFINE CvRects == [x : Int, y : Int, w : Int, h : Int]
    <2>1. DetectorTypeOK /\ PredictorTypeOK
      BY DEF FindingInv, PoolInv, PredictorInv
    <2>2. phase \in {"detect", "fit", "finished"} /\ faces \in Seq(Faces)
      BY DEF FindingInv, FittingInv
    <2>3. known \in Seq(CvRects)
      <3>1. CASE phase = "detect"
        BY <3>1, EmptySeq DEF FindingInv, FittingInv
      <3>2. CASE phase # "detect"
        <4>1. Len(final_dets) \in Nat /\ DOMAIN final_dets = 1 .. Len(final_dets)
          BY <3>2, KnownFaces
        <4>2. known = [k \in 1 .. Len(final_dets) |-> CvRect(final_dets[k].rect)]
          BY <3>2, <4>1 DEF FindingInv, FittingInv
        <4>3. \A k \in 1 .. Len(final_dets) : CvRect(final_dets[k].rect) \in CvRects
          BY <3>2, KnownFaces, CvRectTyped, DetectorAssumption
        <4> HIDE DEF CvRects
        <4> QED
          BY <4>1, <4>2, <4>3
      <3> QED
        BY <3>1, <3>2
    <2> QED
      BY <2>1, <2>2, <2>3 DEF TypeOK, Faces
  <1> QED
    BY <1>1, FindingInvHolds, PTL

\* update() calls operator() of the detector, and nothing else of it ...
THEOREM RunsDetector == Spec => DetectorSpec
  <1>1. Init => DetectorInit
    BY DEF Init
  <1> QED
    BY <1>1, DetectorRuns, PTL DEF Spec, DetectorSpec

\* ... and operator() of the shape predictor, with rectangles it can fit.
THEOREM RunsPredictor == Spec => PredictorSpec
  <1>1. Init => PredictorInit
    BY DEF Init
  <1> QED
    BY <1>1, PredictorRuns, FindingInvHolds, PTL DEF Spec, PredictorSpec

\* So that in update(), too, no face is found twice or lost, the best one comes
\* first, nothing is read beyond its end, and every tree is asked once, in order, and
\* answers with its leaf.
THEOREM PartsAreSound ==
  Spec => [](/\ NoFaceTwice /\ NoFaceLost /\ BestFirst
             /\ ReadsInBounds /\ FindsLeaf /\ EveryTreeOnce)
  BY RunsDetector, RunsPredictor, FacesAreDistinct, FacesAreKept, FacesAreRanked,
     FitsReadInBounds, DescentFindsLeaf, TreesAreAskedOnce, PTL

\* The rectangle a box comes back as is not smaller, whether the box is empty or not.
LEMMA CoversBox ==
  ASSUME NEW a \in Rectangles
  PROVE  Around(FaceRect(CvRect(a)), a) = FaceRect(CvRect(a))
  <1>1. CASE IsEmpty(a)
    BY <1>1 DEF Around
  <1>2. CASE ~IsEmpty(a)
    <2>1. Width(a) = a.r - a.l + 1 /\ Height(a) = a.b - a.t + 1
      BY <1>2 DEF Width, Height
    <2>2. a.l \in Int /\ a.r \in Int /\ a.t \in Int /\ a.b \in Int
          /\ a.l <= a.r /\ a.t <= a.b
      BY <1>2 DEF IsEmpty, Rectangles
    <2>3. FaceRect(CvRect(a)) = [l |-> a.l, t |-> a.t, r |-> a.r + 1, b |-> a.b + 1]
      BY <2>1, <2>2 DEF FaceRect, CvRect
    <2>4. ~IsEmpty([l |-> a.l, t |-> a.t, r |-> a.r + 1, b |-> a.b + 1])
      BY <2>2 DEF IsEmpty
    <2> QED
      BY <1>2, <2>2, <2>3, <2>4 DEF Around, Lower, Greater
  <1> QED
    BY <1>1, <1>2

\* Every box the detector returns is fitted, in its place, and covered.
THEOREM FacesAreFitted == Spec => []EveryFaceFitted
  <1>1. FindingInv => EveryFaceFitted
    <2> SUFFICES ASSUME FindingInv, phase = "finished"
                 PROVE  /\ Len(faces) = Len(final_dets)
                        /\ \A k \in DOMAIN faces :
                             Around(faces[k].rect, final_dets[k].rect) = faces[k].rect
      BY DEF EveryFaceFitted
    <2>1. Len(faces) = Len(final_dets)
      BY DEF FindingInv, FittingInv
    <2>2. ASSUME NEW k \in DOMAIN faces
          PROVE  Around(faces[k].rect, final_dets[k].rect) = faces[k].rect
      <3>1. faces[k].rect = FaceRect(CvRect(final_dets[k].rect))
        BY DEF FindingInv, FittingInv
      <3>2. final_dets[k].rect \in Rectangles
        BY <2>1, KnownFaces, DetectorAssumption
      <3> QED
        BY <3>1, <3>2, CoversBox
    <2> QED
      BY <2>1, <2>2
  <1> QED
    BY <1>1, FindingInvHolds, PTL

-----------------------------------------------------------------------------
(* The way to the end *)

\* What is left to do of update(), and of operator() of the detector.
UpdateLeft == CASE phase = "detect" -> 2 [] phase = "fit" -> 1 [] OTHER -> 0
StagesLeft ==
  CASE stage = "idle" -> 3 [] stage = "scan" -> 2 [] stage = "suppress" -> 1 [] OTHER -> 0

\* Of the detector's loops: weight vectors, or windows of the pool.
WindowsLeft ==
  CASE stage = "scan" -> NumWeights + 1 - weight
    [] stage = "suppress" -> Len(dets_accum) + 1 - next
    [] OTHER -> 0

\* Faces without their instance, and of the fit in hand: operator(), its cascade with
\* the samples of a stage before its trees, the trees, and the descent in one.
FacesLeft == Len(known) - Len(faces)
FitLeft == CASE fit = "idle" -> 2 [] fit = "done" -> 0 [] OTHER -> 1
CascadeLeft ==
  CASE fit = "extract" -> 2 * (Len(NumPixels) - iter) + 1
    [] fit = "descend" -> 2 * (Len(NumPixels) - iter)
    [] OTHER -> 0
TreesLeft == IF fit = "descend" THEN Len(Forests[iter]) - tree ELSE 0
NodesLeft == IF fit = "descend" THEN 2 * Len(Splits(iter, tree)) - node ELSE 0

Left == <<UpdateLeft, StagesLeft, WindowsLeft, FacesLeft,
          FitLeft, CascadeLeft, TreesLeft, NodesLeft>>

\* The order in which the first difference counts.
Less(a, b) == \E k \in 1 .. 8 : a[k] < b[k] /\ \A j \in 1 .. k - 1 : a[j] = b[j]

\* A set of numbers has a least one.
LEMMA LeastCount ==
  ASSUME NEW S \in SUBSET Nat, S # {}
  PROVE  \E m \in S : \A n \in S : m <= n
  <1> DEFINE NoneBelow == {n \in Nat : \A s \in S : n <= s}
  <1> SUFFICES ASSUME \A m \in S : \E n \in S : ~(m <= n) PROVE FALSE
    OBVIOUS
  <1>1. 0 \in NoneBelow
    OBVIOUS
  <1>2. ASSUME NEW n \in Nat, n \in NoneBelow PROVE n + 1 \in NoneBelow
    <2>1. n \notin S
      BY <1>2
    <2>2. \A s \in S : s \in Nat /\ n <= s /\ n # s
      BY <1>2, <2>1
    <2> QED
      BY <2>2
  <1>3. Nat \subseteq NoneBelow
    <2> HIDE DEF NoneBelow
    <2> QED
      BY <1>1, <1>2, Induction
  <1>4. PICK s \in S : TRUE
    OBVIOUS
  <1>5. s + 1 \in NoneBelow
    BY <1>3
  <1> QED
    BY <1>5

\* Among any of such counts there is one that none of them is less than: there is no
\* way down without end.
LEMMA WaysDownEnd ==
  ASSUME NEW S, S # {}, \A a \in S : \A k \in 1 .. 8 : a[k] \in Nat
  PROVE  \E m \in S : \A a \in S : ~Less(a, m)
  <1> DEFINE Before(a, m, k) == \A j \in 1 .. k - 1 : a[j] = m[j]
             Least(m, n) == \A a \in S : \A k \in 1 .. n : Before(a, m, k) => m[k] <= a[k]
             Found == {n \in Nat : n <= 8 => \E m \in S : Least(m, n)}
  <1>1. 0 \in Found
    OBVIOUS
  <1>2. ASSUME NEW n \in Nat, n \in Found PROVE n + 1 \in Found
    <2> SUFFICES ASSUME n + 1 <= 8 PROVE \E m \in S : Least(m, n + 1)
      OBVIOUS
    <2>1. PICK m \in S : Least(m, n)
      <3>1. n <= 8
        OBVIOUS
      <3> QED
        BY <1>2, <3>1
    <2> DEFINE Alike  == {a \in S : \A j \in 1 .. n : a[j] = m[j]}
               Counts == {a[n + 1] : a \in Alike}
    <2>2. Counts \in SUBSET Nat /\ Counts # {}
      <3>1. m \in Alike /\ n + 1 \in 1 .. 8
        BY <2>1
      <3> QED
        BY <3>1
    <2>3. PICK c \in Counts : \A d \in Counts : c <= d
      <3> HIDE DEF Counts
      <3> QED
        BY <2>2, LeastCount
    <2>4. PICK l \in Alike : c = l[n + 1]
      BY <2>3
    <2>5. ASSUME NEW a \in S, NEW k \in 1 .. n + 1, Before(a, l, k)
          PROVE  l[k] <= a[k]
      <3>1. CASE k \in 1 .. n
        <4>1. l[k] = m[k] /\ Before(a, m, k)
          BY <2>4, <2>5, <3>1
        <4> QED
          BY <2>1, <3>1, <4>1
      <3>2. CASE k = n + 1
        <4>1. a \in Alike
          BY <2>4, <2>5, <3>2
        <4> QED
          BY <2>3, <2>4, <3>2, <4>1
      <3> QED
        BY <3>1, <3>2
    <2> QED
      BY <2>4, <2>5
  <1>3. Nat \subseteq Found
    <2> HIDE DEF Found
    <2> QED
      BY <1>1, <1>2, Induction
  <1>4. PICK m \in S : Least(m, 8)
    <2>1. 8 \in Found
      <3> HIDE DEF Found
      <3> QED
        BY <1>3
    <2> HIDE DEF Least
    <2> QED
      BY <2>1
  <1>5. ASSUME NEW a \in S PROVE ~Less(a, m)
    <2> SUFFICES ASSUME NEW k \in 1 .. 8, a[k] < m[k], Before(a, m, k) PROVE FALSE
      BY DEF Less
    <2>1. m[k] <= a[k] /\ a[k] \in Nat /\ m[k] \in Nat
      BY <1>4
    <2> QED
      BY <2>1
  <1> QED
    BY <1>5

\* What is left is a number of things: no loop has gone past its end.
LEMMA LeftIsNatural ==
  ASSUME FindingInv
  PROVE  \A k \in 1 .. 8 : Left[k] \in Nat
  <1> USE DEF FindingInv
  <1>1. UpdateLeft \in Nat /\ StagesLeft \in Nat /\ FitLeft \in Nat
    BY DEF UpdateLeft, StagesLeft, FitLeft
  <1>2. WindowsLeft \in Nat
    <2>1. /\ weight \in 1 .. NumWeights + 1 /\ next \in 1 .. Len(dets_accum) + 1
          /\ NumWeights \in Nat /\ Len(dets_accum) \in Nat
      BY DetectorAssumption, LenProperties DEF PoolInv, DetectorTypeOK
    <2> QED
      BY <2>1 DEF WindowsLeft
  <1>3. FacesLeft \in Nat
    <2>1. CASE phase = "detect"
      BY <2>1, EmptySeq DEF FittingInv, FacesLeft
    <2>2. CASE phase # "detect"
      BY <2>2, KnownFaces DEF FittingInv, FacesLeft
    <2> QED
      BY <2>1, <2>2
  <1>4. CascadeLeft \in Nat
    <2>1. Len(NumPixels) \in Nat
      BY PredictorAssumption, LenProperties
    <2>2. fit \in {"extract", "descend"} => iter \in Nat /\ iter <= Len(NumPixels)
      BY StageShape DEF PredictorInv, DescentInv
    <2> QED
      BY <2>1, <2>2 DEF CascadeLeft
  <1>5. TreesLeft \in Nat /\ NodesLeft \in Nat
    <2>1. CASE fit # "descend"
      BY <2>1 DEF TreesLeft, NodesLeft
    <2>2. CASE fit = "descend"
      <3>1. iter \in DOMAIN Forests /\ tree \in DOMAIN Forests[iter]
        BY <2>2 DEF PredictorInv, DescentInv
      <3>2. Len(Forests[iter]) \in Nat /\ tree \in 1 .. Len(Forests[iter])
        BY <3>1, StageShape
      <3>3. /\ Len(Splits(iter, tree)) \in Nat
            /\ node \in Nat /\ node <= 2 * Len(Splits(iter, tree))
        BY <2>2, <3>1, TreeShape DEF PredictorInv, PredictorTypeOK, DescentInv
      <3> QED
        BY <2>2, <3>2, <3>3 DEF TreesLeft, NodesLeft
    <2> QED
      BY <2>1, <2>2
  <1> QED
    BY <1>1, <1>2, <1>3, <1>4, <1>5 DEF Left

\* A step of the detector uses up a window or a weight vector, or ends its loop.
LEMMA DetectorAdvances ==
  ASSUME FindingInv, RunDetector
  PROVE  Less(Left', Left)
  <1>1. UpdateLeft' = UpdateLeft
    BY DEF RunDetector, findingVars, UpdateLeft
  <1>2. /\ weight \in 1 .. NumWeights + 1 /\ next \in 1 .. Len(dets_accum) + 1
        /\ NumWeights \in Nat /\ Len(dets_accum) \in Nat
    BY DetectorAssumption, LenProperties DEF FindingInv, PoolInv, DetectorTypeOK
  <1>3. CASE ScanWith \/ Suppress
    <2>1. StagesLeft' = StagesLeft
      BY <1>3 DEF ScanWith, Suppress, StagesLeft
    <2>2. WindowsLeft' < WindowsLeft
      <3>1. CASE ScanWith
        <4>1. /\ WindowsLeft  = NumWeights + 1 - weight
              /\ WindowsLeft' = NumWeights + 1 - (weight + 1)
          BY <3>1 DEF ScanWith, WindowsLeft
        <4> QED
          BY <1>2, <4>1
      <3>2. CASE Suppress
        <4>1. /\ WindowsLeft  = Len(dets_accum) + 1 - next
              /\ WindowsLeft' = Len(dets_accum) + 1 - (next + 1)
          BY <3>2 DEF Suppress, WindowsLeft
        <4> QED
          BY <1>2, <4>1
      <3> QED
        BY <1>3, <3>1, <3>2
    <2>3. Left'[3] < Left[3] /\ \A j \in 1 .. 2 : Left'[j] = Left[j]
      BY <1>1, <2>1, <2>2 DEF Left
    <2> QED
      BY <2>3 DEF Less
  <1>4. CASE SortDetections \/ ReturnDetections
    <2>1. StagesLeft' < StagesLeft
      BY <1>4 DEF SortDetections, ReturnDetections, StagesLeft
    <2>2. Left'[2] < Left[2] /\ \A j \in 1 .. 1 : Left'[j] = Left[j]
      BY <1>1, <2>1 DEF Left
    <2> QED
      BY <2>2 DEF Less
  <1> QED
    BY <1>3, <1>4 DEF RunDetector, DetectionStep

\* A step of the fit takes the samples of a stage, goes down a tree, passes a tree, or
\* ends a stage or the cascade.
LEMMA FitAdvances ==
  ASSUME FindingInv, RunFit
  PROVE  Less(Left', Left)
  <1> USE DEF FindingInv
  <1>1. \A j \in 1 .. 4 : Left'[j] = Left[j]
    BY DEF RunFit, detectorVars, findingVars, Left, UpdateLeft, StagesLeft,
           WindowsLeft, FacesLeft
  <1>2. /\ iter \in DOMAIN Forests /\ iter \in Nat
        /\ Len(NumPixels) \in Nat /\ iter <= Len(NumPixels)
    <2>1. Len(NumPixels) \in Nat /\ iter \in DOMAIN Forests
      BY PredictorAssumption, LenProperties
      DEF RunFit, FitStep, ExtractPixels, Descend, AddLeaf, PredictorInv, DescentInv
    <2> QED
      BY <2>1, StageShape
  <1>3. ASSUME fit \in {"extract", "descend"}, NextStage(iter)
        PROVE  Less(Left', Left)
    <2>1. CASE iter < Len(NumPixels)
      <3>1. fit' = "extract" /\ iter' = iter + 1
        BY <1>3, <2>1 DEF NextStage
      <3>2. FitLeft' = FitLeft
        BY <1>3, <3>1 DEF FitLeft
      <3>3. /\ CascadeLeft' = 2 * (Len(NumPixels) - (iter + 1)) + 1
            /\ \/ CascadeLeft = 2 * (Len(NumPixels) - iter) + 1
               \/ CascadeLeft = 2 * (Len(NumPixels) - iter)
        BY <1>3, <3>1 DEF CascadeLeft
      <3>4. CascadeLeft' < CascadeLeft
        BY <1>2, <3>3
      <3>5. Left'[6] < Left[6] /\ Left'[5] = Left[5]
        BY <3>2, <3>4 DEF Left
      <3> QED
        BY <1>1, <3>5 DEF Less
    <2>2. CASE ~(iter < Len(NumPixels))
      <3>1. FitLeft' < FitLeft
        BY <1>3, <2>2 DEF NextStage, FitLeft
      <3>2. Left'[5] < Left[5]
        BY <3>1 DEF Left
      <3> QED
        BY <1>1, <3>2 DEF Less
    <2> QED
      BY <2>1, <2>2
  <1>4. CASE ExtractPixels
    <2>1. CASE Forests[iter] = << >>
      BY <1>3, <1>4, <2>1 DEF ExtractPixels
    <2>2. CASE Forests[iter] # << >>
      <3>1. FitLeft' = FitLeft /\ CascadeLeft' < CascadeLeft
        BY <1>2, <1>4, <2>2 DEF ExtractPixels, FitLeft, CascadeLeft
      <3>2. Left'[6] < Left[6] /\ Left'[5] = Left[5]
        BY <3>1 DEF Left
      <3> QED
        BY <1>1, <3>2 DEF Less
    <2> QED
      BY <2>1, <2>2
  <1>5. CASE Descend
    <2>1. /\ fit = "descend" /\ fit' = fit /\ iter' = iter /\ tree' = tree
          /\ tree \in DOMAIN Forests[iter] /\ node \in Nat
      BY <1>5 DEF Descend, PredictorInv, PredictorTypeOK, DescentInv
    <2>2. Len(Splits(iter, tree)) \in Nat
      BY <1>2, <2>1, TreeShape
    <2>3. node' = 2 * node + 1 \/ node' = 2 * node + 2
      BY <1>5, Zenon DEF Descend, LeftChild, RightChild
    <2>4. /\ FitLeft' = FitLeft /\ CascadeLeft' = CascadeLeft
          /\ TreesLeft' = TreesLeft
      BY <2>1 DEF FitLeft, CascadeLeft, TreesLeft
    <2>5. /\ NodesLeft  = 2 * Len(Splits(iter, tree)) - node
          /\ NodesLeft' = 2 * Len(Splits(iter, tree)) - node'
      BY <2>1 DEF NodesLeft, Splits
    <2>6. NodesLeft' < NodesLeft
      BY <2>1, <2>2, <2>3, <2>5
    <2>7. Left'[8] < Left[8] /\ \A j \in 5 .. 7 : Left'[j] = Left[j]
      BY <2>4, <2>6 DEF Left
    <2> QED
      BY <1>1, <2>7 DEF Less
  <1>6. CASE AddLeaf
    <2>1. fit = "descend" /\ tree \in DOMAIN Forests[iter]
      BY <1>6 DEF AddLeaf, PredictorInv, DescentInv
    <2>2. CASE tree < Len(Forests[iter])
      <3>1. fit' = fit /\ iter' = iter /\ tree' = tree + 1
        BY <1>6, <2>2 DEF AddLeaf
      <3>2. FitLeft' = FitLeft /\ CascadeLeft' = CascadeLeft
        BY <3>1 DEF FitLeft, CascadeLeft
      <3>3. Len(Forests[iter]) \in Nat /\ tree \in Nat
        BY <1>2, <2>1, StageShape
      <3>4. TreesLeft' < TreesLeft
        BY <2>1, <3>1, <3>3 DEF TreesLeft
      <3>5. Left'[7] < Left[7] /\ \A j \in 5 .. 6 : Left'[j] = Left[j]
        BY <3>2, <3>4 DEF Left
      <3> QED
        BY <1>1, <3>5 DEF Less
    <2>3. CASE ~(tree < Len(Forests[iter]))
      BY <1>3, <1>6, <2>1, <2>3 DEF AddLeaf
    <2> QED
      BY <2>2, <2>3
  <1> QED
    BY <1>4, <1>5, <1>6 DEF RunFit, FitStep

\* Whatever step update() takes leaves less to do, though a loop may begin with it.
LEMMA StepAdvances == FindingInv /\ [Next]_vars => [Less(Left', Left)]_vars
  <1> SUFFICES ASSUME FindingInv, Next, ~UNCHANGED vars PROVE Less(Left', Left)
    OBVIOUS
  <1>1. CASE StartDetector
    <2>1. UpdateLeft' = UpdateLeft /\ StagesLeft' < StagesLeft
      BY <1>1 DEF StartDetector, BeginDetection, findingVars, UpdateLeft, StagesLeft
    <2>2. Left'[2] < Left[2] /\ Left'[1] = Left[1]
      BY <2>1 DEF Left
    <2> QED
      BY <2>2 DEF Less
  <1>2. CASE TrackFaces \/ FinishUpdate
    <2>1. UpdateLeft' < UpdateLeft
      BY <1>2 DEF TrackFaces, FinishUpdate, UpdateLeft
    <2>2. Left'[1] < Left[1]
      BY <2>1 DEF Left
    <2> QED
      BY <2>2 DEF Less
  <1>3. CASE StartFit
    <2>1. \A j \in 1 .. 4 : Left'[j] = Left[j]
      <3>1. UpdateLeft' = UpdateLeft /\ FacesLeft' = FacesLeft
        BY <1>3 DEF StartFit, findingVars, UpdateLeft, FacesLeft
      <3>2. StagesLeft' = StagesLeft /\ WindowsLeft' = WindowsLeft
        BY <1>3 DEF StartFit, detectorVars, StagesLeft, WindowsLeft
      <3> QED
        BY <3>1, <3>2 DEF Left
    <2>2. FitLeft' < FitLeft
      BY <1>3 DEF StartFit, BeginFit, FitLeft
    <2>3. Left'[5] < Left[5]
      BY <2>2 DEF Left
    <2> QED
      BY <2>1, <2>3 DEF Less
  <1>4. CASE PushInstance
    <2>1. \A j \in 1 .. 3 : Left'[j] = Left[j]
      BY <1>4 DEF PushInstance, detectorVars, Left, UpdateLeft, StagesLeft, WindowsLeft
    <2>2. Len(known) \in Nat /\ Len(faces) \in Nat
      BY <1>4, KnownFaces DEF PushInstance
    <2>3. known' = known /\ Len(faces') = Len(faces) + 1
      <3> DEFINE face == [rect |-> rect, shape |-> shape]
      <3>1. faces' = Append(faces, face) /\ known' = known
        BY <1>4 DEF PushInstance
      <3>2. faces \in Seq(Faces) /\ face \in Faces
        BY DEF FindingInv, FittingInv, PredictorInv, PredictorTypeOK, Faces
      <3> HIDE DEF face
      <3> QED
        BY <3>1, <3>2, AppendProperties
    <2>4. FacesLeft' < FacesLeft
      BY <2>2, <2>3 DEF FacesLeft
    <2>5. Left'[4] < Left[4]
      BY <2>4 DEF Left
    <2> QED
      BY <2>1, <2>5 DEF Less
  <1>5. CASE Finished
    BY <1>5 DEF Finished
  <1> QED
    BY <1>1, <1>2, <1>3, <1>4, <1>5, DetectorAdvances, FitAdvances DEF Next

\* update() cannot go on for ever: what is left to do is counted by eight numbers, and
\* every step brings them down in the order in which the first difference counts.
\* That some step is possible until it has returned is what UpdateFinishes adds.
THEOREM UpdateAdvances ==
  Spec => /\ [](\A k \in 1 .. 8 : Left[k] \in Nat)
          /\ [][Less(Left', Left)]_vars
  <1> DEFINE Natural == \A k \in 1 .. 8 : Left[k] \in Nat
  <1>1. FindingInv => Natural
    BY LeftIsNatural
  <1> HIDE DEF Natural
  <1>2. Spec => []Natural
    BY <1>1, FindingInvHolds, PTL
  <1>3. Spec => [][Less(Left', Left)]_vars
    BY StepAdvances, FindingInvHolds, PTL DEF Spec
  <1> QED
    BY <1>2, <1>3 DEF Natural
=============================================================================
