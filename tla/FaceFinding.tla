----------------------------- MODULE FaceFinding -----------------------------
(***************************************************************************)
(* The composition of the two parts of dlib that ofxFaceTracker2 calls, in *)
(* the first update() of a tracker without thread: the boxes that the face *)
(* detector returns are stored in the rectangle tracker, and the landmarks *)
(* are fitted to each of them in turn.  The image is not scaled for the    *)
(* detector and the region is all of it: DetectorInput has the mapping.    *)
(***************************************************************************)
EXTENDS ObjectDetector, ShapePredictor

VARIABLES
  phase,   \* of update(): "detect", "fit" or "finished"
  known,   \* the rectangles of the rectangle tracker, as cv::Rect
  faces    \* the instances

findingVars == <<phase, known, faces>>
vars        == <<detectorVars, predictorVars, findingVars>>

\* The size is taken for the opposite corner.
BadFaceRect(cv) == [l |-> cv.x, t |-> cv.y, r |-> cv.w, b |-> cv.h]

\* From dlib's rectangle to OpenCV's and back.  dlib's sides are its own last
\* pixels, so that the box comes back one column and one row larger.
CvRect(a) == [x |-> a.l, y |-> a.t, w |-> Width(a), h |-> Height(a)]
FaceRect(cv) == [l |-> cv.x, t |-> cv.y, r |-> cv.x + cv.w, b |-> cv.y + cv.h]

\* Every box the detector can return can be fitted.
ASSUME FindingAssumption == {FaceRect(CvRect(a)) : a \in Boxes} \subseteq Rects

Init ==
  /\ DetectorInit /\ PredictorInit
  /\ phase = "detect" /\ known = << >> /\ faces = << >>

StartDetector ==
  /\ phase = "detect" /\ stage = "idle"
  /\ BeginDetection
  /\ UNCHANGED <<predictorVars, findingVars>>

RunDetector ==
  /\ phase = "detect"
  /\ DetectionStep
  /\ UNCHANGED <<predictorVars, findingVars>>

\* A new rectangle tracker knows the faces it was given, in their order.
TrackFaces ==
  /\ phase = "detect" /\ stage = "done"
  /\ known' = [k \in DOMAIN final_dets |-> CvRect(final_dets[k].rect)]
  /\ phase' = "fit"
  /\ UNCHANGED <<faces, detectorVars, predictorVars>>

StartFit ==
  /\ phase = "fit" /\ Len(faces) < Len(known)
  /\ BeginFit(FaceRect(known[Len(faces) + 1]))
  /\ UNCHANGED <<detectorVars, findingVars>>

RunFit ==
  /\ phase = "fit"
  /\ FitStep
  /\ UNCHANGED <<detectorVars, findingVars>>

PushInstance ==
  /\ phase = "fit"
  /\ ReturnShape
  /\ faces' = Append(faces, [rect |-> rect, shape |-> shape])
  /\ UNCHANGED <<phase, known, detectorVars>>

FinishUpdate ==
  /\ phase = "fit" /\ fit = "idle" /\ Len(faces) = Len(known)
  /\ phase' = "finished"
  /\ UNCHANGED <<known, faces, detectorVars, predictorVars>>

\* update() has returned.
Finished == phase = "finished" /\ UNCHANGED vars

Next ==
  \/ StartDetector \/ RunDetector \/ TrackFaces
  \/ StartFit \/ RunFit \/ PushInstance \/ FinishUpdate
  \/ Finished

Spec == Init /\ [][Next]_vars

\* One thread, which nothing but its own steps keeps waiting.
FairSpec == Spec /\ WF_vars(Next)

-----------------------------------------------------------------------------
(* Properties *)

\* Every variable of update() and of the two parts holds a value of its type; no
\* window the detector returns is below the threshold that found it.
TypeOK ==
  /\ DetectorTypeOK /\ PredictorTypeOK
  /\ phase \in {"detect", "fit", "finished"}
  /\ known \in Seq([x : Int, y : Int, w : Int, h : Int])
  /\ faces \in Seq([rect  : Rectangles,
                    shape : Seq([iter : Nat, tree : Nat, leaf : Nat])])

\* An instance for every face found, in their order, its landmarks fitted to a
\* rectangle that covers the detected box though it took the way over cv::Rect.
EveryFaceFitted ==
  phase = "finished" =>
    /\ Len(faces) = Len(final_dets)
    /\ \A k \in DOMAIN faces :
         Around(faces[k].rect, final_dets[k].rect) = faces[k].rect

\* The detector's loops, the descents and the cascade end: update() returns.
UpdateFinishes == <>(phase = "finished")
=============================================================================
