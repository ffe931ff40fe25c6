--------------------------- MODULE LandmarkDrawing ---------------------------
(***************************************************************************)
(* The features of a face, each a polyline over some of its landmarks: the *)
(* application asks for one, or drawDebug draws nine of them of each face. *)
(* Their indices come from a table that nothing compares with the number   *)
(* of landmarks the loaded model really has.                               *)
(***************************************************************************)
EXTENDS Integers, Sequences, FiniteSets

CONSTANTS
  Models,    \* numbers of landmarks of the model files setup() may load
  MaxFaces   \* bound: faces in one image

VARIABLES
  parts,          \* landmarks of the loaded model
  faces,          \* size of the instances of the last update()
  failed,
  face, feature,  \* where drawDebug is
  drawn,          \* the polylines drawn for each face
  step

vars == <<parts, faces, failed, face, feature, drawn, step>>

-----------------------------------------------------------------------------
\* The end is counted in.
BadConsecutive(start, end) == [i \in 1 .. end - start + 1 |-> start + i - 1]

Consecutive(start, end) == [i \in 1 .. end - start |-> start + i - 1]

\* Eyebrows from left to right, then the jaw from right to left.
FaceOutline == [i \in 1 .. 27 |-> IF i <= 10 THEN 16 + i ELSE 27 - i]

Features ==
  {"LEFT_EYE_TOP", "RIGHT_EYE_TOP", "LEFT_EYEBROW", "RIGHT_EYEBROW", "LEFT_EYE",
   "RIGHT_EYE", "LEFT_JAW", "RIGHT_JAW", "JAW", "OUTER_MOUTH", "INNER_MOUTH",
   "NOSE_BRIDGE", "NOSE_BASE", "FACE_OUTLINE", "ALL_FEATURES"}

\* getFeatureIndices
FeatureIndices(f) ==
  CASE f = "LEFT_EYE_TOP"  -> Consecutive(36, 40)
    [] f = "RIGHT_EYE_TOP" -> Consecutive(42, 46)
    [] f = "LEFT_JAW"      -> Consecutive(0, 9)
    [] f = "RIGHT_JAW"     -> Consecutive(8, 17)
    [] f = "JAW"           -> Consecutive(0, 17)
    [] f = "LEFT_EYEBROW"  -> Consecutive(17, 22)
    [] f = "RIGHT_EYEBROW" -> Consecutive(22, 27)
    [] f = "LEFT_EYE"      -> Consecutive(36, 42)
    [] f = "RIGHT_EYE"     -> Consecutive(42, 48)
    [] f = "OUTER_MOUTH"   -> Consecutive(48, 60)
    [] f = "INNER_MOUTH"   -> Consecutive(60, 68)
    [] f = "NOSE_BRIDGE"   -> Consecutive(27, 31)
    [] f = "NOSE_BASE"     -> Consecutive(31, 36)
    [] f = "FACE_OUTLINE"  -> FaceOutline
    [] f = "ALL_FEATURES"  -> Consecutive(0, 68)

\* points[cur] is defined for all the indices of a feature.
HasFeature(f) ==
  \A i \in DOMAIN FeatureIndices(f) : FeatureIndices(f)[i] < parts

Closed == {"LEFT_EYE", "RIGHT_EYE", "OUTER_MOUTH", "INNER_MOUTH", "FACE_OUTLINE"}

DebugFeatures ==
  <<"LEFT_EYE", "RIGHT_EYE", "LEFT_EYEBROW", "RIGHT_EYEBROW", "NOSE_BRIDGE",
    "NOSE_BASE", "INNER_MOUTH", "OUTER_MOUTH", "JAW">>

-----------------------------------------------------------------------------
Init ==
  /\ parts \in Models
  /\ faces = 0 /\ failed = TRUE
  /\ face = 1 /\ feature = 1 /\ drawn = << >>
  /\ step = "idle"

\* An update(): failed and the instances agree between calls (FaceTracker).
Update ==
  /\ step = "idle"
  /\ faces' \in 0 .. MaxFaces
  /\ failed' = (faces' = 0)
  /\ UNCHANGED <<parts, face, feature, drawn, step>>

DrawDebug ==
  /\ step = "idle"
  /\ ~failed
  /\ face' = 1 /\ feature' = 1
  /\ drawn' = [i \in 1 .. faces |-> << >>]
  /\ step' = "feature"
  /\ UNCHANGED <<parts, faces, failed>>

NextFeature ==
  IF feature < Len(DebugFeatures)
  THEN feature' = feature + 1 /\ UNCHANGED <<face, step>>
  ELSE /\ feature' = 1
       /\ IF face < faces THEN face' = face + 1 /\ UNCHANGED step
          ELSE UNCHANGED face /\ step' = "idle"

\* getFeature(), and draw().  points[cur] for an index beyond the model's
\* landmarks is undefined, and the model stops there.
DrawFeature ==
  /\ step = "feature"
  /\ LET f == DebugFeatures[feature] IN
     IF HasFeature(f)
     THEN /\ drawn' = [drawn EXCEPT ![face] =
                         Append(@, [points |-> FeatureIndices(f), closed |-> f \in Closed])]
          /\ NextFeature
     ELSE step' = "undefined" /\ UNCHANGED <<face, feature, drawn>>
  /\ UNCHANGED <<parts, faces, failed>>

\* The application calls getImageFeature() of an instance: what it gets is a value,
\* unless the feature reads too far.
GetFeature(f) ==
  /\ step = "idle" /\ faces > 0
  /\ step' = IF HasFeature(f) THEN step ELSE "undefined"
  /\ UNCHANGED <<parts, faces, failed, face, feature, drawn>>

Undefined == step = "undefined" /\ UNCHANGED vars

Next ==
  \/ Update \/ DrawDebug \/ DrawFeature \/ Undefined
  \/ \E f \in Features : GetFeature(f)

Spec == Init /\ [][Next]_vars
-----------------------------------------------------------------------------
(* Properties *)

\* How far drawDebug is: only the face and the feature it is at are unfinished.
TypeOK ==
  /\ parts \in Models /\ faces \in 0 .. MaxFaces /\ failed \in BOOLEAN
  /\ face \in Nat \ {0} /\ feature \in DOMAIN DebugFeatures
  /\ step \in {"idle", "feature", "undefined"}
  /\ step = "feature" => face <= faces /\ Len(drawn) = faces
  /\ step = "feature" =>
       \A i \in DOMAIN drawn :
         Len(drawn[i]) = IF i < face THEN Len(DebugFeatures)
                         ELSE IF i = face THEN feature - 1 ELSE 0

\* The vertices of a list of polylines, and the landmarks they are at.
Vertices(lines) ==
  UNION {{<<p, i>> : i \in DOMAIN lines[p].points} : p \in DOMAIN lines}
Landmarks(lines) == {lines[v[1]].points[v[2]] : v \in Vertices(lines)}

\* The nine features split the 68 landmarks "found" (ofxFaceTracker2Landmarks.h:31)
\* among them: drawDebug draws none twice, and none is missing of a face it is done with.
EachLandmarkDrawnOnce ==
  \A f \in DOMAIN drawn :
    /\ Cardinality(Vertices(drawn[f])) = Cardinality(Landmarks(drawn[f]))
    /\ (f < face \/ step = "idle") => Landmarks(drawn[f]) = 0 .. 67
=============================================================================
