----------------------------- MODULE FaceDisplay -----------------------------
(***************************************************************************)
(* What an application does with the faces of the last update(): calls on  *)
(* the instances (FacePose), and their features one by one or all drawn by *)
(* drawDebug (LandmarkDrawing), from the landmarks of the same instances,  *)
(* of the same model.  All of it runs on the application's thread: while   *)
(* drawDebug is under way nothing else is called.                          *)
(***************************************************************************)
EXTENDS FacePose

VARIABLES face, feature, drawn, step

drawingVars == <<face, feature, drawn, step>>
displayVars == <<vars, drawingVars>>

Drawing ==
  INSTANCE LandmarkDrawing WITH faces <- Len(instances), failed <- instances = << >>

-----------------------------------------------------------------------------
DisplayInit == Init /\ Drawing!Init

NewImage(geometry, faces) == Update(geometry, faces) /\ Drawing!Update

\* The faces, and with them what drawDebug draws, stay those of an earlier image.
RefusedImage(geometry) ==
  step = "idle" /\ ThrowingUpdate(geometry) /\ UNCHANGED drawingVars

UseInstance(i) ==
  /\ step = "idle"
  /\ Keep(i) \/ GetPose(i) \/ LoadPose(i) \/ DrawDebugPose(i)
  /\ UNCHANGED drawingVars

UseKept == step = "idle" /\ LoadKept /\ UNCHANGED drawingVars

Draw ==
  /\ ~undefined
  /\ UNCHANGED vars
  /\ Drawing!DrawDebug \/ Drawing!DrawFeature

GetFeature(f) == ~undefined /\ UNCHANGED vars /\ Drawing!GetFeature(f)

\* makeSample() of the smile example, of the first instance: the eyes to measure
\* with, and the first 20 points of the mouth, outside and inside.
SampleFeatures == {"LEFT_EYE", "RIGHT_EYE", "OUTER_MOUTH", "INNER_MOUTH"}
MouthPoints    ==
  Drawing!FeatureIndices("OUTER_MOUTH") \o Drawing!FeatureIndices("INNER_MOUTH")

MakeSample ==
  /\ ~undefined /\ step = "idle" /\ instances # << >>
  /\ step' = IF (\A f \in SampleFeatures : Drawing!HasFeature(f)) /\ Len(MouthPoints) >= 20
             THEN step ELSE "undefined"
  /\ UNCHANGED <<vars, face, feature, drawn>>

\* Whatever reading past the end of the landmarks does, the model stops there.
Over == (undefined \/ step = "undefined") /\ UNCHANGED displayVars

DisplayNext ==
  \/ \E geometry \in Geometries, faces \in 0 .. MaxFaces : NewImage(geometry, faces)
  \/ \E geometry \in Geometries : RefusedImage(geometry)
  \/ \E i \in DOMAIN instances : UseInstance(i)
  \/ UseKept
  \/ Draw
  \/ \E f \in Drawing!Features : GetFeature(f)
  \/ MakeSample
  \/ Over

DisplaySpec == DisplayInit /\ [][DisplayNext]_displayVars

-----------------------------------------------------------------------------
(* Properties *)

\* The nine features split the 68 landmarks among them: drawDebug draws none
\* twice, and none is missing of a face it is done with.
EachLandmarkDrawnOnce == Drawing!EachLandmarkDrawnOnce

\* "all 68 face landmarks" (ofxFaceTracker2Landmarks.h:31): with that many, neither
\* a feature, the pose nor the smile example's sample reads past them.
DefinedFor68 == undefined \/ step = "undefined" => parts < 68
=============================================================================
