------------------------------ MODULE FacePose ------------------------------
(***************************************************************************)
(* ofxFaceTracker2Instance's head pose.  It is calculated on first use and *)
(* cached in the instance, from the instance's own landmarks and from the  *)
(* tracker's info, to which every instance and every copy of one holds a   *)
(* reference.  Copies are usual: drawDebugPose and the examples loop over  *)
(* getInstances() by value, and an application may keep one.               *)
(***************************************************************************)
EXTENDS Integers, Sequences

CONSTANTS
  Geometries,   \* values info may take: sizes and angle of the input
  Models,       \* numbers of landmarks of the model files setup() may load
  MaxFaces,     \* bound: faces in one image
  Nothing       \* no info, no pose, no copy, no view yet

ASSUME FacePoseAssumption ==
  Models \subseteq Nat \ {0} /\ MaxFaces \in Nat /\ Nothing \notin Geometries

VARIABLES
  parts,       \* landmarks of the loaded model
  info,        \* the tracker's, or Nothing before the first update()
  instances,   \* the tracker's, each with the info its landmarks were found under
  kept,        \* a copy the application keeps, or Nothing
  view,        \* what loadPoseMatrix loaded last, and of which instance
  returned,    \* auxiliary: the last update(), if any, did not throw
  undefined    \* whether shape.part() was read past its end

vars == <<parts, info, instances, kept, view, returned, undefined>>

-----------------------------------------------------------------------------
\* A pose says which landmarks it was solved for and under which info.
Poses == [landmarks : Geometries, info : Geometries]

NewInstance(geometry) == [landmarks |-> geometry, pose |-> Nothing]

\* The landmarks calculatePoseMatrix reads.
PosePoints == {27, 36, 45, 0, 16, 8, 30, 62, 66}

\* poseCalculated is not looked at.
BadWithPose(instance) ==
  [instance EXCEPT !.pose = [landmarks |-> instance.landmarks, info |-> info]]

\* An instance after transformPosePosition, getPoseMatrix or loadPoseMatrix.
WithPose(instance) ==
  IF instance.pose # Nothing THEN instance
  ELSE [instance EXCEPT !.pose = [landmarks |-> instance.landmarks, info |-> info]]

\* The pose is taken to be there already.
BadLoaded(instance, whose) ==
  [whose |-> whose, pose |-> instance.pose, projection |-> info]

\* The projection is that of info now, whenever the pose was calculated.
Loaded(instance, whose) ==
  [whose |-> whose, pose |-> WithPose(instance).pose, projection |-> info]

\* Whether the pose can be had without reading past the end of the shape.
Readable(instance) ==
  instance.pose # Nothing \/ \A i \in PosePoints : i < parts

-----------------------------------------------------------------------------
Init ==
  /\ parts \in Models
  /\ info = Nothing /\ instances = << >> /\ kept = Nothing /\ view = Nothing
  /\ returned = TRUE /\ undefined = FALSE

\* Instances of the faces that were there before are not made again.
BadUpdate(geometry, faces) ==
  /\ ~undefined
  /\ info' = geometry
  /\ instances' = [i \in 1 .. faces |->
                     IF i <= Len(instances) THEN instances[i] ELSE NewInstance(geometry)]
  /\ returned' = TRUE
  /\ UNCHANGED <<parts, kept, view, undefined>>

\* An update() that returns: info describes the new image, every instance is made
\* anew.
Update(geometry, faces) ==
  /\ ~undefined
  /\ info' = geometry
  /\ instances' = [i \in 1 .. faces |-> NewInstance(geometry)]
  /\ returned' = TRUE
  /\ UNCHANGED <<parts, kept, view, undefined>>

\* cvtColor, or without a thread the crop of runFaceDetector, throws when info is
\* that of the new image already, and instances.clear() is not reached.  The
\* application that catches the exception still has the faces of an earlier image.
ThrowingUpdate(geometry) ==
  /\ ~undefined
  /\ info' = geometry
  /\ returned' = FALSE
  /\ UNCHANGED <<parts, instances, kept, view, undefined>>

\* The application copies an instance, before or after its pose was calculated.
Keep(i) ==
  /\ ~undefined
  /\ kept' = [instance |-> instances[i],
              posed    |-> returned /\ instances[i].pose # Nothing]
  /\ UNCHANGED <<parts, info, instances, view, returned, undefined>>

ReadPastEnd(instance) ==
  /\ ~undefined /\ ~Readable(instance)
  /\ undefined' = TRUE
  /\ UNCHANGED <<parts, info, instances, kept, view, returned>>

\* getPoseMatrix() or transformPosePosition() of an instance itself.
GetPose(i) ==
  \/ ReadPastEnd(instances[i])
  \/ /\ ~undefined /\ Readable(instances[i])
     /\ instances' = [instances EXCEPT ![i] = WithPose(@)]
     /\ UNCHANGED <<parts, info, kept, view, returned, undefined>>

\* loadPoseMatrix() of an instance itself.
LoadPose(i) ==
  \/ ReadPastEnd(instances[i])
  \/ /\ ~undefined /\ Readable(instances[i])
     /\ instances' = [instances EXCEPT ![i] = WithPose(@)]
     /\ view' = Loaded(instances[i], "tracker")
     /\ UNCHANGED <<parts, info, kept, returned, undefined>>

\* The turn draws a copy that was made before.
BadDrawDebugPose(i) ==
  LET copy == IF kept = Nothing THEN instances[i] ELSE kept.instance
  IN /\ ~undefined /\ Readable(copy)
     /\ view' = Loaded(copy, "tracker")
     /\ UNCHANGED <<parts, info, instances, kept, returned, undefined>>

\* One turn of drawDebugPose: loadPoseMatrix() of a copy, which is then dropped
\* with the pose it calculated.
DrawDebugPose(i) ==
  \/ ReadPastEnd(instances[i])
  \/ /\ ~undefined /\ Readable(instances[i])
     /\ view' = Loaded(instances[i], "tracker")
     /\ UNCHANGED <<parts, info, instances, kept, returned, undefined>>

\* loadPoseMatrix() of the copy the application kept.
LoadKept ==
  /\ kept # Nothing
  /\ \/ ReadPastEnd(kept.instance)
     \/ /\ ~undefined /\ Readable(kept.instance)
        /\ kept' = [kept EXCEPT !.instance = WithPose(@)]
        /\ view' = Loaded(kept.instance, "application")
        /\ UNCHANGED <<parts, info, instances, returned, undefined>>

Stopped == undefined /\ UNCHANGED vars

Next ==
  \/ \E geometry \in Geometries, faces \in 0 .. MaxFaces : Update(geometry, faces)
  \/ \E geometry \in Geometries : ThrowingUpdate(geometry)
  \/ \E i \in DOMAIN instances : Keep(i) \/ GetPose(i) \/ LoadPose(i) \/ DrawDebugPose(i)
  \/ LoadKept
  \/ Stopped

Spec == Init /\ [][Next]_vars
-----------------------------------------------------------------------------
(* Properties *)

Instances == [landmarks : Geometries, pose : Poses \cup {Nothing}]

\* Before the first update() there is no instance to keep either, and what is
\* loaded is always a pose that was calculated.
TypeOK ==
  /\ parts \in Models
  /\ info \in Geometries \cup {Nothing}
  /\ instances \in Seq(Instances) /\ Len(instances) <= MaxFaces
  /\ info = Nothing => instances = << >> /\ kept = Nothing
  /\ kept \in [instance : Instances, posed : BOOLEAN] \cup {Nothing}
  /\ view \in [whose : {"tracker", "application"}, pose : Poses, projection : Geometries]
              \cup {Nothing}
  /\ returned \in BOOLEAN /\ undefined \in BOOLEAN

\* Solved, if at all, for landmarks found under the info they were mapped with.
Coherent(pose) == pose # Nothing => pose.landmarks = pose.info

\* After an update() that returned the cache of an instance of getInstances() is
\* never stale, whatever threw before: its pose is that of the present info and of
\* landmarks found under it.  After one that threw an instance without a pose gets
\* one of old landmarks and new info.
PoseOfLastUpdate ==
  returned =>
    \A i \in DOMAIN instances :
      instances[i].pose # Nothing =>
        instances[i].pose = [landmarks |-> info, info |-> info]

\* While the last update() is one that returned, loadPoseMatrix() of the tracker's
\* instances, or of copies that are used at once as drawDebugPose does, loads a pose
\* and a projection of one image.
PoseFitsProjection ==
  [][returned /\ view' # view /\ view'.whose = "tracker" =>
       Coherent(view'.pose) /\ view'.pose.info = view'.projection]_vars

\* A copy kept with its pose calculated, before an update() threw, has the right
\* pose for ever, although info changes under it, by calls that return or throw;
\* a copy kept without may take the info of a later camera.
KeptPoseIsCoherent ==
  kept # Nothing /\ kept.posed => Coherent(kept.instance.pose)
=============================================================================
