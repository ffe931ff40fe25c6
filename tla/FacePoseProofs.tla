--------------------------- MODULE FacePoseProofs ---------------------------
(***************************************************************************)
(* The pose cache is sound for any cameras, models and numbers of faces    *)
(* until an update() throws, and again from the next one that returns.     *)
(* The three properties need each other: a copy is coherent because the    *)
(* instance it was made of was, which needs its landmarks to be of the     *)
(* present info, which holds because every update() that returns makes all *)
(* instances anew.  What was calculated by then an exception cannot spoil. *)
(***************************************************************************)
EXTENDS FacePose, TLAPS

\* Landmarks in the tracker are found under the present info, unless update() threw.
LandmarksOfLastUpdate ==
  returned => \A i \in DOMAIN instances : instances[i].landmarks = info

\* A copy that was kept with its pose never loses it.
KeptStaysPosed ==
  kept # Nothing /\ kept.posed => kept.instance.pose # Nothing

PoseInv ==
  /\ TypeOK
  /\ LandmarksOfLastUpdate
  /\ KeptStaysPosed
  /\ PoseOfLastUpdate
  /\ KeptPoseIsCoherent

-----------------------------------------------------------------------------
\* What transformPosePosition and the rest leave of an instance of the tracker:
\* its landmarks, and a pose of the present info.
LEMMA WithPoseOfTracker ==
  ASSUME NEW instance \in Instances, info \in Geometries,
         instance.landmarks = info,
         instance.pose # Nothing => instance.pose = [landmarks |-> info, info |-> info]
  PROVE  /\ WithPose(instance) = [landmarks |-> info,
                                  pose |-> [landmarks |-> info, info |-> info]]
         /\ WithPose(instance) \in Instances
  BY DEF WithPose, Instances, Poses

\* Of any instance: it keeps its landmarks and has a pose, the old one if it had.
LEMMA WithPoseOfAny ==
  ASSUME NEW instance \in Instances, info \in Geometries
  PROVE  /\ WithPose(instance) \in Instances
         /\ WithPose(instance).pose \in Poses
         /\ instance.pose # Nothing => WithPose(instance) = instance
  BY DEF WithPose, Instances, Poses

-----------------------------------------------------------------------------
LEMMA PoseInit == Init => PoseInv
<1> SUFFICES ASSUME Init PROVE PoseInv
  OBVIOUS
<1>1. instances \in Seq(Instances) /\ Len(instances) = 0 /\ DOMAIN instances = {}
  BY DEF Init
<1>2. TypeOK
  <2>1. Len(instances) <= MaxFaces
    BY <1>1, FacePoseAssumption
  <2> QED
    BY <1>1, <2>1 DEF Init, TypeOK
<1>3. LandmarksOfLastUpdate /\ PoseOfLastUpdate
  BY <1>1 DEF LandmarksOfLastUpdate, PoseOfLastUpdate
<1>4. KeptStaysPosed /\ KeptPoseIsCoherent
  BY DEF Init, KeptStaysPosed, KeptPoseIsCoherent
<1> QED
  BY <1>2, <1>3, <1>4 DEF PoseInv

LEMMA PoseStep == PoseInv /\ [Next]_vars => PoseInv'
<1> SUFFICES ASSUME PoseInv, [Next]_vars PROVE PoseInv'
  OBVIOUS
<1> USE FacePoseAssumption
<1>1. ASSUME NEW geometry \in Geometries, NEW faces \in 0 .. MaxFaces,
             Update(geometry, faces)
      PROVE  PoseInv'
  <2>1. /\ instances' \in Seq(Instances) /\ Len(instances') = faces
        /\ DOMAIN instances' = 1 .. faces
        /\ \A i \in 1 .. faces : instances'[i] = NewInstance(geometry)
    BY <1>1 DEF Update, NewInstance, Instances
  <2>2. TypeOK'
    BY <1>1, <2>1 DEF Update, PoseInv, TypeOK
  <2>3. LandmarksOfLastUpdate' /\ PoseOfLastUpdate'
    BY <1>1, <2>1 DEF Update, NewInstance, LandmarksOfLastUpdate, PoseOfLastUpdate
  <2>4. KeptStaysPosed' /\ KeptPoseIsCoherent'
    BY <1>1 DEF Update, PoseInv, KeptStaysPosed, KeptPoseIsCoherent
  <2> QED
    BY <2>2, <2>3, <2>4 DEF PoseInv
<1>2. ASSUME NEW i \in DOMAIN instances, Keep(i) PROVE PoseInv'
  <2>1. instances[i] \in Instances
    BY <1>2 DEF PoseInv, TypeOK
  <2>2. TypeOK'
    BY <1>2, <2>1 DEF Keep, PoseInv, TypeOK
  <2>3. KeptStaysPosed' /\ KeptPoseIsCoherent'
    <3>1. /\ kept'.instance = instances[i]
          /\ kept'.posed <=> returned /\ instances[i].pose # Nothing
      BY <1>2 DEF Keep
    <3>2. returned /\ instances[i].pose # Nothing =>
            instances[i].pose.landmarks = instances[i].pose.info
      BY DEF PoseInv, PoseOfLastUpdate
    <3> QED
      BY <3>1, <3>2 DEF KeptStaysPosed, KeptPoseIsCoherent, Coherent
  <2>4. LandmarksOfLastUpdate' /\ PoseOfLastUpdate'
    BY <1>2 DEF Keep, PoseInv, LandmarksOfLastUpdate, PoseOfLastUpdate
  <2> QED
    BY <2>2, <2>3, <2>4 DEF PoseInv
<1>3. ASSUME NEW instance, ReadPastEnd(instance) PROVE PoseInv'
  BY <1>3
  DEF ReadPastEnd, PoseInv, TypeOK, LandmarksOfLastUpdate, KeptStaysPosed, PoseOfLastUpdate,
      KeptPoseIsCoherent
<1>4. ASSUME NEW i \in DOMAIN instances,
             UNCHANGED <<parts, info, kept, returned, undefined>>,
             \/ instances' = [instances EXCEPT ![i] = WithPose(@)]
             \/ instances' = instances,
             view' = view \/ view' = Loaded(instances[i], "tracker")
      PROVE  PoseInv'
  <2>1. info \in Geometries /\ instances[i] \in Instances
    BY DEF PoseInv, TypeOK
  <2>2. /\ WithPose(instances[i]) \in Instances /\ WithPose(instances[i]).pose \in Poses
        /\ returned =>
             WithPose(instances[i]) = [landmarks |-> info,
                                       pose |-> [landmarks |-> info, info |-> info]]
    BY <2>1, WithPoseOfAny, WithPoseOfTracker
    DEF PoseInv, LandmarksOfLastUpdate, PoseOfLastUpdate
  <2>3. /\ instances' \in Seq(Instances) /\ Len(instances') = Len(instances)
        /\ DOMAIN instances' = DOMAIN instances
        /\ \A j \in DOMAIN instances :
             instances'[j] = instances[j] \/ instances'[j] = WithPose(instances[i])
    BY <1>4, <2>2 DEF PoseInv, TypeOK
  <2>4. LandmarksOfLastUpdate' /\ PoseOfLastUpdate'
    BY <1>4, <2>2, <2>3 DEF PoseInv, LandmarksOfLastUpdate, PoseOfLastUpdate
  <2>5. TypeOK'
    BY <1>4, <2>1, <2>2, <2>3 DEF PoseInv, TypeOK, Loaded
  <2>6. KeptStaysPosed' /\ KeptPoseIsCoherent'
    BY <1>4 DEF PoseInv, KeptStaysPosed, KeptPoseIsCoherent
  <2> QED
    BY <2>4, <2>5, <2>6 DEF PoseInv
<1>5. ASSUME NEW i \in DOMAIN instances, GetPose(i) \/ LoadPose(i) \/ DrawDebugPose(i)
      PROVE  PoseInv'
  <2>1. CASE ReadPastEnd(instances[i])
    BY <1>3, <2>1
  <2>2. CASE ~ReadPastEnd(instances[i])
    BY <1>4, <1>5, <2>2 DEF GetPose, LoadPose, DrawDebugPose
  <2> QED
    BY <2>1, <2>2
<1>6. ASSUME LoadKept PROVE PoseInv'
  <2>1. CASE ReadPastEnd(kept.instance)
    BY <1>3, <2>1
  <2>2. CASE ~ReadPastEnd(kept.instance)
    <3>1. /\ kept # Nothing
          /\ kept' = [kept EXCEPT !.instance = WithPose(@)]
          /\ view' = Loaded(kept.instance, "application")
          /\ UNCHANGED <<parts, info, instances, returned, undefined>>
      BY <1>6, <2>2 DEF LoadKept
    <3>2. kept \in [instance : Instances, posed : BOOLEAN] /\ info \in Geometries
      BY <3>1 DEF PoseInv, TypeOK
    <3>3. /\ WithPose(kept.instance) \in Instances
          /\ WithPose(kept.instance).pose \in Poses
          /\ kept.posed => WithPose(kept.instance) = kept.instance
      BY <3>1, <3>2, WithPoseOfAny DEF PoseInv, KeptStaysPosed
    <3>4. TypeOK'
      BY <3>1, <3>2, <3>3 DEF PoseInv, TypeOK, Loaded
    <3>5. LandmarksOfLastUpdate' /\ PoseOfLastUpdate'
      BY <3>1 DEF PoseInv, LandmarksOfLastUpdate, PoseOfLastUpdate
    <3>6. KeptStaysPosed' /\ KeptPoseIsCoherent'
      BY <3>1, <3>2, <3>3 DEF PoseInv, KeptStaysPosed, KeptPoseIsCoherent
    <3> QED
      BY <3>4, <3>5, <3>6 DEF PoseInv
  <2> QED
    BY <2>1, <2>2
<1>7. CASE UNCHANGED vars
  BY <1>7
  DEF vars, PoseInv, TypeOK, LandmarksOfLastUpdate, KeptStaysPosed, PoseOfLastUpdate,
      KeptPoseIsCoherent
<1>8. ASSUME NEW geometry \in Geometries, ThrowingUpdate(geometry) PROVE PoseInv'
  <2>1. info' \in Geometries /\ returned' = FALSE /\ geometry # Nothing
        /\ UNCHANGED <<parts, instances, kept, view, undefined>>
    BY <1>8 DEF ThrowingUpdate
  <2> QED
    BY <2>1
    DEF PoseInv, TypeOK, LandmarksOfLastUpdate, KeptStaysPosed, PoseOfLastUpdate,
        KeptPoseIsCoherent
<1> QED
  BY <1>1, <1>2, <1>5, <1>6, <1>7, <1>8 DEF Next, Stopped

-----------------------------------------------------------------------------
LEMMA PoseAlways == Spec => []PoseInv
  BY PoseInit, PoseStep, PTL DEF Spec

\* The types, and that loadPoseMatrix never loads a pose that was not calculated,
\* for any cameras, models and numbers of faces.
THEOREM PoseTypeCorrect == Spec => []TypeOK
<1>1. PoseInv => TypeOK
  BY DEF PoseInv
<1> QED
  BY <1>1, PoseAlways, PTL

\* After an update() that returned the pose cache of getInstances() is not stale,
\* however many threw before.
THEOREM PosesAreCurrent == Spec => []PoseOfLastUpdate
<1>1. PoseInv => PoseOfLastUpdate
  BY DEF PoseInv
<1> QED
  BY <1>1, PoseAlways, PTL

\* Until an update() throws, loadPoseMatrix loads pose and projection of one image
\* for the tracker's own instances and for copies used at once.
THEOREM PosesFitProjections == Spec => PoseFitsProjection
<1> DEFINE Fits ==
      returned /\ view' # view /\ view'.whose = "tracker" =>
        Coherent(view'.pose) /\ view'.pose.info = view'.projection
<1>1. PoseInv /\ [Next]_vars => [Fits]_vars
  <2> SUFFICES ASSUME PoseInv, Next, returned, view' # view, view'.whose = "tracker"
               PROVE  Coherent(view'.pose) /\ view'.pose.info = view'.projection
    OBVIOUS
  <2>1. PICK i \in DOMAIN instances : view' = Loaded(instances[i], "tracker")
    <3>1. ~LoadKept
      <4> SUFFICES ASSUME LoadKept PROVE FALSE
        OBVIOUS
      <4>1. view' = Loaded(kept.instance, "application")
        BY DEF LoadKept, ReadPastEnd
      <4>2. Loaded(kept.instance, "application").whose = "application"
        BY DEF Loaded
      <4> QED
        BY <4>1, <4>2
    <3> QED
      BY <3>1
      DEF Next, Update, ThrowingUpdate, Keep, GetPose, LoadPose, DrawDebugPose, ReadPastEnd,
          Stopped, vars
  <2>2. /\ info \in Geometries /\ instances[i] \in Instances
        /\ instances[i].landmarks = info
        /\ instances[i].pose # Nothing =>
             instances[i].pose = [landmarks |-> info, info |-> info]
    BY DEF PoseInv, TypeOK, LandmarksOfLastUpdate, PoseOfLastUpdate
  <2>3. WithPose(instances[i]).pose = [landmarks |-> info, info |-> info]
    BY <2>2, WithPoseOfTracker
  <2> QED
    BY <2>1, <2>3 DEF Loaded, Coherent
<1> QED
  BY <1>1, PoseAlways, PTL DEF Spec, PoseFitsProjection

\* A copy kept with its pose before an update() threw stays right whatever cameras
\* and exceptions follow.
THEOREM KeptPosesAreCoherent == Spec => []KeptPoseIsCoherent
<1>1. PoseInv => KeptPoseIsCoherent
  BY DEF PoseInv
<1> QED
  BY <1>1, PoseAlways, PTL
=============================================================================
