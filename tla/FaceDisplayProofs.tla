-------------------------- MODULE FaceDisplayProofs --------------------------
(***************************************************************************)
(* Whatever else the application does with the faces, their poses are used *)
(* as FacePose describes, and nothing is read beyond a model of 68         *)
(* landmarks.  drawDebug keeps its place among the instances and features. *)
(* Each of these is drawn once: the feature a landmark belongs to, and its *)
(* place there, are determined by the landmark (PlaceInFeature), so that   *)
(* the vertices drawn and the landmarks seen are equally many.             *)
(***************************************************************************)
EXTENDS FaceDisplay, FacePoseProofs, SequenceTheorems, FiniteSetTheorems

\* What drawDebug has drawn, in its own loops' order.
Lines == [points : Seq(Int), closed : BOOLEAN]

\* drawDebug is at one face of the instances there are and at one feature, has drawn
\* nine features of every face before it and none of those after it.
DrawingInPlace == Drawing!TypeOK

DrawnInv == step = "feature" => drawn \in Seq(Seq(Lines))

DisplayInv == PoseInv /\ DrawingInPlace /\ DrawnInv /\ DefinedFor68

-----------------------------------------------------------------------------
(* The table of features *)

\* A function on 1 .. n is a sequence of that length.
LEMMA FunctionIsSequence ==
  ASSUME NEW S, NEW n \in Nat, NEW s \in [1 .. n -> S]
  PROVE  s \in Seq(S) /\ Len(s) = n
  OBVIOUS

\* consecutive(start, end) stays before its end.
LEMMA ConsecutiveBounds ==
  ASSUME NEW start \in Nat, NEW end \in Nat, start <= end
  PROVE  /\ Drawing!Consecutive(start, end) \in Seq(Int)
         /\ \A i \in DOMAIN Drawing!Consecutive(start, end) :
              Drawing!Consecutive(start, end)[i] \in start .. end - 1
  <1>1. end - start \in Nat
    OBVIOUS
  <1>2. Drawing!Consecutive(start, end) \in [1 .. end - start -> Int]
    BY DEF Drawing!Consecutive
  <1>3. Drawing!Consecutive(start, end) \in Seq(Int)
    BY <1>1, <1>2
  <1>4. \A i \in 1 .. end - start : start + i - 1 \in start .. end - 1
    BY <1>1
  <1> QED
    BY <1>3, <1>4 DEF Drawing!Consecutive

\* No feature has an index that 68 landmarks do not have.
LEMMA FeatureBounds ==
  ASSUME NEW f \in Drawing!Features
  PROVE  /\ Drawing!FeatureIndices(f) \in Seq(Int)
         /\ \A i \in DOMAIN Drawing!FeatureIndices(f) :
              Drawing!FeatureIndices(f)[i] \in 0 .. 67
  <1>1. ASSUME NEW start \in Nat, NEW end \in Nat, start <= end, end <= 68,
               Drawing!FeatureIndices(f) = Drawing!Consecutive(start, end)
        PROVE  /\ Drawing!FeatureIndices(f) \in Seq(Int)
               /\ \A i \in DOMAIN Drawing!FeatureIndices(f) :
                    Drawing!FeatureIndices(f)[i] \in 0 .. 67
    <2>1. \A k \in start .. end - 1 : k \in 0 .. 67
      BY <1>1
    <2> QED
      BY <1>1, <2>1, ConsecutiveBounds, Zenon
  <1>2. CASE f = "FACE_OUTLINE"
    <2>1. Drawing!FeatureIndices(f) = Drawing!FaceOutline
      BY <1>2 DEF Drawing!FeatureIndices
    <2>2. Drawing!FaceOutline \in [1 .. 27 -> 0 .. 67]
      BY DEF Drawing!FaceOutline
    <2>3. Drawing!FaceOutline \in [1 .. 27 -> Int] /\ 27 \in Nat
      BY <2>2
    <2>4. Drawing!FaceOutline \in Seq(Int)
      BY <2>3, FunctionIsSequence
    <2> QED
      BY <2>1, <2>2, <2>4
  <1>3. CASE f # "FACE_OUTLINE"
    <2>1. \E start \in Nat, end \in Nat :
            /\ start <= end /\ end <= 68
            /\ Drawing!FeatureIndices(f) = Drawing!Consecutive(start, end)
      BY <1>3 DEF Drawing!Features, Drawing!FeatureIndices
    <2> QED
      BY <2>1, <1>1
  <1> QED
    BY <1>2, <1>3

\* With 68 landmarks every feature can be had, and the pose.
LEMMA EnoughLandmarks ==
  ASSUME parts \in Nat, parts >= 68
  PROVE  /\ \A f \in Drawing!Features : Drawing!HasFeature(f)
         /\ \A instance : Readable(instance)
  <1>1. ASSUME NEW f \in Drawing!Features PROVE Drawing!HasFeature(f)
    <2>1. \A k \in 0 .. 67 : k < parts
      OBVIOUS
    <2> QED
      BY <2>1, FeatureBounds DEF Drawing!HasFeature
  <1>2. \A i \in PosePoints : i < parts
    BY DEF PosePoints
  <1> QED
    BY <1>1, <1>2 DEF Readable

\* drawDebug's features are features.
LEMMA DebugFeaturesAreFeatures ==
  /\ Len(Drawing!DebugFeatures) = 9 /\ DOMAIN Drawing!DebugFeatures = 1 .. 9
  /\ \A k \in 1 .. 9 : Drawing!DebugFeatures[k] \in Drawing!Features
  <1>1. Len(Drawing!DebugFeatures) = 9 /\ DOMAIN Drawing!DebugFeatures = 1 .. 9
    BY DEF Drawing!DebugFeatures
  <1>2. ASSUME NEW k \in 1 .. 9 PROVE Drawing!DebugFeatures[k] \in Drawing!Features
    <2>1. \/ k = 1 \/ k = 2 \/ k = 3 \/ k = 4 \/ k = 5 \/ k = 6 \/ k = 7 \/ k = 8 \/ k = 9
      OBVIOUS
    <2> QED
      BY <2>1 DEF Drawing!DebugFeatures, Drawing!Features
  <1> QED
    BY <1>1, <1>2

\* The smile example asks for features, and they have the 20 points it takes.
LEMMA SampleIsComplete ==
  /\ SampleFeatures \subseteq Drawing!Features
  /\ Len(MouthPoints) = 20
  <1>1. SampleFeatures \subseteq Drawing!Features
    BY DEF SampleFeatures, Drawing!Features
  <1>2. /\ Drawing!FeatureIndices("OUTER_MOUTH") = Drawing!Consecutive(48, 60)
        /\ Drawing!FeatureIndices("INNER_MOUTH") = Drawing!Consecutive(60, 68)
    BY DEF Drawing!FeatureIndices
  <1>3. /\ Drawing!Consecutive(48, 60) \in Seq(Int) /\ Len(Drawing!Consecutive(48, 60)) = 12
        /\ Drawing!Consecutive(60, 68) \in Seq(Int) /\ Len(Drawing!Consecutive(60, 68)) = 8
    <2>1. /\ DOMAIN Drawing!Consecutive(48, 60) = 1 .. 12
          /\ DOMAIN Drawing!Consecutive(60, 68) = 1 .. 8
      BY DEF Drawing!Consecutive
    <2>2. /\ Drawing!Consecutive(48, 60) \in Seq(Int)
          /\ Drawing!Consecutive(60, 68) \in Seq(Int)
      BY ConsecutiveBounds
    <2> QED
      BY <2>1, <2>2, LenProperties
  <1>4. \A a, b \in Seq(Int) : Len(a \o b) = Len(a) + Len(b)
    BY ConcatProperties
  <1>5. MouthPoints = Drawing!Consecutive(48, 60) \o Drawing!Consecutive(60, 68)
    BY <1>2, Zenon DEF MouthPoints
  <1>6. Len(Drawing!Consecutive(48, 60) \o Drawing!Consecutive(60, 68))
          = Len(Drawing!Consecutive(48, 60)) + Len(Drawing!Consecutive(60, 68))
    BY <1>3, <1>4, Zenon
  <1>7. Len(MouthPoints) = 12 + 8
    BY <1>3, <1>5, <1>6, Zenon
  <1> QED
    BY <1>1, <1>7

-----------------------------------------------------------------------------
(* The steps *)

\* A step of the application is a step of FacePose or leaves the poses alone.
LEMMA DisplayRunsPoses == [DisplayNext]_displayVars => [Next]_vars
  <1> SUFFICES ASSUME [DisplayNext]_displayVars PROVE [Next]_vars
    OBVIOUS
  <1>1. ASSUME NEW geometry \in Geometries, NEW faces \in 0 .. MaxFaces,
               NewImage(geometry, faces)
        PROVE  Next
    BY <1>1 DEF NewImage, Next
  <1>6. ASSUME NEW geometry \in Geometries, RefusedImage(geometry) PROVE Next
    BY <1>6 DEF RefusedImage, Next
  <1>2. ASSUME NEW i \in DOMAIN instances, UseInstance(i) PROVE Next
    BY <1>2 DEF UseInstance, Next
  <1>3. CASE UseKept
    BY <1>3 DEF UseKept, Next
  <1>4. CASE Draw \/ (\E f \in Drawing!Features : GetFeature(f)) \/ MakeSample
    BY <1>4 DEF Draw, GetFeature, MakeSample
  <1>5. CASE Over \/ UNCHANGED displayVars
    BY <1>5 DEF Over, displayVars
  <1> QED
    BY <1>1, <1>2, <1>3, <1>4, <1>5, <1>6 DEF DisplayNext

\* What the other calls leave of drawDebug's place while it is not under way.
LEMMA IdleStep ==
  ASSUME DisplayInv, PoseInv', step' # "feature",
         parts' = parts, face' = face, feature' \in DOMAIN Drawing!DebugFeatures,
         step' \in {"idle", "undefined"}
  PROVE  DrawingInPlace' /\ DrawnInv'
  <1>1. Len(instances') \in 0 .. MaxFaces
    BY FacePoseAssumption, LenProperties DEF PoseInv, TypeOK
  <1> QED
    BY <1>1 DEF DisplayInv, DrawingInPlace, Drawing!TypeOK, DrawnInv

\* Appending to one of a sequence's sequences leaves the others as they are.
LEMMA AppendAt ==
  ASSUME NEW S, NEW s \in Seq(Seq(S)), NEW k \in 1 .. Len(s), NEW e \in S,
         NEW t, t = [s EXCEPT ![k] = Append(@, e)]
  PROVE  /\ t \in Seq(Seq(S)) /\ Len(t) = Len(s) /\ DOMAIN t = 1 .. Len(s)
         /\ t[k] = Append(s[k], e) /\ Len(t[k]) = Len(s[k]) + 1
         /\ \A i \in 1 .. Len(s) : i # k => t[i] = s[i]
  <1>1. s[k] \in Seq(S)
    BY ElementOfSeq
  <1>2. Append(s[k], e) \in Seq(S) /\ Len(Append(s[k], e)) = Len(s[k]) + 1
    BY <1>1, AppendProperties
  <1>3. t = [s EXCEPT ![k] = Append(s[k], e)]
    OBVIOUS
  <1>4. t \in Seq(Seq(S)) /\ Len(t) = Len(s)
    BY <1>2, <1>3, ExceptSeq
  <1>5. DOMAIN s = 1 .. Len(s) /\ DOMAIN t = 1 .. Len(s)
    BY <1>4, LenProperties
  <1>6. t[k] = Append(s[k], e) /\ \A i \in 1 .. Len(s) : i # k => t[i] = s[i]
    BY <1>3, <1>5
  <1> QED
    BY <1>2, <1>4, <1>5, <1>6

\* A feature is drawn at the end of the polylines of the face it belongs to.
LEMMA DrawStep ==
  ASSUME DisplayInv, PoseInv', UNCHANGED vars, Drawing!DrawFeature
  PROVE  DrawingInPlace' /\ DrawnInv'
  <1> DEFINE n == Len(instances)
             f == Drawing!DebugFeatures[feature]
             line == [points |-> Drawing!FeatureIndices(f), closed |-> f \in Drawing!Closed]
             size(i) == IF i < face THEN 9 ELSE IF i = face THEN feature - 1 ELSE 0
  <1>1. /\ step = "feature" /\ parts' = parts /\ instances' = instances
        /\ parts \in Models /\ n \in 0 .. MaxFaces
        /\ face \in Nat \ {0} /\ feature \in 1 .. 9
        /\ face <= n /\ Len(drawn) = n /\ drawn \in Seq(Seq(Lines))
        /\ \A i \in DOMAIN drawn : Len(drawn[i]) = size(i)
    BY DebugFeaturesAreFeatures
    DEF DisplayInv, DrawingInPlace, DrawnInv, Drawing!TypeOK, Drawing!DrawFeature, vars
  <1>2. n \in Nat /\ MaxFaces \in Nat /\ DOMAIN drawn = 1 .. n /\ face \in 1 .. n
    BY <1>1, LenProperties, FacePoseAssumption
  <1>3. CASE ~Drawing!HasFeature(f)
    <2>1. step' = "undefined" /\ face' = face /\ feature' = feature
      BY <1>3 DEF Drawing!DrawFeature
    <2> QED
      BY <1>1, <2>1, IdleStep, DebugFeaturesAreFeatures
  <1>4. CASE Drawing!HasFeature(f)
    <2>1. /\ drawn' = [drawn EXCEPT ![face] = Append(@, line)]
          /\ Drawing!NextFeature
      BY <1>4 DEF Drawing!DrawFeature
    <2>2. line \in Lines
      <3>1. f \in Drawing!Features
        BY <1>1, DebugFeaturesAreFeatures
      <3> QED
        BY <3>1, FeatureBounds DEF Lines
    <2>3. n' = n
      BY <1>1
    <2> HIDE DEF line, f, n
    <2>4. /\ drawn' \in Seq(Seq(Lines)) /\ Len(drawn') = n /\ DOMAIN drawn' = 1 .. n
          /\ Len(drawn'[face]) = Len(drawn[face]) + 1
          /\ \A i \in 1 .. n : i # face => drawn'[i] = drawn[i]
      BY <1>1, <1>2, <2>1, <2>2, AppendAt
    <2>5. \A i \in 1 .. n : Len(drawn'[i]) = IF i = face THEN feature ELSE size(i)
      <3>1. Len(drawn[face]) = feature - 1
        <4>1. Len(drawn[face]) = size(face)
          BY <1>1, <1>2, Zenon
        <4>2. size(face) = feature - 1
          BY <1>1
        <4> QED
          BY <4>1, <4>2
      <3>2. Len(drawn'[face]) = feature
        BY <1>1, <2>4, <3>1
      <3>3. ASSUME NEW i \in 1 .. n, i # face PROVE Len(drawn'[i]) = size(i)
        <4>1. drawn'[i] = drawn[i]
          BY <2>4, <3>3
        <4>2. Len(drawn[i]) = size(i)
          BY <1>1, <1>2
        <4> QED
          BY <4>1, <4>2
      <3> QED
        BY <3>2, <3>3
    <2>6. DrawnInv'
      BY <2>4 DEF DrawnInv
    <2>7. ASSUME feature' \in 1 .. 9, face' \in 1 .. n, step' = "feature",
                 \A i \in 1 .. n :
                   Len(drawn'[i]) =
                     IF i < face' THEN 9 ELSE IF i = face' THEN feature' - 1 ELSE 0
          PROVE  DrawingInPlace'
      <3>1. parts' \in Models /\ n' \in 0 .. MaxFaces
        BY <1>1, <2>3
      <3>2. face' \in Nat \ {0} /\ face' <= n' /\ Len(drawn') = n'
        BY <1>2, <2>3, <2>4, <2>7
      <3>3. feature' \in DOMAIN Drawing!DebugFeatures
        BY <2>7, DebugFeaturesAreFeatures
      <3>4. \A i \in DOMAIN drawn' :
              Len(drawn'[i]) = IF i < face' THEN Len(Drawing!DebugFeatures)
                               ELSE IF i = face' THEN feature' - 1 ELSE 0
        BY <2>4, <2>7, DebugFeaturesAreFeatures
      <3>5. (instances = << >>)' \in BOOLEAN
        OBVIOUS
      <3> QED
        BY <2>7, <3>1, <3>2, <3>3, <3>4, <3>5 DEF DrawingInPlace, Drawing!TypeOK, n
    <2>8. CASE feature < 9
      <3>1. feature' = feature + 1 /\ face' = face /\ step' = step
        BY <2>1, <2>8, DebugFeaturesAreFeatures DEF Drawing!NextFeature
      <3>2. feature' \in 1 .. 9 /\ feature' - 1 = feature
        BY <1>1, <2>8, <3>1
      <3>3. \A i \in 1 .. n :
              Len(drawn'[i]) =
                IF i < face' THEN 9 ELSE IF i = face' THEN feature' - 1 ELSE 0
        <4> TAKE i \in 1 .. n
        <4>1. Len(drawn'[i]) = IF i = face THEN feature ELSE size(i)
          BY <2>5
        <4>2. face \in Int /\ i \in Int
          BY <1>1, <1>2
        <4> QED
          BY <3>1, <3>2, <4>1, <4>2
      <3> QED
        BY <1>1, <1>2, <2>6, <2>7, <3>1, <3>2, <3>3
    <2>9. CASE feature = 9 /\ face < n
      <3>1. feature' = 1 /\ face' = face + 1 /\ step' = step
        BY <2>1, <2>9, DebugFeaturesAreFeatures DEF Drawing!NextFeature, n
      <3>2. face' \in 1 .. n
        BY <1>1, <1>2, <2>9, <3>1
      <3>3. \A i \in 1 .. n :
              Len(drawn'[i]) =
                IF i < face' THEN 9 ELSE IF i = face' THEN feature' - 1 ELSE 0
        <4> TAKE i \in 1 .. n
        <4>1. Len(drawn'[i]) = IF i = face THEN 9 ELSE size(i)
          BY <2>5, <2>9
        <4>2. face \in Int /\ i \in Int /\ n \in Nat
          BY <1>1, <1>2
        <4> QED
          BY <3>1, <4>1, <4>2
      <3> QED
        BY <1>1, <2>6, <2>7, <3>1, <3>2, <3>3
    <2>10. CASE feature = 9 /\ ~(face < n)
      <3>1. feature' = 1 /\ face' = face /\ step' = "idle"
        BY <2>1, <2>10, DebugFeaturesAreFeatures DEF Drawing!NextFeature, n
      <3> QED
        BY <1>1, <3>1, IdleStep, DebugFeaturesAreFeatures
    <2>11. feature < 9 \/ feature = 9
      BY <1>1
    <2> QED
      BY <2>8, <2>9, <2>10, <2>11
  <1> QED
    BY <1>3, <1>4

\* drawDebug starts at the first face, with nothing drawn of any.
LEMMA DrawStart ==
  ASSUME DisplayInv, PoseInv', UNCHANGED vars, Drawing!DrawDebug
  PROVE  DrawingInPlace' /\ DrawnInv'
  <1> DEFINE n == Len(instances)
  <1>1. /\ parts' = parts /\ instances' = instances /\ parts \in Models
        /\ instances \in Seq(Instances) /\ instances # << >>
        /\ face' = 1 /\ feature' = 1 /\ step' = "feature"
        /\ drawn' = [i \in 1 .. n |-> << >>]
    BY DEF DisplayInv, PoseInv, TypeOK, Drawing!DrawDebug, vars
  <1>2. n \in 0 .. MaxFaces /\ MaxFaces \in Nat /\ 1 <= n
    <2>1. n <= MaxFaces
      BY DEF DisplayInv, PoseInv, TypeOK
    <2>2. n \in Nat /\ n # 0
      BY <1>1, LenProperties, EmptySeq
    <2> QED
      BY <2>1, <2>2, FacePoseAssumption
  <1> HIDE DEF n
  <1>3. drawn' \in [1 .. n -> Seq(Lines)] /\ n \in Nat
    BY <1>1, <1>2
  <1>4. drawn' \in Seq(Seq(Lines)) /\ Len(drawn') = n
    BY <1>3, FunctionIsSequence
  <1>5. DrawnInv'
    BY <1>4 DEF DrawnInv
  <1>6. DrawingInPlace'
    <2>1. \A i \in DOMAIN drawn' : Len(drawn'[i]) = 0 /\ i \in 1 .. n
      BY <1>1
    <2>2. \A i \in DOMAIN drawn' :
            Len(drawn'[i]) = IF i < face' THEN Len(Drawing!DebugFeatures)
                             ELSE IF i = face' THEN feature' - 1 ELSE 0
      BY <1>1, <1>2, <2>1
    <2>3. face' \in Nat \ {0} /\ feature' \in DOMAIN Drawing!DebugFeatures
      BY <1>1, DebugFeaturesAreFeatures
    <2>4. n' = n
      BY <1>1 DEF n
    <2> QED
      BY <1>1, <1>2, <1>4, <2>2, <2>3, <2>4 DEF DrawingInPlace, Drawing!TypeOK, n
  <1> QED
    BY <1>5, <1>6

\* What is not drawDebug's own step leaves its place where it is, or starts it.
LEMMA DisplayStep == DisplayInv /\ [DisplayNext]_displayVars => DisplayInv'
  <1> SUFFICES ASSUME DisplayInv, [DisplayNext]_displayVars PROVE DisplayInv'
    OBVIOUS
  <1>1. PoseInv'
    BY DisplayRunsPoses, PoseStep DEF DisplayInv
  <1>2. /\ parts \in Models /\ face \in Nat \ {0}
        /\ feature \in DOMAIN Drawing!DebugFeatures
        /\ step \in {"idle", "feature", "undefined"}
    BY DEF DisplayInv, DrawingInPlace, Drawing!TypeOK
  <1>3. parts \in Nat
    BY <1>2, FacePoseAssumption
  <1>4. DrawingInPlace' /\ DrawnInv'
    <2>1. CASE \E geometry \in Geometries, faces \in 0 .. MaxFaces : NewImage(geometry, faces)
      BY <1>1, <1>2, <2>1, IdleStep DEF NewImage, Drawing!Update
    <2>2. CASE \/ \E geometry \in Geometries : RefusedImage(geometry)
               \/ \E i \in DOMAIN instances : UseInstance(i)
               \/ UseKept
      <3>1. step = "idle" /\ UNCHANGED drawingVars
        BY <2>2 DEF RefusedImage, UseInstance, UseKept
      <3>2. parts' = parts
        <4>1. [Next]_vars
          BY DisplayRunsPoses
        <4> QED
          BY <4>1 DEF Next, vars, Update, ThrowingUpdate, Keep, GetPose, LoadPose,
                      DrawDebugPose, LoadKept, ReadPastEnd, Stopped
      <3> QED
        BY <1>1, <1>2, <3>1, <3>2, IdleStep DEF drawingVars
    <2>3. CASE Draw
      <3>1. CASE Drawing!DrawFeature
        BY <1>1, <2>3, <3>1, DrawStep DEF Draw
      <3>2. CASE Drawing!DrawDebug
        BY <1>1, <2>3, <3>2, DrawStart DEF Draw
      <3> QED
        BY <2>3, <3>1, <3>2 DEF Draw
    <2>4. CASE (\E f \in Drawing!Features : GetFeature(f)) \/ MakeSample
      <3>1. /\ parts' = parts /\ face' = face /\ feature' = feature
            /\ step' \in {"idle", "undefined"}
        BY <2>4 DEF GetFeature, MakeSample, Drawing!GetFeature, vars
      <3> QED
        BY <1>1, <1>2, <3>1, IdleStep
    <2>5. CASE Over \/ UNCHANGED displayVars
      <3>1. UNCHANGED <<parts, instances, face, feature, drawn, step>>
        BY <2>5 DEF Over, displayVars, drawingVars, vars
      <3> QED
        BY <3>1 DEF DisplayInv, DrawingInPlace, DrawnInv, Drawing!TypeOK
    <2> QED
      BY <2>1, <2>2, <2>3, <2>4, <2>5 DEF DisplayNext
  <1>5. DefinedFor68'
    <2>1. parts' = parts
      <3>1. [Next]_vars
        BY DisplayRunsPoses
      <3> QED
        BY <3>1 DEF Next, vars, Update, ThrowingUpdate, Keep, GetPose, LoadPose,
                    DrawDebugPose, LoadKept, ReadPastEnd, Stopped
    <2>2. ASSUME parts >= 68 PROVE undefined' = undefined
      <3>1. \A instance : Readable(instance)
        BY <1>3, <2>2, EnoughLandmarks
      <3>2. [Next]_vars
        BY DisplayRunsPoses
      <3> QED
        BY <3>1, <3>2 DEF Next, vars, Update, ThrowingUpdate, Keep, GetPose, LoadPose,
                    DrawDebugPose, LoadKept, ReadPastEnd, Stopped
    <2>3. ASSUME parts >= 68, step # "undefined" PROVE step' # "undefined"
      <3>1. /\ \A f \in Drawing!Features : Drawing!HasFeature(f)
            /\ \A f \in SampleFeatures : Drawing!HasFeature(f)
            /\ Len(MouthPoints) >= 20
        BY <1>3, <2>3, EnoughLandmarks, SampleIsComplete
      <3>2. CASE Draw
        <4>1. Drawing!DebugFeatures[feature] \in Drawing!Features
          BY <1>2, DebugFeaturesAreFeatures
        <4> QED
          BY <2>3, <3>1, <3>2, <4>1
          DEF Draw, Drawing!DrawDebug, Drawing!DrawFeature, Drawing!NextFeature
      <3>3. CASE (\E f \in Drawing!Features : GetFeature(f)) \/ MakeSample
        BY <2>3, <3>1, <3>3 DEF GetFeature, MakeSample, Drawing!GetFeature
      <3>4. CASE ~Draw /\ ~(\E f \in Drawing!Features : GetFeature(f)) /\ ~MakeSample
        BY <2>3, <3>4 DEF DisplayNext, NewImage, Drawing!Update, RefusedImage, UseInstance,
                     UseKept, Over, drawingVars, displayVars
      <3> QED
        BY <3>2, <3>3, <3>4
    <2> QED
      BY <1>3, <2>1, <2>2, <2>3 DEF DisplayInv, DefinedFor68
  <1> QED
    BY <1>1, <1>4, <1>5 DEF DisplayInv

LEMMA DisplayStart == DisplayInit => DisplayInv
  <1> SUFFICES ASSUME DisplayInit PROVE DisplayInv
    OBVIOUS
  <1>1. PoseInv
    BY PoseInit DEF DisplayInit
  <1>2. Len(instances) \in 0 .. MaxFaces
    BY <1>1, FacePoseAssumption, LenProperties DEF PoseInv, TypeOK
  <1>3. DrawingInPlace /\ DrawnInv
    BY <1>2, DebugFeaturesAreFeatures
    DEF DisplayInit, Init, Drawing!Init, DrawingInPlace, Drawing!TypeOK, DrawnInv
  <1>4. DefinedFor68
    BY DEF DisplayInit, Init, Drawing!Init, DefinedFor68
  <1> QED
    BY <1>1, <1>3, <1>4 DEF DisplayInv

LEMMA DisplayAlways == DisplaySpec => []DisplayInv
  BY DisplayStart, DisplayStep, PTL DEF DisplaySpec

-----------------------------------------------------------------------------
(* Theorems *)

\* What FacePose proves of the poses holds whatever is drawn between.
THEOREM DisplayImplementsPoses == DisplaySpec => Spec
  <1>1. DisplayInit => Init
    BY DEF DisplayInit
  <1> QED
    BY <1>1, DisplayRunsPoses, PTL DEF DisplaySpec, Spec

\* No feature, pose or sample reads past the landmarks of a model that has 68.
THEOREM EnoughFor68 == DisplaySpec => []DefinedFor68
  <1>1. DisplayInv => DefinedFor68
    BY DEF DisplayInv
  <1> QED
    BY <1>1, DisplayAlways, PTL

-----------------------------------------------------------------------------
(* Which landmarks are drawn *)

\* Where the indices of drawDebug's features begin, and where they end.
First == <<36, 42, 17, 22, 27, 31, 60, 48, 0>>
Past  == <<42, 48, 22, 27, 31, 36, 68, 60, 17>>

\* The features are of consecutive landmarks, no landmark is in two, each is in one.
LEMMA FeaturesSplitLandmarks ==
  /\ \A p \in 1 .. 9 :
       /\ First[p] \in 0 .. 67 /\ Past[p] \in 1 .. 68 /\ First[p] < Past[p]
       /\ Drawing!FeatureIndices(Drawing!DebugFeatures[p])
            = Drawing!Consecutive(First[p], Past[p])
  /\ \A p, q \in 1 .. 9 : p # q => Past[p] <= First[q] \/ Past[q] <= First[p]
  /\ \A k \in 0 .. 67 : \E p \in 1 .. 9 : k \in First[p] .. Past[p] - 1
  <1> DEFINE Is(p) == /\ First[p] \in 0 .. 67 /\ Past[p] \in 1 .. 68 /\ First[p] < Past[p]
                      /\ Drawing!FeatureIndices(Drawing!DebugFeatures[p])
                           = Drawing!Consecutive(First[p], Past[p])
  <1>1. /\ First[1] = 36 /\ First[2] = 42 /\ First[3] = 17 /\ First[4] = 22 /\ First[5] = 27
        /\ First[6] = 31 /\ First[7] = 60 /\ First[8] = 48 /\ First[9] = 0
        /\ Past[1] = 42 /\ Past[2] = 48 /\ Past[3] = 22 /\ Past[4] = 27 /\ Past[5] = 31
        /\ Past[6] = 36 /\ Past[7] = 68 /\ Past[8] = 60 /\ Past[9] = 17
    BY DEF First, Past
  <1>2. \A p \in 1 .. 9 : \/ p = 1 \/ p = 2 \/ p = 3 \/ p = 4 \/ p = 5
                          \/ p = 6 \/ p = 7 \/ p = 8 \/ p = 9
    OBVIOUS
  <1>3. Is(1) /\ Is(2) /\ Is(3) /\ Is(4) /\ Is(5)
    BY <1>1 DEF Drawing!DebugFeatures, Drawing!FeatureIndices
  <1>4. Is(6) /\ Is(7) /\ Is(8) /\ Is(9)
    BY <1>1 DEF Drawing!DebugFeatures, Drawing!FeatureIndices
  <1>5. \A p \in 1 .. 9 : Is(p)
    <2> HIDE DEF Is
    <2> QED
      BY <1>2, <1>3, <1>4, Zenon
  <1>6. ASSUME NEW p \in 1 .. 9, NEW q \in 1 .. 9, p # q
        PROVE  Past[p] <= First[q] \/ Past[q] <= First[p]
    BY <1>1, <1>2, <1>6
  <1>7. ASSUME NEW k \in 0 .. 67 PROVE \E p \in 1 .. 9 : k \in First[p] .. Past[p] - 1
    <2>1. \/ k \in 36 .. 41 \/ k \in 42 .. 47 \/ k \in 17 .. 21 \/ k \in 22 .. 26
          \/ k \in 27 .. 30 \/ k \in 31 .. 35 \/ k \in 60 .. 67 \/ k \in 48 .. 59
          \/ k \in 0 .. 16
      OBVIOUS
    <2>2. \E p \in {1, 2, 3, 4, 5, 6, 7, 8, 9} : k \in First[p] .. Past[p] - 1
      BY <1>1, <2>1
    <2> QED
      BY <2>2
  <1> QED
    BY <1>5, <1>6, <1>7

\* Where the i-th of a feature's landmarks is.
LEMMA WithinFeature ==
  ASSUME NEW first \in 0 .. 67, NEW past \in 1 .. 68, first < past,
         NEW i \in 1 .. past - first
  PROVE  /\ first + i - 1 \in 0 .. 67 /\ i \in Int
         /\ first + i - 1 < past /\ first <= first + i - 1
  OBVIOUS

LEMMA PlaceInFeature ==
  ASSUME NEW first \in 0 .. 67, NEW past \in 1 .. 68, NEW k \in first .. past - 1
  PROVE  k - first + 1 \in 1 .. past - first /\ first + (k - first + 1) - 1 = k
  OBVIOUS

\* The lines of a face, while drawDebug is at it or once it is done with it.
InTableOrder(lines) ==
  /\ lines \in Seq(Lines) /\ Len(lines) <= 9
  /\ \A p \in 1 .. Len(lines) :
       lines[p].points = Drawing!FeatureIndices(Drawing!DebugFeatures[p])

\* LandmarkDrawing counts with the Cardinality that FiniteSetTheorems is about.
LEMMA SameCardinality == \A S : Drawing!Cardinality(S) = Cardinality(S)
  BY Zenon DEF Drawing!Cardinality, Cardinality

\* They are at different landmarks, and after the last feature at all of them.
LEMMA LinesSplitLandmarks ==
  ASSUME NEW lines, InTableOrder(lines)
  PROVE  /\ Drawing!Cardinality(Drawing!Vertices(lines))
              = Drawing!Cardinality(Drawing!Landmarks(lines))
         /\ Len(lines) = 9 => Drawing!Landmarks(lines) = 0 .. 67
  <1> DEFINE n == Len(lines)
             V == Drawing!Vertices(lines)
             L == Drawing!Landmarks(lines)
             at == [v \in V |-> lines[v[1]].points[v[2]]]
  <1>1. n \in Nat /\ n <= 9 /\ DOMAIN lines = 1 .. n
    BY LenProperties DEF InTableOrder
  <1>2. ASSUME NEW p \in 1 .. n
        PROVE  /\ p \in 1 .. 9
               /\ First[p] \in 0 .. 67 /\ Past[p] \in 1 .. 68 /\ First[p] < Past[p]
               /\ DOMAIN lines[p].points = 1 .. Past[p] - First[p]
               /\ \A i \in 1 .. Past[p] - First[p] : lines[p].points[i] = First[p] + i - 1
    <2>1. p \in 1 .. 9
      BY <1>1
    <2>2. lines[p].points = Drawing!Consecutive(First[p], Past[p])
      BY <2>1, FeaturesSplitLandmarks DEF InTableOrder
    <2> QED
      BY <2>1, <2>2, FeaturesSplitLandmarks DEF Drawing!Consecutive
  <1>3. \A v : v \in V <=> \E p \in 1 .. n : \E i \in 1 .. Past[p] - First[p] : v = <<p, i>>
    <2>1. \A v : v \in V <=>
            \E p \in DOMAIN lines : \E i \in DOMAIN lines[p].points : v = <<p, i>>
      BY DEF Drawing!Vertices
    <2> HIDE DEF V, n
    <2> QED
      BY <1>1, <1>2, <2>1
  <1>4. L = {at[v] : v \in V}
    BY DEF Drawing!Landmarks
  <1> HIDE DEF V, L, n
  <1>5. ASSUME NEW p \in 1 .. n, NEW i \in 1 .. Past[p] - First[p]
        PROVE  <<p, i>> \in V /\ at[<<p, i>>] = First[p] + i - 1
    BY <1>2, <1>3
  <1> HIDE DEF at
  <1>6. L \subseteq 0 .. 67
    <2> SUFFICES ASSUME NEW v \in V PROVE at[v] \in 0 .. 67
      BY <1>4
    <2>1. PICK p \in 1 .. n : \E i \in 1 .. Past[p] - First[p] : v = <<p, i>>
      BY <1>3
    <2>2. PICK i \in 1 .. Past[p] - First[p] : v = <<p, i>>
      BY <2>1
    <2>3. First[p] + i - 1 \in 0 .. 67
      BY <1>2, WithinFeature
    <2> QED
      BY <1>5, <2>2, <2>3
  <1>7. ASSUME NEW v \in V, NEW w \in V, at[v] = at[w] PROVE v = w
    <2>1. PICK p \in 1 .. n : \E i \in 1 .. Past[p] - First[p] : v = <<p, i>>
      BY <1>3
    <2>2. PICK i \in 1 .. Past[p] - First[p] : v = <<p, i>>
      BY <2>1
    <2>3. PICK q \in 1 .. n : \E j \in 1 .. Past[q] - First[q] : w = <<q, j>>
      BY <1>3
    <2>4. PICK j \in 1 .. Past[q] - First[q] : w = <<q, j>>
      BY <2>3
    <2>5. First[p] + i - 1 = First[q] + j - 1
      BY <1>5, <1>7, <2>2, <2>4
    <2>6. p \in 1 .. 9 /\ q \in 1 .. 9
      BY <1>2
    <2>7. /\ First[p] \in Int /\ First[q] \in Int /\ Past[p] \in Int /\ Past[q] \in Int
          /\ i \in Int /\ j \in Int
          /\ First[p] + i - 1 < Past[p] /\ First[q] + j - 1 < Past[q]
          /\ First[p] <= First[p] + i - 1 /\ First[q] <= First[q] + j - 1
      <3>1. /\ First[p] \in 0 .. 67 /\ Past[p] \in 1 .. 68 /\ First[p] < Past[p]
            /\ First[q] \in 0 .. 67 /\ Past[q] \in 1 .. 68 /\ First[q] < Past[q]
        BY <1>2
      <3>2. /\ i \in Int /\ First[p] + i - 1 < Past[p] /\ First[p] <= First[p] + i - 1
            /\ j \in Int /\ First[q] + j - 1 < Past[q] /\ First[q] <= First[q] + j - 1
        BY <3>1, WithinFeature
      <3> QED
        BY <3>1, <3>2
    <2>8. p = q
      <3> SUFFICES ASSUME p # q PROVE FALSE
        OBVIOUS
      <3>1. Past[p] <= First[q] \/ Past[q] <= First[p]
        BY <2>6, FeaturesSplitLandmarks, Zenon
      <3> QED
        BY <2>5, <2>7, <3>1
    <2> QED
      BY <2>2, <2>4, <2>5, <2>7, <2>8
  <1>8. at \in Injection(V, L) /\ at \in Surjection(V, L)
    <2>1. at \in [V -> L]
      BY <1>4 DEF at
    <2> QED
      BY <1>4, <1>7, <2>1 DEF Injection, IsInjective, Surjection
  <1>9. IsFiniteSet(L)
    <2>1. 0 \in Int /\ 67 \in Int
      OBVIOUS
    <2>2. IsFiniteSet(0 .. 67)
      BY <2>1, FS_Interval, Zenon
    <2> QED
      BY <1>6, <2>2, FS_Subset
  <1>10. Cardinality(V) = Cardinality(L)
    BY <1>8, <1>9, FS_Injection
  <1>11. ASSUME n = 9, NEW k \in 0 .. 67 PROVE k \in L
    <2>1. PICK p \in 1 .. 9 : k \in First[p] .. Past[p] - 1
      BY FeaturesSplitLandmarks
    <2>2. p \in 1 .. n
      BY <1>11
    <2>3. k - First[p] + 1 \in 1 .. Past[p] - First[p]
          /\ First[p] + (k - First[p] + 1) - 1 = k
      <3>1. First[p] \in 0 .. 67 /\ Past[p] \in 1 .. 68
        BY <1>2, <2>2, Zenon
      <3> QED
        BY <2>1, <3>1, PlaceInFeature
    <2>4. <<p, k - First[p] + 1>> \in V /\ at[<<p, k - First[p] + 1>>] = k
      BY <1>5, <2>2, <2>3
    <2> QED
      BY <1>4, <2>4
  <1> QED
    BY <1>6, <1>10, <1>11, SameCardinality DEF V, L, n

\* The lines of every face are those of the table's first features; a face that
\* drawDebug is done with has all nine.
LinesInv ==
  /\ drawn \in Seq(Seq(Lines))
  /\ \A f \in 1 .. Len(drawn) :
       InTableOrder(drawn[f]) /\ (f < face \/ step = "idle" => Len(drawn[f]) = 9)

\* One more line keeps the table's order.
LEMMA NextLine ==
  ASSUME NEW lines, InTableOrder(lines), NEW line \in Lines, Len(lines) < 9,
         line.points = Drawing!FeatureIndices(Drawing!DebugFeatures[Len(lines) + 1])
  PROVE  InTableOrder(Append(lines, line))
  <1> DEFINE n == Len(lines)
             more == Append(lines, line)
  <1>1. lines \in Seq(Lines) /\ n \in Nat
    BY LenProperties DEF InTableOrder
  <1>2. more \in Seq(Lines) /\ Len(more) = n + 1 /\ more[n + 1] = line
        /\ \A p \in 1 .. n : more[p] = lines[p]
    BY <1>1, AppendProperties
  <1> HIDE DEF more, n
  <1>3. ASSUME NEW p \in 1 .. n + 1
        PROVE  more[p].points = Drawing!FeatureIndices(Drawing!DebugFeatures[p])
    <2>1. CASE p = n + 1
      BY <1>2, <2>1 DEF n
    <2>2. CASE p \in 1 .. n
      BY <1>2, <2>2 DEF InTableOrder, n
    <2> QED
      BY <1>1, <2>1, <2>2
  <1>4. Len(more) <= 9
    BY <1>1, <1>2 DEF n
  <1> QED
    BY <1>2, <1>3, <1>4 DEF InTableOrder, more

\* The step that draws a feature.
LEMMA LineDrawn ==
  ASSUME DisplayInv, LinesInv, UNCHANGED vars, Drawing!DrawFeature,
         Drawing!HasFeature(Drawing!DebugFeatures[feature])
  PROVE  LinesInv'
  <1> DEFINE n == Len(instances)
             f == Drawing!DebugFeatures[feature]
             line == [points |-> Drawing!FeatureIndices(f), closed |-> f \in Drawing!Closed]
  <1>1. /\ step = "feature" /\ feature \in 1 .. 9
        /\ face \in Nat \ {0} /\ face <= n /\ Len(drawn) = n /\ drawn \in Seq(Seq(Lines))
        /\ \A i \in DOMAIN drawn :
             Len(drawn[i]) = IF i < face THEN 9 ELSE IF i = face THEN feature - 1 ELSE 0
    BY DebugFeaturesAreFeatures
    DEF DisplayInv, DrawingInPlace, DrawnInv, Drawing!TypeOK, Drawing!DrawFeature
  <1>2. n \in Nat /\ DOMAIN drawn = 1 .. n /\ face \in 1 .. n
    BY <1>1, LenProperties
  <1>3. line \in Lines
    <2>1. f \in Drawing!Features
      BY <1>1, DebugFeaturesAreFeatures
    <2> QED
      BY <2>1, FeatureBounds DEF Lines
  <1>4. drawn' = [drawn EXCEPT ![face] = Append(@, line)] /\ Drawing!NextFeature
    BY DEF Drawing!DrawFeature
  <1>5. line.points = Drawing!FeatureIndices(f)
    OBVIOUS
  <1> HIDE DEF line, f, n
  <1>6. /\ drawn' \in Seq(Seq(Lines)) /\ Len(drawn') = n
        /\ drawn'[face] = Append(drawn[face], line)
        /\ Len(drawn'[face]) = Len(drawn[face]) + 1
        /\ \A i \in 1 .. n : i # face => drawn'[i] = drawn[i]
    BY <1>1, <1>2, <1>3, <1>4, AppendAt
  <1>7. Len(drawn[face]) = feature - 1 /\ InTableOrder(drawn[face])
    <2>1. Len(drawn[face]) = IF face < face THEN 9
                             ELSE IF face = face THEN feature - 1 ELSE 0
      BY <1>1, <1>2, Zenon
    <2> QED
      BY <1>1, <1>2, <2>1 DEF LinesInv
  <1>8. InTableOrder(drawn'[face]) /\ Len(drawn'[face]) = feature
    <2>1. feature - 1 < 9 /\ (feature - 1) + 1 = feature
      BY <1>1
    <2>2. Len(drawn[face]) < 9 /\ Len(drawn[face]) + 1 = feature
      BY <1>7, <2>1
    <2>3. line.points
            = Drawing!FeatureIndices(Drawing!DebugFeatures[Len(drawn[face]) + 1])
      BY <1>5, <2>2 DEF f
    <2>4. InTableOrder(Append(drawn[face], line))
      BY <1>3, <1>7, <2>2, <2>3, NextLine
    <2> QED
      BY <1>6, <2>2, <2>4
  <1>9. \A i \in 1 .. n : InTableOrder(drawn'[i])
    BY <1>1, <1>6, <1>8 DEF LinesInv
  <1>10. ASSUME NEW i \in 1 .. n, i < face' \/ step' = "idle" PROVE Len(drawn'[i]) = 9
    <2>1. \/ feature < 9 /\ face' = face /\ step' = step
          \/ feature = 9 /\ face < n /\ face' = face + 1 /\ step' = step
          \/ feature = 9 /\ ~(face < n) /\ face' = face
      <3>1. IF feature < 9
            THEN feature' = feature + 1 /\ UNCHANGED <<face, step>>
            ELSE /\ feature' = 1
                 /\ IF face < n THEN face' = face + 1 /\ UNCHANGED step
                    ELSE UNCHANGED face /\ step' = "idle"
        BY <1>4, DebugFeaturesAreFeatures, Zenon DEF Drawing!NextFeature, n
      <3>2. feature < 9 \/ (~(feature < 9) /\ feature = 9)
        BY <1>1
      <3> QED
        BY <3>1, <3>2
    <2>2. i < face \/ (i = face /\ feature = 9)
      BY <1>1, <1>2, <1>10, <2>1
    <2>3. CASE i < face
      <3>1. i # face /\ i \in DOMAIN drawn
        BY <1>1, <1>2, <2>3
      <3>2. drawn'[i] = drawn[i] /\ Len(drawn[i]) = 9
        BY <1>1, <1>6, <2>3, <3>1
      <3> QED
        BY <3>2
    <2>4. CASE i = face /\ feature = 9
      BY <1>8, <2>4
    <2> QED
      BY <2>2, <2>3, <2>4
  <1> QED
    BY <1>6, <1>9, <1>10 DEF LinesInv

\* Every call keeps the lines as LinesInv has them: between its drawings drawDebug
\* leaves complete ones, and where it stops, at an undefined read, no other ones.
LEMMA LinesStep == DisplayInv /\ LinesInv /\ [DisplayNext]_displayVars => LinesInv'
  <1> SUFFICES ASSUME DisplayInv, LinesInv, [DisplayNext]_displayVars PROVE LinesInv'
    OBVIOUS
  <1>1. ASSUME drawn' = drawn, face' = face, step' # "idle" \/ step = "idle"
        PROVE  LinesInv'
    BY <1>1 DEF LinesInv
  <1>2. CASE \E geometry \in Geometries, faces \in 0 .. MaxFaces : NewImage(geometry, faces)
    BY <1>1, <1>2 DEF NewImage, Drawing!Update
  <1>3. CASE \/ \E geometry \in Geometries : RefusedImage(geometry)
             \/ \E i \in DOMAIN instances : UseInstance(i)
             \/ UseKept
    BY <1>1, <1>3 DEF RefusedImage, UseInstance, UseKept, drawingVars
  <1>4. CASE Draw
    <2>1. CASE Drawing!DrawDebug
      <3> DEFINE n == Len(instances)
      <3>1. /\ drawn' = [i \in 1 .. n |-> << >>] /\ face' = 1 /\ step' = "feature"
        BY <2>1 DEF Drawing!DrawDebug
      <3>2. n \in Nat
        BY LenProperties DEF DisplayInv, PoseInv, TypeOK
      <3> HIDE DEF n
      <3>3. drawn' \in [1 .. n -> Seq(Lines)]
        BY <3>1
      <3>4. drawn' \in Seq(Seq(Lines)) /\ Len(drawn') = n
        BY <3>2, <3>3, FunctionIsSequence
      <3>5. ASSUME NEW i \in 1 .. n
            PROVE  InTableOrder(drawn'[i]) /\ ~(i < face') /\ step' # "idle"
        <4>1. InTableOrder(<< >>)
          <5>1. << >> \in Seq(Lines) /\ Len(<< >>) = 0
            BY EmptySeq
          <5> QED
            BY <5>1 DEF InTableOrder
        <4> QED
          BY <3>1, <3>2, <4>1
      <3> QED
        BY <3>4, <3>5 DEF LinesInv
    <2>2. CASE Drawing!DrawFeature /\ Drawing!HasFeature(Drawing!DebugFeatures[feature])
      BY <1>4, <2>2, LineDrawn DEF Draw
    <2>3. CASE Drawing!DrawFeature /\ ~Drawing!HasFeature(Drawing!DebugFeatures[feature])
      BY <1>1, <2>3 DEF Drawing!DrawFeature
    <2> QED
      BY <1>4, <2>1, <2>2, <2>3 DEF Draw
  <1>5. CASE (\E f \in Drawing!Features : GetFeature(f)) \/ MakeSample
    BY <1>1, <1>5 DEF GetFeature, MakeSample, Drawing!GetFeature
  <1>6. CASE Over \/ UNCHANGED displayVars
    BY <1>1, <1>6 DEF Over, displayVars, drawingVars
  <1> QED
    BY <1>2, <1>3, <1>4, <1>5, <1>6 DEF DisplayNext

\* drawDebug draws no landmark of a face twice, and all 68 of a face it is done
\* with, for every model, camera and number of faces.
THEOREM LandmarksDrawnOnce == DisplaySpec => []EachLandmarkDrawnOnce
  <1>1. DisplayInit => LinesInv
    <2> SUFFICES ASSUME DisplayInit PROVE LinesInv
      OBVIOUS
    <2>1. drawn \in Seq(Seq(Lines)) /\ Len(drawn) = 0
      BY EmptySeq DEF DisplayInit, Drawing!Init
    <2> QED
      BY <2>1 DEF LinesInv
  <1>2. LinesInv => EachLandmarkDrawnOnce
    <2> SUFFICES ASSUME LinesInv, NEW f \in DOMAIN drawn
                 PROVE  /\ Drawing!Cardinality(Drawing!Vertices(drawn[f]))
                             = Drawing!Cardinality(Drawing!Landmarks(drawn[f]))
                        /\ (f < face \/ step = "idle") =>
                             Drawing!Landmarks(drawn[f]) = 0 .. 67
      BY DEF EachLandmarkDrawnOnce, Drawing!EachLandmarkDrawnOnce
    <2>1. f \in 1 .. Len(drawn)
      BY LenProperties DEF LinesInv
    <2>2. InTableOrder(drawn[f]) /\ (f < face \/ step = "idle" => Len(drawn[f]) = 9)
      BY <2>1 DEF LinesInv
    <2> QED
      BY <2>2, LinesSplitLandmarks
  <1> QED
    BY <1>1, <1>2, DisplayAlways, LinesStep, PTL DEF DisplaySpec
=============================================================================
