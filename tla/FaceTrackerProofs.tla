-------------------------- MODULE FaceTrackerProofs --------------------------
(***************************************************************************)
(* Proofs about FaceTracker for every number of faces, labels and frames.  *)
(* IInv is inductive (one lemma per group of its parts, one step of each   *)
(* proof per action), the safety properties follow from it, and every step *)
(* of the threads is a step of FaceService or none. Where update() does    *)
(* not throw, no thread waits for what will not come; where the            *)
(* application leaves destruction to its exit, the exit event finds a      *)
(* tracker.                                                                *)
(***************************************************************************)
EXTENDS FaceTrackerInductive, SequenceTheorems, TLAPS

USE DEF Threads, Goto, object, thread, sharedImage, detection, tracker, results,
        AppLocations, WorkerLocations, SetupPart, InlinePart, AppCritical,
        WorkerCritical, HalfUpdated

\* What getCurrentLabels() returns is a sequence of labels.
LEMMA LabelListsAreSequences == LabelLists \subseteq Seq(Labels)
  BY DEF LabelLists

\* The lengths and domains of the two lists runLandmarkDetector goes through.
LEMMA Lengths ==
  ASSUME TypeOK
  PROVE  /\ Len(labels) \in Nat /\ DOMAIN labels = 1 .. Len(labels)
         /\ Len(instances) \in Nat /\ DOMAIN instances = 1 .. Len(instances)
  BY LenProperties DEF TypeOK

-----------------------------------------------------------------------------
(* Types *)

\* The constructor gives every member a value of its type.
LEMMA TypeInit == Init => TypeOK
  <1> SUFFICES ASSUME Init PROVE TypeOK
    OBVIOUS
  <1> USE DEF Init, Constructed
  <1>1. /\ life \in {"constructed", "ready", "exited", "destroyed", "terminated"}
        /\ listening \in BOOLEAN /\ threaded \in BOOLEAN /\ imageDirty \in BOOLEAN
        /\ mutexOwner \in Threads \cup {"nobody"} /\ running \in BOOLEAN
        /\ distanceSet \in BOOLEAN /\ failed \in BOOLEAN /\ numFaces \in Nat
    OBVIOUS
  <1>2. /\ frame \in Frames /\ roi \in Frames /\ gray \in Frames
        /\ threadGray \in Frames /\ tracked \in Frames
        /\ detectorRoi \in [Threads -> Frames] /\ detected \in [Threads -> Frames]
    BY FaceTrackerAssumption DEF Frames
  <1>3. labels \in Seq(Labels) /\ instances \in Seq(Instances)
    OBVIOUS
  <1>4. /\ pc \in [Threads -> AppLocations \cup WorkerLocations]
        /\ pc["app"] \in AppLocations /\ pc["worker"] \in WorkerLocations
    OBVIOUS
  <1> QED
    BY <1>1, <1>2, <1>3, <1>4 DEF TypeOK

\* Every action preserves the types, whatever the application calls.
LEMMA TypeStep ==
  ASSUME TypeOK, [Next]_vars
  PROVE  TypeOK'
  <1> USE DEF TypeOK
  <1>1. CASE SetThreaded
    BY <1>1 DEF SetThreaded
  <1>2. CASE BeginSetup
    BY <1>2 DEF BeginSetup
  <1>3. CASE SetupStart
    <2>1. /\ pc' \in [Threads -> AppLocations \cup WorkerLocations]
          /\ pc'["app"] \in AppLocations /\ pc'["worker"] \in WorkerLocations
          /\ running' \in BOOLEAN /\ imageDirty' \in BOOLEAN
      BY <1>3 DEF SetupStart, StartThread
    <2> QED
      BY <1>3, <2>1 DEF SetupStart
  <1>4. CASE SetupDistance
    BY <1>4 DEF SetupDistance
  <1>5. CASE BeginUpdate
    BY <1>5, FaceTrackerAssumption DEF BeginUpdate, Frames
  <1>6. CASE LockForUpdate
    BY <1>6 DEF LockForUpdate, Acquire
  <1>7. CASE WriteRoi
    BY <1>7 DEF WriteRoi
  <1>8. CASE WriteGray
    BY <1>8 DEF WriteGray
  <1>9. CASE MarkDirty
    BY <1>9 DEF MarkDirty
  <1>10. CASE LockForSnapshot
    BY <1>10 DEF LockForSnapshot, Acquire
  <1>11. ASSUME NEW t \in Threads, ReadRoi(t) PROVE TypeOK'
    BY <1>11 DEF ReadRoi
  <1>12. ASSUME NEW t \in Threads, CopyGray(t) PROVE TypeOK'
    BY <1>12 DEF CopyGray, AfterSnapshot
  <1>13. CASE UnlockSnapshot
    BY <1>13 DEF UnlockSnapshot, Release
  <1>14. ASSUME NEW t \in Threads, Detect(t) PROVE TypeOK'
    BY <1>14 DEF Detect, AfterDetection
  <1>15. CASE LockForTracking
    BY <1>15 DEF LockForTracking, Acquire
  <1>16. ASSUME NEW t \in Threads, Track(t) PROVE TypeOK'
    BY <1>16, LabelListsAreSequences DEF Track, AfterTracking
  <1>17. CASE UnlockTracking
    BY <1>17 DEF UnlockTracking, Release
  <1>18. CASE ClearResults
    BY <1>18 DEF ClearResults
  <1>19. CASE FitLandmarks
    BY <1>19 DEF FitLandmarks, Instances
  <1>20. CASE FinishLandmarks
    <2>1. numFaces' \in Nat
      BY <1>20, Lengths DEF FinishLandmarks
    <2>2. /\ pc' \in [Threads -> AppLocations \cup WorkerLocations]
          /\ pc'["app"] \in AppLocations /\ pc'["worker"] \in WorkerLocations
      BY <1>20 DEF FinishLandmarks
    <2>3. /\ failed' = FALSE
          /\ UNCHANGED <<object, thread, imageDirty, frame, sharedImage, detection,
                         tracker, instances>>
      BY <1>20 DEF FinishLandmarks
    <2> QED
      BY <2>1, <2>2, <2>3, ZenonT(60)
  <1>21. CASE EndUpdate
    BY <1>21 DEF EndUpdate, Release
  <1>22. CASE LoopTest
    BY <1>22 DEF LoopTest
  <1>23. CASE CheckDirty
    BY <1>23 DEF CheckDirty
  <1>24. CASE ClearDirty
    <2>1. /\ pc' \in [Threads -> AppLocations \cup WorkerLocations]
          /\ pc'["app"] \in AppLocations /\ pc'["worker"] \in WorkerLocations
          /\ running' \in BOOLEAN /\ imageDirty' \in BOOLEAN
      BY <1>24 DEF ClearDirty
    <2> QED
      BY <1>24, <2>1 DEF ClearDirty
  <1>25. CASE Stop
    <2>1. /\ pc' \in [Threads -> AppLocations \cup WorkerLocations]
          /\ pc'["app"] \in AppLocations /\ pc'["worker"] \in WorkerLocations
          /\ running' \in BOOLEAN
      BY <1>25 DEF Stop, BeginStop
    <2> QED
      BY <1>25, <2>1 DEF Stop
  <1>26. CASE Join
    BY <1>26 DEF Join
  <1>27. CASE ExitEvent
    <2>1. /\ pc' \in [Threads -> AppLocations \cup WorkerLocations]
          /\ pc'["app"] \in AppLocations /\ pc'["worker"] \in WorkerLocations
          /\ running' \in BOOLEAN
      BY <1>27 DEF ExitEvent, BeginStop
    <2> QED
      BY <1>27, <2>1 DEF ExitEvent
  <1>28. CASE Destroy
    BY <1>28 DEF Destroy
  <1>29. CASE UNCHANGED vars
    BY <1>29 DEF vars
  <1>30. CASE GrayThrows
    BY <1>30 DEF GrayThrows
  <1> QED
    BY <1>1, <1>2, <1>3, <1>4, <1>5, <1>6, <1>7, <1>8, <1>9, <1>10, <1>11, <1>12, <1>13, <1>14, <1>15, <1>16, <1>17, <1>18, <1>19, <1>20, <1>21, <1>22, <1>23, <1>24, <1>25, <1>26, <1>27, <1>28, <1>29, <1>30
    DEF Next, AppCall, AppStep, WorkerStep, WorkerLock, RunFaceDetector, Finished, Hung

\* In every reachable state every member of the tracker, and both threads'
\* places in the code, have their types.
THEOREM TypeCorrect == Spec => []TypeOK
  <1>1. TypeOK /\ [Next]_vars => TypeOK'
    BY TypeStep
  <1> QED
    BY TypeInit, <1>1, PTL DEF Spec

-----------------------------------------------------------------------------
(* The inductive invariant *)

\* The invariant holds of a new tracker.
LEMMA InductiveInit == Init => IInv
  <1> SUFFICES ASSUME Init PROVE IInv
    OBVIOUS
  <1>1. TypeOK
    BY TypeInit
  <1> USE DEF Init, Constructed
  <1>2. LifeInv /\ ThreadInv /\ MutexInv
    BY DEF LifeInv, ThreadInv, MutexInv
  <1>3. ImageInv /\ CoherentInv /\ OrderInv /\ ConfiguredInv /\ NoLostFrame
    BY DEF ImageInv, CoherentInv, OrderInv, ConfiguredInv, NoLostFrame
  <1>4. << >> \in LabelLists
    BY FaceTrackerAssumption, SMTT(20) DEF LabelLists
  <1>5. ResultsInv
    BY <1>4 DEF ResultsInv
  <1> QED
    BY <1>1, <1>2, <1>3, <1>5 DEF IInv

\* The mutex is held where the code means it to be, and the worker exists exactly
\* between startThread and the join.
LEMMA ControlStep ==
  ASSUME IInv, [Next]_vars, PlainUse
  PROVE  LifeInv' /\ ThreadInv' /\ MutexInv'
  <1> USE DEF PlainUse, IInv, TypeOK, LifeInv, ThreadInv, MutexInv
  <1>1. CASE SetThreaded
    BY <1>1 DEF SetThreaded
  <1>2. CASE BeginSetup
    BY <1>2 DEF BeginSetup
  <1>3. CASE SetupStart
    BY <1>3 DEF SetupStart, StartThread
  <1>4. CASE SetupDistance
    BY <1>4 DEF SetupDistance
  <1>5. CASE BeginUpdate
    BY <1>5 DEF BeginUpdate
  <1>6. CASE LockForUpdate
    BY <1>6 DEF LockForUpdate, Acquire
  <1>7. CASE WriteRoi
    BY <1>7 DEF WriteRoi
  <1>8. CASE WriteGray
    BY <1>8 DEF WriteGray
  <1>9. CASE MarkDirty
    BY <1>9 DEF MarkDirty
  <1>10. CASE LockForSnapshot
    BY <1>10 DEF LockForSnapshot, Acquire
  <1>11. ASSUME NEW t \in Threads, ReadRoi(t) PROVE LifeInv' /\ ThreadInv' /\ MutexInv'
    BY <1>11 DEF ReadRoi
  <1>12. ASSUME NEW t \in Threads, CopyGray(t) PROVE LifeInv' /\ ThreadInv' /\ MutexInv'
    BY <1>12 DEF CopyGray, AfterSnapshot
  <1>13. CASE UnlockSnapshot
    BY <1>13 DEF UnlockSnapshot, Release
  <1>14. ASSUME NEW t \in Threads, Detect(t) PROVE LifeInv' /\ ThreadInv' /\ MutexInv'
    BY <1>14 DEF Detect, AfterDetection
  <1>15. CASE LockForTracking
    BY <1>15 DEF LockForTracking, Acquire
  <1>16. ASSUME NEW t \in Threads, Track(t) PROVE LifeInv' /\ ThreadInv' /\ MutexInv'
    BY <1>16 DEF Track, AfterTracking
  <1>17. CASE UnlockTracking
    BY <1>17 DEF UnlockTracking, Release
  <1>18. CASE ClearResults
    BY <1>18 DEF ClearResults
  <1>19. CASE FitLandmarks
    BY <1>19 DEF FitLandmarks
  <1>20. CASE FinishLandmarks
    BY <1>20 DEF FinishLandmarks
  <1>21. CASE EndUpdate
    BY <1>21 DEF EndUpdate, Release
  <1>22. CASE LoopTest
    BY <1>22 DEF LoopTest
  <1>23. CASE CheckDirty
    BY <1>23 DEF CheckDirty
  <1>24. CASE ClearDirty
    BY <1>24 DEF ClearDirty
  <1>25. CASE Stop
    BY <1>25 DEF Stop, BeginStop
  <1>26. CASE Join
    BY <1>26 DEF Join
  <1>27. CASE ExitEvent
    BY <1>27 DEF ExitEvent, BeginStop
  <1>28. CASE Destroy
    BY <1>28 DEF Destroy
  <1>29. CASE UNCHANGED vars
    BY <1>29 DEF vars
  <1>30. CASE GrayThrows
    BY <1>30 DEF GrayThrows
  <1> QED
    BY <1>1, <1>2, <1>3, <1>4, <1>5, <1>6, <1>7, <1>8, <1>9, <1>10, <1>11, <1>12, <1>13, <1>14, <1>15, <1>16, <1>17, <1>18, <1>19, <1>20, <1>21, <1>22, <1>23, <1>24, <1>25, <1>26, <1>27, <1>28, <1>29, <1>30
    DEF Next, AppCall, AppStep, WorkerStep, WorkerLock, RunFaceDetector, Finished, Hung

\* The members that describe one image change together, as seen under the mutex.
LEMMA ImageStep ==
  ASSUME IInv, [Next]_vars, PlainUse
  PROVE  ImageInv' /\ CoherentInv' /\ OrderInv'
  <1> USE FaceTrackerAssumption DEF PlainUse, IInv, TypeOK, Frames, LifeInv, ThreadInv, MutexInv,
             ImageInv, CoherentInv, OrderInv
  <1>1. CASE SetThreaded
    BY <1>1 DEF SetThreaded
  <1>2. CASE BeginSetup
    BY <1>2 DEF BeginSetup
  <1>3. CASE SetupStart
    BY <1>3 DEF SetupStart, StartThread
  <1>4. CASE SetupDistance
    BY <1>4 DEF SetupDistance
  <1>5. CASE BeginUpdate
    BY <1>5 DEF BeginUpdate
  <1>6. CASE LockForUpdate
    BY <1>6 DEF LockForUpdate, Acquire
  <1>7. CASE WriteRoi
    BY <1>7 DEF WriteRoi
  <1>8. CASE WriteGray
    BY <1>8 DEF WriteGray
  <1>9. CASE MarkDirty
    BY <1>9 DEF MarkDirty
  <1>10. CASE LockForSnapshot
    BY <1>10 DEF LockForSnapshot, Acquire
  <1>11. ASSUME NEW t \in Threads, ReadRoi(t) PROVE ImageInv' /\ CoherentInv' /\ OrderInv'
    BY <1>11 DEF ReadRoi
  <1>12. ASSUME NEW t \in Threads, CopyGray(t) PROVE ImageInv' /\ CoherentInv' /\ OrderInv'
    BY <1>12 DEF CopyGray, AfterSnapshot
  <1>13. CASE UnlockSnapshot
    BY <1>13 DEF UnlockSnapshot, Release
  <1>14. ASSUME NEW t \in Threads, Detect(t) PROVE ImageInv' /\ CoherentInv' /\ OrderInv'
    BY <1>14 DEF Detect, AfterDetection
  <1>15. CASE LockForTracking
    BY <1>15 DEF LockForTracking, Acquire
  <1>16. ASSUME NEW t \in Threads, Track(t) PROVE ImageInv' /\ CoherentInv' /\ OrderInv'
    BY <1>16 DEF Track, AfterTracking
  <1>17. CASE UnlockTracking
    BY <1>17 DEF UnlockTracking, Release
  <1>18. CASE ClearResults
    BY <1>18 DEF ClearResults
  <1>19. CASE FitLandmarks
    BY <1>19 DEF FitLandmarks
  <1>20. CASE FinishLandmarks
    BY <1>20 DEF FinishLandmarks
  <1>21. CASE EndUpdate
    BY <1>21 DEF EndUpdate, Release
  <1>22. CASE LoopTest
    BY <1>22 DEF LoopTest
  <1>23. CASE CheckDirty
    BY <1>23 DEF CheckDirty
  <1>24. CASE ClearDirty
    BY <1>24 DEF ClearDirty
  <1>25. CASE Stop
    BY <1>25 DEF Stop, BeginStop
  <1>26. CASE Join
    BY <1>26 DEF Join
  <1>27. CASE ExitEvent
    BY <1>27 DEF ExitEvent, BeginStop
  <1>28. CASE Destroy
    BY <1>28 DEF Destroy
  <1>29. CASE UNCHANGED vars
    BY <1>29 DEF vars
  <1>30. CASE GrayThrows
    BY <1>30 DEF GrayThrows
  <1> QED
    BY <1>1, <1>2, <1>3, <1>4, <1>5, <1>6, <1>7, <1>8, <1>9, <1>10, <1>11, <1>12, <1>13, <1>14, <1>15, <1>16, <1>17, <1>18, <1>19, <1>20, <1>21, <1>22, <1>23, <1>24, <1>25, <1>26, <1>27, <1>28, <1>29, <1>30
    DEF Next, AppCall, AppStep, WorkerStep, WorkerLock, RunFaceDetector, Finished, Hung

\* A frame is never forgotten, nor detected before setMaximumDistance.
LEMMA FrameStep ==
  ASSUME IInv, [Next]_vars, PlainUse
  PROVE  ConfiguredInv' /\ NoLostFrame'
  <1> USE DEF PlainUse, IInv, TypeOK, Frames, LifeInv, ThreadInv, MutexInv,
             ImageInv, OrderInv, ConfiguredInv, NoLostFrame
  <1>1. CASE SetThreaded
    BY <1>1 DEF SetThreaded
  <1>2. CASE BeginSetup
    BY <1>2 DEF BeginSetup
  <1>3. CASE SetupStart
    BY <1>3 DEF SetupStart, StartThread
  <1>4. CASE SetupDistance
    BY <1>4 DEF SetupDistance
  <1>5. CASE BeginUpdate
    BY <1>5 DEF BeginUpdate
  <1>6. CASE LockForUpdate
    BY <1>6 DEF LockForUpdate, Acquire
  <1>7. CASE WriteRoi
    BY <1>7 DEF WriteRoi
  <1>8. CASE WriteGray
    BY <1>8 DEF WriteGray
  <1>9. CASE MarkDirty
    BY <1>9 DEF MarkDirty
  <1>10. CASE LockForSnapshot
    BY <1>10 DEF LockForSnapshot, Acquire
  <1>11. ASSUME NEW t \in Threads, ReadRoi(t) PROVE ConfiguredInv' /\ NoLostFrame'
    BY <1>11 DEF ReadRoi
  <1>12. ASSUME NEW t \in Threads, CopyGray(t) PROVE ConfiguredInv' /\ NoLostFrame'
    BY <1>12 DEF CopyGray, AfterSnapshot
  <1>13. CASE UnlockSnapshot
    BY <1>13 DEF UnlockSnapshot, Release
  <1>14. ASSUME NEW t \in Threads, Detect(t) PROVE ConfiguredInv' /\ NoLostFrame'
    BY <1>14 DEF Detect, AfterDetection
  <1>15. CASE LockForTracking
    BY <1>15 DEF LockForTracking, Acquire
  <1>16. ASSUME NEW t \in Threads, Track(t) PROVE ConfiguredInv' /\ NoLostFrame'
    BY <1>16 DEF Track, AfterTracking
  <1>17. CASE UnlockTracking
    BY <1>17 DEF UnlockTracking, Release
  <1>18. CASE ClearResults
    BY <1>18 DEF ClearResults
  <1>19. CASE FitLandmarks
    BY <1>19 DEF FitLandmarks
  <1>20. CASE FinishLandmarks
    BY <1>20 DEF FinishLandmarks
  <1>21. CASE EndUpdate
    BY <1>21 DEF EndUpdate, Release
  <1>22. CASE LoopTest
    BY <1>22 DEF LoopTest
  <1>23. CASE CheckDirty
    BY <1>23 DEF CheckDirty
  <1>24. CASE ClearDirty
    BY <1>24 DEF ClearDirty
  <1>25. CASE Stop
    BY <1>25 DEF Stop, BeginStop
  <1>26. CASE Join
    BY <1>26 DEF Join
  <1>27. CASE ExitEvent
    BY <1>27 DEF ExitEvent, BeginStop
  <1>28. CASE Destroy
    BY <1>28 DEF Destroy
  <1>29. CASE UNCHANGED vars
    BY <1>29 DEF vars
  <1>30. CASE GrayThrows
    BY <1>30 DEF GrayThrows
  <1> QED
    BY <1>1, <1>2, <1>3, <1>4, <1>5, <1>6, <1>7, <1>8, <1>9, <1>10, <1>11, <1>12, <1>13, <1>14, <1>15, <1>16, <1>17, <1>18, <1>19, <1>20, <1>21, <1>22, <1>23, <1>24, <1>25, <1>26, <1>27, <1>28, <1>29, <1>30
    DEF Next, AppCall, AppStep, WorkerStep, WorkerLock, RunFaceDetector, Finished, Hung

\* The results grow along the labels while the mutex is held, then stay as they are.
LEMMA ResultsStep ==
  ASSUME IInv, [Next]_vars, PlainUse
  PROVE  ResultsInv'
  <1> USE DEF PlainUse, IInv, TypeOK, LifeInv, ThreadInv, MutexInv, ResultsInv, Instances, FaceOf
  <1>1. CASE SetThreaded
    BY <1>1 DEF SetThreaded
  <1>2. CASE BeginSetup
    BY <1>2 DEF BeginSetup
  <1>3. CASE SetupStart
    BY <1>3 DEF SetupStart, StartThread
  <1>4. CASE SetupDistance
    BY <1>4 DEF SetupDistance
  <1>5. CASE BeginUpdate
    BY <1>5 DEF BeginUpdate
  <1>6. CASE LockForUpdate
    BY <1>6 DEF LockForUpdate, Acquire
  <1>7. CASE WriteRoi
    BY <1>7 DEF WriteRoi
  <1>8. CASE WriteGray
    BY <1>8 DEF WriteGray
  <1>9. CASE MarkDirty
    BY <1>9 DEF MarkDirty
  <1>10. CASE LockForSnapshot
    BY <1>10 DEF LockForSnapshot, Acquire
  <1>11. ASSUME NEW t \in Threads, ReadRoi(t) PROVE ResultsInv'
    BY <1>11 DEF ReadRoi
  <1>12. ASSUME NEW t \in Threads, CopyGray(t) PROVE ResultsInv'
    BY <1>12 DEF CopyGray, AfterSnapshot
  <1>13. CASE UnlockSnapshot
    BY <1>13 DEF UnlockSnapshot, Release
  <1>14. ASSUME NEW t \in Threads, Detect(t) PROVE ResultsInv'
    BY <1>14 DEF Detect, AfterDetection
  <1>15. CASE LockForTracking
    BY <1>15 DEF LockForTracking, Acquire
  <1>16. ASSUME NEW t \in Threads, Track(t) PROVE ResultsInv'
    BY <1>16 DEF Track, AfterTracking
  <1>17. CASE UnlockTracking
    BY <1>17 DEF UnlockTracking, Release
  <1>18. CASE ClearResults
    BY <1>18 DEF ClearResults
  <1>19. CASE FitLandmarks
    BY <1>19 DEF FitLandmarks
  <1>20. CASE FinishLandmarks
    <2>1. /\ Len(labels) \in Nat /\ DOMAIN labels = 1 .. Len(labels)
          /\ Len(instances) \in Nat /\ DOMAIN instances = 1 .. Len(instances)
      BY Lengths
    <2>2. /\ Len(instances) = Len(labels) /\ instances # << >>
          /\ \A i \in 1 .. Len(labels) : instances[i] = FaceOf(i)
      BY <1>20, <2>1 DEF FinishLandmarks
    <2>3. \A i, j \in DOMAIN instances :
            /\ instances[i].frame = gray
            /\ instances[i].rectFrame = instances[j].rectFrame
            /\ i # j => instances[i].label # instances[j].label
      <3>1. \A i, j \in DOMAIN labels : i # j => labels[i] # labels[j]
        BY DEF LabelLists
      <3> HIDE DEF IInv, TypeOK, LifeInv, ThreadInv, MutexInv
      <3> QED
        BY <2>1, <2>2, <3>1
    <2>4. /\ pc'["app"] = "update.unlock" /\ failed' = FALSE
          /\ numFaces' = Len(instances) /\ instances' = instances
          /\ gray' = gray /\ labels' = labels
      BY <1>20, <2>2 DEF FinishLandmarks
    <2> HIDE DEF TypeOK, LifeInv, ThreadInv, MutexInv
    <2> QED
      BY <2>2, <2>3, <2>4
  <1>21. CASE EndUpdate
    BY <1>21 DEF EndUpdate, Release
  <1>22. CASE LoopTest
    BY <1>22 DEF LoopTest
  <1>23. CASE CheckDirty
    BY <1>23 DEF CheckDirty
  <1>24. CASE ClearDirty
    BY <1>24 DEF ClearDirty
  <1>25. CASE Stop
    BY <1>25 DEF Stop, BeginStop
  <1>26. CASE Join
    BY <1>26 DEF Join
  <1>27. CASE ExitEvent
    BY <1>27 DEF ExitEvent, BeginStop
  <1>28. CASE Destroy
    BY <1>28 DEF Destroy
  <1>29. CASE UNCHANGED vars
    BY <1>29 DEF vars
  <1>30. CASE GrayThrows
    BY <1>30 DEF GrayThrows
  <1> QED
    BY <1>1, <1>2, <1>3, <1>4, <1>5, <1>6, <1>7, <1>8, <1>9, <1>10, <1>11, <1>12, <1>13, <1>14, <1>15, <1>16, <1>17, <1>18, <1>19, <1>20, <1>21, <1>22, <1>23, <1>24, <1>25, <1>26, <1>27, <1>28, <1>29, <1>30
    DEF Next, AppCall, AppStep, WorkerStep, WorkerLock, RunFaceDetector, Finished, Hung

\* Locks, flags, images and results stay consistent in every reachable state, for
\* an application that leaves the mode of a tracker in use alone.
THEOREM Inductive ==
  ASSUME PlainUse
  PROVE  Spec => []IInv
  <1>1. IInv /\ [Next]_vars => IInv'
    <2> SUFFICES ASSUME IInv, [Next]_vars PROVE IInv'
      OBVIOUS
    <2>1. TypeOK'
      BY TypeStep DEF IInv
    <2> QED
      BY <2>1, ControlStep, ImageStep, FrameStep, ResultsStep DEF IInv
  <1> QED
    BY InductiveInit, <1>1, PTL DEF Spec

-----------------------------------------------------------------------------
(* The safety properties *)

\* A frame handed over by update() is pending, being worked on or tracked: clearing
\* imageDirty outside the mutex loses none.
THEOREM FramesAreNotLost ==
  ASSUME PlainUse
  PROVE  Spec => []NoLostFrame
  <1>1. IInv => NoLostFrame
    BY DEF IInv
  <1> QED
    BY <1>1, Inductive, PTL

\* Rectangles are mapped back with the roi of the image they were found in,
\* although the mutex is released while the detector runs.
THEOREM DetectionsAreCoherent ==
  ASSUME PlainUse
  PROVE  Spec => []DetectionCoherent
  <1>1. IInv => DetectionCoherent
    BY DEF IInv, CoherentInv, DetectionCoherent
  <1> QED
    BY <1>1, Inductive, PTL

\* Between calls the instances are one snapshot, fitted to the newest image, with
\* distinct labels, and agree with size(), numFaces and failed.
THEOREM SnapshotsAreConsistent ==
  ASSUME PlainUse
  PROVE  Spec => []SnapshotConsistent
  <1>1. IInv => SnapshotConsistent
    BY DEF IInv, ResultsInv, SnapshotConsistent
  <1> QED
    BY <1>1, Inductive, PTL

\* setup() starts the worker before it configures the rectangle tracker, yet the
\* worker never tracks with the default distance.
THEOREM ConfiguredBeforeTracking ==
  ASSUME PlainUse
  PROVE  Spec => []TrackedAfterConfigured
  <1>1. IInv => TrackedAfterConfigured
    BY DEF IInv, ConfiguredInv, LifeInv, TrackedAfterConfigured, TypeOK
  <1> QED
    BY <1>1, Inductive, PTL

\* When the destructor runs as the header demands no thread is left.
THEOREM NoThreadAfterDestruction ==
  ASSUME PlainUse
  PROVE  Spec => []QuietAfterDestroy
  <1>1. IInv => QuietAfterDestroy
    BY DEF IInv, LifeInv, ThreadInv, QuietAfterDestroy, TypeOK
  <1> QED
    BY <1>1, Inductive, PTL

\* With one setup() no two threads meet at conflicting accesses to a member the
\* mutex is for, nor at the rectangle tracker's configuration, which has no lock.
THEOREM NoDataRace ==
  ASSUME PlainUse, "restart" \notin Calls
  PROVE  Spec => []RaceFree
  <1>1. IInv => RaceFree
    BY DEF IInv, TypeOK, LifeInv, ThreadInv, MutexInv, ConfiguredInv, RaceFree, NoRaceOn,
           Reads, Writes
  <1> QED
    BY <1>1, Inductive, PTL

\* The members the mutex is for are race-free however often setup() is called.
THEOREM MutexIsEnough ==
  ASSUME PlainUse
  PROVE  Spec => []MutexGuards
  <1>1. IInv => MutexGuards
    BY DEF IInv, TypeOK, LifeInv, ThreadInv, MutexInv, MutexGuards, NoRaceOn, Reads, Writes
  <1> QED
    BY <1>1, Inductive, PTL

\* Detections are tracked in the order of their images.
THEOREM DetectionsAreOrdered ==
  ASSUME PlainUse
  PROVE  Spec => OrderedDetections
  <1>1. IInv /\ [Next]_vars => [tracked' >= tracked]_vars
    <2> SUFFICES ASSUME IInv, [Next]_vars, ~UNCHANGED vars
                 PROVE  tracked' >= tracked
      BY DEF vars
    <2>1. tracked' = tracked \/ \E t \in Threads : Track(t)
      BY DEF Next, AppCall, AppStep, WorkerStep, WorkerLock, RunFaceDetector,
             Finished, Hung, SetThreaded, BeginSetup, SetupStart, SetupDistance,
             BeginUpdate, LockForUpdate, WriteRoi, WriteGray, GrayThrows, MarkDirty,
             LockForSnapshot, ReadRoi, CopyGray, UnlockSnapshot, Detect,
             LockForTracking, UnlockTracking, ClearResults, FitLandmarks,
             FinishLandmarks, EndUpdate, LoopTest, CheckDirty, ClearDirty, Stop,
             Join, ExitEvent, Destroy
    <2>2. tracked \in Int
      BY DEF IInv, TypeOK, Frames
    <2>3. ASSUME NEW t \in Threads, Track(t) PROVE tracked' >= tracked
      BY <2>2, <2>3 DEF Track, IInv, OrderInv, TypeOK, Frames
    <2> QED
      BY <2>1, <2>2, <2>3
  <1> QED
    BY <1>1, Inductive, PTL DEF Spec, OrderedDetections

-----------------------------------------------------------------------------
(* Waiting and leaving *)

\* The thread is told to stop before it is joined, and joined by the only thread
\* that could start it again.
LEMMA JoinedWhileStopping ==
  ASSUME TypeOK, pc["app"] = "stop.join" => ~running, [Next]_vars
  PROVE  pc'["app"] = "stop.join" => ~running'
  <1> USE DEF TypeOK
  <1>1. CASE AppCall
    BY <1>1 DEF AppCall, SetThreaded, BeginSetup, BeginUpdate, Stop, ExitEvent, BeginStop,
                Destroy
  <1>2. CASE AppStep
    BY <1>2 DEF AppStep, SetupStart, StartThread, SetupDistance, LockForUpdate, WriteRoi,
                WriteGray, GrayThrows, MarkDirty, RunFaceDetector, ReadRoi, CopyGray, Detect,
                Track, AfterSnapshot, AfterDetection, AfterTracking, ClearResults,
                FitLandmarks, FinishLandmarks, EndUpdate, Join
  <1>3. CASE WorkerStep
    BY <1>3 DEF WorkerStep, LoopTest, CheckDirty, ClearDirty, WorkerLock, LockForSnapshot,
                LockForTracking, UnlockSnapshot, UnlockTracking, RunFaceDetector, ReadRoi,
                CopyGray, Detect, Track
  <1>4. CASE Finished \/ Hung \/ UNCHANGED vars
    BY <1>4 DEF Finished, Hung, vars
  <1> QED
    BY <1>1, <1>2, <1>3, <1>4 DEF Next

\* Where no update() throws, the mutex and the join cannot make the threads wait for
\* each other or for themselves: whoever holds the mutex is not at a lock, and a
\* worker that is joined holds the mutex or can have it.
THEOREM NoThreadWaitsInVain ==
  ASSUME PlainUse, "throws" \notin Calls
  PROVE  Spec => []NoCircularWait
  <1> DEFINE J == pc["app"] = "stop.join" => ~running
  <1>1. Init => J
    BY DEF Init, Constructed
  <1>2. IInv /\ J /\ [Next]_vars => J'
    BY JoinedWhileStopping DEF IInv
  <1>3. IInv /\ J => NoCircularWait
    BY DEF IInv, TypeOK, MutexInv, ThreadInv, NoCircularWait, AppWaits, WorkerWaits
  <1> QED
    BY <1>1, <1>2, <1>3, Inductive, PTL DEF Spec

\* An application that leaves the tracker in place until it exits has no listener
\* left behind: the exit event is the one that removes it.
THEOREM ExitEventIsSafe ==
  ASSUME "destroy" \notin Calls
  PROVE  Spec => []ExitEventFindsTracker
  <1> DEFINE J == /\ life \in {"exited", "destroyed"} => ~listening
                  /\ pc["app"] \in SetupPart => life = "constructed"
                  /\ pc \in [Threads -> AppLocations \cup WorkerLocations]
  <1>1. Init => J
    BY DEF Init, Constructed
  <1>2. J /\ [Next]_vars => J'
    <2> SUFFICES ASSUME J, [Next]_vars PROVE J'
      OBVIOUS
    <2>1. CASE AppCall
      BY <2>1 DEF AppCall, SetThreaded, BeginSetup, BeginUpdate, Stop, ExitEvent, BeginStop,
                  Destroy
    <2>2. CASE AppStep
      <3>1. CASE SetupStart \/ SetupDistance \/ Join
        BY <3>1 DEF SetupStart, StartThread, SetupDistance, Join
      <3>2. CASE LockForUpdate \/ WriteRoi \/ WriteGray \/ GrayThrows \/ MarkDirty
        BY <3>2 DEF LockForUpdate, WriteRoi, WriteGray, GrayThrows, MarkDirty
      <3>3. CASE RunFaceDetector("app")
        BY <3>3 DEF RunFaceDetector, ReadRoi, CopyGray, Detect, Track, AfterSnapshot,
                    AfterDetection, AfterTracking
      <3>4. CASE ClearResults \/ FitLandmarks \/ FinishLandmarks \/ EndUpdate
        BY <3>4 DEF ClearResults, FitLandmarks, FinishLandmarks, EndUpdate
      <3> QED
        BY <2>2, <3>1, <3>2, <3>3, <3>4 DEF AppStep
    <2>3. CASE WorkerStep
      BY <2>3 DEF WorkerStep, LoopTest, CheckDirty, ClearDirty, WorkerLock, LockForSnapshot,
                  LockForTracking, UnlockSnapshot, UnlockTracking, RunFaceDetector, ReadRoi,
                  CopyGray, Detect, Track, AfterSnapshot, AfterDetection, AfterTracking
    <2>4. CASE Finished \/ Hung \/ UNCHANGED vars
      BY <2>4 DEF Finished, Hung, vars
    <2> QED
      BY <2>1, <2>2, <2>3, <2>4 DEF Next
  <1>3. J => ExitEventFindsTracker
    BY DEF ExitEventFindsTracker
  <1> QED
    BY <1>1, <1>2, <1>3, PTL DEF Spec

-----------------------------------------------------------------------------
(* Refinement *)

\* The answer of a service that knows no face.
LEMMA EmptyAnswer ==
  ASSUME NEW image, NEW origin
  PROVE  Service!Answer(<< >>, image, origin) =
           [face |-> << >>, ok |-> FALSE, size |-> 0, pending |-> FALSE]
  <1>1. << >> = [i \in DOMAIN << >> |->
                   [label |-> << >>[i], rectFrame |-> origin, frame |-> image]]
    OBVIOUS
  <1>2. Len(<< >>) = 0
    OBVIOUS
  <1> QED
    BY <1>1, <1>2 DEF Service!Answer

\* A new tracker is a new service.
LEMMA ServiceInit == Init => Service!Init
  <1> SUFFICES ASSUME Init PROVE Service!Init
    OBVIOUS
  <1>1. gray = 0 /\ tracked = 0 /\ labels = << >>
    BY DEF Init, Constructed
  <1>2. InHand = [face |-> << >>, ok |-> FALSE, size |-> 0, pending |-> FALSE]
    BY DEF Init, Constructed, InHand, Answering
  <1> QED
    BY <1>1, <1>2, EmptyAnswer DEF Service!Init

\* A step of the threads is a step of the service or none: update() submits when
\* it replaces gray, track() detects, and the answer is complete when failed and
\* numFaces are set.
LEMMA ServiceStep ==
  ASSUME IInv, [Next]_vars
  PROVE  Service!Next \/ UNCHANGED Service!vars
  <1> USE DEF Service!vars
  <1>1. CASE SetThreaded
    BY <1>1 DEF SetThreaded, InHand, Answering, IInv, TypeOK
  <1>2. CASE BeginSetup
    BY <1>2 DEF BeginSetup, InHand, Answering, IInv, TypeOK
  <1>3. CASE SetupStart
    BY <1>3 DEF SetupStart, StartThread, InHand, Answering, IInv, TypeOK
  <1>4. CASE SetupDistance
    BY <1>4 DEF SetupDistance, InHand, Answering, IInv, TypeOK
  <1>5. CASE BeginUpdate
    BY <1>5 DEF BeginUpdate, InHand, Answering, IInv, TypeOK
  <1>6. CASE LockForUpdate
    BY <1>6 DEF LockForUpdate, Acquire, InHand, Answering, IInv, TypeOK
  <1>7. CASE WriteRoi
    BY <1>7 DEF WriteRoi, InHand, Answering, IInv, TypeOK
  <1>8. CASE WriteGray
    <2>1. InHand.pending = FALSE /\ InHand' = Service!Pending
      BY <1>8 DEF WriteGray, InHand, Answering, Service!Pending, IInv, TypeOK
    <2>2. gray' \in Frames /\ gray' >= gray /\ UNCHANGED <<tracked, labels>>
      BY <1>8 DEF WriteGray, IInv, TypeOK, ImageInv
    <2> QED
      BY <2>1, <2>2 DEF Service!Next, Service!Submit
  <1>9. CASE MarkDirty
    BY <1>9 DEF MarkDirty, InHand, Answering, IInv, TypeOK
  <1>10. CASE LockForSnapshot
    BY <1>10 DEF LockForSnapshot, Acquire, InHand, Answering, IInv, TypeOK
  <1>11. ASSUME NEW t \in Threads, ReadRoi(t) PROVE Service!Next \/ UNCHANGED Service!vars
    BY <1>11 DEF ReadRoi, InHand, Answering, IInv, TypeOK
  <1>12. ASSUME NEW t \in Threads, CopyGray(t) PROVE Service!Next \/ UNCHANGED Service!vars
    BY <1>12 DEF CopyGray, AfterSnapshot, InHand, Answering, IInv, TypeOK
  <1>13. CASE UnlockSnapshot
    BY <1>13 DEF UnlockSnapshot, Release, InHand, Answering, IInv, TypeOK
  <1>14. ASSUME NEW t \in Threads, Detect(t) PROVE Service!Next \/ UNCHANGED Service!vars
    BY <1>14 DEF Detect, AfterDetection, InHand, Answering, IInv, TypeOK
  <1>15. CASE LockForTracking
    BY <1>15 DEF LockForTracking, Acquire, InHand, Answering, IInv, TypeOK
  <1>16. ASSUME NEW t \in Threads, Track(t) PROVE Service!Next \/ UNCHANGED Service!vars
    <2>1. tracked <= tracked' /\ tracked' <= gray /\ tracked' \in Frames
      BY <1>16 DEF Track, IInv, TypeOK, OrderInv
    <2>2. labels' \in LabelLists /\ gray' = gray
      BY <1>16 DEF Track
    <2>3. InHand' = InHand
      BY <1>16 DEF Track, AfterTracking, InHand, Answering, IInv, TypeOK
    <2> QED
      BY <2>1, <2>2, <2>3 DEF Service!Next, Service!Detect
  <1>17. CASE UnlockTracking
    BY <1>17 DEF UnlockTracking, Release, InHand, Answering, IInv, TypeOK
  <1>18. CASE ClearResults
    <2>1. CASE labels = << >>
      <3>1. InHand.pending = TRUE
        BY <1>18 DEF ClearResults, InHand, Answering
      <3>2. UNCHANGED <<gray, tracked, labels>>
        BY <1>18 DEF ClearResults
      <3>3. InHand' = [face |-> << >>, ok |-> FALSE, size |-> 0, pending |-> FALSE]
        BY <1>18, <2>1 DEF ClearResults, InHand, Answering, IInv, TypeOK
      <3>4. InHand' = Service!Answer(labels, gray, tracked)
        BY <2>1, <3>3, EmptyAnswer
      <3> QED
        BY <3>1, <3>2, <3>4 DEF Service!Next, Service!Reply
    <2>2. CASE labels # << >>
      BY <1>18, <2>2 DEF ClearResults, InHand, Answering, IInv, TypeOK
    <2> QED
      BY <2>1, <2>2
  <1>19. CASE FitLandmarks
    BY <1>19 DEF FitLandmarks, InHand, Answering, IInv, TypeOK
  <1>20. CASE FinishLandmarks
    <2>1. InHand.pending = TRUE
      BY <1>20 DEF FinishLandmarks, InHand, Answering
    <2>2. UNCHANGED <<gray, tracked, labels>>
      BY <1>20 DEF FinishLandmarks
    <2>3. InHand' = [face |-> instances, ok |-> TRUE, size |-> Len(labels), pending |-> FALSE]
      BY <1>20 DEF FinishLandmarks, InHand, Answering, IInv, TypeOK
    <2>4. DOMAIN instances = DOMAIN labels /\ labels # << >>
          /\ \A i \in DOMAIN labels : instances[i] = FaceOf(i)
      BY <1>20, Lengths DEF FinishLandmarks, IInv, ResultsInv
    <2>5. instances = [i \in DOMAIN labels |-> FaceOf(i)]
      BY <2>4, Lengths DEF IInv, TypeOK
    <2>6. InHand' = Service!Answer(labels, gray, tracked)
      BY <2>3, <2>4, <2>5 DEF Service!Answer, FaceOf
    <2> QED
      BY <2>1, <2>2, <2>6 DEF Service!Next, Service!Reply
  <1>21. CASE EndUpdate
    BY <1>21 DEF EndUpdate, Release, InHand, Answering, IInv, TypeOK
  <1>22. CASE LoopTest
    BY <1>22 DEF LoopTest, InHand, Answering, IInv, TypeOK
  <1>23. CASE CheckDirty
    BY <1>23 DEF CheckDirty, InHand, Answering, IInv, TypeOK
  <1>24. CASE ClearDirty
    BY <1>24 DEF ClearDirty, InHand, Answering, IInv, TypeOK
  <1>25. CASE Stop
    BY <1>25 DEF Stop, BeginStop, InHand, Answering, IInv, TypeOK
  <1>26. CASE Join
    BY <1>26 DEF Join, InHand, Answering, IInv, TypeOK
  <1>27. CASE ExitEvent
    BY <1>27 DEF ExitEvent, BeginStop, InHand, Answering, IInv, TypeOK
  <1>28. CASE Destroy
    BY <1>28 DEF Destroy, InHand, Answering, IInv, TypeOK
  <1>29. CASE UNCHANGED vars
    BY <1>29 DEF vars, InHand
  <1>30. CASE GrayThrows
    BY <1>30 DEF GrayThrows, InHand, Answering, IInv, TypeOK
  <1> QED
    BY <1>1, <1>2, <1>3, <1>4, <1>5, <1>6, <1>7, <1>8, <1>9, <1>10, <1>11, <1>12, <1>13, <1>14, <1>15, <1>16, <1>17, <1>18, <1>19, <1>20, <1>21, <1>22, <1>23, <1>24, <1>25, <1>26, <1>27, <1>28, <1>29, <1>30
    DEF Next, AppCall, AppStep, WorkerStep, WorkerLock, RunFaceDetector, Finished, Hung

\* The threads implement the sequential service: what update() answers is always
\* what a service without threads could have answered.
THEOREM TrackerImplementsService ==
  ASSUME PlainUse
  PROVE  Spec => ImplementsService
  <1>1. IInv /\ [Next]_vars => [Service!Next]_Service!vars
    BY ServiceStep
  <1> QED
    BY ServiceInit, <1>1, Inductive, PTL DEF Spec, ImplementsService, Service!Spec
=============================================================================
