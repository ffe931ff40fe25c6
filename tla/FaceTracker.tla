----------------------------- MODULE FaceTracker -----------------------------
(***************************************************************************)
(* ofxFaceTracker2: the state the application's thread ("app") shares with *)
(* the background detector thread ("worker") and every call that changes   *)
(* it.  setup, update, stop, the exit event and the destructor run on the  *)
(* application's thread, threadedFunction on the worker; runFaceDetector   *)
(* runs on the worker, or inside update when the tracker is not threaded.  *)
(*                                                                         *)
(* An image is the number of the update() call that passed it: 0 is the    *)
(* empty image of a new tracker.  What one image is made of (size, roi,    *)
(* rotation) is the business of module InputGeometry.                      *)
(*                                                                         *)
(* An operator Bad... is its namesake with a plausible bug.  No behaviour  *)
(* uses it: it shows that a property would notice the bug.                 *)
(***************************************************************************)
EXTENDS Integers, Sequences

CONSTANTS
  Labels,     \* the labels ofxCv's rectangle tracker gives to faces
  MaxFaces,   \* bound: faces known to the rectangle tracker at a time
  MaxFrames,  \* bound: distinct images passed to update()
  Calls       \* what this application does beyond setup, update and exit:
              \*   "setThreaded"      it chooses the mode before each setup()
              \*   "stop"             it calls stop()
              \*   "destroy"          it destroys a stopped tracker before exit
              \*   "restart"          it calls setup() again after stop()
              \*   "throws"           it goes on after an exception of update()
              \*   "lateSetThreaded"  it calls setThreaded() after setup()

ASSUME FaceTrackerAssumption ==
  /\ MaxFaces \in Nat
  /\ MaxFrames \in Nat \ {0}
  /\ Calls \subseteq {"setThreaded", "stop", "destroy", "restart", "throws",
                      "lateSetThreaded"}

VARIABLES
  life,         \* of the tracker object, from the constructor to the destructor
  listening,    \* exitEvent is registered with ofEvents().exit
  threaded, imageDirty,
  mutexOwner,   \* the thread that holds the member mutex, or "nobody"
  running,      \* ofThread::isThreadRunning()
  frame,        \* the image update() was last called with
  roi, gray,    \* the image whose roi and pixels these members hold
  threadGray,   \* the image of which threadGray is a crop
  detectorRoi,  \* runFaceDetector's local of that name, per calling thread
  detected,     \* the image detectedFaceRectangles comes from, per thread
  distanceSet,  \* setMaximumDistance(200) has been called
  tracked,      \* the image whose rectangles were last given to track()
  labels,       \* faceRectanglesTracker.getCurrentLabels()
  instances, failed, numFaces,
  pc            \* where each thread is

sharedImage == <<roi, gray, threadGray>>
detection   == <<detectorRoi, detected>>
tracker     == <<distanceSet, tracked, labels>>
results     == <<instances, failed, numFaces>>
object      == <<life, listening, threaded>>
thread      == <<mutexOwner, running>>
vars == <<object, thread, imageDirty, frame, sharedImage, detection, tracker,
          results, pc>>

Threads == {"app", "worker"}
Frames  == 0 .. MaxFrames

\* What getCurrentLabels() can be: ofxCv never gives two faces one label.
LabelLists ==
  {s \in UNION {[1 .. n -> Labels] : n \in 0 .. MaxFaces} :
     \A i, j \in DOMAIN s : i # j => s[i] # s[j]}

\* An ofxFaceTracker2Instance: its label, the image of the call of track() its
\* rectangle comes from, and the image its landmarks were fitted to.
Instances == [label : Labels, rectFrame : Frames, frame : Frames]

Goto(t, from, to) == pc[t] = from /\ pc' = [pc EXCEPT ![t] = to]

Acquire(t) == mutexOwner = "nobody" /\ mutexOwner' = t
Release    == mutexOwner' = "nobody"

\* The constructor, with what it stores in imageDirty and numFaces.
Constructed(dirty, count) ==
  /\ life = "constructed" /\ listening = FALSE /\ threaded = TRUE
  /\ imageDirty = dirty
  /\ mutexOwner = "nobody" /\ running = FALSE
  /\ frame = 0 /\ roi = 0 /\ gray = 0 /\ threadGray = 0
  /\ detectorRoi = [t \in Threads |-> 0] /\ detected = [t \in Threads |-> 0]
  /\ distanceSet = FALSE /\ tracked = 0 /\ labels = << >>
  /\ instances = << >> /\ failed = TRUE /\ numFaces = count
  /\ pc = [t \in Threads |-> IF t = "app" THEN "idle" ELSE "none"]

\* imageDirty initialised to true.
BadInitDirty == Constructed(TRUE, 0)

Init == Constructed(FALSE, 0)

-----------------------------------------------------------------------------
(* setThreaded and setup *)

\* setThreaded only stores the flag.  The intended use is before setup(), or
\* between stop() and the next setup().
SetThreaded ==
  /\ pc["app"] = "idle"
  /\ \/ /\ "setThreaded" \in Calls
        /\ life = "constructed" \/ (life = "ready" /\ "restart" \in Calls /\ ~running)
     \/ life = "ready" /\ "lateSetThreaded" \in Calls
  /\ threaded' \in BOOLEAN
  /\ UNCHANGED <<life, listening, thread, imageDirty, frame, sharedImage,
                 detection, tracker, results, pc>>

\* setup up to the landmark model: without the data file the bare `throw;`
\* terminates the program.
BeginSetup ==
  /\ \/ life = "constructed"
     \/ life = "ready" /\ "restart" \in Calls /\ ~running
  /\ listening' = TRUE
  /\ \/ Goto("app", "idle", "setup.start") /\ life' = "constructed"
     \/ Goto("app", "idle", "terminated") /\ life' = "terminated"
  /\ UNCHANGED <<threaded, thread, imageDirty, frame, sharedImage, detection,
                 tracker, results>>

\* ofThread::startThread does nothing while an earlier thread still runs.
StartThread ==
  IF threaded /\ ~running /\ pc["worker"] = "none"
  THEN /\ running' = TRUE
       /\ pc' = [pc EXCEPT !["app"] = "setup.distance", !["worker"] = "loop"]
  ELSE UNCHANGED running /\ pc' = [pc EXCEPT !["app"] = "setup.distance"]

SetupStart ==
  /\ pc["app"] = "setup.start"
  /\ StartThread
  /\ UNCHANGED <<object, mutexOwner, imageDirty, frame, sharedImage, detection,
                 tracker, results>>

\* The rectangle tracker is configured after the thread was started, and
\* without the mutex.
SetupDistance ==
  /\ Goto("app", "setup.distance", "idle")
  /\ distanceSet' = TRUE
  /\ life' = "ready"
  /\ UNCHANGED <<listening, threaded, thread, imageDirty, frame, sharedImage,
                 detection, tracked, labels, results>>

-----------------------------------------------------------------------------
(* update, up to the detectors *)

\* The image is prepared in members only this thread uses.  At the bound the
\* application goes on passing the last image.
BeginUpdate ==
  /\ life = "ready"
  /\ Goto("app", "idle", IF threaded THEN "update.lock" ELSE "update.roi")
  /\ frame' = IF frame < MaxFrames THEN frame + 1 ELSE frame
  /\ UNCHANGED <<object, thread, imageDirty, sharedImage, detection, tracker,
                 results>>

\* update() without mutex.lock().
BadLockForUpdate ==
  /\ Goto("app", "update.lock", "update.roi")
  /\ UNCHANGED <<object, thread, imageDirty, frame, sharedImage, detection,
                 tracker, results>>

LockForUpdate ==
  /\ Goto("app", "update.lock", "update.roi")
  /\ Acquire("app")
  /\ UNCHANGED <<object, running, imageDirty, frame, sharedImage, detection,
                 tracker, results>>

WriteRoi ==
  /\ Goto("app", "update.roi", "update.gray")
  /\ roi' = frame
  /\ UNCHANGED <<object, thread, imageDirty, frame, gray, threadGray,
                 detection, tracker, results>>

WriteGray ==
  /\ Goto("app", "update.gray", "update.dirty")
  /\ gray' = frame
  /\ UNCHANGED <<object, thread, imageDirty, frame, roi, threadGray, detection,
                 tracker, results>>

\* The mutex is released when the exception leaves update(), as a
\* std::lock_guard would.
BadGrayThrows ==
  /\ "throws" \in Calls
  /\ Goto("app", "update.gray", "idle")
  /\ IF threaded THEN Release ELSE UNCHANGED mutexOwner
  /\ UNCHANGED <<object, running, imageDirty, frame, sharedImage, detection,
                 tracker, results>>

\* cvtColor refuses the image, by its depth or its number of channels.  The
\* exception leaves update() past the mutex.unlock() at its end.
GrayThrows ==
  /\ "throws" \in Calls
  /\ Goto("app", "update.gray", "idle")
  /\ UNCHANGED <<object, thread, imageDirty, frame, sharedImage, detection,
                 tracker, results>>

\* imageDirty is not set.
BadMarkDirty ==
  /\ Goto("app", "update.dirty", IF threaded THEN "marks.clear" ELSE "detect.roi")
  /\ UNCHANGED <<object, thread, imageDirty, frame, sharedImage, detection,
                 tracker, results>>

MarkDirty ==
  /\ Goto("app", "update.dirty", IF threaded THEN "marks.clear" ELSE "detect.roi")
  /\ imageDirty' = TRUE
  /\ UNCHANGED <<object, thread, frame, sharedImage, detection, tracker, results>>

-----------------------------------------------------------------------------
(* runFaceDetector(lockMutex): the worker passes true, update false *)

AfterSnapshot(t)  == IF t = "worker" THEN "detect.unlock" ELSE "detect.run"
AfterDetection(t) == IF t = "worker" THEN "detect.relock" ELSE "detect.track"
AfterTracking(t)  == IF t = "worker" THEN "detect.reunlock" ELSE "marks.clear"

LockForSnapshot ==
  /\ Goto("worker", "detect.lock", "detect.roi")
  /\ Acquire("worker")
  /\ UNCHANGED <<object, running, imageDirty, frame, sharedImage, detection,
                 tracker, results>>

ReadRoi(t) ==
  /\ Goto(t, "detect.roi", "detect.copy")
  /\ detectorRoi' = [detectorRoi EXCEPT ![t] = roi]
  /\ UNCHANGED <<object, thread, imageDirty, frame, sharedImage, detected,
                 tracker, results>>

CopyGray(t) ==
  /\ Goto(t, "detect.copy", AfterSnapshot(t))
  /\ threadGray' = gray
  /\ UNCHANGED <<object, thread, imageDirty, frame, roi, gray, detection,
                 tracker, results>>

UnlockSnapshot ==
  /\ Goto("worker", "detect.unlock", "detect.run")
  /\ Release
  /\ UNCHANGED <<object, running, imageDirty, frame, sharedImage, detection,
                 tracker, results>>

\* The slow part, outside the mutex.
Detect(t) ==
  /\ Goto(t, "detect.run", AfterDetection(t))
  /\ detected' = [detected EXCEPT ![t] = threadGray]
  /\ UNCHANGED <<object, thread, imageDirty, frame, sharedImage, detectorRoi,
                 tracker, results>>

\* The rectangles are mapped back with the member roi instead of the local copy;
\* the results are tracked without mutex.lock().
BadLockForTrackingRoi ==
  /\ Goto("worker", "detect.relock", "detect.track")
  /\ Acquire("worker")
  /\ detectorRoi' = [detectorRoi EXCEPT !["worker"] = roi]
  /\ UNCHANGED <<object, running, imageDirty, frame, sharedImage, detected,
                 tracker, results>>
BadLockForTracking ==
  /\ Goto("worker", "detect.relock", "detect.track")
  /\ UNCHANGED <<object, thread, imageDirty, frame, sharedImage, detection,
                 tracker, results>>

LockForTracking ==
  /\ Goto("worker", "detect.relock", "detect.track")
  /\ Acquire("worker")
  /\ UNCHANGED <<object, running, imageDirty, frame, sharedImage, detection,
                 tracker, results>>

\* ofxCv's tracker may keep the label of a face that was not detected and give
\* any free label to a new one, so any list of labels can come out.
Track(t) ==
  /\ Goto(t, "detect.track", AfterTracking(t))
  /\ tracked' = detected[t]
  /\ labels' \in LabelLists
  /\ UNCHANGED <<object, thread, imageDirty, frame, sharedImage, detection,
                 distanceSet, results>>

\* imageDirty is cleared when the detector is done, not before it starts; the
\* second mutex.unlock() is missing.
BadUnlockTrackingDirty ==
  /\ Goto("worker", "detect.reunlock", "loop")
  /\ Release /\ imageDirty' = FALSE
  /\ UNCHANGED <<object, running, frame, sharedImage, detection, tracker, results>>
BadUnlockTracking ==
  /\ Goto("worker", "detect.reunlock", "loop")
  /\ UNCHANGED <<object, thread, imageDirty, frame, sharedImage, detection,
                 tracker, results>>

UnlockTracking ==
  /\ Goto("worker", "detect.reunlock", "loop")
  /\ Release
  /\ UNCHANGED <<object, running, imageDirty, frame, sharedImage, detection,
                 tracker, results>>

-----------------------------------------------------------------------------
(* runLandmarkDetector and the end of update *)

\* Without instances.clear().
BadClearResults ==
  /\ Goto("app", "marks.clear",
          IF labels = << >> THEN "update.unlock" ELSE "marks.next")
  /\ failed' = TRUE /\ numFaces' = 0
  /\ UNCHANGED <<object, thread, imageDirty, frame, sharedImage, detection,
                 tracker, instances>>

ClearResults ==
  /\ Goto("app", "marks.clear",
          IF labels = << >> THEN "update.unlock" ELSE "marks.next")
  /\ failed' = TRUE /\ numFaces' = 0 /\ instances' = << >>
  /\ UNCHANGED <<object, thread, imageDirty, frame, sharedImage, detection,
                 tracker>>

\* One label of the range-for over the tracker's own list.
FitLandmarks ==
  /\ pc["app"] = "marks.next"
  /\ Len(instances) < Len(labels)
  /\ instances' = Append(instances, [label     |-> labels[Len(instances) + 1],
                                     rectFrame |-> tracked,
                                     frame     |-> gray])
  /\ UNCHANGED <<object, thread, imageDirty, frame, sharedImage, detection,
                 tracker, failed, numFaces, pc>>

FinishLandmarks ==
  /\ Goto("app", "marks.next", "update.unlock")
  /\ Len(instances) >= Len(labels)
  /\ failed' = FALSE /\ numFaces' = Len(labels)
  /\ UNCHANGED <<object, thread, imageDirty, frame, sharedImage, detection,
                 tracker, instances>>

EndUpdate ==
  /\ Goto("app", "update.unlock", "idle")
  /\ IF threaded THEN Release ELSE UNCHANGED mutexOwner
  /\ UNCHANGED <<object, running, imageDirty, frame, sharedImage, detection,
                 tracker, results>>

-----------------------------------------------------------------------------
(* threadedFunction *)

\* while(true) instead of while(isThreadRunning()).
BadLoopTest ==
  /\ Goto("worker", "loop", "check")
  /\ UNCHANGED <<object, thread, imageDirty, frame, sharedImage, detection,
                 tracker, results>>

\* The loop test; ofThread::run ends the thread when threadedFunction returns.
LoopTest ==
  /\ Goto("worker", "loop", IF running THEN "check" ELSE "none")
  /\ UNCHANGED <<object, thread, imageDirty, frame, sharedImage, detection,
                 tracker, results>>

\* imageDirty is read and cleared without the mutex.
CheckDirty ==
  /\ Goto("worker", "check", IF imageDirty THEN "clear" ELSE "loop")
  /\ UNCHANGED <<object, thread, imageDirty, frame, sharedImage, detection,
                 tracker, results>>

ClearDirty ==
  /\ Goto("worker", "clear", "detect.lock")
  /\ imageDirty' = FALSE
  /\ UNCHANGED <<object, thread, frame, sharedImage, detection, tracker, results>>

-----------------------------------------------------------------------------
(* stop, the exit event and the destructor *)

\* stopThread() without waitForThread().
BadBeginStop ==
  /\ running' = FALSE
  /\ Goto("app", "idle", "idle")

\* ofThread::waitForThread: tell the thread to stop, then join it.
BeginStop ==
  IF running
  THEN running' = FALSE /\ Goto("app", "idle", "stop.join")
  ELSE UNCHANGED running /\ Goto("app", "idle", "idle")

Stop ==
  /\ "stop" \in Calls
  /\ life = "ready" /\ running
  /\ BeginStop
  /\ UNCHANGED <<object, mutexOwner, imageDirty, frame, sharedImage, detection,
                 tracker, results>>

Join ==
  /\ Goto("app", "stop.join", "idle")
  /\ pc["worker"] = "none"
  /\ UNCHANGED <<object, thread, imageDirty, frame, sharedImage, detection,
                 tracker, results>>

ExitEvent ==
  /\ life = "ready"
  /\ listening
  /\ listening' = FALSE
  /\ life' = "exited"
  /\ BeginStop
  /\ UNCHANGED <<threaded, mutexOwner, imageDirty, frame, sharedImage,
                 detection, tracker, results>>

\* The destructor only logs an error when the thread was not stopped; an
\* application that heeds it destroys a stopped tracker.
Destroy ==
  /\ pc["app"] = "idle"
  /\ \/ life = "exited"
     \/ life = "ready" /\ "destroy" \in Calls /\ ~running
  /\ life' = "destroyed"
  /\ UNCHANGED <<listening, threaded, thread, imageDirty, frame, sharedImage,
                 detection, tracker, results, pc>>

\* The program is over: allows stuttering, so that a deadlock is an error.
Finished == life \in {"destroyed", "terminated"} /\ UNCHANGED vars

\* So is one whose only thread waits, in update() or for the worker, for the
\* mutex that it holds itself.
Hung ==
  /\ mutexOwner = "app" /\ pc["app"] \in {"update.lock", "stop.join"}
  /\ UNCHANGED vars

-----------------------------------------------------------------------------
\* What the application is free to do or not, and the calls once begun.
AppCall == SetThreaded \/ BeginSetup \/ BeginUpdate \/ Stop \/ ExitEvent \/ Destroy

RunFaceDetector(t) == ReadRoi(t) \/ CopyGray(t) \/ Detect(t) \/ Track(t)

AppStep ==
  \/ SetupStart \/ SetupDistance
  \/ LockForUpdate \/ WriteRoi \/ WriteGray \/ GrayThrows \/ MarkDirty
  \/ RunFaceDetector("app")
  \/ ClearResults \/ FitLandmarks \/ FinishLandmarks \/ EndUpdate
  \/ Join

WorkerLock == LockForSnapshot \/ LockForTracking

WorkerStep ==
  \/ LoopTest \/ CheckDirty \/ ClearDirty
  \/ WorkerLock \/ UnlockSnapshot \/ UnlockTracking
  \/ RunFaceDetector("worker")

Next == AppCall \/ AppStep \/ WorkerStep \/ Finished \/ Hung

Spec == Init /\ [][Next]_vars

\* A call that was begun goes on, and so does the worker.  The application may
\* call update() for ever, which frees and takes the mutex again and again: the
\* worker gets it in the end, since a frame of the application is long.
FairSpec == Spec /\ WF_vars(AppStep) /\ WF_vars(WorkerStep) /\ SF_vars(WorkerLock)

-----------------------------------------------------------------------------
(* Properties *)

AppLocations ==
  {"idle", "terminated", "setup.start", "setup.distance", "update.lock",
   "update.roi", "update.gray", "update.dirty", "detect.roi", "detect.copy",
   "detect.run", "detect.track", "marks.clear", "marks.next", "update.unlock",
   "stop.join"}

WorkerLocations ==
  {"none", "loop", "check", "clear", "detect.lock", "detect.roi", "detect.copy",
   "detect.unlock", "detect.run", "detect.relock", "detect.track",
   "detect.reunlock"}

\* Every member holds a value of its type.
TypeOK ==
  /\ life \in {"constructed", "ready", "exited", "destroyed", "terminated"}
  /\ listening \in BOOLEAN /\ threaded \in BOOLEAN /\ imageDirty \in BOOLEAN
  /\ mutexOwner \in Threads \cup {"nobody"} /\ running \in BOOLEAN
  /\ frame \in Frames /\ roi \in Frames /\ gray \in Frames /\ threadGray \in Frames
  /\ detectorRoi \in [Threads -> Frames] /\ detected \in [Threads -> Frames]
  /\ distanceSet \in BOOLEAN /\ tracked \in Frames /\ labels \in Seq(Labels)
  /\ instances \in Seq(Instances) /\ failed \in BOOLEAN /\ numFaces \in Nat
  /\ pc \in [Threads -> AppLocations \cup WorkerLocations]
  /\ pc["app"] \in AppLocations /\ pc["worker"] \in WorkerLocations

\* The members a thread is about to read and to write where it is.
Reads ==
  {<<"detect.roi", "roi">>, <<"detect.roi", "gray">>, <<"detect.copy", "gray">>,
   <<"detect.run", "threadGray">>, <<"detect.track", "maximumDistance">>,
   <<"marks.clear", "labels">>, <<"marks.next", "labels">>,
   <<"marks.next", "gray">>}
Writes ==
  {<<"setup.distance", "maximumDistance">>, <<"update.roi", "roi">>,
   <<"update.gray", "gray">>, <<"detect.copy", "threadGray">>,
   <<"detect.run", "faceDetector">>, <<"detect.track", "labels">>}

\* No two threads are at accesses to one of the members of which one is a write.
NoRaceOn(members) ==
  \A w \in Writes, a \in Reads \cup Writes :
    w[2] \in members /\ w[2] = a[2] =>
      \A t, u \in Threads : t # u => ~(pc[t] = w[1] /\ pc[u] = a[1])

\* No data race on what the two threads share (imageDirty and thread_fps, which
\* the code shares without the mutex, apart).
RaceFree == NoRaceOn({w[2] : w \in Writes})

\* The mutex in update and runFaceDetector keeps its members race-free however
\* often the tracker is stopped and set up again.  setMaximumDistance, which a
\* second setup() calls while the new worker may be tracking, is not among them.
MutexGuards == NoRaceOn({w[2] : w \in Writes} \ {"maximumDistance"})

\* A frame that update() handed over is never lost: while its rectangles are not
\* tracked, imageDirty asks for it or the worker is on its way with it.  The
\* worker clears imageDirty before it takes its snapshot, not after.
NoLostFrame ==
  \/ gray = tracked
  \/ imageDirty
  \/ pc["app"] = "update.dirty"
  \/ pc["worker"] \in {"detect.lock", "detect.roi", "detect.copy"}
  \/ pc["worker"] \in {"detect.unlock", "detect.run"} /\ threadGray = gray
  \/ pc["worker"] \in {"detect.relock", "detect.track"} /\ detected["worker"] = gray

\* The rectangles are mapped back with the roi of the image they were found in,
\* although update() may replace both while the detector runs.
DetectionCoherent ==
  \A t \in Threads : pc[t] = "detect.track" => detectorRoi[t] = detected[t]

\* What the application sees between calls: getInstances() is one snapshot of
\* the rectangle tracker fitted to the image of the last update(), with distinct
\* labels, and size(), numFaces and failed agree with it.
SnapshotConsistent ==
  pc["app"] = "idle" =>
    /\ numFaces = Len(instances)
    /\ failed <=> instances = << >>
    /\ \A i, j \in DOMAIN instances :
         /\ instances[i].frame = gray
         /\ instances[i].rectFrame = instances[j].rectFrame
         /\ i # j => instances[i].label # instances[j].label

\* No rectangle is tracked before setMaximumDistance(200), although setup()
\* starts the worker first.
TrackedAfterConfigured ==
  \A t \in Threads : pc[t] = "detect.track" => distanceSet

\* A destroyed tracker has no thread left that could touch it.
QuietAfterDestroy == life = "destroyed" => pc["worker"] = "none"

\* Detections reach the rectangle tracker in the order of their images: a face
\* never jumps back to where it was in an older image.
OrderedDetections == [][tracked' >= tracked]_vars

\* update() returns: it never waits for ever for the mutex.
UpdateReturns == pc["app"] = "update.lock" ~> pc["app"] = "idle"

\* stop() and the exit event return: the worker is never stuck when joined.
\* "Called on exit event of app, makes sure thread closes down properly"
\* (ofxFaceTracker2.cpp:83).
StopReturns == pc["app"] = "stop.join" ~> pc["app"] = "idle"

\* A detector has, or update() is about to start one on, the image in gray.
DetectionDue(f) == gray = f /\ (running \/ pc["app"] = "detect.roi")

\* Every image is in the end overtaken by a detection on it or on a later one,
\* unless the worker is stopped first.
WorkerCatchesUp ==
  \A f \in 1 .. MaxFrames :
    DetectionDue(f) ~> (tracked >= f \/ (threaded /\ ~running))

\* While the application goes on calling update(), its answers catch up: the
\* rectangles an image is fitted with are stale for a while, never for ever.
Fresh(f) == tracked >= f /\ \A i \in DOMAIN instances : instances[i].rectFrame >= f

AnswersCatchUp ==
  []<>(pc["app"] = "update.roi") =>
    \A f \in 1 .. MaxFrames :
      DetectionDue(f) ~>
        ((pc["app"] = "idle" /\ Fresh(f)) \/ (threaded /\ ~running))

\* "You must call the trackers stop() before destroying the tracker object"
\* (ofxFaceTracker2.cpp:69), and that is all it asks for: after the destruction the
\* exit event, by which stop() is "called automatically" (ofxFaceTracker2.h:44), is
\* not delivered to a tracker that is gone.
ExitEventFindsTracker == life = "destroyed" => ~listening

\* The tracker implements FaceService.  update() submits its image when it
\* replaces gray, and answers with the last step of the landmark detector.
Answering ==
  {"update.dirty", "detect.roi", "detect.copy", "detect.run", "detect.track",
   "marks.clear", "marks.next"}

InHand ==
  IF pc["app"] \in Answering
  THEN [face |-> << >>, ok |-> FALSE, size |-> 0, pending |-> TRUE]
  ELSE [face |-> instances, ok |-> ~failed, size |-> numFaces, pending |-> FALSE]

Service == INSTANCE FaceService WITH
  Images <- Frames, FaceLists <- LabelLists,
  latest <- gray, found <- tracked, faces <- labels, answer <- InHand

\* Every behaviour of the threads is a behaviour of the service: update()
\* answers with the faces known at one instant, whatever the worker does meanwhile.
ImplementsService == Service!Spec
=============================================================================
