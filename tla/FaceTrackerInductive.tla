------------------------ MODULE FaceTrackerInductive -------------------------
(***************************************************************************)
(* The inductive invariant of FaceTracker, in named parts, for an          *)
(* application of PlainUse.                                                *)
(* TLC checks it here; FaceTrackerProofs proves it.                        *)
(***************************************************************************)
EXTENDS FaceTracker

\* The application leaves the mode of a tracker in use alone, and does not set up
\* again a tracker whose update() may have thrown.
PlainUse == "lateSetThreaded" \notin Calls /\ ~({"restart", "throws"} \subseteq Calls)

SetupPart  == {"setup.start", "setup.distance"}
InlinePart == {"detect.roi", "detect.copy", "detect.run", "detect.track"}

\* Where update() holds the mutex, if it locks at all, and where the worker does.
AppCritical ==
  {"update.roi", "update.gray", "update.dirty", "marks.clear", "marks.next",
   "update.unlock"} \cup InlinePart
WorkerCritical ==
  {"detect.roi", "detect.copy", "detect.unlock", "detect.track", "detect.reunlock"}

\* Which calls can be under way at each stage of the object's life.
LifeInv ==
  /\ pc["app"] \in SetupPart => life = "constructed"
  /\ pc["app"] \in AppCritical \cup {"update.lock"} => life = "ready"
  /\ pc["app"] = "stop.join" => life \in {"ready", "exited"}
  /\ pc["app"] = "terminated" <=> life = "terminated"
  /\ life \in {"exited", "destroyed", "terminated"} => ~running
  /\ life = "constructed" /\ pc["app"] # "setup.distance" => ~running

\* The worker exists while it is told to run, and when not only until the
\* application's thread has joined it; it exists only in threaded mode.
ThreadInv ==
  /\ running => pc["worker"] # "none"
  /\ ~running /\ pc["app"] # "stop.join" => pc["worker"] = "none"
  /\ pc["worker"] # "none" => threaded
  /\ pc["app"] \in InlinePart => ~threaded /\ imageDirty
  /\ pc["app"] = "update.lock" => threaded

\* The mutex is held where the code means it to be and, by the application's
\* thread, nowhere else unless update() threw.
MutexInv ==
  /\ threaded /\ pc["app"] \in AppCritical => mutexOwner = "app"
  /\ mutexOwner = "app" =>
       "throws" \in Calls \/ (threaded /\ pc["app"] \in AppCritical)
  /\ mutexOwner = "worker" <=> pc["worker"] \in WorkerCritical

\* update() threw between its assignments to roi and to gray: no worker can see
\* them before the next call has replaced both.
HalfUpdated ==
  /\ "throws" \in Calls
  /\ life # "constructed"
  /\ pc["app"] \notin AppCritical \ {"update.roi"}
  /\ threaded => mutexOwner = "app"

\* The members describing the image agree except inside update(), or after it threw.
ImageInv ==
  /\ pc["app"] = "update.gray" => roi = frame
  /\ pc["app"] # "update.gray" => roi = gray \/ HalfUpdated
  /\ gray <= frame

\* The roi a detection is mapped back with is the one of its image.
CoherentInv ==
  \A t \in Threads :
    /\ pc[t] = "detect.copy" => detectorRoi[t] = roi
    /\ pc[t] \in {"detect.unlock", "detect.run"} => detectorRoi[t] = threadGray
    /\ pc[t] \in {"detect.relock", "detect.track"} => detectorRoi[t] = detected[t]

\* Known rectangles are never newer than the image, nor than a detection under way.
OrderInv ==
  /\ tracked <= gray
  /\ threadGray <= gray
  /\ \A t \in Threads :
       /\ pc[t] \in {"detect.unlock", "detect.run"} => tracked <= threadGray
       /\ pc[t] \in {"detect.relock", "detect.track"} =>
            tracked <= detected[t] /\ detected[t] <= gray

\* Nothing is detected before the rectangle tracker is configured.
ConfiguredInv ==
  /\ life \in {"ready", "exited", "destroyed"} => distanceSet
  /\ imageDirty => distanceSet
  /\ pc["worker"] \notin {"none", "loop", "check"} => distanceSet
  /\ pc["app"] \in SetupPart /\ "restart" \notin Calls => ~distanceSet
  /\ life = "constructed" /\ "restart" \notin Calls => ~distanceSet

\* The face in hand as update() builds it from the tracker's i-th label.
FaceOf(i) == [label |-> labels[i], rectFrame |-> tracked, frame |-> gray]

\* Half-built results are a prefix of the answer; the complete ones stay a
\* snapshot until the next update() replaces the image.
ResultsInv ==
  /\ labels \in LabelLists
  /\ pc["app"] = "marks.next" =>
       /\ Len(instances) <= Len(labels)
       /\ labels # << >>
       /\ \A i \in 1 .. Len(instances) : instances[i] = FaceOf(i)
  /\ pc["app"] \notin {"update.dirty", "marks.clear", "marks.next"} \cup InlinePart =>
       /\ numFaces = Len(instances)
       /\ failed <=> instances = << >>
       /\ \A i, j \in DOMAIN instances :
            /\ instances[i].frame = gray
            /\ instances[i].rectFrame = instances[j].rectFrame
            /\ i # j => instances[i].label # instances[j].label

\* The whole: inductive, and it implies the safety properties of FaceTracker.
IInv ==
  /\ TypeOK
  /\ LifeInv
  /\ ThreadInv
  /\ MutexInv
  /\ ImageInv
  /\ CoherentInv
  /\ OrderInv
  /\ ConfiguredInv
  /\ NoLostFrame
  /\ ResultsInv

-----------------------------------------------------------------------------
(* Waiting *)

\* Where a thread cannot go on by itself: at the mutex, or joining the worker.
AppWaits ==
  \/ pc["app"] = "update.lock" /\ mutexOwner # "nobody"
  \/ pc["app"] = "stop.join" /\ pc["worker"] # "none"
WorkerWaits == pc["worker"] \in {"detect.lock", "detect.relock"} /\ mutexOwner # "nobody"

\* No thread waits for the mutex it holds, nor the two for each other: while one
\* waits the other is on its way to what the first waits for.  (The step of stop()
\* that makes isThreadRunning() false comes before the wait.)
NoCircularWait ==
  /\ AppWaits => mutexOwner # "app" /\ pc["worker"] # "none" /\ ~WorkerWaits
  /\ WorkerWaits => mutexOwner = "app" /\ pc["app"] \in AppCritical
  /\ pc["app"] = "stop.join" => ~running
=============================================================================
