---------------------------- MODULE MCFaceTracker ----------------------------
(* Instances of FaceTracker for TLC: what kinds of application there are. *)
EXTENDS FaceTrackerInductive, TLC

CONSTANTS face1, face2

TwoFaces == {face1, face2}

\* Applications that stop the tracker and also destroy it before they exit, or go on
\* after an exception of update(), or both, or set it up again.
Destroying == {"stop", "destroy"}
OneSetup   == {"setThreaded", "stop", "destroy", "throws"}
Throwing   == {"stop", "throws"}
ManySetups == {"setThreaded", "stop", "restart"}

\* The labels are interchangeable: sound where no liveness is checked.
LabelSymmetry == Permutations(TwoFaces)
=============================================================================
