----------------------------- MODULE FaceService -----------------------------
(***************************************************************************)
(* What ofxFaceTracker2 promises its application, without threads, locks   *)
(* or flags.  The application submits images one at a time; detections     *)
(* happen at any moment, each on an image submitted since the last one     *)
(* was; a submission is answered, at one instant, with the faces known at  *)
(* that instant, all of them fitted to the image just submitted.           *)
(***************************************************************************)
EXTENDS Naturals, Sequences

CONSTANTS Images,     \* numbers of images, 0 for none
          FaceLists   \* the lists of labels the known faces can have

VARIABLES latest,     \* the image submitted last
          found,      \* the image the known faces were found in
          faces,      \* the labels of the known faces
          answer      \* what the application has in hand

vars == <<latest, found, faces, answer>>

\* There is no answer while a submission is being worked on.
Pending == [face |-> << >>, ok |-> FALSE, size |-> 0, pending |-> TRUE]

Answer(list, image, origin) ==
  [face    |-> [i \in DOMAIN list |->
                  [label |-> list[i], rectFrame |-> origin, frame |-> image]],
   ok      |-> list # << >>,
   size    |-> Len(list),
   pending |-> FALSE]

Init ==
  /\ latest = 0 /\ found = 0 /\ faces = << >>
  /\ answer = Answer(<< >>, 0, 0)

\* The same image may be submitted again.
Submit ==
  /\ ~answer.pending
  /\ \E image \in Images : image >= latest /\ latest' = image
  /\ answer' = Pending
  /\ UNCHANGED <<found, faces>>

\* Never on an image older than the one the known faces come from.
Detect ==
  /\ \E image \in Images : found <= image /\ image <= latest /\ found' = image
  /\ faces' \in FaceLists
  /\ UNCHANGED <<latest, answer>>

Reply ==
  /\ answer.pending
  /\ answer' = Answer(faces, latest, found)
  /\ UNCHANGED <<latest, found, faces>>

Next == Submit \/ Detect \/ Reply

Spec == Init /\ [][Next]_vars
=============================================================================
