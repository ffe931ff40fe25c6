---------------------------- MODULE MCFaceFinding ----------------------------
(* An instance of FaceFinding for TLC: a 6 x 4 image, two weight vectors, a   *)
(* cascade with trees of two and of four leaves, and one stage without trees. *)
EXTENDS FaceFinding

Box(l, t, r, b) == [l |-> l, t |-> t, r |-> r, b |-> b]

\* Two that share half their area, one inside the first, one beyond the image.
SomeBoxes == {Box(0, 0, 3, 3), Box(1, 0, 4, 3), Box(1, 1, 2, 2), Box(5, 2, 8, 5)}

TwoThresholds == <<1, 2>>

Image      == Box(0, 0, 5, 3)
GrownBoxes == {FaceRect(CvRect(a)) : a \in SomeBoxes}
TwoOffsets == {[x |-> 0, y |-> 0], [x |-> 2, y |-> 1]}

Split(i, j, thresh) == [idx1 |-> i, idx2 |-> j, thresh |-> thresh]
Tree(splits)        == [splits |-> splits, leaves |-> Len(splits) + 1]

Samples3 == <<2, 0, 3>>
Cascade ==
  << <<Tree(<<Split(0, 1, 0), Split(1, 0, 0), Split(1, 0, -1)>>),
       Tree(<<Split(1, 0, 0)>>)>>,
     << >>,
     <<Tree(<<Split(2, 1, 1), Split(0, 2, 0), Split(1, 2, -2)>>)>> >>
=============================================================================
