--------------------------- MODULE MCDetectorInput ---------------------------
(* Instances of DetectorInput for TLC: images, regions and detector sizes. *)
EXTENDS DetectorInput

SomeSizes  == {[w |-> 6, h |-> 4], [w |-> 5, h |-> 7]}
SomeLimits == {-1, 4, 10, 13, 24}

NoRoi == [x |-> 0, y |-> 0, w |-> 0, h |-> 0]

\* No region, one inside, some that leave the image on either side, and some that
\* begin right of it and have a width: ofClamp leaves them none.
Regions ==
  {NoRoi} \cup [x : {-3, 0, 4}, y : {-1, 3}, w : {-2, 1, 9}, h : {0, 8}]
          \cup [x : {6, 9}, y : {0}, w : {1, 4}, h : {2}]

\* Also regions right of the image whose own width is less than 1.
AnyRoi == Regions \cup [x : {6, 9}, y : {0}, w : {-1, 0}, h : {2}]

Settled  == {}
LateSize == {"lateSize"}
=============================================================================
