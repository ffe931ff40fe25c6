------------------------ MODULE DetectorInputProofs ------------------------
(***************************************************************************)
(* The clamping of ofxFaceTracker2.cpp:173-178 does what its comment says  *)
(* for every image and every region, but for regions that begin right of   *)
(* the image without a width, or below it without a height: the run        *)
(* roi_outside shows that this assumption is needed. Whatever the region,  *)
(* the scaled copy has the number of pixels and the proportions it is      *)
(* documented to have: both sides are rounded, but their squares are       *)
(* bounded by the same multiple of the squares of the region's sides, and  *)
(* roots keep that order. Faces found in it are mapped back into the       *)
(* region but for half a pixel of the copy, by which rounding may have     *)
(* lengthened a side: truncation of both ends of a face adds nothing to    *)
(* it.                                                                     *)
(***************************************************************************)
EXTENDS DetectorInput, WellFoundedInduction, TLAPS

\* No region begins right of (below) the image and is less than one column wide (row
\* high): ofClamp would make its width 1, where none is left.  0 by 0 means no region.
NoThinRegionBeyond ==
  \A r \in Rois, size \in Sizes :
    \/ r.w = 0 /\ r.h = 0
    \/ (r.x < size.w \/ r.w >= 1) /\ (r.y < size.h \/ r.h >= 1)

\* Between two detections roi and gray belong together: both come from one
\* update(), and the region can be clamped to that image.
RoiOfGray ==
  /\ gray \in [w : Nat, h : Nat]
  /\ roi \in [x : Int, y : Int, w : Int, h : Int]
  /\ gray # NoSize =>
       /\ roi.x < gray.w \/ roi.w >= 1
       /\ roi.y < gray.h \/ roi.h >= 1
       /\ gray.w > 0 /\ gray.h > 0

RegionInv == RoiOfGray /\ RoiWithinBoundaries

-----------------------------------------------------------------------------
LEMMA NoSizeIsSize == NoSize \in [w : Nat, h : Nat] /\ NoSize.w = 0 /\ NoSize.h = 0
  BY DEF NoSize

\* What is left of the image behind the corner bounds the clamped region.
LEMMA ClampedRoiIsInside ==
  ASSUME NEW r \in [x : Int, y : Int, w : Int, h : Int],
         NEW size \in [w : Nat \ {0}, h : Nat \ {0}],
         r.x < size.w \/ r.w >= 1, r.y < size.h \/ r.h >= 1
  PROVE  /\ ClampedRoi(r, size).x + ClampedRoi(r, size).w <= size.w
         /\ ClampedRoi(r, size).y + ClampedRoi(r, size).h <= size.h
<1>1. ASSUME NEW v \in Int, NEW length \in Int, NEW side \in Nat \ {0},
             v < side \/ length >= 1
      PROVE  Clamp(v, 0, side) + Clamp(length, 1, side - Clamp(v, 0, side)) <= side
  BY <1>1 DEF Clamp
<1>2. /\ r.x \in Int /\ r.y \in Int /\ r.w \in Int /\ r.h \in Int
      /\ size.w \in Nat \ {0} /\ size.h \in Nat \ {0}
  OBVIOUS
<1>3. /\ ClampedRoi(r, size).x = Clamp(r.x, 0, size.w)
      /\ ClampedRoi(r, size).w = Clamp(r.w, 1, size.w - Clamp(r.x, 0, size.w))
      /\ ClampedRoi(r, size).y = Clamp(r.y, 0, size.h)
      /\ ClampedRoi(r, size).h = Clamp(r.h, 1, size.h - Clamp(r.y, 0, size.h))
  BY DEF ClampedRoi
<1> QED
  BY <1>1, <1>2, <1>3

LEMMA RegionInit == Init => RegionInv
  BY NoSizeIsSize DEF Init, RegionInv, RoiOfGray, RoiWithinBoundaries

LEMMA RegionStep ==
  ASSUME NoThinRegionBeyond
  PROVE  RegionInv /\ [Next]_vars => RegionInv'
<1> SUFFICES ASSUME RegionInv, [Next]_vars PROVE RegionInv'
  OBVIOUS
<1>1. ASSUME NEW size \in Sizes, NEW r \in Rois, Submit(size, r) PROVE RegionInv'
  <2>1. /\ size \in [w : Nat \ {0}, h : Nat \ {0}]
        /\ r \in [x : Int, y : Int, w : Int, h : Int]
        /\ \/ r.w = 0 /\ r.h = 0
           \/ (r.x < size.w \/ r.w >= 1) /\ (r.y < size.h \/ r.h >= 1)
    BY DetectorInputAssumption DEF NoThinRegionBeyond
  <2>2. RoiOfGray'
    BY <1>1, <2>1 DEF Submit, RoiOfGray
  <2>3. RoiWithinBoundaries'
    BY <1>1 DEF Submit, RoiWithinBoundaries
  <2> QED
    BY <2>2, <2>3 DEF RegionInv
<1>2. ASSUME ClampRoi PROVE RegionInv'
  <2>1. /\ gray \in [w : Nat \ {0}, h : Nat \ {0}]
        /\ roi.x < gray.w \/ roi.w >= 1
        /\ roi.y < gray.h \/ roi.h >= 1
    BY <1>2 DEF ClampRoi, RegionInv, RoiOfGray
  <2>2. RegionInside'
    BY <1>2, <2>1, ClampedRoiIsInside DEF ClampRoi, RegionInside, RegionInv, RoiOfGray
  <2> QED
    BY <1>2, <2>2 DEF ClampRoi, RegionInv, RoiOfGray, RoiWithinBoundaries
<1>3. ASSUME SetFaceDetectorImageSize \/ TestSize \/ Crop \/ Scale \/ MapRectangles \/ Thrown
             \/ UNCHANGED vars
      PROVE  RegionInv'
  <2>1. UNCHANGED <<gray, roi, detectorRoi>>
    BY <1>3 DEF SetFaceDetectorImageSize, TestSize, Crop, Scale, MapRectangles, Thrown, vars
  <2>2. step' \in {"test", "crop", "scale"} => step \in {"test", "crop", "scale"}
    BY <1>3 DEF SetFaceDetectorImageSize, TestSize, Crop, Scale, MapRectangles, Thrown, vars
  <2> QED
    BY <2>1, <2>2 DEF RegionInv, RoiOfGray, RoiWithinBoundaries, RegionInside
<1> QED
  BY <1>1, <1>2, <1>3 DEF Next

\* "Make sure roi is within boundaries" (ofxFaceTracker2.cpp:173), for all images
\* and all regions that are not right of the image and less than a column wide, nor
\* below it and less than a row high.
THEOREM RegionsAreInside ==
  ASSUME NoThinRegionBeyond
  PROVE  Spec => []RoiWithinBoundaries
<1>1. RegionInv => RoiWithinBoundaries
  BY DEF RegionInv
<1>2. RegionInv /\ [Next]_vars => RegionInv'
  BY RegionStep
<1> QED
  BY <1>1, <1>2, RegionInit, PTL DEF Spec

-----------------------------------------------------------------------------
(* What the detector is given *)

\* From the test to the mapping back the region stays what it was, and the image
\* the detector gets is the region, or the region scaled.
ScaledInv ==
  /\ TypeOK
  /\ step = "crop" => tested = -1 \/ Area(detectorRoi) <= tested
  /\ step = "scale" => Area(detectorRoi) > 0
  /\ step = "run" /\ scaled = 0 =>
       /\ threadGray = [w |-> detectorRoi.w, h |-> detectorRoi.h]
       /\ tested = -1 \/ Area(detectorRoi) <= tested
  /\ step = "run" /\ scaled # 0 =>
       /\ Area(detectorRoi) > 0 /\ scaled \in Nat \ {0}
       /\ threadGray \in ScaledSizes(scaled)

\* The clamped region has no negative side, however far its corner is outside.
LEMMA ClampedRoiHasSides ==
  ASSUME NEW r \in [x : Int, y : Int, w : Int, h : Int],
         NEW size \in [w : Nat, h : Nat]
  PROVE  ClampedRoi(r, size) \in [x : Nat, y : Nat, w : Nat, h : Nat]
<1>1. ASSUME NEW v \in Int, NEW length \in Int, NEW side \in Nat
      PROVE  /\ Clamp(v, 0, side) \in Nat
             /\ Clamp(length, 1, side - Clamp(v, 0, side)) \in Nat
  BY DEF Clamp
<1>2. r.x \in Int /\ r.y \in Int /\ r.w \in Int /\ r.h \in Int /\ size.w \in Nat /\ size.h \in Nat
  OBVIOUS
<1> QED
  BY <1>1, <1>2 DEF ClampedRoi

LEMMA ScaledSizesAreSizes ==
  ASSUME NEW limit \in Nat, detectorRoi.w \in Nat, detectorRoi.h \in Nat
  PROVE  ScaledSizes(limit) \subseteq [w : Nat, h : Nat]
<1>1. ASSUME NEW side \in Nat PROVE ScaledSides(side, limit) \subseteq Nat
  BY DEF ScaledSides
<1> QED
  BY <1>1 DEF ScaledSizes

LEMMA ScaledInit == Init => ScaledInv
  BY NoSizeIsSize DEF Init, ScaledInv, TypeOK, Steps

LEMMA ScaledStep == ScaledInv /\ [Next]_vars => ScaledInv'
<1> SUFFICES ASSUME ScaledInv, [Next]_vars PROVE ScaledInv'
  OBVIOUS
<1>0. /\ TypeOK /\ Limits \subseteq {-1} \cup (Nat \ {0})
      /\ detectorRoi \in [x : Nat, y : Nat, w : Nat, h : Nat]
      /\ Area(detectorRoi) \in Nat
  <2>1. detectorRoi.w \in Nat /\ detectorRoi.h \in Nat
    BY DEF ScaledInv, TypeOK
  <2>2. Area(detectorRoi) \in Nat
    BY <2>1 DEF Area
  <2> QED
    BY <2>2, DetectorInputAssumption DEF ScaledInv, TypeOK
<1>1. ASSUME NEW size \in Sizes, NEW r \in Rois, Submit(size, r) PROVE ScaledInv'
  <2>1. /\ size \in [w : Nat \ {0}, h : Nat \ {0}]
        /\ r \in [x : Int, y : Int, w : Int, h : Int]
    BY DetectorInputAssumption
  <2>2. roi' \in [x : Int, y : Int, w : Int, h : Int] /\ gray' \in Sizes
    BY <1>1, <2>1 DEF Submit
  <2> QED
    BY <1>1, <2>2 DEF Submit, ScaledInv, TypeOK, Steps, ScaledSizes, ScaledSides
<1>2. ASSUME ClampRoi PROVE ScaledInv'
  <2>1. gray \in [w : Nat, h : Nat] /\ roi \in [x : Int, y : Int, w : Int, h : Int]
    BY <1>0, DetectorInputAssumption, NoSizeIsSize DEF TypeOK
  <2>2. detectorRoi' \in [x : Nat, y : Nat, w : Nat, h : Nat]
    BY <1>2, <2>1, ClampedRoiHasSides DEF ClampRoi
  <2> QED
    BY <1>0, <1>2, <2>2 DEF ClampRoi, ScaledInv, TypeOK, Steps
<1>3. ASSUME TestSize PROVE ScaledInv'
  <2>1. step' = "scale" => Area(detectorRoi) > 0
    <3> SUFFICES ASSUME ~Fits(faceDetectorImageSize) PROVE Area(detectorRoi) > 0
      BY <1>3 DEF TestSize
    <3> QED
      BY <1>0 DEF Fits, TypeOK
  <2>2. step' = "crop" => faceDetectorImageSize = -1 \/ Area(detectorRoi) <= faceDetectorImageSize
    BY <1>3 DEF TestSize, Fits
  <2> QED
    BY <1>0, <1>3, <2>1, <2>2 DEF TestSize, ScaledInv, TypeOK, Steps, Area
<1>4. ASSUME Crop PROVE ScaledInv'
  BY <1>0, <1>4 DEF Crop, ScaledInv, TypeOK, Steps, Area
<1>5. ASSUME Scale PROVE ScaledInv'
  <2>1. CASE step' = "run"
    <3>1. /\ faceDetectorImageSize \in Nat \ {0} /\ faceDetectorImageSize \in Limits
          /\ scaled' = faceDetectorImageSize
          /\ threadGray' \in ScaledSizes(faceDetectorImageSize)
      BY <1>0, <1>5, <2>1 DEF Scale, TypeOK
    <3>2. threadGray' \in [w : Nat, h : Nat]
      BY <1>0, <3>1, ScaledSizesAreSizes
    <3>3. Area(detectorRoi) > 0 /\ UNCHANGED <<gray, roi, faceDetectorImageSize, detectorRoi, tested>>
      BY <1>5 DEF Scale, ScaledInv
    <3>4. threadGray' \in ScaledSizes(scaled)'
      BY <3>1, <3>3 DEF ScaledSizes, ScaledSides, Area
    <3>5. TypeOK'
      BY <1>0, <2>1, <3>1, <3>2, <3>3 DEF TypeOK, Steps
    <3> QED
      BY <2>1, <3>1, <3>3, <3>4, <3>5 DEF ScaledInv, Area
  <2>2. CASE step' = "thrown"
    BY <1>0, <1>5, <2>2 DEF Scale, ScaledInv, TypeOK, Steps
  <2> QED
    BY <1>5, <2>1, <2>2 DEF Scale
<1>6. ASSUME MapRectangles PROVE ScaledInv'
  BY <1>6 DEF MapRectangles, ScaledInv, TypeOK, Steps
<1>7. ASSUME SetFaceDetectorImageSize \/ Thrown \/ UNCHANGED vars PROVE ScaledInv'
  <2>1. /\ UNCHANGED <<gray, roi, detectorRoi, tested, scaled, threadGray, step>>
        /\ faceDetectorImageSize' \in Limits
    BY <1>0, <1>7 DEF SetFaceDetectorImageSize, Thrown, vars, TypeOK
  <2> QED
    BY <2>1 DEF ScaledInv, TypeOK, ScaledSizes, ScaledSides, Area
<1> QED
  BY <1>1, <1>2, <1>3, <1>4, <1>5, <1>6, <1>7 DEF Next

LEMMA ScaledAlways == Spec => []ScaledInv
  BY ScaledInit, ScaledStep, PTL DEF Spec

\* Every variable holds a value of its type, whatever the region and however late
\* setFaceDetectorImageSize is called.
THEOREM InputTypeCorrect == Spec => []TypeOK
<1>1. ScaledInv => TypeOK
  BY DEF ScaledInv
<1> QED
  BY <1>1, ScaledAlways, PTL

-----------------------------------------------------------------------------
(* Roots without roots: what is known of squares says it of the sides *)

LEMMA SquareOrder ==
  ASSUME NEW a \in Int, NEW b \in Nat, a * a <= b * b
  PROVE  a <= b
<1> SUFFICES ASSUME a > b PROVE FALSE
  OBVIOUS
<1>1. a * a > b * a
  OBVIOUS
<1>2. b * a >= b * b
  OBVIOUS
<1> QED
  BY <1>1, <1>2

LEMMA ProductOrder ==
  ASSUME NEW a \in Nat, NEW b \in Nat, NEW c \in Nat, NEW d \in Nat, a <= b, c <= d
  PROVE  a * c <= b * d
<1>1. a * c <= b * c /\ b * c <= b * d
  OBVIOUS
<1>2. a * c \in Nat /\ b * c \in Nat /\ b * d \in Nat
  OBVIOUS
<1> QED
  BY <1>1, <1>2

LEMMA Cancel ==
  ASSUME NEW a \in Int, NEW b \in Int, NEW c \in Nat \ {0}, a * c <= b * c
  PROVE  a <= b
<1> SUFFICES ASSUME a - b >= 1 PROVE FALSE
  OBVIOUS
<1>1. (a - b) * c >= c
  OBVIOUS
<1>2. (a - b) * c = a * c - b * c
  OBVIOUS
<1> QED
  BY <1>1, <1>2

LEMMA Interchange ==
  ASSUME NEW a \in Int, NEW b \in Int, NEW c \in Int, NEW d \in Int
  PROVE  (a * b) * (c * d) = (a * c) * (b * d)
  OBVIOUS

\* Two sides p and q that are no more than the root of r / a of W and H make an
\* area that is no more than r, where a is the area of W and H.
LEMMA RootArea ==
  ASSUME NEW p \in Nat, NEW q \in Nat, NEW r \in Nat, NEW W \in Nat, NEW H \in Nat,
         W * H > 0,
         (p * p) * (W * H) <= r * (W * W),
         (q * q) * (W * H) <= r * (H * H)
  PROVE  p * q <= r
<1> DEFINE a == W * H
<1>1. /\ a \in Nat \ {0} /\ p * q \in Nat
      /\ (p * p) * a \in Nat /\ (q * q) * a \in Nat
      /\ r * (W * W) \in Nat /\ r * (H * H) \in Nat
      /\ (p * q) * a \in Nat /\ r * a \in Nat
  OBVIOUS
<1>2. ((p * p) * a) * ((q * q) * a) <= (r * (W * W)) * (r * (H * H))
  BY <1>1, ProductOrder
<1>3. ((p * p) * a) * ((q * q) * a) = ((p * q) * a) * ((p * q) * a)
  <2> HIDE DEF a
  <2>1. ((p * p) * a) * ((q * q) * a) = ((p * p) * (q * q)) * (a * a)
    BY <1>1, Interchange
  <2>2. (p * p) * (q * q) = (p * q) * (p * q)
    BY Interchange
  <2>3. ((p * q) * (p * q)) * (a * a) = ((p * q) * a) * ((p * q) * a)
    BY <1>1, Interchange
  <2> QED
    BY <2>1, <2>2, <2>3
<1>4. (r * (W * W)) * (r * (H * H)) = (r * a) * (r * a)
  <2>1. (r * (W * W)) * (r * (H * H)) = (r * r) * ((W * W) * (H * H))
    BY Interchange
  <2>2. (W * W) * (H * H) = a * a
    BY Interchange
  <2>3. (r * r) * (a * a) = (r * a) * (r * a)
    BY <1>1, Interchange
  <2> QED
    BY <2>1, <2>2, <2>3
<1>5. (p * q) * a <= r * a
  <2> HIDE DEF a
  <2> QED
    BY <1>1, <1>2, <1>3, <1>4, SquareOrder
<1> QED
  <2> HIDE DEF a
  <2> QED
    BY <1>1, <1>5, Cancel

\* If p is no more than that root of W, and q no less than that of H, p is to W no
\* more than q to H.
LEMMA RootProportion ==
  ASSUME NEW p \in Nat, NEW q \in Nat, NEW r \in Nat, NEW W \in Nat, NEW H \in Nat,
         NEW a \in Nat \ {0},
         (p * p) * a <= r * (W * W),
         r * (H * H) <= (q * q) * a
  PROVE  p * H <= q * W
<1>1. /\ (p * p) * a \in Nat /\ (q * q) * a \in Nat
      /\ r * (W * W) \in Nat /\ r * (H * H) \in Nat /\ W * W \in Nat /\ H * H \in Nat
      /\ (p * H) * (p * H) \in Nat /\ (q * W) * (q * W) \in Nat
      /\ p * H \in Nat /\ q * W \in Nat
  OBVIOUS
<1>2. ((p * p) * a) * (H * H) <= (r * (W * W)) * (H * H)
  BY <1>1, ProductOrder
<1>3. (r * (H * H)) * (W * W) <= ((q * q) * a) * (W * W)
  BY <1>1, ProductOrder
<1>4. (r * (W * W)) * (H * H) = (r * (H * H)) * (W * W)
  OBVIOUS
<1>5. ((p * p) * a) * (H * H) = ((p * H) * (p * H)) * a
  <2>1. (p * p) * (H * H) = (p * H) * (p * H)
    BY Interchange
  <2>2. ((p * p) * a) * (H * H) = ((p * p) * (H * H)) * a
    OBVIOUS
  <2> QED
    BY <2>1, <2>2
<1>6. ((q * q) * a) * (W * W) = ((q * W) * (q * W)) * a
  <2>1. (q * q) * (W * W) = (q * W) * (q * W)
    BY Interchange
  <2>2. ((q * q) * a) * (W * W) = ((q * q) * (W * W)) * a
    OBVIOUS
  <2> QED
    BY <2>1, <2>2
<1>7. ((p * H) * (p * H)) * a <= ((q * W) * (q * W)) * a
  <2>1. /\ ((p * H) * (p * H)) * a \in Nat /\ ((q * W) * (q * W)) * a \in Nat
        /\ (r * (W * W)) * (H * H) \in Nat
    BY <1>1
  <2> QED
    BY <1>2, <1>3, <1>4, <1>5, <1>6, <2>1
<1>8. (p * H) * (p * H) <= (q * W) * (q * W)
  BY <1>1, <1>7, Cancel
<1> QED
  BY <1>1, <1>8, SquareOrder

\* What rounding leaves of a scaled side, in halves of pixels.
LEMMA ScaledSideBounds ==
  ASSUME NEW side \in Nat, NEW limit \in Nat, NEW r \in ScaledSides(side, limit)
  PROVE  /\ r \in Nat \ {0}
         /\ ((2*r - 1) * (2*r - 1)) * Area(detectorRoi) <= (4 * limit) * (side * side)
         /\ (4 * limit) * (side * side) <= ((2*r + 1) * (2*r + 1)) * Area(detectorRoi)
  BY DEF ScaledSides, RoundsSide, Square

LEMMA ScaledBounds ==
  ASSUME ScaledInv, step = "run", scaled # 0
  PROVE  LET p == 2 * threadGray.w - 1
             q == 2 * threadGray.h - 1
         IN /\ p * q <= 4 * scaled
            /\ p * detectorRoi.h <= (q + 2) * detectorRoi.w
            /\ q * detectorRoi.w <= (p + 2) * detectorRoi.h
            /\ p \in Nat /\ q \in Nat
<1> DEFINE W == detectorRoi.w
           H == detectorRoi.h
           p == 2 * threadGray.w - 1
           q == 2 * threadGray.h - 1
           r == 4 * scaled
<1>1. /\ W \in Nat /\ H \in Nat /\ scaled \in Nat /\ r \in Nat
      /\ Area(detectorRoi) = W * H /\ W * H \in Nat \ {0}
      /\ threadGray.w \in ScaledSides(W, scaled) /\ threadGray.h \in ScaledSides(H, scaled)
  BY DEF ScaledInv, TypeOK, ScaledSizes, Area
<1>2. /\ threadGray.w \in Nat \ {0}
      /\ (p * p) * (W * H) <= r * (W * W)
      /\ r * (W * W) <= ((2 * threadGray.w + 1) * (2 * threadGray.w + 1)) * (W * H)
  BY <1>1, ScaledSideBounds
<1>3. /\ threadGray.h \in Nat \ {0}
      /\ (q * q) * (W * H) <= r * (H * H)
      /\ r * (H * H) <= ((2 * threadGray.h + 1) * (2 * threadGray.h + 1)) * (W * H)
  BY <1>1, ScaledSideBounds
<1>4. /\ p \in Nat /\ q \in Nat /\ p + 2 \in Nat /\ q + 2 \in Nat
      /\ 2 * threadGray.w + 1 = p + 2 /\ 2 * threadGray.h + 1 = q + 2
  BY <1>2, <1>3
<1> HIDE DEF W, H, p, q, r
<1>5. p * q <= r
  BY <1>1, <1>2, <1>3, <1>4, RootArea
<1>6. p * H <= (q + 2) * W
  BY <1>1, <1>2, <1>3, <1>4, RootProportion
<1>7. q * W <= (p + 2) * H
  BY <1>1, <1>2, <1>3, <1>4, RootProportion
<1> QED
  BY <1>4, <1>5, <1>6, <1>7 DEF W, H, p, q, r

\* "Otherwise scale image to fit within max face detector pixel size"
\* (ofxFaceTracker2.cpp:186), for every image, region and size, also when the size
\* is set while a detection is under way.
THEOREM DetectorSizeIsKept == Spec => []FitsDetectorSize
<1>1. ScaledInv => FitsDetectorSize
  <2> SUFFICES ASSUME ScaledInv, step = "run"
               PROVE  IF scaled = 0 THEN tested = -1 \/ Area(threadGray) <= tested
                      ELSE (2 * threadGray.w - 1) * (2 * threadGray.h - 1) <= 4 * scaled
    BY DEF FitsDetectorSize
  <2>1. CASE scaled = 0
    BY <2>1 DEF ScaledInv, Area
  <2>2. CASE scaled # 0
    BY <2>2, ScaledBounds
  <2> QED
    BY <2>1, <2>2
<1> QED
  BY <1>1, ScaledAlways, PTL

\* "preserving the aspect ratio" (ofxFaceTracker2.h:54): rounding moves neither
\* side by more than half a pixel, for every region and size.
THEOREM AspectRatioIsKept == Spec => []KeepsAspectRatio
<1>1. ScaledInv => KeepsAspectRatio
  <2> SUFFICES ASSUME ScaledInv, step = "run"
               PROVE  2 * Apart(threadGray.w * detectorRoi.h, threadGray.h * detectorRoi.w)
                        <= detectorRoi.w + detectorRoi.h
    BY DEF KeepsAspectRatio
  <2> DEFINE W == detectorRoi.w
             H == detectorRoi.h
             w == threadGray.w
             h == threadGray.h
  <2>1. /\ W \in Nat /\ H \in Nat /\ w \in Nat /\ h \in Nat
        /\ w * H \in Nat /\ h * W \in Nat
    BY DEF ScaledInv, TypeOK
  <2>2. CASE scaled = 0
    <3>1. w = W /\ h = H
      BY <2>2 DEF ScaledInv
    <3>2. w * H = h * W
      BY <2>1, <3>1
    <3> QED
      BY <2>1, <3>2 DEF Apart
  <2>3. CASE scaled # 0
    <3>1. /\ (2 * w - 1) * H <= (2 * h + 1) * W
          /\ (2 * h - 1) * W <= (2 * w + 1) * H
      <4>1. /\ (2 * w - 1) * H <= ((2 * h - 1) + 2) * W
            /\ (2 * h - 1) * W <= ((2 * w - 1) + 2) * H
        BY <2>3, ScaledBounds
      <4>2. (2 * h - 1) + 2 = 2 * h + 1 /\ (2 * w - 1) + 2 = 2 * w + 1
        BY <2>1
      <4> QED
        BY <4>1, <4>2
    <3>2. /\ (2 * w - 1) * H = 2 * (w * H) - H /\ (2 * w + 1) * H = 2 * (w * H) + H
          /\ (2 * h - 1) * W = 2 * (h * W) - W /\ (2 * h + 1) * W = 2 * (h * W) + W
      BY <2>1
    <3> QED
      BY <2>1, <3>1, <3>2 DEF Apart
  <2> QED
    BY <2>2, <2>3
<1> QED
  BY <1>1, ScaledAlways, PTL

-----------------------------------------------------------------------------
(* Mapping rectangles back *)

\* The least number of a set of numbers, without which no root would be known to
\* exist.
LEMMA LeastNumber ==
  ASSUME NEW S \in SUBSET Nat, S # {}
  PROVE  \E m \in S : \A n \in S : m <= n
<1>1. OpToRel(<, Nat) = {pair \in Nat \X Nat : pair[1] < pair[2]}
  BY Zenon DEF OpToRel
<1>2. IsWellFoundedOn({pair \in Nat \X Nat : pair[1] < pair[2]}, Nat)
  BY <1>1, NatLessThanWellFounded, Zenon
<1>3. PICK m \in S :
        \A n \in S : <<n, m>> \notin {pair \in Nat \X Nat : pair[1] < pair[2]}
  BY <1>2, WFMin, Zenon
<1>4. ASSUME NEW n \in S PROVE m <= n
  <2>1. m \in Nat /\ n \in Nat /\ <<n, m>> \in Nat \X Nat
    OBVIOUS
  <2>2. ~(n < m)
    BY <1>3, <2>1
  <2> QED
    BY <2>1, <2>2
<1> QED
  BY <1>4

\* Every number has a root, as large as truncation makes it.
LEMMA RootExists ==
  ASSUME NEW k \in Nat, NEW s \in Nat \ {0}, NEW a \in Nat \ {0}
  PROVE  \E r \in 0 .. k * a : (r * r) * s <= (k * k) * a /\ (k * k) * a < ((r + 1) * (r + 1)) * s
<1> DEFINE Above == {n \in Nat : (k * k) * a < ((n + 1) * (n + 1)) * s}
<1>1. k * a \in Above
  <2>1. k * a \in Nat /\ k * k \in Nat /\ (k * k) * a \in Nat /\ (k * a) * (k * a) \in Nat
    OBVIOUS
  <2>2. (k * k) * a <= (k * a) * (k * a)
    <3>1. (k * a) * (k * a) = ((k * k) * a) * a
      OBVIOUS
    <3>2. ((k * k) * a) * 1 <= ((k * k) * a) * a
      BY <2>1, ProductOrder
    <3> QED
      BY <2>1, <3>1, <3>2
  <2> DEFINE n == k * a
  <2>3. (n + 1) * (n + 1) = n * n + 2 * n + 1
    BY <2>1
  <2>4. (n + 1) * (n + 1) \in Nat /\ n * n < (n + 1) * (n + 1)
    BY <2>1, <2>3
  <2>5. ((n + 1) * (n + 1)) * 1 <= ((n + 1) * (n + 1)) * s
    BY <2>4, ProductOrder
  <2>6. ((n + 1) * (n + 1)) * s \in Nat
    BY <2>4
  <2> HIDE DEF n
  <2>7. (k * k) * a < ((n + 1) * (n + 1)) * s
    BY <2>1, <2>2, <2>4, <2>5, <2>6 DEF n
  <2> QED
    BY <2>1, <2>7 DEF n
<1>2. PICK m \in Above : \A n \in Above : m <= n
  <2> HIDE DEF Above
  <2>1. Above \in SUBSET Nat
    BY DEF Above
  <2> QED
    BY <1>1, <2>1, LeastNumber
<1>3. m \in 0 .. k * a
  BY <1>1, <1>2
<1>4. (m * m) * s <= (k * k) * a
  <2>1. CASE m = 0
    BY <2>1
  <2>2. CASE m # 0
    <3>1. m - 1 \in Nat /\ m - 1 \notin Above
      BY <1>2, <2>2
    <3>2. ~((k * k) * a < (((m - 1) + 1) * ((m - 1) + 1)) * s)
      BY <3>1
    <3>3. (m - 1) + 1 = m /\ m \in Nat
      BY <1>2
    <3>4. (m * m) * s \in Nat /\ (k * k) * a \in Nat
      BY <3>3
    <3> QED
      BY <3>2, <3>3, <3>4
  <2> QED
    BY <2>1, <2>2
<1> QED
  BY <1>2, <1>3, <1>4

\* For natural numbers: what is below the root of x and what is below the root of y
\* times the same factor add up.
LEMMA RootSum ==
  ASSUME NEW a \in Nat, NEW b \in Nat, NEW c \in Nat, NEW d \in Nat,
         NEW s \in Nat, NEW t \in Nat,
         (a * a) * s <= (c * c) * t,
         (b * b) * s <= (d * d) * t
  PROVE  /\ (a * b) * s <= (c * d) * t
         /\ ((a + b) * (a + b)) * s <= ((c + d) * (c + d)) * t
<1>1. /\ (a * a) * s \in Nat /\ (b * b) * s \in Nat /\ (c * c) * t \in Nat /\ (d * d) * t \in Nat
      /\ (a * b) * s \in Nat /\ (c * d) * t \in Nat
      /\ a * a \in Nat /\ b * b \in Nat /\ c * c \in Nat /\ d * d \in Nat
      /\ a * b \in Nat /\ c * d \in Nat
  OBVIOUS
<1>2. ((a * a) * s) * ((b * b) * s) = ((a * b) * s) * ((a * b) * s)
  <2>1. ((a * a) * s) * ((b * b) * s) = ((a * a) * (b * b)) * (s * s)
    BY <1>1, Interchange
  <2>2. (a * a) * (b * b) = (a * b) * (a * b)
    BY Interchange
  <2>3. ((a * b) * (a * b)) * (s * s) = ((a * b) * s) * ((a * b) * s)
    BY <1>1, Interchange
  <2> QED
    BY <2>1, <2>2, <2>3
<1>3. ((c * c) * t) * ((d * d) * t) = ((c * d) * t) * ((c * d) * t)
  <2>1. ((c * c) * t) * ((d * d) * t) = ((c * c) * (d * d)) * (t * t)
    BY <1>1, Interchange
  <2>2. (c * c) * (d * d) = (c * d) * (c * d)
    BY Interchange
  <2>3. ((c * d) * (c * d)) * (t * t) = ((c * d) * t) * ((c * d) * t)
    BY <1>1, Interchange
  <2> QED
    BY <2>1, <2>2, <2>3
<1>4. ((a * a) * s) * ((b * b) * s) <= ((c * c) * t) * ((d * d) * t)
  BY <1>1, ProductOrder
<1>5. (a * b) * s <= (c * d) * t
  BY <1>1, <1>2, <1>3, <1>4, SquareOrder
<1>6. ((a + b) * (a + b)) * s = (a * a) * s + 2 * ((a * b) * s) + (b * b) * s
  OBVIOUS
<1>7. ((c + d) * (c + d)) * t = (c * c) * t + 2 * ((c * d) * t) + (d * d) * t
  OBVIOUS
<1> QED
  BY <1>1, <1>5, <1>6, <1>7

\* ... and what is left of a sum when a part is taken away that is not below.
LEMMA RootDifference ==
  ASSUME NEW a \in Nat, NEW b \in Nat, NEW c \in Nat, NEW d \in Nat,
         NEW s \in Nat, NEW t \in Nat,
         (c * c) * t <= (a * a) * s,
         ((a + b) * (a + b)) * s <= ((c + d) * (c + d)) * t
  PROVE  (b * b) * s <= (d * d) * t
<1>1. (b * b) * s \in Nat /\ (d * d) * t \in Nat
  OBVIOUS
<1> SUFFICES ASSUME (d * d) * t < (b * b) * s PROVE FALSE
  BY <1>1
<1>2. (c * d) * t <= (a * b) * s
  BY <1>1, RootSum
<1>3. /\ (a * b) * s \in Nat /\ (c * d) * t \in Nat
      /\ (a * a) * s \in Nat /\ (c * c) * t \in Nat
  OBVIOUS
<1>4. ((a + b) * (a + b)) * s = (a * a) * s + 2 * ((a * b) * s) + (b * b) * s
  OBVIOUS
<1>5. ((c + d) * (c + d)) * t = (c * c) * t + 2 * ((c * d) * t) + (d * d) * t
  OBVIOUS
<1> QED
  BY <1>1, <1>2, <1>3, <1>4, <1>5

\* What a multiplication by 1 / scale gives.
LEMMA InverseScale ==
  ASSUME NEW k \in Nat, scaled \in Nat \ {0}, Area(detectorRoi) \in Nat \ {0}
  PROVE  /\ TimesInverseScale(k) \in Nat
         /\ (TimesInverseScale(k) * TimesInverseScale(k)) * scaled
              <= (k * k) * Area(detectorRoi)
<1> DEFINE a == Area(detectorRoi)
           Truncated(r) == /\ Square(r) * scaled <= Square(k) * a
                           /\ Square(k) * a < Square(r + 1) * scaled
           t == CHOOSE r \in 0 .. k * a : Truncated(r)
<1>1. TimesInverseScale(k) = t
  BY DEF TimesInverseScale
<1>2. \E r \in 0 .. k * a : Truncated(r)
  BY RootExists DEF Square
<1> HIDE DEF Truncated
<1>3. t \in 0 .. k * a /\ Truncated(t)
  BY <1>2
<1>4. k * a \in Nat
  OBVIOUS
<1> QED
  BY <1>1, <1>3, <1>4 DEF Truncated, Square

\* A side of the region and of its scaled copy: what lies in the copy is mapped back
\* into the region.
LEMMA SideMapsBack ==
  ASSUME ScaledInv, step = "run", NEW origin \in Nat, NEW W \in Nat, NEW w \in Nat,
         scaled = 0 => w = W,
         scaled # 0 => w \in ScaledSides(W, scaled),
         NEW first \in 0 .. w - 1, NEW last \in 0 .. w - 1, first <= last
  PROVE  SideWithin(origin, W, MappedSide(origin, first, last))
<1> DEFINE k == last - first + 1
           u == TimesInverseScale(first)
           v == TimesInverseScale(k)
           past == (origin + u) + v - (origin + W)
<1>1. first \in Nat /\ last \in Nat /\ k \in Nat /\ first + k = last + 1 /\ last + 1 <= w
  OBVIOUS
<1>2. SUFFICES /\ origin <= origin + u
               /\ past > 0 => scaled # 0 /\ Square(2 * past) * scaled <= Area(detectorRoi)
  BY DEF SideWithin, MappedSide
<1>3. CASE scaled = 0
  <2>1. u = first /\ v = k
    BY <1>3 DEF TimesInverseScale
  <2> QED
    BY <1>1, <1>3, <2>1
<1>4. CASE scaled # 0
  <2> DEFINE a == Area(detectorRoi)
             s == scaled
             n == last + 1
  <2>1. s \in Nat \ {0} /\ a \in Nat \ {0}
    BY <1>4 DEF ScaledInv, TypeOK, Area
  <2>2. /\ u \in Nat /\ (u * u) * s <= (first * first) * a
        /\ v \in Nat /\ (v * v) * s <= (k * k) * a
    BY <1>1, <2>1, InverseScale
  <2>3. ((2 * w - 1) * (2 * w - 1)) * a <= (4 * s) * (W * W)
    BY <1>4, <2>1, ScaledSideBounds
  <2>4. n \in Nat /\ n = first + k /\ n <= w
    BY <1>1
  <2> HIDE DEF a, s, n, k, u, v
  <2>5. ((u + v) * (u + v)) * s <= (n * n) * a
    BY <1>1, <2>1, <2>2, <2>4, RootSum
  <2>6. past = u + v - W /\ past \in Int /\ origin <= origin + u
    BY <2>2
  <2>7. ASSUME past > 0 PROVE Square(2 * past) * s <= a
    <3> DEFINE p == 2 * past
               x == 2 * W
               c == 2 * w - 1
    <3>1. p \in Nat /\ x \in Nat /\ c \in Nat /\ x + p = 2 * (u + v) /\ c + 1 = 2 * w
      BY <1>1, <2>2, <2>4, <2>6, <2>7
    <3>2. (c * c) * a <= (x * x) * s
      <4>1. (x * x) * s = (4 * s) * (W * W)
        BY <2>1
      <4> QED
        BY <2>3, <4>1
    <3> HIDE DEF p, x, c
    <3>3. ((x + p) * (x + p)) * s <= ((c + 1) * (c + 1)) * a
      <4>1. ((x + p) * (x + p)) * s = 4 * (((u + v) * (u + v)) * s)
        BY <2>1, <2>2, <3>1
      <4>2. ((c + 1) * (c + 1)) * a = 4 * ((w * w) * a)
        BY <2>1, <3>1
      <4>3. n * n <= w * w /\ n * n \in Nat /\ w * w \in Nat
        BY <2>4, ProductOrder
      <4>4. (n * n) * a <= (w * w) * a
        BY <2>1, <4>3, ProductOrder
      <4>5. /\ ((u + v) * (u + v)) * s \in Nat /\ (n * n) * a \in Nat /\ (w * w) * a \in Nat
        BY <2>1, <2>2, <4>3
      <4> QED
        BY <2>5, <4>1, <4>2, <4>4, <4>5
    <3>4. (p * p) * s <= (1 * 1) * a
      BY <2>1, <3>1, <3>2, <3>3, RootDifference
    <3> QED
      BY <2>1, <3>4 DEF p, Square
  <2> QED
    BY <1>4, <2>6, <2>7 DEF a, s
<1> QED
  BY <1>3, <1>4

\* The mapping of ofxFaceTracker2.cpp:200-208, for every image, region and size:
\* truncation never adds up with the rounding of the detector's image to more than
\* half of the region's pixels that one pixel of that image stands for.
THEOREM FacesAreMappedIntoRegion == Spec => []MappedIntoRegion
<1>1. ScaledInv => MappedIntoRegion
  <2> SUFFICES ASSUME ScaledInv, step = "run"
               PROVE  /\ \A first, last \in 0 .. threadGray.w - 1 :
                           first <= last =>
                             SideWithin(detectorRoi.x, detectorRoi.w,
                                        MappedSide(detectorRoi.x, first, last))
                      /\ \A first, last \in 0 .. threadGray.h - 1 :
                           first <= last =>
                             SideWithin(detectorRoi.y, detectorRoi.h,
                                        MappedSide(detectorRoi.y, first, last))
    BY DEF MappedIntoRegion
  <2>1. /\ detectorRoi.x \in Nat /\ detectorRoi.y \in Nat
        /\ detectorRoi.w \in Nat /\ detectorRoi.h \in Nat
        /\ threadGray.w \in Nat /\ threadGray.h \in Nat
    BY DEF ScaledInv, TypeOK
  <2>2. /\ scaled = 0 => threadGray.w = detectorRoi.w /\ threadGray.h = detectorRoi.h
        /\ scaled # 0 => /\ threadGray.w \in ScaledSides(detectorRoi.w, scaled)
                         /\ threadGray.h \in ScaledSides(detectorRoi.h, scaled)
    BY DEF ScaledInv, ScaledSizes
  <2> QED
    BY <2>1, <2>2, SideMapsBack
<1> QED
  BY <1>1, ScaledAlways, PTL

-----------------------------------------------------------------------------
(* When no scale is needed *)

\* "If there is no resize, [...] then just crop to ROI size"
\* (ofxFaceTracker2.cpp:182), for an application that does not call
\* setFaceDetectorImageSize while a detection is under way.
THEOREM NoResizeWhenSettled ==
  ASSUME "lateSize" \notin Calls
  PROVE  Spec => []NoResizeIsNoScale
<1> DEFINE J == /\ step = "scale" => faceDetectorImageSize # -1
                /\ NoResizeIsNoScale
<1>1. Init => J
  BY DEF Init, NoResizeIsNoScale
<1>2. J /\ [Next]_vars => J'
  BY DEF Next, vars, SetFaceDetectorImageSize, Submit, ClampRoi, TestSize, Fits, Crop, Scale,
         MapRectangles, Thrown, NoResizeIsNoScale
<1>3. J => NoResizeIsNoScale
  OBVIOUS
<1> QED
  BY <1>1, <1>2, <1>3, PTL DEF Spec
=============================================================================
