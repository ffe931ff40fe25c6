---------------------------- MODULE DetectorInput ----------------------------
(***************************************************************************)
(* What runFaceDetector hands to dlib's detector: the region of interest   *)
(* clamped to the image, cropped and scaled down to faceDetectorImageSize  *)
(* pixels, and how the rectangles found are mapped back to the image.      *)
(*                                                                         *)
(* The worker computes this holding the mutex, so update() does not        *)
(* replace roi and gray meanwhile (module FaceTracker).                    *)
(* setFaceDetectorImageSize takes no mutex and can come between any two    *)
(* steps.                                                                  *)
(***************************************************************************)
EXTENDS Integers

CONSTANTS
  Sizes,   \* sizes [w, h] of gray
  Rois,    \* regions [x, y, w, h] the application passes to update()
  Limits,  \* arguments of setFaceDetectorImageSize, in pixels; -1 for none
  Calls    \* "lateSize" if that is called while a detection is under way

ASSUME DetectorInputAssumption ==
  /\ Sizes \subseteq [w : Nat \ {0}, h : Nat \ {0}]
  /\ Rois \subseteq [x : Int, y : Int, w : Int, h : Int]
  /\ Limits \subseteq {-1} \cup (Nat \ {0})
  /\ Calls \subseteq {"lateSize"}

VARIABLES
  gray, roi,              \* the size of the member gray, and the member roi
  faceDetectorImageSize,
  detectorRoi,            \* the local of that name
  tested,                 \* auxiliary: the faceDetectorImageSize the condition read
  scaled,                 \* the size in scale = sqrt(size / area); 0 if scale = 1
  threadGray,             \* its size
  step                    \* where runFaceDetector is

vars ==
  <<gray, roi, faceDetectorImageSize, detectorRoi, tested, scaled, threadGray, step>>

NoSize == [w |-> 0, h |-> 0]
Area(size) == size.w * size.h
Square(n)  == n * n

\* Without the lower bound.
BadClamp(v, low, high) == IF v > high THEN high ELSE v

\* ofClamp: below the lower bound wins, even when that is above the upper one.
Clamp(v, low, high) == IF v < low THEN low ELSE IF v > high THEN high ELSE v

\* The width is clamped to the whole image, not to what is left of x.
BadClampedRoi(r, size) ==
  [x |-> Clamp(r.x, 0, size.w), y |-> Clamp(r.y, 0, size.h),
   w |-> Clamp(r.w, 1, size.w), h |-> Clamp(r.h, 1, size.h)]

ClampedRoi(r, size) ==
  LET x == Clamp(r.x, 0, size.w)
      y == Clamp(r.y, 0, size.h)
  IN [x |-> x, y |-> y,
      w |-> Clamp(r.w, 1, size.w - x), h |-> Clamp(r.h, 1, size.h - y)]

\* The width alone is compared with the number of pixels.
BadFits(limit) == limit = -1 \/ detectorRoi.w <= limit

Fits(limit) == limit = -1 \/ Area(detectorRoi) <= limit

\* cv::resize rounds side * scale to the nearest integer.
RoundsSide(r, side, limit, area) ==
  /\ Square(2*r - 1) * area <= 4 * limit * Square(side)
  /\ 4 * limit * Square(side) <= Square(2*r + 1) * area

ScaledSides(side, limit) ==
  {r \in 1 .. side + limit : RoundsSide(r, side, limit, Area(detectorRoi))}

\* Only one of the two sides is scaled.
BadScaledSizes(limit) ==
  [w : ScaledSides(detectorRoi.w, limit), h : {detectorRoi.h}]

\* Empty when a side rounds to zero, which makes resize throw.
ScaledSizes(limit) ==
  [w : ScaledSides(detectorRoi.w, limit), h : ScaledSides(detectorRoi.h, limit)]

-----------------------------------------------------------------------------
Init ==
  /\ gray = NoSize /\ roi = [x |-> 0, y |-> 0, w |-> 0, h |-> 0]
  /\ faceDetectorImageSize \in Limits
  /\ detectorRoi = roi /\ tested = -1 /\ scaled = 0 /\ threadGray = NoSize
  /\ step = "idle"

SetFaceDetectorImageSize ==
  /\ step = "idle" \/ "lateSize" \in Calls
  /\ faceDetectorImageSize' \in Limits
  /\ UNCHANGED <<gray, roi, detectorRoi, tested, scaled, threadGray, step>>

\* update() under the mutex: no roi stands for the whole image.
Submit(size, r) ==
  /\ step \in {"idle", "run"}
  /\ gray' = size
  /\ roi' = IF r.w = 0 /\ r.h = 0
            THEN [x |-> 0, y |-> 0, w |-> size.w, h |-> size.h] ELSE r
  /\ UNCHANGED <<faceDetectorImageSize, detectorRoi, tested, scaled, threadGray, step>>

ClampRoi ==
  /\ step = "idle" /\ gray # NoSize
  /\ detectorRoi' = ClampedRoi(roi, gray)
  /\ step' = "test"
  /\ UNCHANGED <<gray, roi, faceDetectorImageSize, tested, scaled, threadGray>>

\* The condition reads faceDetectorImageSize ...
TestSize ==
  /\ step = "test"
  /\ tested' = faceDetectorImageSize
  /\ step' = IF Fits(faceDetectorImageSize) THEN "crop" ELSE "scale"
  /\ UNCHANGED <<gray, roi, faceDetectorImageSize, detectorRoi, scaled, threadGray>>

\* cv::Mat::operator() throws when the region is not inside the image.
RegionInside ==
  detectorRoi.x + detectorRoi.w <= gray.w /\ detectorRoi.y + detectorRoi.h <= gray.h

Crop ==
  /\ step = "crop"
  /\ IF RegionInside
     THEN /\ threadGray' = [w |-> detectorRoi.w, h |-> detectorRoi.h]
          /\ step' = "run"
     ELSE threadGray' = threadGray /\ step' = "thrown"
  /\ scaled' = 0
  /\ UNCHANGED <<gray, roi, faceDetectorImageSize, detectorRoi, tested>>

\* ... and the scale reads it again.  The root of a negative number is no number,
\* and resize throws.
Scale ==
  /\ step = "scale"
  /\ IF RegionInside /\ faceDetectorImageSize # -1 /\ ScaledSizes(faceDetectorImageSize) # {}
     THEN /\ threadGray' \in ScaledSizes(faceDetectorImageSize)
          /\ step' = "run"
     ELSE threadGray' = threadGray /\ step' = "thrown"
  /\ scaled' = faceDetectorImageSize
  /\ UNCHANGED <<gray, roi, faceDetectorImageSize, detectorRoi, tested>>

\* The detector is done and its rectangles, mapped back, are tracked.
MapRectangles ==
  /\ step = "run"
  /\ step' = "idle"
  /\ UNCHANGED <<gray, roi, faceDetectorImageSize, detectorRoi, tested, scaled, threadGray>>

\* An exception nobody catches, on the worker or in update(): the program is over.
Thrown == step = "thrown" /\ UNCHANGED vars

Next ==
  \/ SetFaceDetectorImageSize
  \/ \E size \in Sizes, r \in Rois : Submit(size, r)
  \/ ClampRoi \/ TestSize \/ Crop \/ Scale \/ MapRectangles
  \/ Thrown

Spec == Init /\ [][Next]_vars

-----------------------------------------------------------------------------
(* Mapping rectangles back *)

\* k * s truncated, for s = 1 / scale: the square root of area / scaled.
TimesInverseScale(k) ==
  IF scaled = 0 THEN k
  ELSE CHOOSE r \in 0 .. k * Area(detectorRoi) :
         /\ Square(r) * scaled <= Square(k) * Area(detectorRoi)
         /\ Square(k) * Area(detectorRoi) < Square(r + 1) * scaled

\* The origin of the region is forgotten.
BadMappedSide(origin, first, last) ==
  [from |-> TimesInverseScale(first), length |-> TimesInverseScale(last - first + 1)]

\* One side of a rectangle, whose last pixel dlib counts in.
MappedSide(origin, first, last) ==
  [from |-> origin + TimesInverseScale(first),
   length |-> TimesInverseScale(last - first + 1)]

-----------------------------------------------------------------------------
(* Properties *)

Steps == {"idle", "test", "crop", "scale", "run", "thrown"}

\* Sizes, regions and steps are of their kinds.
TypeOK ==
  /\ gray \in Sizes \cup {NoSize}
  /\ roi \in [x : Int, y : Int, w : Int, h : Int]
  /\ faceDetectorImageSize \in Limits
  /\ detectorRoi \in [x : Nat, y : Nat, w : Nat, h : Nat]
  /\ tested \in Limits \cup {-1} /\ scaled \in Limits \cup {0}
  /\ threadGray \in [w : Nat, h : Nat]
  /\ step \in Steps

\* "Make sure roi is within boundaries" (ofxFaceTracker2.cpp:173): whatever
\* region the application asked for, the one that is cropped lies in the image.
RoiWithinBoundaries == step \in {"test", "crop", "scale"} => RegionInside

\* "If there is no resize, [...] then just crop to ROI size"
\* (ofxFaceTracker2.cpp:182): a tracker told not to resize does not take a root
\* of the -1 that says so.
NoResizeIsNoScale == step = "thrown" => scaled # -1

\* "Otherwise scale image to fit within max face detector pixel size"
\* (ofxFaceTracker2.cpp:186): up to the rounding of both sides the detector
\* never gets more pixels than it was told to when the region was cropped, or
\* when it was scaled, whatever setFaceDetectorImageSize says by now.
FitsDetectorSize ==
  step = "run" =>
    IF scaled = 0 THEN tested = -1 \/ Area(threadGray) <= tested
    ELSE (2 * threadGray.w - 1) * (2 * threadGray.h - 1) <= 4 * scaled

Apart(a, b) == IF a < b THEN b - a ELSE a - b

\* "preserving the aspect ratio" (ofxFaceTracker2.h:54): the detector's image has
\* the proportions of the region, up to half a pixel on each side.
KeepsAspectRatio ==
  step = "run" =>
    2 * Apart(threadGray.w * detectorRoi.h, threadGray.h * detectorRoi.w)
      <= detectorRoi.w + detectorRoi.h

\* A side mapped back begins in the region and ends less than a pixel of the
\* detector's image behind it, which is how far rounding up can move the end.
SideWithin(origin, length, side) ==
  LET past == side.from + side.length - (origin + length)
  IN /\ origin <= side.from
     /\ past > 0 => scaled # 0 /\ Square(2 * past) * scaled <= Area(detectorRoi)

\* A face found in the detector's image is mapped back into the region that was
\* searched: rounding of the size and truncation of the sides never add up.
MappedIntoRegion ==
  step = "run" =>
    /\ \A first, last \in 0 .. threadGray.w - 1 :
         first <= last =>
           SideWithin(detectorRoi.x, detectorRoi.w, MappedSide(detectorRoi.x, first, last))
    /\ \A first, last \in 0 .. threadGray.h - 1 :
         first <= last =>
           SideWithin(detectorRoi.y, detectorRoi.h, MappedSide(detectorRoi.y, first, last))
=============================================================================
