---------------------------- MODULE InputGeometry ----------------------------
(***************************************************************************)
(* The geometry of one image in ofxFaceTracker2::update: the resized and   *)
(* rotated working copy im, the cached ofxFaceTracker2InputInfo, and the   *)
(* way landmarks and bounding boxes found in im are mapped back to the     *)
(* input image.  All of it runs on the application's thread.               *)
(*                                                                         *)
(* A size is a record of w and h, a point a pair <<x, y>>.  Mapped points  *)
(* are rational: they are given by their numerators over Denominator.      *)
(***************************************************************************)
EXTENDS Integers

CONSTANTS
  Sizes,      \* sizes of the images the application passes to update()
  Rotations,  \* arguments of setFaceRotation, in degrees
  Limits,     \* arguments of setLandmarkDetectorImageSize, in pixels; -1 for none
  Leftovers,  \* what the members of info, which no constructor sets, can hold
  Calls       \* "lateLimit" if setLandmarkDetectorImageSize is called after update()

VARIABLES
  imageRotation, landmarkDetectorImageSize,
  im,       \* the working copy: its size, how it was made and who owns its pixels
  info,     \* the cached ofxFaceTracker2InputInfo
  written   \* sizes of the application's images whose pixels the tracker changed

vars == <<imageRotation, landmarkDetectorImageSize, im, info, written>>

-----------------------------------------------------------------------------
(* Preparing the image *)

Square(n)    == n * n
Area(size)   == size.w * size.h
Turned(size) == [w |-> size.h, h |-> size.w]

\* cv::resize with a scale factor rounds both sides to the nearest integer.
RoundsRoot(r, n, d) == Square(2*r - 1) * d <= 4*n /\ 4*n <= Square(2*r + 1) * d

Resizes(size, limit) ==
  limit # -1 /\ Area(size) > limit

Resized(size, limit) ==
  {new \in [w : 1 .. size.w, h : 1 .. size.h] :
     IF Resizes(size, limit)
     THEN /\ RoundsRoot(new.w, limit * size.w, size.h)
          /\ RoundsRoot(new.h, limit * size.h, size.w)
     ELSE new = size}

\* A side that rounds to zero makes cv::resize throw; images are not that thin.
ASSUME InputGeometryAssumption ==
  /\ Sizes \subseteq [w : Nat \ {0}, h : Nat \ {0}]
  /\ Rotations \subseteq Int
  /\ Limits \subseteq {-1} \cup (Nat \ {0})
  /\ \A size \in Sizes, limit \in Limits : Resized(size, limit) # {}
  /\ Leftovers \subseteq [w : Int, h : Int, lw : Int, lh : Int, rotation : Int]
  /\ Calls \subseteq {"lateLimit"}

Clockwise90  == {90, -270}
Clockwise270 == {270, -90}
HalfTurn     == {180, -180}

\* What rotate_90n does to the size; any other angle leaves the image alone.
RotatedSize(size, angle) ==
  IF angle \in Clockwise90 \cup Clockwise270 THEN Turned(size) ELSE size

\* cv::flip writes to the pixels it is given when they have the right size.
FlipsInPlace(size, angle) ==
  \/ angle \in HalfTurn
  \/ angle \in Clockwise90 \cup Clockwise270 /\ size.w = size.h

-----------------------------------------------------------------------------
(* ofxFaceTracker2InputInfo *)

NewInfo(size, new, angle) ==
  [w |-> size.w, h |-> size.h, lw |-> new.w, lh |-> new.h, rotation |-> angle]

\* The height of im in place of its width.
BadDenominator(i) == i.lh

\* The scale of rotationMatrix is inputWidth / Denominator.
Denominator(i) == IF i.rotation \in {90, 270} THEN i.lh ELSE i.lw

\* rotationMatrix * p.  glm applies the factor that was added last first: the
\* point is rotated, then scaled, then translated.
Mapped(i, p) ==
  LET d == Denominator(i)
  IN CASE i.rotation = 90  -> <<i.w * p[2] - d * i.lw, -i.w * p[1]>>
       [] i.rotation = 270 -> <<-i.w * p[2], i.w * p[1] - d * i.lh>>
       [] i.rotation = 180 -> <<-i.w * p[1] - d * i.lw, -i.w * p[2] - d * i.lh>>
       [] OTHER            -> <<i.w * p[1], i.w * p[2]>>

\* getImagePoint of a landmark found at p, with the info of now.
ImagePoint(p) == Mapped(info, p)

\* Without the swap of corners that a rotation can require.
BadBoundingBox(i, tl, br) ==
  LET from == Mapped(i, tl)
      to   == Mapped(i, br)
  IN [x |-> from[1], y |-> from[2], w |-> to[1] - from[1], h |-> to[2] - from[2]]

\* getBoundingBox, from the corners of the tracked rectangle.
BoundingBox(i, tl, br) ==
  LET from  == Mapped(i, tl)
      delta == <<Mapped(i, br)[1] - from[1], Mapped(i, br)[2] - from[2]>>
  IN [x |-> IF delta[1] < 0 THEN from[1] + delta[1] ELSE from[1],
      y |-> IF delta[2] < 0 THEN from[2] + delta[2] ELSE from[2],
      w |-> IF delta[1] < 0 THEN -delta[1] ELSE delta[1],
      h |-> IF delta[2] < 0 THEN -delta[2] ELSE delta[2]]

-----------------------------------------------------------------------------
(* The calls *)

NoSize == [w |-> 0, h |-> 0]

\* info keeps whatever its memory held: its default constructor sets nothing.
Constructed(limit) ==
  /\ imageRotation = 0 /\ landmarkDetectorImageSize = limit
  /\ im = [size |-> NoSize, source |-> NoSize, resized |-> NoSize,
           rotation |-> 0, owner |-> NoSize]
  /\ info \in Leftovers
  /\ written = {}

\* landmarkDetectorImageSize initialised to 0.
BadInit == Constructed(0)

Init == Constructed(-1)

\* setFaceOrientation too: it translates an orientation to its angle.
SetFaceRotation ==
  /\ imageRotation' \in Rotations
  /\ UNCHANGED <<landmarkDetectorImageSize, im, info, written>>

SetLandmarkDetectorImageSize ==
  /\ im.source = NoSize \/ "lateLimit" \in Calls
  /\ landmarkDetectorImageSize' \in Limits
  /\ UNCHANGED <<imageRotation, im, info, written>>

\* The cache test without the rotation.
BadInfoIsCurrent(size) == info.w = size.w /\ info.h = size.h

InfoIsCurrent(size) ==
  info.w = size.w /\ info.h = size.h /\ info.rotation = imageRotation

\* Whose pixels im shares after the resizing step: those of the new image, of
\* the last one when they have the size asked for, or its own (NoSize).
OwnerAfterResize(size, new) ==
  IF ~Resizes(size, landmarkDetectorImageSize) THEN size
  ELSE IF im.size = new THEN im.owner
  ELSE NoSize

\* A quarter turn that changes the size gives im pixels of its own.
OwnerAfterRotation(owner, new) ==
  IF imageRotation \in Clockwise90 \cup Clockwise270 /\ new.w # new.h
  THEN NoSize ELSE owner

\* The image is turned before it is resized.
BadUpdate(size) ==
  \E new \in Resized(RotatedSize(size, imageRotation), landmarkDetectorImageSize) :
    /\ im' = [size |-> new, source |-> size, resized |-> RotatedSize(new, imageRotation),
              rotation |-> imageRotation, owner |-> OwnerAfterResize(size, new)]
    /\ info' = IF InfoIsCurrent(size) THEN info ELSE NewInfo(size, new, imageRotation)
    /\ written' = {s \in Sizes : \/ s \in written \ {size}
                                 \/ s = size /\ FlipsInPlace(size, imageRotation)}
    /\ UNCHANGED <<imageRotation, landmarkDetectorImageSize>>

Update(size) ==
  \E new \in Resized(size, landmarkDetectorImageSize) :
    LET owner  == OwnerAfterResize(size, new)
        turned == RotatedSize(new, imageRotation)
    IN
    /\ im' = [size |-> turned, source |-> size, resized |-> new,
              rotation |-> imageRotation, owner |-> OwnerAfterRotation(owner, new)]
    /\ info' = IF InfoIsCurrent(size) THEN info
               ELSE NewInfo(size, turned, imageRotation)
    /\ written' =
         {s \in Sizes :
            \/ s \in written \ {size}
            \/ s = owner /\ s # size /\ Resizes(size, landmarkDetectorImageSize)
            \/ s = owner /\ FlipsInPlace(new, imageRotation)}
    /\ UNCHANGED <<imageRotation, landmarkDetectorImageSize>>

Next ==
  SetFaceRotation \/ SetLandmarkDetectorImageSize \/ \E size \in Sizes : Update(size)

Spec == Init /\ [][Next]_vars
-----------------------------------------------------------------------------
(* Properties *)

Updated == im.source # NoSize

\* Sizes and angles are what the members can hold, and im is never half made.
TypeOK ==
  /\ imageRotation \in Rotations \cup {0}
  /\ landmarkDetectorImageSize \in Limits \cup {-1}
  /\ im.source \in Sizes \cup {NoSize} /\ im.owner \in Sizes \cup {NoSize}
  /\ im.resized.w <= im.source.w /\ im.resized.h <= im.source.h
  /\ im.size \in {im.resized, Turned(im.resized)}
  /\ info \in [w : Int, h : Int, lw : Int, lh : Int, rotation : Int]
  /\ written \subseteq Sizes

\* However often the cache is hit, and whatever angles were set between, info is the
\* one that would be made of the last image and the working copy it got: what
\* landmarks are mapped back with, drawDebug, the pose and the intrinsics.
InfoFitsWorkingCopy ==
  Updated => info = NewInfo(im.source, im.size, im.rotation)

Pixels(size) == (0 .. size.w - 1) \X (0 .. size.h - 1)

\* The pixel of the unrotated image that rotate_90n moved to p.
Unrotated(p) ==
  CASE im.rotation \in Clockwise90  -> <<p[2], im.resized.h - 1 - p[1]>>
    [] im.rotation \in Clockwise270 -> <<im.resized.w - 1 - p[2], p[1]>>
    [] im.rotation \in HalfTurn     -> <<im.resized.w - 1 - p[1], im.resized.h - 1 - p[2]>>
    [] OTHER                        -> p

Apart(a, b) == IF a < b THEN b - a ELSE a - b

\* A landmark found at pixel p of im is mapped to where that pixel was in the
\* input image, less than one pixel of the resized image away.
MapsBack(p) ==
  LET m == ImagePoint(p)
      q == Unrotated(p)
      d == Denominator(info)
  IN /\ Apart(m[1] * im.resized.w, q[1] * im.source.w * d) < im.source.w * d
     /\ Apart(m[2] * im.resized.h, q[2] * im.source.h * d) < im.source.h * d

\* "Coordinate is returned in input image size" (ofxFaceTracker2Landmarks.h:28).
LandmarksMapBack == Updated => \A p \in Pixels(im.size) : MapsBack(p)

\* The same of images whose angle does not turn them, however often the angle
\* was changed before and info was made again or found in the cache.
UprightLandmarksMapBack ==
  Updated /\ im.rotation \notin Clockwise90 \cup Clockwise270 \cup HalfTurn =>
    \A p \in Pixels(im.size) : MapsBack(p)

\* Whatever the rotation, the box drawn around a face contains the landmarks
\* found in the tracked rectangle, although a rotation may swap its corners.
LandmarkInBoundingBox ==
  Updated =>
    \A tl, br \in Pixels(im.size) :
      LET box == BoundingBox(info, tl, br)
      IN \A p \in (tl[1] .. br[1]) \X (tl[2] .. br[2]) :
           /\ box.x <= ImagePoint(p)[1] /\ ImagePoint(p)[1] <= box.x + box.w
           /\ box.y <= ImagePoint(p)[2] /\ ImagePoint(p)[2] <= box.y + box.h

\* An image larger than the landmark size is only copied: neither its own turn nor a
\* later image is written into it, although im keeps the pixels of other images and
\* is resized and turned in place.
ResizedImagesIntact ==
  \A size \in written : ~Resizes(size, landmarkDetectorImageSize)
=============================================================================
