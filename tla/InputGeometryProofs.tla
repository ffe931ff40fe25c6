------------------------ MODULE InputGeometryProofs ------------------------
(***************************************************************************)
(* The cached info is the one the last image and its working copy would    *)
(* give, boxes hold their landmarks, and images that are resized are never *)
(* changed, for every camera, angle and landmark size. Boxes need the size *)
(* of the input in the info: it is because info has the width of a real    *)
(* image that the scale is not negative and the mapping keeps, or turns    *)
(* round, the order of the coordinates.                                    *)
(*                                                                         *)
(* That the sizes of the working copy fit too needs SettledUse: an info    *)
(* that would be found in the cache is one the next image would get        *)
(* (CacheInv). With it landmarks of images that are not turned return to   *)
(* within a pixel, of cameras no higher than wide: the one ratio info      *)
(* scales with, that of the widths, is close to that of the heights,       *)
(* because both sides were rounded from the same multiple.                 *)
(***************************************************************************)
EXTENDS InputGeometry, TLAPS

\* The working copy, once there is one, has a size made from a real image's.
ImageInv ==
  /\ im.size \in [w : Int, h : Int]
  /\ im.source \in Sizes \cup {NoSize}
  /\ info \in [w : Int, h : Int, lw : Int, lh : Int, rotation : Int]
  /\ imageRotation \in Int

\* info has the size and angle of the last image.
InfoDescribesInput ==
  Updated => /\ info.w = im.source.w /\ info.h = im.source.h
             /\ info.rotation = im.rotation

InfoInv == ImageInv /\ InfoDescribesInput

-----------------------------------------------------------------------------
LEMMA InfoInit == Init => InfoInv
<1> SUFFICES ASSUME Init PROVE InfoInv
  OBVIOUS
<1>1. im.size = NoSize /\ im.source = NoSize /\ info \in Leftovers /\ imageRotation = 0
  BY DEF Init, Constructed
<1> QED
  BY <1>1, InputGeometryAssumption DEF InfoInv, ImageInv, InfoDescribesInput, Updated, NoSize

LEMMA InfoStep == InfoInv /\ [Next]_vars => InfoInv'
<1> SUFFICES ASSUME InfoInv, [Next]_vars PROVE InfoInv'
  OBVIOUS
<1>1. ASSUME SetFaceRotation \/ SetLandmarkDetectorImageSize \/ UNCHANGED vars
      PROVE  InfoInv'
  <2>1. UNCHANGED <<im, info>> /\ imageRotation' \in Int
    BY <1>1, InputGeometryAssumption
    DEF SetFaceRotation, SetLandmarkDetectorImageSize, vars, InfoInv, ImageInv
  <2> QED
    BY <2>1 DEF InfoInv, ImageInv, InfoDescribesInput, Updated
<1>2. ASSUME NEW size \in Sizes, Update(size) PROVE InfoInv'
  <2>1. PICK new \in Resized(size, landmarkDetectorImageSize) :
          /\ im'.size = RotatedSize(new, imageRotation)
          /\ im'.source = size /\ im'.rotation = imageRotation
          /\ info' = IF InfoIsCurrent(size) THEN info
                     ELSE NewInfo(size, RotatedSize(new, imageRotation), imageRotation)
          /\ imageRotation' = imageRotation
    BY <1>2 DEF Update
  <2>2. size \in [w : Nat \ {0}, h : Nat \ {0}]
    BY InputGeometryAssumption
  <2>3. new \in [w : Int, h : Int]
    BY <2>2 DEF Resized
  <2>4. RotatedSize(new, imageRotation) \in [w : Int, h : Int]
    BY <2>3 DEF RotatedSize, Turned
  <2>5. ImageInv'
    BY <2>1, <2>2, <2>4 DEF InfoInv, ImageInv, NewInfo
  <2>6. InfoDescribesInput'
    BY <2>1, <2>2 DEF InfoDescribesInput, InfoIsCurrent, NewInfo, InfoInv, ImageInv
  <2> QED
    BY <2>5, <2>6 DEF InfoInv
<1> QED
  BY <1>1, <1>2 DEF Next

LEMMA InfoAlways == Spec => []InfoInv
  BY InfoInit, InfoStep, PTL DEF Spec

-----------------------------------------------------------------------------
LEMMA ScalingKeepsOrder ==
  ASSUME NEW s \in Nat, NEW a \in Int, NEW b \in Int, a <= b
  PROVE  s * a <= s * b
<1>1. s * (b - a) >= 0
  OBVIOUS
<1> QED
  BY <1>1

\* A coordinate between those of two mapped corners, in either order, is in the
\* side getBoundingBox makes of them.
LEMMA SideCovers ==
  ASSUME NEW from \in Int, NEW to \in Int, NEW m \in Int,
         (from <= m /\ m <= to) \/ (to <= m /\ m <= from)
  PROVE  LET delta == to - from
             x == IF delta < 0 THEN from + delta ELSE from
             w == IF delta < 0 THEN -delta ELSE delta
         IN x <= m /\ m <= x + w
  OBVIOUS

\* rotationMatrix keeps the order of both coordinates or reverses it.
LEMMA MappedBetween ==
  ASSUME NEW i \in [w : Int, h : Int, lw : Int, lh : Int, rotation : Int], i.w >= 0,
         NEW tl \in Int \X Int, NEW br \in Int \X Int, NEW p \in Int \X Int,
         tl[1] <= p[1], p[1] <= br[1], tl[2] <= p[2], p[2] <= br[2]
  PROVE  \A c \in {1, 2} :
           /\ Mapped(i, tl)[c] \in Int /\ Mapped(i, br)[c] \in Int /\ Mapped(i, p)[c] \in Int
           /\ \/ Mapped(i, tl)[c] <= Mapped(i, p)[c] /\ Mapped(i, p)[c] <= Mapped(i, br)[c]
              \/ Mapped(i, br)[c] <= Mapped(i, p)[c] /\ Mapped(i, p)[c] <= Mapped(i, tl)[c]
<1> DEFINE d == Denominator(i)
<1>1. /\ i.w * tl[1] <= i.w * p[1] /\ i.w * p[1] <= i.w * br[1]
      /\ i.w * tl[2] <= i.w * p[2] /\ i.w * p[2] <= i.w * br[2]
  BY ScalingKeepsOrder
<1>2. d * i.lw \in Int /\ d * i.lh \in Int
  BY DEF Denominator
<1>3. \A q \in Int \X Int :
        /\ i.w * q[1] \in Int /\ i.w * q[2] \in Int
        /\ (-i.w) * q[1] = -(i.w * q[1]) /\ (-i.w) * q[2] = -(i.w * q[2])
  OBVIOUS
<1> HIDE DEF d
<1>4. CASE i.rotation = 90
  <2>1. \A q \in Int \X Int : Mapped(i, q)[1] = i.w * q[2] - d * i.lw
                             /\ Mapped(i, q)[2] = -(i.w * q[1])
    BY <1>3, <1>4 DEF Mapped, d
  <2> QED
    BY <1>1, <1>2, <1>3, <2>1
<1>5. CASE i.rotation = 270
  <2>1. \A q \in Int \X Int : Mapped(i, q)[1] = -(i.w * q[2])
                             /\ Mapped(i, q)[2] = i.w * q[1] - d * i.lh
    BY <1>3, <1>5 DEF Mapped, d
  <2> QED
    BY <1>1, <1>2, <1>3, <2>1
<1>6. CASE i.rotation = 180
  <2>1. \A q \in Int \X Int : Mapped(i, q)[1] = -(i.w * q[1]) - d * i.lw
                             /\ Mapped(i, q)[2] = -(i.w * q[2]) - d * i.lh
    BY <1>3, <1>6 DEF Mapped, d
  <2> QED
    BY <1>1, <1>2, <1>3, <2>1
<1>7. CASE i.rotation \notin {90, 180, 270}
  <2>1. \A q \in Int \X Int : Mapped(i, q)[1] = i.w * q[1] /\ Mapped(i, q)[2] = i.w * q[2]
    BY <1>7 DEF Mapped
  <2> QED
    BY <1>1, <1>3, <2>1
<1> QED
  BY <1>4, <1>5, <1>6, <1>7

\* The box of getBoundingBox covers the landmarks found in the tracked rectangle,
\* for every size of image and working copy and every angle.
THEOREM BoxesCoverLandmarks == Spec => []LandmarkInBoundingBox
<1>1. InfoInv => LandmarkInBoundingBox
  <2> SUFFICES ASSUME InfoInv, Updated,
                      NEW tl \in Pixels(im.size), NEW br \in Pixels(im.size),
                      NEW p \in (tl[1] .. br[1]) \X (tl[2] .. br[2])
               PROVE  LET m   == Mapped(info, p)
                          box == BoundingBox(info, tl, br)
                      IN /\ box.x <= m[1] /\ m[1] <= box.x + box.w
                         /\ box.y <= m[2] /\ m[2] <= box.y + box.h
    BY DEF LandmarkInBoundingBox, ImagePoint
  <2>1. /\ tl \in Int \X Int /\ br \in Int \X Int /\ p \in Int \X Int
        /\ tl[1] <= p[1] /\ p[1] <= br[1] /\ tl[2] <= p[2] /\ p[2] <= br[2]
    BY DEF Pixels, InfoInv, ImageInv
  <2>2. info \in [w : Int, h : Int, lw : Int, lh : Int, rotation : Int] /\ info.w >= 0
    BY InputGeometryAssumption DEF InfoInv, ImageInv, InfoDescribesInput, Updated
  <2>3. \A c \in {1, 2} :
          /\ Mapped(info, tl)[c] \in Int /\ Mapped(info, br)[c] \in Int
          /\ Mapped(info, p)[c] \in Int
          /\ \/ /\ Mapped(info, tl)[c] <= Mapped(info, p)[c]
                /\ Mapped(info, p)[c] <= Mapped(info, br)[c]
             \/ /\ Mapped(info, br)[c] <= Mapped(info, p)[c]
                /\ Mapped(info, p)[c] <= Mapped(info, tl)[c]
    BY <2>1, <2>2, MappedBetween
  <2> QED
    BY <2>3, SideCovers DEF BoundingBox
<1> QED
  BY <1>1, InfoAlways, PTL

-----------------------------------------------------------------------------
(* The working copy *)

SizeInv ==
  /\ TypeOK
  /\ im.resized \in [w : Nat, h : Nat] /\ im.size \in [w : Nat, h : Nat]

LEMMA ResizedIsSize ==
  ASSUME NEW size \in Sizes, NEW limit, NEW new \in Resized(size, limit)
  PROVE  /\ new \in [w : Nat, h : Nat]
         /\ new.w <= size.w /\ new.h <= size.h
<1>1. size.w \in Nat /\ size.h \in Nat
  BY InputGeometryAssumption
<1> QED
  BY <1>1 DEF Resized

LEMMA SizeStart == Init => SizeInv
<1> SUFFICES ASSUME Init PROVE SizeInv
  OBVIOUS
<1>1. NoSize \in [w : Nat, h : Nat] /\ NoSize.w <= NoSize.w /\ NoSize.h <= NoSize.h
  BY DEF NoSize
<1> QED
  BY <1>1, InputGeometryAssumption DEF Init, Constructed, SizeInv, TypeOK

LEMMA SizeStep == SizeInv /\ [Next]_vars => SizeInv'
<1> SUFFICES ASSUME SizeInv, [Next]_vars PROVE SizeInv'
  OBVIOUS
<1>1. ASSUME SetFaceRotation \/ SetLandmarkDetectorImageSize \/ UNCHANGED vars
      PROVE  SizeInv'
  <2>1. /\ UNCHANGED <<im, info, written>>
        /\ imageRotation' \in Rotations \cup {0}
        /\ landmarkDetectorImageSize' \in Limits \cup {-1}
    BY <1>1 DEF SetFaceRotation, SetLandmarkDetectorImageSize, vars, SizeInv, TypeOK
  <2> QED
    BY <2>1 DEF SizeInv, TypeOK
<1>2. ASSUME NEW size \in Sizes, Update(size) PROVE SizeInv'
  <2> DEFINE limit == landmarkDetectorImageSize
  <2>1. PICK new \in Resized(size, limit) :
          /\ im' = [size |-> RotatedSize(new, imageRotation), source |-> size,
                    resized |-> new, rotation |-> imageRotation,
                    owner |-> OwnerAfterRotation(OwnerAfterResize(size, new), new)]
          /\ info' = IF InfoIsCurrent(size) THEN info
                     ELSE NewInfo(size, RotatedSize(new, imageRotation), imageRotation)
          /\ written' \subseteq Sizes
          /\ UNCHANGED <<imageRotation, landmarkDetectorImageSize>>
    BY <1>2 DEF Update
  <2>2. new \in [w : Nat, h : Nat] /\ new.w <= size.w /\ new.h <= size.h
    BY ResizedIsSize
  <2>3. /\ RotatedSize(new, imageRotation) \in {new, Turned(new)}
        /\ RotatedSize(new, imageRotation) \in [w : Nat, h : Nat]
    BY <2>2 DEF RotatedSize, Turned
  <2>4. OwnerAfterRotation(OwnerAfterResize(size, new), new) \in Sizes \cup {NoSize}
    BY DEF OwnerAfterRotation, OwnerAfterResize, SizeInv, TypeOK
  <2>5. info' \in [w : Int, h : Int, lw : Int, lh : Int, rotation : Int]
    <3>1. imageRotation \in Int /\ size.w \in Int /\ size.h \in Int
      BY InputGeometryAssumption DEF SizeInv, TypeOK
    <3> QED
      BY <2>1, <2>3, <3>1 DEF NewInfo, SizeInv, TypeOK
  <2> QED
    BY <2>1, <2>2, <2>3, <2>4, <2>5 DEF SizeInv, TypeOK
<1> QED
  BY <1>1, <1>2 DEF Next

LEMMA SizeAlways == Spec => []SizeInv
  BY SizeStart, SizeStep, PTL DEF Spec

\* Every variable holds a value of its type; the working copy is never larger than
\* the image it was made from, and is it or its quarter turn.
THEOREM GeometryTypeCorrect == Spec => []TypeOK
<1>1. SizeInv => TypeOK
  BY DEF SizeInv
<1> QED
  BY <1>1, SizeAlways, PTL

-----------------------------------------------------------------------------
(* The application's images *)

\* im shares no pixels of an image that was, or with the present landmark size would
\* have been, resized.
CopiesInv ==
  /\ im.owner \in Sizes \cup {NoSize}
  /\ im.owner # NoSize => ~Resizes(im.owner, landmarkDetectorImageSize)
  /\ im.source = NoSize => im.owner = NoSize /\ written = {}
  /\ ResizedImagesIntact

LEMMA NoSizeIsNoImage == NoSize \notin Sizes
  BY InputGeometryAssumption DEF NoSize

LEMMA CopiesStart == Init => CopiesInv
  BY DEF Init, Constructed, CopiesInv, ResizedImagesIntact

LEMMA CopiesStep ==
  ASSUME "lateLimit" \notin Calls
  PROVE  CopiesInv /\ [Next]_vars => CopiesInv'
<1> SUFFICES ASSUME CopiesInv, [Next]_vars PROVE CopiesInv'
  OBVIOUS
<1>1. CASE SetFaceRotation \/ UNCHANGED vars
  <2>1. UNCHANGED <<im, landmarkDetectorImageSize, written>>
    BY <1>1 DEF SetFaceRotation, vars
  <2> QED
    BY <2>1 DEF CopiesInv, ResizedImagesIntact
<1>2. CASE SetLandmarkDetectorImageSize
  <2>1. im.source = NoSize /\ UNCHANGED <<im, written>>
    BY <1>2 DEF SetLandmarkDetectorImageSize
  <2> QED
    BY <2>1 DEF CopiesInv, ResizedImagesIntact
<1>3. ASSUME NEW size \in Sizes, Update(size) PROVE CopiesInv'
  <2> DEFINE limit    == landmarkDetectorImageSize
             owner(n) == OwnerAfterResize(size, n)
  <2>1. PICK new \in Resized(size, limit) :
          /\ im'.source = size
          /\ im'.owner = OwnerAfterRotation(owner(new), new)
          /\ \A s \in written' : s \in Sizes /\ (s \in written \/ s = owner(new))
          /\ UNCHANGED landmarkDetectorImageSize
    BY <1>3 DEF Update
  <2>2. /\ owner(new) \in Sizes \cup {NoSize}
        /\ owner(new) # NoSize => ~Resizes(owner(new), limit)
    BY DEF OwnerAfterResize, CopiesInv
  <2> HIDE DEF owner
  <2>3. im'.owner \in {owner(new), NoSize}
    BY <2>1 DEF OwnerAfterRotation
  <2>4. \A s \in written' : ~Resizes(s, limit)
    BY <2>1, <2>2, NoSizeIsNoImage DEF CopiesInv, ResizedImagesIntact
  <2> QED
    BY <2>1, <2>2, <2>3, <2>4, NoSizeIsNoImage DEF CopiesInv, ResizedImagesIntact
<1> QED
  BY <1>1, <1>2, <1>3 DEF Next

\* If the landmark size is set before the first update(), no image larger than it is
\* ever changed, for all sizes, angles and orders of calls: square images, half turns
\* and images of the size another one is resized to included.
THEOREM ImagesStayIntact ==
  ASSUME "lateLimit" \notin Calls
  PROVE  Spec => []ResizedImagesIntact
<1>1. CopiesInv => ResizedImagesIntact
  BY DEF CopiesInv
<1>2. CopiesInv /\ [Next]_vars => CopiesInv'
  BY CopiesStep
<1> QED
  BY <1>1, <1>2, CopiesStart, PTL DEF Spec

-----------------------------------------------------------------------------
(* The info of the working copy *)

\* setLandmarkDetectorImageSize only before the first update(); memory that does not
\* happen to hold the info of one of the cameras; and a resize() that rounds the same
\* sides in the same way each time.
SettledUse ==
  /\ Calls = {}
  /\ \A i \in Leftovers, size \in Sizes :
       i.w # size.w \/ i.h # size.h \/ i.rotation \notin Rotations \cup {0}
  /\ \A size \in Sizes, limit \in Limits \cup {-1} :
       \A a, b \in Resized(size, limit) : a = b

\* An info that would be found in the cache was made of a working copy like the one
\* the next image would get.
CacheInv ==
  /\ \A size \in Sizes :
       info.w = size.w /\ info.h = size.h /\ info.rotation \in Rotations \cup {0} =>
         /\ Updated
         /\ \E new \in Resized(size, landmarkDetectorImageSize) :
              info = NewInfo(size, RotatedSize(new, info.rotation), info.rotation)
  /\ Updated =>
       /\ im.source \in Sizes /\ im.rotation \in Rotations \cup {0}
       /\ im.resized \in Resized(im.source, landmarkDetectorImageSize)
       /\ im.size = RotatedSize(im.resized, im.rotation)

LEMMA CacheStart ==
  ASSUME SettledUse
  PROVE  Init => CacheInv
<1> SUFFICES ASSUME Init PROVE CacheInv
  OBVIOUS
<1>1. info \in Leftovers /\ ~Updated
  BY DEF Init, Constructed, Updated
<1> QED
  BY <1>1 DEF CacheInv, SettledUse

LEMMA CacheStep ==
  ASSUME SettledUse
  PROVE  CacheInv /\ SizeInv /\ [Next]_vars => CacheInv'
<1> SUFFICES ASSUME CacheInv, SizeInv, [Next]_vars PROVE CacheInv'
  OBVIOUS
<1>1. ASSUME SetFaceRotation \/ UNCHANGED vars PROVE CacheInv'
  <2>1. UNCHANGED <<im, info, landmarkDetectorImageSize>>
    BY <1>1 DEF SetFaceRotation, vars
  <2> QED
    BY <2>1 DEF CacheInv, Updated
<1>2. ASSUME SetLandmarkDetectorImageSize PROVE CacheInv'
  <2>1. ~Updated /\ UNCHANGED <<im, info>>
    BY <1>2 DEF SetLandmarkDetectorImageSize, SettledUse, Updated
  <2> QED
    BY <2>1 DEF CacheInv, Updated
<1>3. ASSUME NEW size \in Sizes, Update(size) PROVE CacheInv'
  <2> DEFINE limit == landmarkDetectorImageSize
  <2>1. PICK new \in Resized(size, limit) :
          /\ im'.size = RotatedSize(new, imageRotation) /\ im'.source = size
          /\ im'.resized = new /\ im'.rotation = imageRotation
          /\ info' = IF InfoIsCurrent(size) THEN info
                     ELSE NewInfo(size, RotatedSize(new, imageRotation), imageRotation)
          /\ UNCHANGED <<imageRotation, landmarkDetectorImageSize>>
    BY <1>3 DEF Update
  <2>2. imageRotation \in Rotations \cup {0}
    BY DEF SizeInv, TypeOK
  <2>3. size # NoSize
    BY InputGeometryAssumption DEF NoSize
  <2>4. Updated'
    BY <2>1, <2>3 DEF Updated
  <2>5. PICK made \in Resized(size, limit) :
          info' = NewInfo(size, RotatedSize(made, imageRotation), imageRotation)
    <3>1. CASE InfoIsCurrent(size)
      BY <2>1, <2>2, <3>1 DEF InfoIsCurrent, CacheInv
    <3>2. CASE ~InfoIsCurrent(size)
      BY <2>1, <3>2
    <3> QED
      BY <3>1, <3>2
  <2>6. ASSUME NEW other \in Sizes, info'.w = other.w, info'.h = other.h
        PROVE  other = size
    <3>1. other.w = size.w /\ other.h = size.h
      BY <2>5, <2>6 DEF NewInfo
    <3> QED
      BY <3>1, InputGeometryAssumption
  <2>7. info'.rotation = imageRotation
    BY <2>5 DEF NewInfo
  <2> QED
    BY <2>1, <2>2, <2>4, <2>5, <2>6, <2>7 DEF CacheInv
<1> QED
  BY <1>1, <1>2, <1>3 DEF Next

LEMMA CacheFits ==
  ASSUME SettledUse
  PROVE  CacheInv /\ SizeInv /\ InfoInv => InfoFitsWorkingCopy
<1> SUFFICES ASSUME CacheInv, SizeInv, InfoInv, Updated
             PROVE  info = NewInfo(im.source, im.size, im.rotation)
  BY DEF InfoFitsWorkingCopy
<1> DEFINE limit == landmarkDetectorImageSize
<1>1. /\ im.source \in Sizes /\ im.rotation \in Rotations \cup {0}
      /\ im.resized \in Resized(im.source, limit)
      /\ im.size = RotatedSize(im.resized, im.rotation)
      /\ limit \in Limits \cup {-1}
  BY DEF CacheInv, SizeInv, TypeOK
<1>2. /\ info.w = im.source.w /\ info.h = im.source.h /\ info.rotation = im.rotation
  BY DEF InfoInv, InfoDescribesInput
<1>3. PICK made \in Resized(im.source, limit) :
        info = NewInfo(im.source, RotatedSize(made, info.rotation), info.rotation)
  BY <1>1, <1>2 DEF CacheInv
<1>4. made = im.resized
  BY <1>1, <1>3 DEF SettledUse
<1> QED
  BY <1>1, <1>2, <1>3, <1>4

\* Whenever the cache of ofxFaceTracker2.cpp:110 is hit, the info found there is the
\* one the last image and its working copy would give, both their sizes included.
THEOREM InfoIsOfTheInput ==
  ASSUME SettledUse
  PROVE  Spec => []InfoFitsWorkingCopy
<1>1. CacheInv /\ SizeInv /\ InfoInv => InfoFitsWorkingCopy
  BY CacheFits
<1>2. Init => CacheInv
  BY CacheStart
<1>3. CacheInv /\ SizeInv /\ [Next]_vars => CacheInv'
  BY CacheStep
<1> QED
  BY <1>1, <1>2, <1>3, SizeAlways, InfoAlways, PTL DEF Spec

-----------------------------------------------------------------------------
(* Landmarks of upright images *)

\* No image is higher than it is wide.
SettledLandscape ==
  SettledUse /\ \A size \in Sizes : size.h <= size.w

LEMMA SquareOrder ==
  ASSUME NEW a \in Int, NEW b \in Nat, a * a <= b * b
  PROVE  a <= b
<1> SUFFICES ASSUME a > b PROVE FALSE
  OBVIOUS
<1>1. a * a > b * a
  OBVIOUS
<1>2. b * a >= b * b
  OBVIOUS
<1> QED
  BY <1>1, <1>2

\* A number not above the root of n * W / H is to one not below the root of n * H / W
\* at most as W is to H.
LEMMA RootsInProportion ==
  ASSUME NEW p \in Nat, NEW q \in Nat, NEW n \in Nat, NEW W \in Nat, NEW H \in Nat,
         (p * p) * H <= n * W,
         n * H <= (q * q) * W
  PROVE  p * H <= q * W
<1>1. /\ (p * p) * H \in Nat /\ n * W \in Nat /\ n * H \in Nat /\ (q * q) * W \in Nat
      /\ p * H \in Nat /\ q * W \in Nat
  OBVIOUS
<1>2. ((p * p) * H) * H <= (n * W) * H
  BY <1>1, ScalingKeepsOrder
<1>3. (n * H) * W <= ((q * q) * W) * W
  BY <1>1, ScalingKeepsOrder
<1>4. ((p * p) * H) * H = (p * H) * (p * H)
  OBVIOUS
<1>5. ((q * q) * W) * W = (q * W) * (q * W)
  OBVIOUS
<1>6. (n * W) * H = (n * H) * W
  OBVIOUS
<1>7. (p * H) * (p * H) <= (q * W) * (q * W)
  <2>1. (p * H) * (p * H) \in Nat /\ (q * W) * (q * W) \in Nat /\ (n * H) * W \in Nat
    BY <1>1
  <2> QED
    BY <1>2, <1>3, <1>4, <1>5, <1>6, <2>1
<1> QED
  BY <1>1, <1>7, SquareOrder

\* Scaling both coordinates by the ratio of the widths moves a landmark by less than a
\* pixel of the working copy from where the ratio of the heights has it.
LEMMA OneRatioIsEnough ==
  ASSUME NEW W \in Nat \ {0}, NEW H \in Nat \ {0}, H <= W, NEW limit \in Nat,
         NEW w \in Nat \ {0}, NEW h \in Nat \ {0}, H = W => h = w,
         \/ w = W /\ h = H
         \/ RoundsRoot(w, limit * W, H) /\ RoundsRoot(h, limit * H, W),
         NEW y \in 0 .. h - 1
  PROVE  Apart((W * y) * h, (y * H) * w) < H * w
<1>1. H * w \in Nat \ {0} /\ W * h \in Nat /\ H * w >= 1
  <2>1. H * w \in Nat /\ W * h \in Nat /\ H * w > 0
    OBVIOUS
  <2> QED
    BY <2>1
<1>2. CASE w = W /\ h = H
  <2>1. (W * y) * h = (y * H) * w /\ (W * y) * h \in Nat
    BY <1>2
  <2> QED
    BY <1>1, <2>1 DEF Apart
<1>3. CASE H < W /\ RoundsRoot(w, limit * W, H) /\ RoundsRoot(h, limit * H, W)
  <2> DEFINE p == 2 * w - 1
             q == 2 * h - 1
             n == 4 * limit
  <2>1. p \in Nat /\ q \in Nat /\ n \in Nat /\ 2 * w + 1 = p + 2 /\ 2 * h + 1 = q + 2
    OBVIOUS
  <2>2. /\ (p * p) * H <= n * W /\ n * W <= ((p + 2) * (p + 2)) * H
        /\ (q * q) * W <= n * H /\ n * H <= ((q + 2) * (q + 2)) * W
    <3>1. 4 * (limit * W) = n * W /\ 4 * (limit * H) = n * H
      OBVIOUS
    <3> QED
      BY <1>3, <2>1, <3>1 DEF RoundsRoot, Square
  <2> HIDE DEF p, q, n
  <2>3. p * H <= (q + 2) * W /\ q * W <= (p + 2) * H
    BY <2>1, <2>2, RootsInProportion
  <2>4. /\ p * H = 2 * (H * w) - H /\ (p + 2) * H = 2 * (H * w) + H
        /\ q * W = 2 * (W * h) - W /\ (q + 2) * W = 2 * (W * h) + W
    BY DEF p, q
  <2> DEFINE off == W * h - H * w
  <2>5. off \in Int /\ 2 * off <= W + H /\ -(2 * off) <= W + H
    BY <1>1, <2>3, <2>4
  <2>6. (W * y) * h - (y * H) * w = y * off
    OBVIOUS
  <2>7. (h - 1) * (W + H) < 2 * (H * w)
    <3>1. (h - 1) * (W + H) = W * h + H * h - W - H
      OBVIOUS
    <3>2. H * h < W * h
      <4>1. (W - H) * h = W * h - H * h /\ (W - H) * h > 0
        <5>1. W - H \in Nat \ {0} /\ h \in Nat \ {0}
          BY <1>3
        <5>2. (W - H) * h > 0
          BY <5>1
        <5> QED
          BY <5>2
      <4>2. W * h \in Int /\ H * h \in Int
        OBVIOUS
      <4> QED
        BY <4>1, <4>2
    <3>3. 2 * (W * h) - W <= 2 * (H * w) + H
      BY <2>3, <2>4
    <3>4. W * h \in Int /\ H * h \in Int /\ H * w \in Int
      OBVIOUS
    <3> QED
      BY <3>1, <3>2, <3>3, <3>4
  <2> HIDE DEF off
  <2>8. 2 * (y * off) <= (h - 1) * (W + H) /\ -(2 * (y * off)) <= (h - 1) * (W + H)
    <3>1. y * (2 * off) <= y * (W + H) /\ y * (-(2 * off)) <= y * (W + H)
      BY <2>5, ScalingKeepsOrder
    <3>2. (W + H) * y <= (W + H) * (h - 1)
      BY ScalingKeepsOrder
    <3>3. /\ y * (2 * off) = 2 * (y * off) /\ y * (-(2 * off)) = -(2 * (y * off))
          /\ y * (W + H) = (W + H) * y /\ (W + H) * (h - 1) = (h - 1) * (W + H)
      BY <2>5
    <3>4. y * off \in Int /\ (W + H) * y \in Int /\ (h - 1) * (W + H) \in Int
      BY <2>5
    <3> QED
      BY <3>1, <3>2, <3>3, <3>4
  <2>9. /\ (W * y) * h \in Int /\ (y * H) * w \in Int /\ y * off \in Int
        /\ (h - 1) * (W + H) \in Int
    BY <2>5
  <2> HIDE DEF off
  <2> QED
    BY <1>1, <2>6, <2>7, <2>8, <2>9 DEF Apart
<1>4. CASE H = W
  <2>1. (W * y) * h = (y * H) * w /\ (W * y) * h \in Nat
    <3>1. W * y = y * H /\ W * y \in Nat /\ h = w
      BY <1>4
    <3>2. (W * y) * h = (y * H) * w
      BY <3>1
    <3>3. (W * y) * h \in Nat
      BY <3>1
    <3> QED
      BY <3>2, <3>3
  <2> QED
    BY <1>1, <2>1 DEF Apart
<1> QED
  BY <1>2, <1>3, <1>4

\* "Coordinate is returned in input image size" (ofxFaceTracker2Landmarks.h:28), to
\* within a pixel of the working copy, for all landscape and square cameras, landmark
\* sizes and angles that do not turn the image, whatever angles were set before.
THEOREM UprightLandmarksReturn ==
  ASSUME SettledLandscape
  PROVE  Spec => []UprightLandmarksMapBack
<1>1. SettledUse
  BY DEF SettledLandscape
<1>2. CacheInv /\ SizeInv /\ InfoInv => UprightLandmarksMapBack
  <2> SUFFICES ASSUME CacheInv, SizeInv, InfoInv, Updated,
                      im.rotation \notin Clockwise90 \cup Clockwise270 \cup HalfTurn,
                      NEW p \in Pixels(im.size)
               PROVE  MapsBack(p)
    BY DEF UprightLandmarksMapBack
  <2> DEFINE source == im.source
             new    == im.resized
  <2>1. /\ source \in Sizes /\ new \in Resized(source, landmarkDetectorImageSize)
        /\ landmarkDetectorImageSize \in Limits \cup {-1}
    BY DEF CacheInv, SizeInv, TypeOK
  <2>2. /\ info.w = source.w /\ info.h = source.h /\ info.rotation = im.rotation
        /\ im.rotation \in Rotations \cup {0}
    BY DEF InfoInv, InfoDescribesInput, CacheInv
  <2>3. info = NewInfo(source, im.size, im.rotation)
    BY <1>1, CacheFits DEF InfoFitsWorkingCopy
  <2>4. info.lw = new.w /\ info.lh = new.h /\ im.size = new
    BY <2>2, <2>3 DEF NewInfo, RotatedSize, CacheInv
  <2>6. Unrotated(p) = p
    BY DEF Unrotated
  <2>7. info.rotation \notin {90, 180, 270}
    BY <2>2 DEF Clockwise90, Clockwise270, HalfTurn
  <2>8. ImagePoint(p) = <<info.w * p[1], info.w * p[2]>> /\ Denominator(info) = info.lw
    BY <2>7 DEF ImagePoint, Mapped, Denominator
  <2> DEFINE W == source.w
             H == source.h
             w == new.w
             h == new.h
             x == p[1]
             y == p[2]
  <2>5. /\ W \in Nat \ {0} /\ H \in Nat \ {0} /\ H <= W
        /\ w \in Nat \ {0} /\ h \in Nat \ {0}
        /\ x \in 0 .. w - 1 /\ y \in 0 .. h - 1
    <3>1. W \in Nat \ {0} /\ H \in Nat \ {0} /\ H <= W
      BY <2>1, InputGeometryAssumption DEF SettledLandscape
    <3>2. w \in 1 .. W /\ h \in 1 .. H
      BY <2>1 DEF Resized
    <3>3. x \in 0 .. w - 1 /\ y \in 0 .. h - 1
      BY <2>4 DEF Pixels
    <3> QED
      BY <3>1, <3>2, <3>3
  <2>9. H = W => h = w
    <3> SUFFICES ASSUME H = W PROVE h = w
      OBVIOUS
    <3> DEFINE swapped == [w |-> h, h |-> w]
    <3>1. CASE Resizes(source, landmarkDetectorImageSize)
      <4>1. swapped \in Resized(source, landmarkDetectorImageSize)
        BY <2>1, <3>1 DEF Resized
      <4>2. swapped = new
        BY <1>1, <2>1, <4>1 DEF SettledUse
      <4> QED
        BY <4>2
    <3>2. CASE ~Resizes(source, landmarkDetectorImageSize)
      BY <2>1, <3>2 DEF Resized
    <3> QED
      BY <3>1, <3>2
  <2>10. PICK limit \in Nat :
           \/ w = W /\ h = H
           \/ RoundsRoot(w, limit * W, H) /\ RoundsRoot(h, limit * H, W)
    <3>1. CASE Resizes(source, landmarkDetectorImageSize)
      <4>1. landmarkDetectorImageSize \in Nat
        BY <2>1, <3>1, InputGeometryAssumption DEF Resizes
      <4> QED
        BY <2>1, <3>1, <4>1 DEF Resized
    <3>2. CASE ~Resizes(source, landmarkDetectorImageSize)
      BY <2>1, <3>2 DEF Resized
    <3> QED
      BY <3>1, <3>2
  <2>11. Apart((W * y) * h, (y * H) * w) < H * w
    BY <2>5, <2>9, <2>10, OneRatioIsEnough
  <2>12. Apart((W * x) * w, (x * W) * w) < W * w
    <3>1. (W * x) * w = (x * W) * w /\ (x * W) * w \in Int /\ W * w > 0
      BY <2>5
    <3> QED
      BY <3>1 DEF Apart
  <2> QED
    BY <2>2, <2>4, <2>6, <2>8, <2>11, <2>12 DEF MapsBack
<1> QED
  BY <1>1, <1>2, CacheStart, CacheStep, SizeAlways, InfoAlways, PTL DEF Spec
=============================================================================
