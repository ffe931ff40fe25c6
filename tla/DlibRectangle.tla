---------------------------- MODULE DlibRectangle ----------------------------
(***************************************************************************)
(* dlib::rectangle and test_box_overlap, which the face detector and the   *)
(* shape predictor of ofxFaceTracker2 are built on.  All four sides belong *)
(* to the rectangle: one that ends before it begins is empty.              *)
(***************************************************************************)
EXTENDS Integers

Lower(a, b) == IF a <= b THEN a ELSE b
Greater(a, b) == IF a <= b THEN b ELSE a

\* All rectangles, the empty ones too.
Rectangles == [l : Int, t : Int, r : Int, b : Int]

IsEmpty(a) == a.t > a.b \/ a.l > a.r
Width(a)   == IF IsEmpty(a) THEN 0 ELSE a.r - a.l + 1
Height(a)  == IF IsEmpty(a) THEN 0 ELSE a.b - a.t + 1
Area(a)    == Width(a) * Height(a)

Intersect(a, b) ==
  [l |-> Greater(a.l, b.l), t |-> Greater(a.t, b.t),
   r |-> Lower(a.r, b.r),   b |-> Lower(a.b, b.b)]

\* operator+: the smallest rectangle around both; an empty one adds nothing.
Around(a, b) ==
  IF IsEmpty(b) THEN a
  ELSE IF IsEmpty(a) THEN b
  ELSE [l |-> Lower(a.l, b.l),   t |-> Lower(a.t, b.t),
        r |-> Greater(a.r, b.r), b |-> Greater(a.b, b.b)]

ContainsPoint(a, x, y) == a.l <= x /\ x <= a.r /\ a.t <= y /\ y <= a.b

\* test_box_overlap::operator(), its thresholds in percent.  No area is divided
\* by where it is 0, since rectangles that do not meet are sorted out before.
BoxesOverlap(a, b, matchThresh, overlapThresh) ==
  LET inner == Area(Intersect(a, b)) IN
  /\ inner # 0
  /\ \/ 100 * inner > matchThresh * Area(Around(a, b))
     \/ 100 * inner > overlapThresh * Area(a)
     \/ 100 * inner > overlapThresh * Area(b)
=============================================================================
