--------------------------- MODULE ShapePredictor ----------------------------
(***************************************************************************)
(* dlib's shape_predictor::operator(), which fits the landmarks to a face: *)
(* in every stage of a cascade it samples some pixels around the shape it  *)
(* has so far and lets each regression tree of that stage pick, by         *)
(* comparing samples, one of its leaves, which is added to the shape.      *)
(*                                                                         *)
(* A shape is the list of the leaves that were added to the initial shape. *)
(* Where the samples fall and what colour the image has there is left      *)
(* open; what lies outside the image is black.                             *)
(***************************************************************************)
EXTENDS DlibRectangle, Sequences

CONSTANTS
  ImageArea,     \* get_rect(img)
  Rects,         \* the rectangles of faces
  Offsets,       \* bound: where samples fall, from a rectangle's corner
  Intensities,   \* bound: the colours of the image
  NumPixels,     \* the number of samples, per stage of the cascade
  Forests        \* the trees of each stage: the features that its nodes
                 \*   compare, level by level, and the number of its leaves

\* What regression_tree::operator() requires of the data file.
ASSUME PredictorAssumption ==
  /\ ImageArea \in Rectangles /\ Rects \subseteq Rectangles
  /\ Offsets \subseteq [x : Int, y : Int] /\ Offsets # {}
  /\ Intensities \subseteq Nat /\ Intensities # {}
  /\ NumPixels \in Seq(Nat)
  /\ DOMAIN Forests = 1 .. Len(NumPixels)
  /\ \A c \in DOMAIN Forests :
       Forests[c] \in Seq([splits : Seq([idx1   : 0 .. NumPixels[c] - 1,
                                         idx2   : 0 .. NumPixels[c] - 1,
                                         thresh : Int]),
                           leaves : Nat])
  /\ \A c \in DOMAIN Forests : \A t \in DOMAIN Forests[c] :
       Forests[c][t].leaves = Len(Forests[c][t].splits) + 1

\* The number of nodes on the k-th level of a tree, from 0.
NodesOn[k \in Nat] == IF k = 0 THEN 1 ELSE 2 * NodesOn[k - 1]

\* ... and that all levels of its trees are filled.
ASSUME FullTrees ==
  \A c \in DOMAIN Forests : \A t \in DOMAIN Forests[c] :
    \E d \in 0 .. Forests[c][t].leaves : Forests[c][t].leaves = NodesOn[d]

VARIABLES
  fit,        \* of operator(): "idle", "extract", "descend" or "done"
  rect,       \* its argument
  iter,       \* the stage of the cascade
  tree,       \* the tree of that stage
  node,       \* where the descent is, numbered from 0
  pixels,     \* feature_pixel_values
  shape       \* current_shape

predictorVars == <<fit, rect, iter, tree, node, pixels, shape>>

Splits(c, t) == Forests[c][t].splits

\* The samples that can be taken around a rectangle.
Inside(r)  == {o \in Offsets : ContainsPoint(ImageArea, r.l + o.x, r.t + o.y)}
Samples(r) == (IF Inside(r) # {} THEN Intensities ELSE {})
                \cup (IF Inside(r) # Offsets THEN {0} ELSE {})

\* feature_pixel_values is indexed from 0.
Pixel(values, k) == values[k + 1]

GoesLeft(values, split) ==
  Pixel(values, split.idx1) - Pixel(values, split.idx2) > split.thresh

\* The right child one too far, and one too near.
BadRightChild(i) == 2 * i + 3
BadLeftChild(i) == 2 * i

LeftChild(i) == 2 * i + 1
RightChild(i) == 2 * i + 2

\* The leaf that a number past the last split stands for, from 0.
Leaf(c, t, i) == i - Len(Splits(c, t))

PredictorInit ==
  /\ fit = "idle" /\ rect = [l |-> 0, t |-> 0, r |-> -1, b |-> -1]
  /\ iter = 1 /\ tree = 1 /\ node = 0
  /\ pixels = << >> /\ shape = << >>

BeginFit(r) ==
  /\ fit = "idle"
  /\ fit' = IF Forests = << >> THEN "done" ELSE "extract"
  /\ rect' = r /\ iter' = 1 /\ tree' = 1 /\ node' = 0 /\ shape' = << >>
  /\ UNCHANGED pixels

\* Where the cascade goes after its c-th stage.
NextStage(c) ==
  IF c < Len(NumPixels) THEN fit' = "extract" /\ iter' = c + 1
                        ELSE fit' = "done" /\ iter' = 1

\* The samples of one stage, taken before any of its trees is evaluated.
ExtractPixels ==
  /\ fit = "extract"
  /\ pixels' \in [1 .. NumPixels[iter] -> Samples(rect)]
  /\ IF Forests[iter] = << >> THEN NextStage(iter)
                              ELSE fit' = "descend" /\ UNCHANGED iter
  /\ UNCHANGED <<rect, tree, node, shape>>

\* The children are swapped.
BadDescend ==
  /\ fit = "descend"
  /\ node < Len(Splits(iter, tree))
  /\ node' = IF GoesLeft(pixels, Splits(iter, tree)[node + 1])
             THEN RightChild(node) ELSE LeftChild(node)
  /\ UNCHANGED <<fit, rect, iter, tree, pixels, shape>>

Descend ==
  /\ fit = "descend"
  /\ node < Len(Splits(iter, tree))
  /\ node' = IF GoesLeft(pixels, Splits(iter, tree)[node + 1])
             THEN LeftChild(node) ELSE RightChild(node)
  /\ UNCHANGED <<fit, rect, iter, tree, pixels, shape>>

\* The last tree of a stage is left out.
BadAddLeaf ==
  /\ fit = "descend"
  /\ node >= Len(Splits(iter, tree))
  /\ shape' = Append(shape, [iter |-> iter, tree |-> tree,
                             leaf |-> Leaf(iter, tree, node)])
  /\ node' = 0
  /\ IF tree + 1 < Len(Forests[iter])
     THEN tree' = tree + 1 /\ UNCHANGED <<fit, iter, pixels>>
     ELSE tree' = 1 /\ pixels' = << >> /\ NextStage(iter)
  /\ UNCHANGED rect

\* The leaf of one tree is added; after the last tree of a stage its samples are
\* not read again.
AddLeaf ==
  /\ fit = "descend"
  /\ node >= Len(Splits(iter, tree))
  /\ shape' = Append(shape, [iter |-> iter, tree |-> tree,
                             leaf |-> Leaf(iter, tree, node)])
  /\ node' = 0
  /\ IF tree < Len(Forests[iter])
     THEN tree' = tree + 1 /\ UNCHANGED <<fit, iter, pixels>>
     ELSE tree' = 1 /\ pixels' = << >> /\ NextStage(iter)
  /\ UNCHANGED rect

ReturnShape ==
  /\ fit = "done"
  /\ fit' = "idle"
  /\ UNCHANGED <<rect, iter, tree, node, pixels, shape>>

FitStep == ExtractPixels \/ Descend \/ AddLeaf

PredictorNext == (\E r \in Rects : BeginFit(r)) \/ FitStep \/ ReturnShape

PredictorSpec == PredictorInit /\ [][PredictorNext]_predictorVars

-----------------------------------------------------------------------------
(* Properties *)

\* Every variable holds a value of its type.
PredictorTypeOK ==
  /\ fit \in {"idle", "extract", "descend", "done"}
  /\ rect \in Rectangles
  /\ iter \in Nat /\ tree \in Nat /\ node \in Nat
  /\ pixels \in Seq(Nat)
  /\ shape \in Seq([iter : Nat, tree : Nat, leaf : Nat])

\* No vector is read beyond its end, whatever the image: nodes, samples, leaves.
ReadsInBounds ==
  /\ fit \in {"extract", "descend"} => iter \in DOMAIN Forests
  /\ fit = "descend" =>
       /\ tree \in DOMAIN Forests[iter]
       /\ Len(pixels) = NumPixels[iter]
       /\ LET splits == Splits(iter, tree) IN
          IF node < Len(splits)
          THEN splits[node + 1].idx1 < Len(pixels) /\ splits[node + 1].idx2 < Len(pixels)
          ELSE Leaf(iter, tree, node) < Forests[iter][tree].leaves

\* A reference for the descent in a tree with all its levels filled: under the j-th
\* node of a level are the nodes 2j and 2j + 1 of the next one.  It gives the place
\* on each level, the last of which is that of the leaves.
Depth(c, t) ==
  CHOOSE d \in 0 .. Len(Splits(c, t)) : NodesOn[d] = Len(Splits(c, t)) + 1

Places(values, c, t) ==
  LET place[k \in 0 .. Depth(c, t)] ==
        IF k = 0 THEN 0
        ELSE IF GoesLeft(values, Splits(c, t)[NodesOn[k - 1] + place[k - 1]])
             THEN 2 * place[k - 1] ELSE 2 * place[k - 1] + 1
  IN place

LeafOf(values, c, t) == Places(values, c, t)[Depth(c, t)]

\* The loop over the numbered nodes ends at the leaf the tree's questions lead to.
FindsLeaf ==
  fit = "descend" /\ node >= Len(Splits(iter, tree)) =>
    Leaf(iter, tree, node) = LeafOf(pixels, iter, tree)

\* The number of trees in the stages before the c-th.
TreesBefore[c \in 1 .. Len(NumPixels) + 1] ==
  IF c = 1 THEN 0 ELSE TreesBefore[c - 1] + Len(Forests[c - 1])

\* The shape has moved by one leaf of every tree passed so far, in their order.
EveryTreeOnce ==
  /\ \A k \in DOMAIN shape : k = TreesBefore[shape[k].iter] + shape[k].tree
  /\ fit = "done" => Len(shape) = TreesBefore[Len(NumPixels) + 1]
=============================================================================
