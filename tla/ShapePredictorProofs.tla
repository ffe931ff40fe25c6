------------------------ MODULE ShapePredictorProofs -------------------------
(***************************************************************************)
(* Fitting a shape reads no vector beyond its end, for any image,          *)
(* rectangle and data file that the trees can be evaluated with. It rests  *)
(* on one fact about the descent, that no node is numbered higher than     *)
(* twice the number of splits: the last split's right child is the last    *)
(* leaf.                                                                   *)
(*                                                                         *)
(* Every tree is asked once (PassedInv counts those passed) and answers    *)
(* with the leaf its questions lead to: PathInv keeps the number of a node *)
(* together with its level and its place there. The number of trees before *)
(* a stage, of nodes on a level, and the path in a tree are recursive;     *)
(* what they compute follows from the lemmas on recursion, which rest on   *)
(* the order of the natural numbers being well-founded.                    *)
(***************************************************************************)
EXTENDS ShapePredictor, SequenceTheorems, WellFoundedInduction, TLAPS

\* Where each stage and each descent begins, and how far a descent can get.
DescentInv ==
  /\ fit = "extract" => iter \in DOMAIN Forests /\ tree = 1 /\ node = 0
  /\ fit = "descend" =>
       /\ iter \in DOMAIN Forests /\ tree \in DOMAIN Forests[iter]
       /\ Len(pixels) = NumPixels[iter]
       /\ node <= 2 * Len(Splits(iter, tree))

PredictorInv == PredictorTypeOK /\ DescentInv

-----------------------------------------------------------------------------
\* What PredictorAssumption says of one stage.
LEMMA StageShape ==
  ASSUME NEW c \in DOMAIN Forests
  PROVE  /\ c \in Nat \ {0} /\ c <= Len(NumPixels)
         /\ NumPixels[c] \in Nat
         /\ Len(Forests[c]) \in Nat /\ DOMAIN Forests[c] = 1 .. Len(Forests[c])
         /\ Forests[c] # << >> => 1 \in DOMAIN Forests[c]
  <1> DEFINE Split == [idx1 : 0 .. NumPixels[c] - 1, idx2 : 0 .. NumPixels[c] - 1,
                       thresh : Int]
             Tree  == [splits : Seq(Split), leaves : Nat]
  <1>1. Len(NumPixels) \in Nat /\ DOMAIN Forests = 1 .. Len(NumPixels)
    BY PredictorAssumption, LenProperties
  <1>2. NumPixels[c] \in Nat
    BY <1>1, PredictorAssumption, ElementOfSeq
  <1>3. Forests[c] \in Seq(Tree)
    BY PredictorAssumption
  <1> HIDE DEF Tree
  <1>4. Len(Forests[c]) \in Nat /\ DOMAIN Forests[c] = 1 .. Len(Forests[c])
    BY <1>3, LenProperties
  <1>5. Forests[c] # << >> => Len(Forests[c]) \in Nat \ {0}
    BY <1>3, EmptySeq
  <1> QED
    BY <1>1, <1>2, <1>4, <1>5

\* ... and of one tree: its nodes compare samples that are taken.
LEMMA TreeShape ==
  ASSUME NEW c \in DOMAIN Forests, NEW t \in DOMAIN Forests[c]
  PROVE  /\ Len(Splits(c, t)) \in Nat
         /\ Forests[c][t].leaves = Len(Splits(c, t)) + 1
         /\ \A k \in 1 .. Len(Splits(c, t)) :
              /\ Splits(c, t)[k].idx1 \in 0 .. NumPixels[c] - 1
              /\ Splits(c, t)[k].idx2 \in 0 .. NumPixels[c] - 1
  <1> DEFINE Split == [idx1 : 0 .. NumPixels[c] - 1, idx2 : 0 .. NumPixels[c] - 1,
                       thresh : Int]
             Tree  == [splits : Seq(Split), leaves : Nat]
  <1>1. Forests[c] \in Seq(Tree) /\ t \in 1 .. Len(Forests[c])
    BY PredictorAssumption, StageShape
  <1> HIDE DEF Tree
  <1>2. Forests[c][t] \in Tree
    BY <1>1, ElementOfSeq
  <1>3. Splits(c, t) \in Seq(Split)
    BY <1>2 DEF Splits, Tree
  <1> HIDE DEF Split
  <1>4. \A k \in 1 .. Len(Splits(c, t)) : Splits(c, t)[k] \in Split
    BY <1>3, ElementOfSeq
  <1>5. Len(Splits(c, t)) \in Nat
    BY <1>3, LenProperties
  <1>6. Forests[c][t].leaves = Len(Splits(c, t)) + 1
    BY PredictorAssumption DEF Splits
  <1> QED
    BY <1>4, <1>5, <1>6 DEF Split

\* The samples of a rectangle are intensities, or 0 outside the image.
LEMMA SamplesAreIntensities ==
  ASSUME NEW r, NEW n \in Nat, NEW values \in [1 .. n -> Samples(r)]
  PROVE  values \in Seq(Nat) /\ Len(values) = n
  <1>1. Samples(r) \subseteq Nat
    BY PredictorAssumption DEF Samples
  <1>2. values \in [1 .. n -> Nat]
    BY <1>1
  <1> QED
    BY <1>2, LenProperties, IsASeq

\* It holds before the first fit.
LEMMA PredictorInvInit == PredictorInit => PredictorInv
  <1> SUFFICES ASSUME PredictorInit PROVE PredictorInv
    OBVIOUS
  <1>1. << >> \in Seq(Nat) /\ << >> \in Seq([iter : Nat, tree : Nat, leaf : Nat])
    BY EmptySeq
  <1> QED
    BY <1>1 DEF PredictorInit, PredictorInv, PredictorTypeOK, DescentInv, Rectangles

\* Where NextStage leads: to the next stage of the cascade or to the result.
LEMMA StageAfter ==
  ASSUME PredictorInv, iter \in DOMAIN Forests, NextStage(iter)
  PROVE  /\ fit' \in {"extract", "done"} /\ iter' \in Nat
         /\ fit' = "extract" => iter' \in DOMAIN Forests
  <1>1. DOMAIN Forests = 1 .. Len(NumPixels) /\ Len(NumPixels) \in Nat
    BY PredictorAssumption, LenProperties
  <1> QED
    BY <1>1 DEF NextStage

\* Every step of the fit preserves it.
LEMMA PredictorInvStep == PredictorInv /\ [PredictorNext]_predictorVars => PredictorInv'
  <1> SUFFICES ASSUME PredictorInv, [PredictorNext]_predictorVars PROVE PredictorInv'
    OBVIOUS
  <1> USE DEF PredictorInv, PredictorTypeOK, DescentInv
  <1>1. ASSUME NEW r \in Rects, BeginFit(r) PROVE PredictorInv'
    <2>1. << >> \in Seq([iter : Nat, tree : Nat, leaf : Nat])
      BY EmptySeq
    <2>2. Forests # << >> => 1 \in DOMAIN Forests
      <3>1. /\ DOMAIN Forests = 1 .. Len(NumPixels) /\ Len(NumPixels) \in Nat
            /\ \A c \in DOMAIN Forests : Forests[c] \in
                 Seq([splits : Seq([idx1 : 0 .. NumPixels[c] - 1,
                                    idx2 : 0 .. NumPixels[c] - 1, thresh : Int]),
                      leaves : Nat])
        BY PredictorAssumption, LenProperties
      <3> QED
        BY <3>1
    <2>3. r \in Rectangles
      BY PredictorAssumption
    <2> QED
      BY <1>1, <2>1, <2>2, <2>3 DEF BeginFit
  <1>2. CASE ExtractPixels
    <2>1. iter \in DOMAIN Forests /\ tree = 1 /\ node = 0
      BY <1>2 DEF ExtractPixels
    <2>2. pixels' \in Seq(Nat) /\ Len(pixels') = NumPixels[iter]
      BY <1>2, <2>1, StageShape, SamplesAreIntensities DEF ExtractPixels
    <2>3. CASE Forests[iter] = << >>
      BY <1>2, <2>1, <2>2, <2>3, StageAfter DEF ExtractPixels
    <2>4. CASE Forests[iter] # << >>
      <3>1. 1 \in DOMAIN Forests[iter]
        BY <2>1, <2>4, StageShape
      <3>2. Len(Splits(iter, 1)) \in Nat
        BY <2>1, <3>1, TreeShape
      <3> QED
        BY <1>2, <2>1, <2>2, <2>4, <3>1, <3>2 DEF ExtractPixels, Splits
    <2> QED
      BY <2>3, <2>4
  <1>3. CASE Descend
    <2>1. /\ iter \in DOMAIN Forests /\ tree \in DOMAIN Forests[iter]
          /\ node < Len(Splits(iter, tree)) /\ Len(Splits(iter, tree)) \in Nat
      BY <1>3, TreeShape DEF Descend
    <2>2. node' = 2 * node + 1 \/ node' = 2 * node + 2
      BY <1>3, Zenon DEF Descend, LeftChild, RightChild
    <2>3. node' \in Nat /\ node' <= 2 * Len(Splits(iter, tree))
      BY <2>1, <2>2
    <2> QED
      BY <1>3, <2>1, <2>3 DEF Descend, Splits
  <1>4. CASE AddLeaf
    <2>1. /\ iter \in DOMAIN Forests /\ tree \in DOMAIN Forests[iter]
          /\ node >= Len(Splits(iter, tree)) /\ Len(Splits(iter, tree)) \in Nat
      BY <1>4, TreeShape DEF AddLeaf
    <2>2. Leaf(iter, tree, node) \in Nat
      BY <2>1 DEF Leaf
    <2>3. shape' \in Seq([iter : Nat, tree : Nat, leaf : Nat])
      BY <1>4, <2>2, AppendProperties DEF AddLeaf
    <2>4. << >> \in Seq(Nat)
      BY EmptySeq
    <2>5. CASE tree < Len(Forests[iter])
      <3>1. tree + 1 \in DOMAIN Forests[iter]
        BY <2>1, <2>5, StageShape
      <3>2. Len(Splits(iter, tree + 1)) \in Nat
        BY <2>1, <3>1, TreeShape
      <3>3. /\ fit = "descend" /\ fit' = fit /\ iter' = iter /\ tree' = tree + 1
            /\ node' = 0 /\ pixels' = pixels /\ rect' = rect
        BY <1>4, <2>5 DEF AddLeaf
      <3>4. tree + 1 \in Nat /\ 0 <= 2 * Len(Splits(iter, tree + 1))
        BY <3>2
      <3> QED
        BY <2>1, <2>3, <3>1, <3>3, <3>4 DEF Splits
    <2>6. CASE ~(tree < Len(Forests[iter]))
      BY <1>4, <2>1, <2>3, <2>4, <2>6, StageAfter DEF AddLeaf
    <2> QED
      BY <2>5, <2>6
  <1>5. CASE ReturnShape
    BY <1>5 DEF ReturnShape
  <1>6. CASE UNCHANGED predictorVars
    BY <1>6 DEF predictorVars, Splits
  <1> QED
    BY <1>1, <1>2, <1>3, <1>4, <1>5, <1>6 DEF PredictorNext, FitStep

\* The whole invariant, for any cascade of trees.
THEOREM PredictorInvHolds == PredictorSpec => []PredictorInv
  BY PredictorInvInit, PredictorInvStep, PTL DEF PredictorSpec

\* In every reachable state the variables of the fit have their types; the leaf of
\* a tree is never numbered below 0.
THEOREM FitsTyped == PredictorSpec => []PredictorTypeOK
  <1>1. PredictorInv => PredictorTypeOK
    BY DEF PredictorInv
  <1> QED
    BY <1>1, PredictorInvHolds, PTL

\* No node, sample or leaf is read that is not there.
THEOREM FitsReadInBounds == PredictorSpec => []ReadsInBounds
  <1>1. PredictorInv => ReadsInBounds
    <2> SUFFICES ASSUME PredictorInv PROVE ReadsInBounds
      OBVIOUS
    <2> USE DEF PredictorInv, PredictorTypeOK, DescentInv
    <2>1. fit = "extract" => iter \in DOMAIN Forests
      OBVIOUS
    <2>2. ASSUME fit = "descend"
          PROVE  /\ iter \in DOMAIN Forests /\ tree \in DOMAIN Forests[iter]
                 /\ Len(pixels) = NumPixels[iter]
                 /\ IF node < Len(Splits(iter, tree))
                    THEN /\ Splits(iter, tree)[node + 1].idx1 < Len(pixels)
                         /\ Splits(iter, tree)[node + 1].idx2 < Len(pixels)
                    ELSE Leaf(iter, tree, node) < Forests[iter][tree].leaves
      <3>1. /\ iter \in DOMAIN Forests /\ tree \in DOMAIN Forests[iter]
            /\ Len(pixels) = NumPixels[iter]
            /\ node <= 2 * Len(Splits(iter, tree)) /\ node \in Nat
        BY <2>2
      <3>2. NumPixels[iter] \in Nat
        BY <3>1, StageShape
      <3>3. /\ Len(Splits(iter, tree)) \in Nat
            /\ Forests[iter][tree].leaves = Len(Splits(iter, tree)) + 1
        BY <3>1, TreeShape
      <3>4. CASE node < Len(Splits(iter, tree))
        <4>1. node + 1 \in 1 .. Len(Splits(iter, tree))
          BY <3>1, <3>3, <3>4
        <4>2. /\ Splits(iter, tree)[node + 1].idx1 \in 0 .. NumPixels[iter] - 1
              /\ Splits(iter, tree)[node + 1].idx2 \in 0 .. NumPixels[iter] - 1
          BY <3>1, <4>1, TreeShape
        <4>3. \A i \in 0 .. NumPixels[iter] - 1 : i < Len(pixels)
          BY <3>1, <3>2
        <4> QED
          BY <3>1, <3>4, <4>2, <4>3, Zenon
      <3>5. CASE ~(node < Len(Splits(iter, tree)))
        BY <3>1, <3>3, <3>5 DEF Leaf
      <3> QED
        BY <3>1, <3>4, <3>5
    <2> QED
      BY <2>1, <2>2 DEF ReadsInBounds
  <1> QED
    BY <1>1, PredictorInvHolds, PTL

-----------------------------------------------------------------------------
(* Recursive definitions *)

\* Induction, for a set in place of a predicate.
LEMMA Induction ==
  ASSUME NEW S, 0 \in S, \A n \in Nat : n \in S => n + 1 \in S
  PROVE  Nat \subseteq S
  <1> DEFINE Less == {pair \in Nat \X Nat : pair[1] < pair[2]}
             Out  == Nat \ S
  <1>1. OpToRel(<, Nat) = Less
    BY Zenon DEF OpToRel
  <1>2. IsWellFoundedOn(Less, Nat)
    BY <1>1, NatLessThanWellFounded, Zenon
  <1> SUFFICES ASSUME Out # {} PROVE FALSE
    BY Zenon
  <1>3. PICK m \in Out : \A n \in Out : <<n, m>> \notin Less
    BY <1>2, WFMin, Zenon
  <1>4. m \in Nat /\ m # 0 /\ m \notin S
    BY <1>3
  <1>5. m - 1 \in Nat /\ m - 1 \notin S
    BY <1>4
  <1>6. <<m - 1, m>> \in Nat \X Nat /\ m - 1 < m
    BY <1>4, <1>5
  <1> QED
    BY <1>3, <1>5, <1>6

\* What a recursion has computed of f up to n.
Computes(f, n, V, base, step) ==
  /\ f \in [0 .. n -> V]
  /\ f[0] = base
  /\ \A k \in 0 .. n - 1 : f[k + 1] = step[<<k, f[k]>>]

LEMMA RecursionUpTo ==
  ASSUME NEW V, NEW base \in V, NEW step,
         \A n \in Nat : \A v \in V : step[<<n, v>>] \in V,
         NEW n \in Nat
  PROVE  \E f : Computes(f, n, V, base, step)
  <1> DEFINE S == {m \in Nat : \E f : Computes(f, m, V, base, step)}
  <1>1. 0 \in S
    <2> DEFINE g == [k \in 0 .. 0 |-> base]
    <2>1. Computes(g, 0, V, base, step)
      BY DEF Computes
    <2> QED
      BY <2>1
  <1>2. ASSUME NEW m \in Nat, m \in S PROVE m + 1 \in S
    <2>1. PICK f : Computes(f, m, V, base, step)
      BY <1>2
    <2> DEFINE g == [k \in 0 .. m + 1 |-> IF k = m + 1 THEN step[<<m, f[m]>>] ELSE f[k]]
    <2>2. f[m] \in V /\ step[<<m, f[m]>>] \in V
      BY <2>1 DEF Computes
    <2>3. g \in [0 .. m + 1 -> V] /\ g[0] = base
      BY <2>1, <2>2 DEF Computes
    <2>4. ASSUME NEW k \in 0 .. (m + 1) - 1 PROVE g[k + 1] = step[<<k, g[k]>>]
      <3>1. CASE k = m
        <4>1. m \in 0 .. m + 1 /\ m + 1 \in 0 .. m + 1 /\ m # m + 1
          OBVIOUS
        <4>2. g[m] = f[m] /\ g[m + 1] = step[<<m, f[m]>>]
          BY <4>1
        <4> HIDE DEF g
        <4> QED
          BY <3>1, <4>2
      <3>2. CASE k \in 0 .. m - 1
        <4>1. g[k + 1] = f[k + 1] /\ g[k] = f[k]
          BY <3>2
        <4> QED
          BY <2>1, <3>2, <4>1 DEF Computes
      <3> QED
        BY <3>1, <3>2
    <2> HIDE DEF g
    <2>5. Computes(g, m + 1, V, base, step)
      BY <2>3, <2>4 DEF Computes
    <2> QED
      BY <2>5
  <1> HIDE DEF S
  <1>3. Nat \subseteq S
    BY <1>1, <1>2, Induction
  <1> QED
    BY <1>3 DEF S

LEMMA RecursionAgrees ==
  ASSUME NEW V, NEW base, NEW step, NEW m \in Nat, NEW n \in Nat, m <= n,
         NEW f, NEW g, Computes(f, m, V, base, step), Computes(g, n, V, base, step)
  PROVE  f[m] = g[m]
  <1> DEFINE S == {k \in Nat : k <= m => f[k] = g[k]}
  <1>1. 0 \in S
    BY DEF Computes
  <1>2. ASSUME NEW k \in Nat, k \in S PROVE k + 1 \in S
    <2> SUFFICES ASSUME k + 1 <= m PROVE f[k + 1] = g[k + 1]
      OBVIOUS
    <2>1. k \in 0 .. m - 1 /\ k \in 0 .. n - 1 /\ f[k] = g[k]
      BY <1>2
    <2> QED
      BY <2>1 DEF Computes
  <1> HIDE DEF S
  <1>3. Nat \subseteq S
    BY <1>1, <1>2, Induction
  <1> QED
    BY <1>3 DEF S

\* A function whose values are in V is computed for every number.
Recurs(f, V, base, step) ==
  /\ \A n \in Nat : f[n] \in V
  /\ f[0] = base
  /\ \A n \in Nat : f[n + 1] = step[<<n, f[n]>>]

\* It is defined by its value at 0 and by how its next value follows.
LEMMA RecursionExists ==
  ASSUME NEW V, NEW base \in V, NEW step,
         \A n \in Nat : \A v \in V : step[<<n, v>>] \in V
  PROVE  \E f : Recurs(f, V, base, step)
  <1> DEFINE upto(n) == CHOOSE f : Computes(f, n, V, base, step)
             F == [n \in Nat |-> upto(n)[n]]
  <1>1. \A n \in Nat : Computes(upto(n), n, V, base, step)
    BY RecursionUpTo
  <1> HIDE DEF upto
  <1>2. (\A n \in Nat : F[n] \in V) /\ F[0] = base
    BY <1>1 DEF Computes
  <1>3. ASSUME NEW n \in Nat PROVE F[n + 1] = step[<<n, F[n]>>]
    <2>1. /\ Computes(upto(n), n, V, base, step)
          /\ Computes(upto(n + 1), n + 1, V, base, step)
      BY <1>1
    <2>2. upto(n)[n] = upto(n + 1)[n]
      BY <2>1, RecursionAgrees
    <2>3. upto(n + 1)[n + 1] = step[<<n, upto(n + 1)[n]>>]
      BY <2>1 DEF Computes
    <2> QED
      BY <2>2, <2>3
  <1> HIDE DEF F
  <1>4. Recurs(F, V, base, step)
    BY <1>2, <1>3 DEF Recurs
  <1> QED
    BY <1>4

-----------------------------------------------------------------------------
(* Every tree once *)

\* TreesBefore counts as its definition says.
LEMMA TreesBeforeDef ==
  /\ TreesBefore[1] = 0
  /\ \A c \in DOMAIN Forests :
       /\ TreesBefore[c] \in Nat
       /\ TreesBefore[c + 1] = TreesBefore[c] + Len(Forests[c])
  <1> DEFINE N == Len(NumPixels)
             body(f) == [c \in 1 .. N + 1 |->
                           IF c = 1 THEN 0 ELSE f[c - 1] + Len(Forests[c - 1])]
  <1>1. N \in Nat /\ DOMAIN Forests = 1 .. N
    BY PredictorAssumption, LenProperties
  <1>2. PICK step : \A n, v \in Nat :
                      /\ step[<<n, v>>] \in Nat
                      /\ n + 1 \in DOMAIN Forests =>
                           step[<<n, v>>] = v + Len(Forests[n + 1])
    <2> DEFINE g == [p \in Nat \X Nat |->
                       IF p[1] + 1 \in DOMAIN Forests
                       THEN p[2] + Len(Forests[p[1] + 1]) ELSE p[2]]
    <2>1. ASSUME NEW n \in Nat, NEW v \in Nat
          PROVE  /\ g[<<n, v>>] \in Nat
                 /\ n + 1 \in DOMAIN Forests => g[<<n, v>>] = v + Len(Forests[n + 1])
      <3>1. n + 1 \in DOMAIN Forests => Len(Forests[n + 1]) \in Nat
        BY StageShape
      <3> QED
        BY <3>1
    <2> HIDE DEF g
    <2> QED
      BY <2>1
  <1>3. PICK f : Recurs(f, Nat, 0, step)
    BY <1>2, RecursionExists
  <1>4. \E g : g = body(g)
    <2> USE DEF Recurs
    <2> DEFINE g == [c \in 1 .. N + 1 |-> f[c - 1]]
    <2>1. ASSUME NEW c \in 1 .. N + 1
          PROVE  g[c] = IF c = 1 THEN 0 ELSE g[c - 1] + Len(Forests[c - 1])
      <3>1. CASE c = 1
        BY <1>1, <1>3, <3>1
      <3>2. CASE c # 1
        <4> DEFINE n == c - 2
        <4>1. /\ n \in Nat /\ n + 1 = c - 1 /\ n + 1 \in DOMAIN Forests
              /\ n = (c - 1) - 1 /\ c - 1 \in 1 .. N + 1
          BY <1>1, <3>2
        <4>2. g[c] = f[n + 1] /\ g[c - 1] = f[n]
          BY <4>1, Zenon
        <4> HIDE DEF g, n
        <4>3. f[n + 1] = f[n] + Len(Forests[n + 1])
          BY <1>2, <1>3, <4>1, Zenon
        <4> QED
          BY <3>2, <4>1, <4>2, <4>3, Zenon
      <3> QED
        BY <3>1, <3>2
    <2>2. g = body(g)
      BY <2>1
    <2> QED
      BY <2>2
  <1>5. TreesBefore = CHOOSE g : g = body(g)
    BY DEF TreesBefore
  <1>6. TreesBefore = body(TreesBefore)
    <2> HIDE DEF body
    <2> QED
      BY <1>4, <1>5
  <1>7. /\ TreesBefore[1] = 0
        /\ \A c \in 1 .. N : TreesBefore[c + 1] = TreesBefore[c] + Len(Forests[c])
    <2>1. TreesBefore[1] = 0
      <3>1. 1 \in 1 .. N + 1
        BY <1>1
      <3> QED
        BY <1>6, <3>1
    <2>2. ASSUME NEW c \in 1 .. N
          PROVE  TreesBefore[c + 1] = TreesBefore[c] + Len(Forests[c])
      <3>1. c + 1 \in 1 .. N + 1 /\ c + 1 # 1 /\ (c + 1) - 1 = c
        BY <1>1
      <3> QED
        BY <1>6, <3>1
    <2> QED
      BY <2>1, <2>2
  <1> DEFINE S == {n \in Nat : n + 1 \in 1 .. N => TreesBefore[n + 1] \in Nat}
  <1>8. Nat \subseteq S
    <2>1. 0 \in S
      BY <1>7
    <2>2. ASSUME NEW n \in Nat, n \in S PROVE n + 1 \in S
      <3> SUFFICES ASSUME (n + 1) + 1 \in 1 .. N PROVE TreesBefore[(n + 1) + 1] \in Nat
        OBVIOUS
      <3>1. n + 1 \in 1 .. N
        BY <1>1
      <3>2. TreesBefore[n + 1] \in Nat /\ Len(Forests[n + 1]) \in Nat
        BY <1>1, <2>2, <3>1, StageShape
      <3>3. TreesBefore[(n + 1) + 1] = TreesBefore[n + 1] + Len(Forests[n + 1])
        BY <1>7, <3>1, Zenon
      <3>4. \A a, b \in Nat : a + b \in Nat
        OBVIOUS
      <3> QED
        BY <3>2, <3>3, <3>4, Zenon
    <2> HIDE DEF S
    <2> QED
      BY <2>1, <2>2, Induction
  <1>9. ASSUME NEW c \in 1 .. N PROVE TreesBefore[c] \in Nat
    <2>1. c - 1 \in Nat /\ (c - 1) + 1 = c
      BY <1>1
    <2>2. c - 1 \in S
      BY <1>8, <2>1, Zenon
    <2> QED
      BY <2>1, <2>2
  <1> QED
    BY <1>1, <1>7, <1>9

\* The shape is as long as the trees passed are many, and each leaf in its place.
PassedInv ==
  /\ fit = "extract" => Len(shape) = TreesBefore[iter]
  /\ fit = "descend" => Len(shape) = TreesBefore[iter] + tree - 1
  /\ fit = "done" => Len(shape) = TreesBefore[Len(NumPixels) + 1]
  /\ \A k \in 1 .. Len(shape) : k = TreesBefore[shape[k].iter] + shape[k].tree

\* After a stage all of its trees are passed.
LEMMA StagePassed ==
  ASSUME iter \in DOMAIN Forests, NextStage(iter),
         Len(shape') = TreesBefore[iter] + Len(Forests[iter])
  PROVE  /\ fit' = "extract" => Len(shape') = TreesBefore[iter']
         /\ fit' = "done" => Len(shape') = TreesBefore[Len(NumPixels) + 1]
         /\ fit' \in {"extract", "done"}
  <1>1. DOMAIN Forests = 1 .. Len(NumPixels) /\ Len(NumPixels) \in Nat
    BY PredictorAssumption, LenProperties
  <1>2. TreesBefore[iter + 1] = Len(shape')
    BY TreesBeforeDef
  <1>3. CASE iter < Len(NumPixels)
    BY <1>2, <1>3 DEF NextStage
  <1>4. CASE ~(iter < Len(NumPixels))
    <2>1. iter = Len(NumPixels)
      BY <1>1, <1>4
    <2> QED
      BY <1>2, <1>4, <2>1 DEF NextStage
  <1> QED
    BY <1>3, <1>4

LEMMA PassedStart == PredictorInit => PassedInv
  <1> SUFFICES ASSUME PredictorInit PROVE PassedInv
    OBVIOUS
  <1>1. fit = "idle" /\ Len(shape) = 0
    BY EmptySeq DEF PredictorInit
  <1> QED
    BY <1>1 DEF PassedInv

LEMMA PassedStep ==
  PredictorInv /\ PassedInv /\ [PredictorNext]_predictorVars => PassedInv'
  <1> SUFFICES ASSUME PredictorInv, PassedInv, [PredictorNext]_predictorVars
               PROVE  PassedInv'
    OBVIOUS
  <1>1. ASSUME NEW r \in Rects, BeginFit(r) PROVE PassedInv'
    <2>1. /\ fit' = IF Forests = << >> THEN "done" ELSE "extract"
          /\ iter' = 1 /\ Len(shape') = 0
      BY <1>1, EmptySeq DEF BeginFit
    <2>2. TreesBefore[1] = 0
      BY TreesBeforeDef
    <2>3. Forests = << >> => Len(NumPixels) = 0
      <3>1. DOMAIN Forests = 1 .. Len(NumPixels) /\ Len(NumPixels) \in Nat
        BY PredictorAssumption, LenProperties
      <3>2. DOMAIN << >> = {}
        BY EmptySeq
      <3> QED
        BY <3>1, <3>2
    <2> QED
      BY <2>1, <2>2, <2>3 DEF PassedInv
  <1>2. CASE ExtractPixels
    <2>1. iter \in DOMAIN Forests /\ tree = 1 /\ Len(shape) = TreesBefore[iter]
      BY <1>2 DEF ExtractPixels, PredictorInv, DescentInv, PassedInv
    <2>2. TreesBefore[iter] \in Nat
      BY <2>1, TreesBeforeDef
    <2>3. CASE Forests[iter] = << >>
      <3>1. Len(Forests[iter]) = 0
        BY <2>3, EmptySeq
      <3>2. NextStage(iter) /\ shape' = shape
        BY <1>2, <2>3 DEF ExtractPixels
      <3>3. Len(shape') = TreesBefore[iter] + Len(Forests[iter])
        BY <2>1, <2>2, <3>1, <3>2
      <3> QED
        BY <2>1, <3>2, <3>3, StagePassed DEF PassedInv
    <2>4. CASE Forests[iter] # << >>
      <3>1. fit' = "descend" /\ iter' = iter /\ tree' = tree /\ shape' = shape
        BY <1>2, <2>4 DEF ExtractPixels
      <3> QED
        BY <2>1, <2>2, <3>1 DEF PassedInv
    <2> QED
      BY <2>3, <2>4
  <1>3. CASE Descend
    BY <1>3 DEF Descend, PassedInv
  <1>4. CASE AddLeaf
    <2> DEFINE e == [iter |-> iter, tree |-> tree, leaf |-> Leaf(iter, tree, node)]
               n == Len(shape)
    <2>1. /\ iter \in DOMAIN Forests /\ tree \in DOMAIN Forests[iter]
          /\ n = TreesBefore[iter] + tree - 1
          /\ fit = "descend" /\ shape' = Append(shape, e)
      BY <1>4 DEF AddLeaf, PredictorInv, DescentInv, PassedInv
    <2>2. TreesBefore[iter] \in Nat /\ tree \in Nat \ {0} /\ tree <= Len(Forests[iter])
          /\ Len(Forests[iter]) \in Nat
      BY <2>1, TreesBeforeDef, StageShape
    <2>3. n \in Nat /\ Len(shape') = n + 1 /\ shape'[n + 1] = e
          /\ \A k \in 1 .. n : shape'[k] = shape[k]
      <3>1. /\ iter \in Nat /\ tree \in Nat /\ Leaf(iter, tree, node) \in Nat
            /\ shape \in Seq([iter : Nat, tree : Nat, leaf : Nat])
        <4>1. Len(Splits(iter, tree)) \in Nat /\ node >= Len(Splits(iter, tree))
          BY <1>4, <2>1, TreeShape DEF AddLeaf
        <4> QED
          BY <4>1 DEF Leaf, PredictorInv, PredictorTypeOK
      <3>2. e \in [iter : Nat, tree : Nat, leaf : Nat]
        BY <3>1
      <3> HIDE DEF e
      <3> QED
        BY <2>1, <3>1, <3>2, AppendProperties, LenProperties
    <2>4. ASSUME NEW k \in 1 .. n + 1
          PROVE  k = TreesBefore[shape'[k].iter] + shape'[k].tree
      <3>1. CASE k = n + 1
        <4>1. shape'[k].iter = iter /\ shape'[k].tree = tree
          BY <2>3, <3>1
        <4> QED
          BY <2>1, <2>2, <3>1, <4>1
      <3>2. CASE k \in 1 .. n
        BY <2>3, <3>2 DEF PassedInv
      <3>3. k = n + 1 \/ k \in 1 .. n
        BY <2>3
      <3> QED
        BY <3>1, <3>2, <3>3
    <2> HIDE DEF e, n
    <2>5. CASE tree < Len(Forests[iter])
      <3>1. tree' = tree + 1 /\ fit' = "descend" /\ iter' = iter
        BY <1>4, <2>1, <2>5 DEF AddLeaf
      <3>2. Len(shape') = TreesBefore[iter'] + tree' - 1
        BY <2>1, <2>2, <2>3, <3>1
      <3> QED
        BY <2>3, <2>4, <3>1, <3>2 DEF PassedInv
    <2>6. CASE ~(tree < Len(Forests[iter]))
      <3>1. NextStage(iter)
        BY <1>4, <2>6 DEF AddLeaf
      <3>2. Len(shape') = TreesBefore[iter] + Len(Forests[iter])
        BY <2>1, <2>2, <2>3, <2>6
      <3> QED
        BY <2>1, <2>3, <2>4, <3>1, <3>2, StagePassed DEF PassedInv
    <2> QED
      BY <2>5, <2>6
  <1>5. CASE ReturnShape
    BY <1>5 DEF ReturnShape, PassedInv
  <1>6. CASE UNCHANGED predictorVars
    BY <1>6 DEF predictorVars, PassedInv
  <1> QED
    BY <1>1, <1>2, <1>3, <1>4, <1>5, <1>6 DEF PredictorNext, FitStep

\* The loops of shape_predictor.h:347-355 add one leaf of every tree, in the order of
\* the stages and of the trees in each, for any cascade, stages without trees included.
THEOREM TreesAreAskedOnce == PredictorSpec => []EveryTreeOnce
  <1>1. PredictorInv /\ PassedInv => EveryTreeOnce
    <2> SUFFICES ASSUME PredictorInv, PassedInv PROVE EveryTreeOnce
      OBVIOUS
    <2>1. DOMAIN shape = 1 .. Len(shape)
      BY LenProperties DEF PredictorInv, PredictorTypeOK
    <2> QED
      BY <2>1 DEF PassedInv, EveryTreeOnce
  <1> QED
    BY <1>1, PredictorInvHolds, PassedStart, PassedStep, PTL DEF PredictorSpec

-----------------------------------------------------------------------------
(* The leaf that is found *)

\* Every level of a tree has twice the nodes of the one before.
LEMMA Doubling ==
  /\ NodesOn[0] = 1
  /\ \A k \in Nat : NodesOn[k] \in Nat \ {0} /\ NodesOn[k + 1] = 2 * NodesOn[k]
  <1> DEFINE body(f) == [k \in Nat |-> IF k = 0 THEN 1 ELSE 2 * f[k - 1]]
             V == Nat \ {0}
  <1>1. PICK step : \A n \in Nat : \A v \in V : step[<<n, v>>] = 2 * v
    <2> DEFINE g == [p \in Nat \X V |-> 2 * p[2]]
    <2>1. \A n \in Nat : \A v \in V : g[<<n, v>>] = 2 * v
      OBVIOUS
    <2> HIDE DEF g, V
    <2> QED
      BY <2>1
  <1>2. 1 \in V /\ \A v \in V : 2 * v \in V
    OBVIOUS
  <1>3. PICK f : Recurs(f, V, 1, step)
    <2> HIDE DEF V
    <2>1. \A n \in Nat : \A v \in V : step[<<n, v>>] \in V
      BY <1>1, <1>2, Zenon
    <2> QED
      BY <1>2, <2>1, RecursionExists, Zenon
  <1>4. \A k \in Nat : f[k] \in V /\ f[k + 1] = 2 * f[k] /\ f[0] = 1
    <2> HIDE DEF V
    <2> QED
      BY <1>1, <1>3, Zenon DEF Recurs
  <1>5. \E g : g = body(g)
    <2> DEFINE g == [k \in Nat |-> f[k]]
    <2>1. ASSUME NEW k \in Nat PROVE g[k] = IF k = 0 THEN 1 ELSE 2 * g[k - 1]
      <3>1. CASE k = 0
        BY <1>4, <3>1
      <3>2. CASE k # 0
        <4>1. k - 1 \in Nat /\ (k - 1) + 1 = k
          BY <3>2
        <4> QED
          BY <1>4, <3>2, <4>1
      <3> QED
        BY <3>1, <3>2
    <2>2. g = body(g)
      BY <2>1
    <2> QED
      BY <2>2
  <1>6. NodesOn = CHOOSE g : g = body(g)
    BY DEF NodesOn
  <1>7. NodesOn = body(NodesOn)
    <2> HIDE DEF body
    <2> QED
      BY <1>5, <1>6
  <1>8. NodesOn[0] = 1 /\ \A k \in Nat : NodesOn[k + 1] = 2 * NodesOn[k]
    <2>1. ASSUME NEW k \in Nat PROVE NodesOn[k] = IF k = 0 THEN 1 ELSE 2 * NodesOn[k - 1]
      BY <1>7
    <2>2. ASSUME NEW k \in Nat PROVE NodesOn[k + 1] = 2 * NodesOn[k]
      <3>1. k + 1 \in Nat /\ k + 1 # 0 /\ (k + 1) - 1 = k
        OBVIOUS
      <3> HIDE DEF body
      <3>2. NodesOn[k + 1] = 2 * NodesOn[(k + 1) - 1]
        BY <2>1, <3>1, Zenon
      <3> QED
        BY <3>1, <3>2
    <2> HIDE DEF body
    <2>3. NodesOn[0] = 1
      BY <2>1
    <2> QED
      BY <2>2, <2>3
  <1> DEFINE S == {k \in Nat : NodesOn[k] \in V}
  <1>9. Nat \subseteq S
    <2>1. 0 \in S
      BY <1>8
    <2>2. ASSUME NEW n \in Nat, n \in S PROVE n + 1 \in S
      BY <1>8, <2>2
    <2> HIDE DEF S
    <2> QED
      BY <2>1, <2>2, Induction
  <1> QED
    BY <1>8, <1>9

\* ... so that deeper levels have more nodes, and more than they are deep.
LEMMA DeeperIsWider ==
  ASSUME NEW m \in Nat, NEW n \in Nat, m < n
  PROVE  2 * NodesOn[m] <= NodesOn[n] /\ n < NodesOn[n]
  <1> DEFINE S == {j \in Nat : 2 * NodesOn[m] <= NodesOn[m + j + 1]}
             T == {j \in Nat : j < NodesOn[j]}
  <1>1. Nat \subseteq S
    <2>1. 0 \in S
      BY Doubling
    <2>2. ASSUME NEW j \in Nat, j \in S PROVE j + 1 \in S
      <3>1. m + j + 1 \in Nat /\ m + (j + 1) + 1 = (m + j + 1) + 1
        OBVIOUS
      <3>2. /\ NodesOn[m] \in Nat /\ NodesOn[m + j + 1] \in Nat
            /\ NodesOn[(m + j + 1) + 1] = 2 * NodesOn[m + j + 1]
        BY <3>1, Doubling
      <3> QED
        BY <2>2, <3>1, <3>2
    <2> HIDE DEF S
    <2> QED
      BY <2>1, <2>2, Induction
  <1>2. Nat \subseteq T
    <2>1. 0 \in T
      BY Doubling
    <2>2. ASSUME NEW j \in Nat, j \in T PROVE j + 1 \in T
      BY <2>2, Doubling
    <2> HIDE DEF T
    <2> QED
      BY <2>1, <2>2, Induction
  <1>3. n - m - 1 \in Nat /\ m + (n - m - 1) + 1 = n
    OBVIOUS
  <1> QED
    BY <1>1, <1>2, <1>3

\* The level of a tree's leaves.
LEMMA LeafLevel ==
  ASSUME NEW c \in DOMAIN Forests, NEW t \in DOMAIN Forests[c]
  PROVE  Depth(c, t) \in Nat /\ NodesOn[Depth(c, t)] = Len(Splits(c, t)) + 1
  <1>1. /\ Len(Splits(c, t)) \in Nat
        /\ Forests[c][t].leaves = Len(Splits(c, t)) + 1
    BY TreeShape
  <1>2. PICK d \in 0 .. Forests[c][t].leaves : Forests[c][t].leaves = NodesOn[d]
    BY FullTrees
  <1>3. d < NodesOn[d]
    <2>1. CASE d = 0
      BY <2>1, Doubling
    <2>2. CASE d # 0
      <3>1. 0 \in Nat /\ d \in Nat /\ 0 < d
        BY <1>1, <1>2, <2>2
      <3> QED
        BY <3>1, DeeperIsWider
    <2> QED
      BY <2>1, <2>2
  <1>4. d \in 0 .. Len(Splits(c, t)) /\ NodesOn[d] = Len(Splits(c, t)) + 1
    BY <1>1, <1>2, <1>3
  <1>5. /\ Depth(c, t) \in 0 .. Len(Splits(c, t))
        /\ NodesOn[Depth(c, t)] = Len(Splits(c, t)) + 1
    BY <1>4 DEF Depth
  <1> QED
    BY <1>1, <1>5

\* The places that a tree's questions lead to, level by level.
LEMMA PlacesDef ==
  ASSUME NEW c \in DOMAIN Forests, NEW t \in DOMAIN Forests[c], NEW values
  PROVE  LET D == Depth(c, t)
             place == Places(values, c, t)
         IN  /\ place[0] = 0
             /\ \A k \in 0 .. D : place[k] \in 0 .. NodesOn[k] - 1
             /\ \A k \in 0 .. D - 1 :
                  place[k + 1] = IF GoesLeft(values, Splits(c, t)[NodesOn[k] + place[k]])
                                 THEN 2 * place[k] ELSE 2 * place[k] + 1
  <1> DEFINE D == Depth(c, t)
             Left(k, p) == GoesLeft(values, Splits(c, t)[NodesOn[k] + p])
             body(f) == [k \in 0 .. D |->
                           IF k = 0 THEN 0
                           ELSE IF Left(k - 1, f[k - 1])
                                THEN 2 * f[k - 1] ELSE 2 * f[k - 1] + 1]
  <1>1. D \in Nat
    BY LeafLevel
  <1>2. Places(values, c, t) = CHOOSE g : g = body(g)
    BY DEF Places
  <1> HIDE DEF D, Left
  <1>3. PICK step : \A n, v \in Nat :
                      step[<<n, v>>] = IF Left(n, v) THEN 2 * v ELSE 2 * v + 1
    <2> DEFINE g == [p \in Nat \X Nat |-> IF Left(p[1], p[2]) THEN 2 * p[2] ELSE 2 * p[2] + 1]
    <2>1. \A n, v \in Nat : g[<<n, v>>] = IF Left(n, v) THEN 2 * v ELSE 2 * v + 1
      OBVIOUS
    <2> HIDE DEF g
    <2> QED
      BY <2>1
  <1>4. PICK f : Recurs(f, Nat, 0, step)
    <2>1. 0 \in Nat /\ \A n \in Nat : \A v \in Nat : step[<<n, v>>] \in Nat
      BY <1>3
    <2> QED
      BY <2>1, RecursionExists, Zenon
  <1>5. /\ f[0] = 0
        /\ \A k \in Nat : f[k] \in Nat
        /\ \A k \in Nat : f[k + 1] = IF Left(k, f[k]) THEN 2 * f[k] ELSE 2 * f[k] + 1
    <2>1. f[0] = 0 /\ \A k \in Nat : f[k] \in Nat /\ f[k + 1] = step[<<k, f[k]>>]
      BY <1>4, Zenon DEF Recurs
    <2>2. ASSUME NEW k \in Nat
          PROVE  f[k + 1] = IF Left(k, f[k]) THEN 2 * f[k] ELSE 2 * f[k] + 1
      <3>1. f[k] \in Nat /\ f[k + 1] = step[<<k, f[k]>>]
        BY <2>1
      <3>2. step[<<k, f[k]>>] = IF Left(k, f[k]) THEN 2 * f[k] ELSE 2 * f[k] + 1
        BY <1>3, <3>1
      <3> QED
        BY <3>1, <3>2
    <2> QED
      BY <2>1, <2>2
  <1>6. \E g : g = body(g)
    <2> DEFINE g == [k \in 0 .. D |-> f[k]]
    <2>1. ASSUME NEW k \in 0 .. D
          PROVE  g[k] = IF k = 0 THEN 0
                        ELSE IF Left(k - 1, g[k - 1])
                             THEN 2 * g[k - 1] ELSE 2 * g[k - 1] + 1
      <3>1. CASE k = 0
        BY <1>1, <1>5, <3>1
      <3>2. CASE k # 0
        <4>1. k - 1 \in Nat /\ (k - 1) + 1 = k /\ k - 1 \in 0 .. D
          BY <1>1, <3>2
        <4>2. g[k] = f[k] /\ g[k - 1] = f[k - 1]
          BY <4>1, Zenon
        <4> HIDE DEF g
        <4> QED
          BY <1>5, <3>2, <4>1, <4>2, Zenon
      <3> QED
        BY <3>1, <3>2
    <2>2. g = body(g)
      BY <2>1
    <2> QED
      BY <2>2
  <1> DEFINE place == Places(values, c, t)
  <1>7. place = body(place)
    <2> HIDE DEF body
    <2> QED
      BY <1>2, <1>6
  <1> HIDE DEF place
  <1>8. ASSUME NEW k \in 0 .. D
        PROVE  place[k] = IF k = 0 THEN 0
                          ELSE IF Left(k - 1, place[k - 1])
                               THEN 2 * place[k - 1] ELSE 2 * place[k - 1] + 1
    BY <1>7, Zenon
  <1> HIDE DEF body
  <1>9. place[0] = 0
    BY <1>1, <1>8
  <1>10. ASSUME NEW k \in 0 .. D - 1
         PROVE  place[k + 1] = IF Left(k, place[k])
                               THEN 2 * place[k] ELSE 2 * place[k] + 1
    <2>1. k + 1 \in 0 .. D /\ k + 1 # 0 /\ (k + 1) - 1 = k
      BY <1>1
    <2>2. place[k + 1] = IF Left((k + 1) - 1, place[(k + 1) - 1])
                         THEN 2 * place[(k + 1) - 1] ELSE 2 * place[(k + 1) - 1] + 1
      BY <1>8, <2>1, Zenon
    <2> QED
      BY <2>1, <2>2, Zenon
  <1> DEFINE S == {k \in Nat : k <= D => place[k] \in 0 .. NodesOn[k] - 1}
  <1>11. Nat \subseteq S
    <2>1. 0 \in S
      BY <1>9, Doubling
    <2>2. ASSUME NEW k \in Nat, k \in S PROVE k + 1 \in S
      <3> SUFFICES ASSUME k + 1 <= D PROVE place[k + 1] \in 0 .. NodesOn[k + 1] - 1
        OBVIOUS
      <3>1. k \in 0 .. D - 1 /\ place[k] \in 0 .. NodesOn[k] - 1
        BY <1>1, <2>2
      <3>2. NodesOn[k] \in Nat /\ NodesOn[k + 1] = 2 * NodesOn[k]
        BY Doubling
      <3>3. place[k + 1] = 2 * place[k] \/ place[k + 1] = 2 * place[k] + 1
        BY <1>10, <3>1, Zenon
      <3> QED
        BY <3>1, <3>2, <3>3
    <2> HIDE DEF S
    <2> QED
      BY <2>1, <2>2, Induction
  <1>12. \A k \in 0 .. D : place[k] \in 0 .. NodesOn[k] - 1
    BY <1>1, <1>11
  <1> QED
    BY <1>9, <1>10, <1>12 DEF D, Left, place

\* The descent stands, on some level, at the place the questions lead to.
PathInv ==
  fit = "descend" =>
    \E level \in 0 .. Depth(iter, tree) :
      node = NodesOn[level] - 1 + Places(pixels, iter, tree)[level]

\* It begins at the root.
LEMMA PathBegins ==
  ASSUME NEW c \in DOMAIN Forests, NEW t \in DOMAIN Forests[c], NEW values
  PROVE  \E level \in 0 .. Depth(c, t) : 0 = NodesOn[level] - 1 + Places(values, c, t)[level]
  <1>1. 0 \in 0 .. Depth(c, t)
    BY LeafLevel
  <1>2. Places(values, c, t)[0] = 0
    BY PlacesDef
  <1> QED
    BY <1>1, <1>2, Doubling

\* A descent is past the last split on the level of the leaves, and only there.
LEMMA LeavesAreLast ==
  ASSUME NEW c \in DOMAIN Forests, NEW t \in DOMAIN Forests[c], NEW values,
         NEW level \in 0 .. Depth(c, t)
  PROVE  NodesOn[level] - 1 + Places(values, c, t)[level] >= Len(Splits(c, t))
           <=> level = Depth(c, t)
  <1> DEFINE D == Depth(c, t)
             p == Places(values, c, t)[level]
             n == Len(Splits(c, t))
  <1>1. D \in Nat /\ NodesOn[D] = n + 1 /\ n \in Nat
    BY LeafLevel, TreeShape
  <1>2. level \in Nat /\ p \in 0 .. NodesOn[level] - 1
    BY <1>1, PlacesDef
  <1>3. NodesOn[level] \in Nat
    BY <1>2, Doubling
  <1> HIDE DEF D, p, n
  <1>4. CASE level = D
    BY <1>1, <1>2, <1>3, <1>4 DEF D, p, n
  <1>5. CASE level # D
    <2>1. level < D
      BY <1>1, <1>5 DEF D
    <2>2. 2 * NodesOn[level] <= NodesOn[D]
      BY <1>1, <1>2, <2>1, DeeperIsWider
    <2>3. ~(NodesOn[level] - 1 + p >= n)
      BY <1>1, <1>2, <1>3, <2>2
    <2> QED
      BY <1>5, <2>3 DEF D, p, n
  <1> QED
    BY <1>4, <1>5

LEMMA PathStep ==
  PredictorInv /\ PathInv /\ [PredictorNext]_predictorVars => PathInv'
  <1> SUFFICES ASSUME PredictorInv, PathInv, [PredictorNext]_predictorVars
               PROVE  PathInv'
    OBVIOUS
  <1>1. ASSUME NEW r \in Rects, BeginFit(r) PROVE PathInv'
    BY <1>1 DEF BeginFit, PathInv
  <1>2. CASE ExtractPixels
    <2>1. CASE Forests[iter] = << >>
      BY <1>2, <2>1 DEF ExtractPixels, NextStage, PathInv
    <2>2. CASE Forests[iter] # << >>
      <3>1. /\ iter \in DOMAIN Forests /\ tree = 1 /\ node = 0
            /\ iter' = iter /\ tree' = 1 /\ node' = 0
        BY <1>2, <2>2 DEF ExtractPixels, PredictorInv, DescentInv
      <3>2. tree' \in DOMAIN Forests[iter']
        BY <2>2, <3>1, StageShape
      <3> QED
        BY <3>1, <3>2, PathBegins DEF PathInv
    <2> QED
      BY <2>1, <2>2
  <1>3. CASE Descend
    <2> DEFINE D == Depth(iter, tree)
               place == Places(pixels, iter, tree)
    <2>1. /\ iter \in DOMAIN Forests /\ tree \in DOMAIN Forests[iter] /\ fit = "descend"
          /\ node < Len(Splits(iter, tree)) /\ node \in Nat
          /\ UNCHANGED <<iter, tree, pixels>>
          /\ node' = IF GoesLeft(pixels, Splits(iter, tree)[node + 1])
                     THEN LeftChild(node) ELSE RightChild(node)
      BY <1>3 DEF Descend, PredictorInv, PredictorTypeOK, DescentInv
    <2>2. PICK level \in 0 .. D : node = NodesOn[level] - 1 + place[level]
      BY <2>1 DEF PathInv
    <2>3. D \in Nat /\ Len(Splits(iter, tree)) \in Nat
      BY <2>1, LeafLevel, TreeShape
    <2>4. level \in 0 .. D - 1
      <3>1. level # D
        BY <2>1, <2>2, <2>3, LeavesAreLast
      <3> HIDE DEF D
      <3> QED
        BY <2>2, <2>3, <3>1
    <2>5. /\ place[level] \in 0 .. NodesOn[level] - 1
          /\ place[level + 1]
               = IF GoesLeft(pixels, Splits(iter, tree)[NodesOn[level] + place[level]])
                 THEN 2 * place[level] ELSE 2 * place[level] + 1
      BY <2>1, <2>2, <2>4, PlacesDef
    <2> HIDE DEF D, place
    <2>6. NodesOn[level] \in Nat /\ NodesOn[level + 1] = 2 * NodesOn[level]
      <3>1. level \in Nat
        BY <2>3
      <3> QED
        BY <3>1, Doubling
    <2>7. node + 1 = NodesOn[level] + place[level]
      BY <2>2, <2>5, <2>6
    <2>8. node' = NodesOn[level + 1] - 1 + place[level + 1]
      <3>1. CASE GoesLeft(pixels, Splits(iter, tree)[node + 1])
        <4>1. node' = 2 * node + 1 /\ place[level + 1] = 2 * place[level]
          BY <2>1, <2>5, <2>7, <3>1 DEF LeftChild
        <4> QED
          BY <2>2, <2>5, <2>6, <4>1
      <3>2. CASE ~GoesLeft(pixels, Splits(iter, tree)[node + 1])
        <4>1. node' = 2 * node + 2 /\ place[level + 1] = 2 * place[level] + 1
          BY <2>1, <2>5, <2>7, <3>2 DEF RightChild
        <4> QED
          BY <2>2, <2>5, <2>6, <4>1
      <3> QED
        BY <3>1, <3>2
    <2>9. level + 1 \in 0 .. D
      BY <2>3, <2>4
    <2>10. \E k \in 0 .. Depth(iter, tree) :
             node' = NodesOn[k] - 1 + Places(pixels, iter, tree)[k]
      BY <2>8, <2>9 DEF D, place
    <2> QED
      BY <2>1, <2>10 DEF PathInv
  <1>4. CASE AddLeaf
    <2>1. CASE tree < Len(Forests[iter])
      <3>1. /\ iter \in DOMAIN Forests /\ tree \in DOMAIN Forests[iter] /\ node' = 0
            /\ iter' = iter /\ tree' = tree + 1
        BY <1>4, <2>1 DEF AddLeaf, PredictorInv, DescentInv
      <3>2. tree' \in DOMAIN Forests[iter']
        BY <2>1, <3>1, StageShape
      <3> QED
        BY <3>1, <3>2, PathBegins DEF PathInv
    <2>2. CASE ~(tree < Len(Forests[iter]))
      BY <1>4, <2>2 DEF AddLeaf, NextStage, PathInv
    <2> QED
      BY <2>1, <2>2
  <1>5. CASE ReturnShape
    BY <1>5 DEF ReturnShape, PathInv
  <1>6. CASE UNCHANGED predictorVars
    BY <1>6 DEF predictorVars, PathInv
  <1> QED
    BY <1>1, <1>2, <1>3, <1>4, <1>5, <1>6 DEF PredictorNext, FitStep

\* regression_tree::operator()'s loop over numbered nodes, which knows no levels, ends
\* at the leaf that the tree's questions lead to, whatever the tree and the image.
THEOREM DescentFindsLeaf == PredictorSpec => []FindsLeaf
  <1>1. PredictorInit => PathInv
    BY DEF PredictorInit, PathInv
  <1>2. PredictorInv /\ PathInv => FindsLeaf
    <2> SUFFICES ASSUME PredictorInv, PathInv,
                        fit = "descend", node >= Len(Splits(iter, tree))
                 PROVE  Leaf(iter, tree, node) = LeafOf(pixels, iter, tree)
      BY DEF FindsLeaf
    <2> DEFINE D == Depth(iter, tree)
               place == Places(pixels, iter, tree)
    <2>1. iter \in DOMAIN Forests /\ tree \in DOMAIN Forests[iter]
      BY DEF PredictorInv, DescentInv
    <2>2. PICK level \in 0 .. D : node = NodesOn[level] - 1 + place[level]
      BY DEF PathInv
    <2>3. level = D
      BY <2>1, <2>2, LeavesAreLast
    <2>4. D \in Nat /\ NodesOn[D] = Len(Splits(iter, tree)) + 1
          /\ Len(Splits(iter, tree)) \in Nat
      BY <2>1, LeafLevel, TreeShape
    <2>5. place[D] \in 0 .. NodesOn[D] - 1
      BY <2>1, <2>4, PlacesDef
    <2> HIDE DEF D, place
    <2>6. node - Len(Splits(iter, tree)) = place[D]
      BY <2>2, <2>3, <2>4, <2>5
    <2> QED
      BY <2>6, Zenon DEF Leaf, LeafOf, D, place
  <1> QED
    BY <1>1, <1>2, PredictorInvHolds, PathStep, PTL DEF PredictorSpec
=============================================================================
