\* Two weight vectors with up to two windows each, boxes that overlap or not.
SPECIFICATION FairSpec
CONSTANTS
  Boxes <- SomeBoxes
  Scores = {1, 3}
  NumWeights = 2
  Threshold <- TwoThresholds
  MaxHits = 2
  MatchThresh = 50
  OverlapThresh = 90
  ImageArea <- Image
  Rects <- GrownBoxes
  Offsets <- TwoOffsets
  Intensities = {0, 2}
  NumPixels <- Samples3
  Forests <- Cascade
INVARIANTS TypeOK NoFaceTwice NoFaceLost BestFirst
  ReadsInBounds FindsLeaf EveryTreeOnce EveryFaceFitted
PROPERTY UpdateFinishes
