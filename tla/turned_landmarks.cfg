\* Quarter and half turns, nothing resized.
SPECIFICATION Spec
CONSTANTS
  Sizes <- OneCamera
  Rotations <- PositiveTurns
  Limits <- NoLimit
  Leftovers <- Zeroed
  Calls <- Settled
INVARIANT LandmarksMapBack
