\* setLandmarkDetectorImageSize between two updates.
SPECIFICATION Spec
CONSTANTS
  Sizes <- OneCamera
  Rotations <- NoTurn
  Limits <- SomeLimits
  Leftovers <- Zeroed
  Calls <- LateLimit
INVARIANT LandmarksMapBack
