\* Several cameras and angles, the landmark size set before the first update.
SPECIFICATION Spec
CONSTANTS
  Sizes <- FourCameras
  Rotations <- AllTurns
  Limits <- CameraLimits
  Leftovers <- Zeroed
  Calls <- Settled
INVARIANTS TypeOK InfoFitsWorkingCopy UprightLandmarksMapBack LandmarkInBoundingBox
  ResizedImagesIntact
