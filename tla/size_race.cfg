\* setFaceDetectorImageSize while the worker prepares a detection.
SPECIFICATION Spec
CONSTANTS
  Sizes <- SomeSizes
  Rois <- Regions
  Limits <- SomeLimits
  Calls <- LateSize
INVARIANT NoResizeIsNoScale
