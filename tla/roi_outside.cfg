\* Also regions that begin beyond the right edge of the image and have no width.
SPECIFICATION Spec
CONSTANTS
  Sizes <- SomeSizes
  Rois <- AnyRoi
  Limits <- SomeLimits
  Calls <- Settled
INVARIANT RoiWithinBoundaries
