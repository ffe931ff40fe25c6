\* Regions inside, across and right of the image, and setFaceDetectorImageSize at any
\* moment.
SPECIFICATION Spec
CONSTANTS
  Sizes <- SomeSizes
  Rois <- Regions
  Limits <- SomeLimits
  Calls <- LateSize
INVARIANTS TypeOK RoiWithinBoundaries FitsDetectorSize KeepsAspectRatio MappedIntoRegion
