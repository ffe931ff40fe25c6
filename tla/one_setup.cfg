\* One setup; stop at any time; destruction after exit, or of a stopped tracker.
SPECIFICATION Spec
CONSTANTS
  face1 = face1
  face2 = face2
  Labels <- TwoFaces
  MaxFaces = 2
  MaxFrames = 3
  Calls <- OneSetup
SYMMETRY LabelSymmetry
INVARIANTS IInv RaceFree NoLostFrame DetectionCoherent SnapshotConsistent
  TrackedAfterConfigured QuietAfterDestroy
