\* A stopped tracker is destroyed before the application exits.
SPECIFICATION Spec
CONSTANTS
  face1 = face1
  face2 = face2
  Labels <- TwoFaces
  MaxFaces = 2
  MaxFrames = 1
  Calls <- Destroying
INVARIANT ExitEventFindsTracker
