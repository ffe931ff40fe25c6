\* update() throws once, the application goes on, and then exits.
SPECIFICATION FairSpec
CONSTANTS
  face1 = face1
  face2 = face2
  Labels <- TwoFaces
  MaxFaces = 1
  MaxFrames = 1
  Calls <- Throwing
PROPERTY StopReturns
