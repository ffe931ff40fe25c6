\* The application stops the tracker, changes its mode and sets it up again.
SPECIFICATION FairSpec
CONSTANTS
  face1 = face1
  face2 = face2
  Labels <- TwoFaces
  MaxFaces = 2
  MaxFrames = 3
  Calls <- ManySetups
INVARIANT MutexGuards
PROPERTIES OrderedDetections ImplementsService UpdateReturns StopReturns
  WorkerCatchesUp AnswersCatchUp
