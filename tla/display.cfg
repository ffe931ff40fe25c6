\* Two cameras, up to two faces, the usual model and one with 5 landmarks.
SPECIFICATION DisplaySpec
CONSTANTS
  Geometries <- TwoCameras
  Models <- KnownModels
  MaxFaces = 2
  Nothing = Nothing
INVARIANTS TypeOK PoseOfLastUpdate KeptPoseIsCoherent EachLandmarkDrawnOnce DefinedFor68
PROPERTY PoseFitsProjection
