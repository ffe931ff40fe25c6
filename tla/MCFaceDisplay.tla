---------------------------- MODULE MCFaceDisplay ----------------------------
(* An instance of FaceDisplay for TLC: two cameras, dlib's published models. *)
EXTENDS FaceDisplay

TwoCameras  == {"front", "back"}
KnownModels == {5, 68}
=============================================================================
