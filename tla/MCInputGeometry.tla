--------------------------- MODULE MCInputGeometry ---------------------------
(* Instances of InputGeometry for TLC: cameras, settings, kinds of memory. *)
EXTENDS InputGeometry

Landscape == [w |-> 6, h |-> 4]
Wide      == [w |-> 8, h |-> 5]
Small     == [w |-> 4, h |-> 3]
Square4   == [w |-> 4, h |-> 4]

OneCamera   == {Landscape}
FourCameras == {Landscape, Wide, Small, Square4}

\* Angles rotate_90n and rotationMatrix do not turn, and those they do.
NoTurn        == {0, 45, 360}
AllTurns      == {0, 45, 90, 180, 270, -90, -180, -270}
PositiveTurns == {0, 90, 180, 270}

NoLimit    == {-1}
SomeLimits == {-1, 6, 12, 20}
\* 24: an image of Wide is resized to the size of Landscape's.
CameraLimits == {-1, 6, 18, 24}

\* Memory that was zero before.
Zeroed     == {[w |-> 0, h |-> 0, lw |-> 0, lh |-> 0, rotation |-> 0]}

Settled   == {}
LateLimit == {"lateLimit"}
=============================================================================
