# Verification of ofxFaceTracker2

ofxFaceTracker2 is an openFrameworks addon that finds faces in video frames:
dlib's face detector runs on a background thread, ofxCv's rectangle tracker gives
the faces persistent labels, dlib's shape predictor fits 68 landmarks to each
face on the application's thread, and the landmarks are mapped back to the input
image and used to estimate a 3D pose. This directory holds TLA+ models of that
code, TLC configurations that check them on small instances, and TLAPS proofs of
what matters most. Paths below are relative to the repository.

## 1. Inventory

| part | state | operations | source |
|---|---|---|---|
| tracker threads and life cycle | `mutex`, `imageDirty`, `roi`, `gray`, `threadGray`, `faceRectanglesTracker`, `instances`, `failed`, `numFaces`, `threaded`, the ofThread | `setup`, `update`, `stop`, `exitEvent`, destructor, `setThreaded`, `threadedFunction`, `runFaceDetector`, `runLandmarkDetector` | `src/ofxFaceTracker2.cpp/.h` |
| image preparation and geometry | `im`, `info`, `imageRotation`, `landmarkDetectorImageSize` | first half of `update`, `rotate_90n`, `ofxFaceTracker2InputInfo`, `getImagePoint(s)`, `getBoundingBox` | `src/ofxFaceTracker2.cpp`, `src/ofxFaceTracker2InputInfo.h` |
| detector input | `faceDetectorImageSize`, the clamped `detectorRoi`, the scale | middle of `runFaceDetector`, `setFaceDetectorImageSize` | `src/ofxFaceTracker2.cpp` |
| landmarks | the 68 parts of a shape | `getFeatureIndices`, `consecutive`, `getFeature`, `getImageFeature`, `getMesh` | `src/ofxFaceTracker2Landmarks.*` |
| instances and head pose | `poseCalculated`, `poservec`, `posetvec`, a reference to `info` | `calculatePoseMatrix`, `getPoseMatrix`, `transformPosePosition` | `src/ofxFaceTracker2Instance.*` |
| drawing | none | `drawDebug`, `drawDebugPose` | `src/ofxFaceTracker2.cpp` |
| examples | per application | `ofApp::setup/update/draw` | `example-*/src`, `exampleAndroid/src` |
| face detector (dlib) | the windows found so far, the detections kept | `object_detector::operator()`, `detect_from_fhog_pyramid`, `test_box_overlap` | `libs/dlib/include/dlib/image_processing/object_detector.h` and others |
| shape predictor (dlib) | the shape, the samples, the place in the cascade | `shape_predictor::operator()`, `regression_tree::operator()` | `libs/dlib/include/dlib/image_processing/shape_predictor.h` |
| rest of dlib | vendored | not used by the tracker | `libs/dlib/include` |

How they interact: the application's thread calls `setup`, then `update` for each
frame, reads `getInstances()` between updates, and may call `stop`. `update`
prepares the image in `im` (its own), takes `mutex`, replaces `roi` and `gray`,
sets `imageDirty`, fits landmarks to the rectangles the tracker knows *now*, and
releases `mutex`. The worker polls `imageDirty`, clears it, takes `mutex` to copy
the region of interest, releases it for the slow detection, and takes it again to
map the rectangles back and give them to the rectangle tracker.

What is hard: the unlocked `imageDirty`; the mutex released in the middle of a
detection; the start, stop and restart of the thread against `update`, the exit
event and the destructor; an exception between the manual `lock()` and
`unlock()`; the cached geometry; clamping and rounding; a suppression that is not
transitive; a descent in numbered trees that is bounded only by the file's shape.

## 2. Modules

| module | models | role |
|---|---|---|
| `FaceTracker` | tracker threads and life cycle | component, properties |
| `FaceService` | what the tracker promises its application | abstract specification |
| `FaceTrackerInductive` | the inductive invariant in named parts, and what a thread may wait for | the invariant is checked by `one_setup`, both are proved in the next |
| `FaceTrackerProofs` | | proofs about `FaceTracker` |
| `InputGeometry`, `InputGeometryProofs` | `im`, the cached `info`, the mapping of landmarks and boxes | component, properties; proofs |
| `DetectorInput`, `DetectorInputProofs` | region of interest, crop or scale, rectangles mapped back | component, properties; proofs |
| `FacePose`, `FacePoseProofs` | instances, their copies, the pose cache | component, properties; proofs |
| `LandmarkDrawing` | feature tables, features one by one and in `drawDebug` | component, properties |
| `FaceDisplay`, `FaceDisplayProofs` | `FacePose` and `LandmarkDrawing` over the same instances and model, and the smile example's sample | composition; proofs |
| `DlibRectangle` | `dlib::rectangle`, `test_box_overlap` | operators |
| `ObjectDetector`, `ObjectDetectorProofs` | dlib's face detector | component, properties; proofs |
| `ShapePredictor`, `ShapePredictorProofs` | dlib's shape predictor | component, properties; proofs |
| `FaceFinding`, `FaceFindingProofs` | both, called by one `update()` | composition; proofs |
| `MCFaceTracker`, `MCInputGeometry`, `MCDetectorInput`, `MCFaceDisplay`, `MCFaceFinding` | | values of the constants for TLC |

An operator named `Bad...` is its namesake with a plausible bug. No behaviour
uses it; substituted for the namesake it makes TLC refute the property that is
meant to notice the bug.

### FaceTracker

An image is the number of the `update()` call that passed it, so each member
says which image it holds: `roi`, `gray`, `threadGray`, the local
`detectorRoi`, and `tracked`, the image whose rectangles were last given to
`track()`. `pc` is where the application's thread and the worker are.

- Every acquisition and release of `mutex`, and every access to a shared member
  between them, is an action of its own: `LockForUpdate`, `WriteRoi`,
  `WriteGray`, `MarkDirty`, `ClearResults`, `FitLandmarks`, `FinishLandmarks`,
  `EndUpdate` for `update`; `LockForSnapshot`, `ReadRoi`, `CopyGray`,
  `UnlockSnapshot`, `Detect`, `LockForTracking`, `Track`, `UnlockTracking` for
  `runFaceDetector`. The unlocked test and clearing of `imageDirty` are
  `CheckDirty` and `ClearDirty`. A tracker that is not threaded runs
  `runFaceDetector` on the application's thread, inside `update`.
- `setup` is three steps, because it starts the thread (`SetupStart`) before it
  calls `setMaximumDistance` (`SetupDistance`).
- `stop`, the exit event and the destructor end the thread with
  `waitForThread`, which clears `running` and joins (`BeginStop`, `Join`).
- `GrayThrows` is `cvtColor` refusing the image: the exception leaves `update()`
  with `roi` replaced, `gray` not, and the mutex locked. An application with
  `"throws"` in `Calls` goes on after it. The invariant (`HalfUpdated`) says why
  no thread sees the half made pair: the very lock that is never released keeps
  the worker out, or, without a thread, the next `update()` replaces both before
  they are read. Releasing the lock on that path would therefore not be enough:
  that is the bug `BadGrayThrows` of the invariant.
- `Calls` says what the application does beyond setup, update and exit, the choice
  of the mode with `setThreaded` included; without it the tracker is threaded. A
  theorem that needs an application not to do something has that as an
  assumption on `Calls`.
- dlib's detector and ofxCv's tracker are external: after `track()` the labels
  are any list of distinct labels. ofxCv may keep predicting a face it did not
  find, so an instance's `rectFrame` is the call of `track()` its rectangle comes
  from, not the image the face was seen in.

`FaceService` has no threads: images are submitted, detections happen at any
moment on an image submitted since the last one was, and a submission is
answered at one instant with all faces known then. `Service` in `FaceTracker` is
the refinement mapping: `update()` submits when it replaces `gray`, detections
are `Track`, and the reply is the last step of the landmark detector.

### InputGeometry

One action is a whole first half of `update` (lines 92-112, on one thread). A
size is two small integers; the scale `sqrt(limit / area)` and OpenCV's rounding
are expressed over integers (`RoundsRoot`), with both outcomes of a tie. `Mapped`
is `rotationMatrix * p` with numerator and denominator kept apart; the factors
are applied in glm's order. `im.owner` says whose pixels `im` shares, because
`cv::Mat` assignment shares, and `resize` and `flip` write in place when the
destination already has the right size; `written` collects the application's
images that this changes. `Leftovers` is what the uninitialised `info` of a new
tracker may hold.

### DetectorInput

The steps of `runFaceDetector` between its two locks. The worker holds the
mutex from the clamping to the copy, so `Submit` (the part of `update` under the
mutex) comes only between detections or while the detector runs;
`setFaceDetectorImageSize` takes no mutex and may come anywhere. An OpenCV
argument check that fails ends in `"thrown"`. `tested` is auxiliary: the size the
condition read, which the second read of it need not equal.

### FacePose, LandmarkDrawing, FaceDisplay

A pose is what it was calculated from: the `info` its landmarks were found under
and the `info` of the calculation. All calls of an instance that need a pose
calculate it once and cache it; `drawDebugPose` and the examples do so in copies.
`kept` is a copy the application keeps while `info`, to which it holds a
reference, changes. `ThrowingUpdate` is an `update()` that replaces `info` and then
throws, before `instances.clear()`: the faces of an earlier image stay, some with
their poses, under the info of the new one. A pose calculated then mixes old
landmarks with the new info, and one cached before is loaded with the new
projection; the properties say what remains true. `returned` is auxiliary: the last
`update()` is not one that threw. `LandmarkDrawing` draws a feature per step, and gives the
application any of the 15 features on demand. `FaceDisplay` runs both over the
same instances, and `MakeSample` of the smile example; while `drawDebug` is under
way no other call comes.

### ObjectDetector, ShapePredictor, FaceFinding

The two operators of dlib the tracker calls, translated from the vendored source.
What depends on pixels is left open: a weight vector finds any windows over its
threshold with any scores, sorted as the scanner sorts them (`Scans`), and a
sample has any colour of the image, or black where it lies outside (`Samples`).
What the code does with them is not: windows of all weight vectors are pooled,
sorted (`SortDetections`, any order of equal confidences) and suppressed one by
one; a stage of the cascade takes its samples once, each tree is descended node
by node in the numbering of `left_child` and `right_child`, and its leaf is
added. A shape is the list of leaves added to the initial one. The requirements
of `regression_tree::operator()` on the file are the assumptions
`PredictorAssumption` and `FullTrees`; only `FindsLeaf` needs the second.
`FaceFinding` runs the detector, stores its boxes as `cv::Rect` (dlib counts its
last pixels in, OpenCV does not) and fits each.

## 3. Runs

| run | cfg of | checks | distinct states |
|---|---|---|---|
| `one_setup` | `MCFaceTracker` | the inductive invariant, `RaceFree`, `NoLostFrame`, `DetectionCoherent`, `SnapshotConsistent`, `TrackedAfterConfigured`, `QuietAfterDestroy`, with exceptions of `update()` | 11452 |
| `restart` | `MCFaceTracker` | with stop, mode changes and further setups: `MutexGuards`, `OrderedDetections`, `ImplementsService`, and under the fairness below: `UpdateReturns`, `StopReturns`, `WorkerCatchesUp`, `AnswersCatchUp` | 66493 |
| `geometry` | `MCInputGeometry` | `InfoFitsWorkingCopy`, `UprightLandmarksMapBack`, `LandmarkInBoundingBox`, `ResizedImagesIntact` | 4512 |
| `detector_input` | `MCDetectorInput` | `RoiWithinBoundaries`, `FitsDetectorSize`, `KeepsAspectRatio`, `MappedIntoRegion` | 248245 |
| `display` | `MCFaceDisplay` | `PoseOfLastUpdate`, `PoseFitsProjection`, `KeptPoseIsCoherent`, `EachLandmarkDrawnOnce`, `DefinedFor68` | 163762 |
| `finding` | `MCFaceFinding` | `NoFaceTwice`, `NoFaceLost`, `BestFirst`; `ReadsInBounds`, `FindsLeaf`, `EveryTreeOnce`; `EveryFaceFitted`, `UpdateFinishes` | 37460 |

Each also checks the type invariant of its module, except `restart`; that of
`FaceTracker` is a part of the inductive invariant. `AnswersCatchUp` is about rectangles
of the past: an image may be fitted with those of an older one, but while the
application goes on calling `update()`, in the end an answer is built on a
detection that is not older than any image given. `MutexGuards` holds through any
number of setups, where `RaceFree` does not: `setMaximumDistance` of a second
setup may meet the new worker's `track()`. `FindsLeaf` compares the loop over
numbered nodes with a reference that goes down the tree level by level.
`InfoFitsWorkingCopy` says that an info found in the cache has the sizes of the
present image and working copy, whatever was set since it was made.
`ResizedImagesIntact` says which of the application's images are safe from the
tracker: those it resizes. The others it may change, by a half turn, by a quarter
turn of a square image, or by resizing another image to their size. The pose
properties hold after any `update()` that returned, whatever was thrown before.

Six runs end in a counterexample; each is a place where the code does not do what
a comment beside it says.

| run | property | what happens |
|---|---|---|
| `exit_after_destroy` | `ExitEventFindsTracker` | `setup()` starts the thread, `stop()` joins it and the tracker is destroyed, which is all that the message of `ofxFaceTracker2.cpp:69` asks for; the listener for the exit event, which only the event itself removes, is still there |
| `throwing_update` | `StopReturns` | `update()` throws between `lock()` and `unlock()`; `stop()` or the exit event then joins a worker that waits for the mutex for ever |
| `turned_landmarks` | `LandmarksMapBack` | with 90, 180 or 270 degrees `rotationMatrix` translates last, by a distance in the wrong unit and direction |
| `stale_landmark_size` | `LandmarksMapBack` | `setLandmarkDetectorImageSize` between two updates leaves the old scale in `info` |
| `roi_outside` | `RoiWithinBoundaries` | a region that begins right of the image and is less than one column wide is clamped to a column outside it, and cropping throws; if it is wider, no width is left of it and nothing throws |
| `size_race` | `NoResizeIsNoScale` | the size is read twice, and becomes -1 in between |

With other constants `InputGeometry` also refutes `LandmarksMapBack` for the angle
-90, which `rotate_90n` knows and `ofxFaceTracker2InputInfo` does not
(`Rotations = {0, -90}`), and for an `info` whose uninitialised members happen to
match the camera (`Leftovers` with the camera's size and another landmark size).

### Bounds

- *FaceTracker*: two labels, at most two faces, three images. Two faces are the
  least at which two instances can disagree; three images are the least at which
  the worker detects on one image, `update()` replaces it by a second, and a
  third arrives before the result is tracked. Labels are interchangeable, so
  `one_setup`, which checks no liveness, uses symmetry. `throwing_update` needs one
  image and one face.
- *InputGeometry*: three landscape cameras of at most 8x5 pixels and a square one,
  limits that resize all, some or none of them, and every angle the code
  distinguishes. One limit resizes the widest camera to the size of another. Pixels
  are enumerated. Portrait images are left out for a reason: both axes are scaled by
  the ratio of the widths, and a portrait image resized from 9x16 to 8x13 is off by
  more than a landmark pixel in y.
- *DetectorInput*: two image sizes, one of them portrait; regions that are
  absent, inside, leave the image on each side, or begin right of it; sizes from
  less than a row to the whole image.
- *FaceDisplay*: two cameras (one changes to the other and back), two faces, and
  dlib's two published models of 68 and 5 landmarks. Any `update()` may throw.
- *FaceFinding*: two weight vectors with different thresholds and up to two
  windows each; four boxes, of which two overlap by half, one is inside another
  and one leaves the image; two scores. Three windows are needed for a suppressed
  one between two kept ones. The cascade has three stages: trees of four and of
  two leaves, no tree, one tree of four leaves, with 2, 0 and 3 samples, so that
  samples of one stage would be too few, or too many, for another. At the default
  thresholds of the overlap test all its three ratios decide for some pair.

### Fairness

`FairSpec` assumes that the worker keeps running (weak fairness), that a call
the application has begun goes on (weak fairness), that `waitForThread` returns
once the worker has ended, and that the worker does not lose the race for the
mutex for ever (strong fairness of its locks): `update()` holds it for a part of a
frame only, but `std::mutex` itself promises no order. Nothing obliges the
application to make a further call: `AnswersCatchUp` has as its premise that it
does. In `FaceFinding` there is one thread, and its next step is weakly fair.

## 4. Proofs

TLAPS proves, for every number of images, faces and labels, every image size and
angle:

- `FaceTrackerProofs`: `TypeCorrect` (for every application), and for an
  application of `PlainUse` `Inductive`, `FramesAreNotLost`,
  `DetectionsAreCoherent`, `SnapshotsAreConsistent`, `ConfiguredBeforeTracking`,
  `NoThreadAfterDestruction`, `MutexIsEnough`, `DetectionsAreOrdered` and
  `TrackerImplementsService`. `PlainUse` is an application that does not call
  `setThreaded` on a tracker in use (it would change whether `update()` locks
  while the worker runs, or leave `update()` to wait for one that was never
  started), and does not set up again a tracker whose `update()` has thrown; it
  may go on with it. `NoDataRace` also assumes a single `setup()`: a worker
  started by a second one with `imageDirty` still set can track while `setup()`
  writes the maximum distance. Two theorems are the other side of a
  counterexample: `NoThreadWaitsInVain`, if `update()` does not throw, and
  `ExitEventIsSafe`, if the application leaves destruction to its exit.
- `InputGeometryProofs`: `GeometryTypeCorrect`, `BoxesCoverLandmarks`;
  `ImagesStayIntact` if the landmark size is set before the first `update()`;
  `InfoIsOfTheInput` under `SettledUse`: besides, uninitialised memory does not look
  like the info of a camera, and `resize` rounds ties always the same way; and
  `UprightLandmarksReturn` under `SettledLandscape`: besides, no image is higher than
  wide. The constants of the run `geometry` satisfy all of it; `stale_landmark_size`
  and the last paragraph of the counterexamples in section 3 show what happens
  without the first and the second of these.
- `DetectorInputProofs`: `InputTypeCorrect`, `DetectorSizeIsKept`,
  `AspectRatioIsKept`, `FacesAreMappedIntoRegion`; `RegionsAreInside` for
  regions that are not right of the image and less than a column wide, nor below
  it and less than a row high (`NoThinRegionBeyond`; the run `roi_outside` shows
  why), and `NoResizeWhenSettled` for an application that does not set the size
  during a detection (the run `size_race` shows why).
- `FacePoseProofs`: `PoseTypeCorrect`, `PosesAreCurrent`, `PosesFitProjections`,
  `KeptPosesAreCoherent`.
- `FaceDisplayProofs`: `DisplayImplementsPoses` (so the four above hold of the
  composition), `EnoughFor68`, `LandmarksDrawnOnce`.
- `ObjectDetectorProofs`: `DetectionsTyped`, `FacesAreDistinct`, `FacesAreKept`,
  `FacesAreRanked`, for any number of weight vectors, any boxes, scores and
  thresholds.
- `ShapePredictorProofs`: `FitsTyped`, `FitsReadInBounds`, `TreesAreAskedOnce`,
  `DescentFindsLeaf`, for any cascade.
- `FaceFindingProofs`: `RunsDetector` and `RunsPredictor` (the composition
  implements both parts), `PartsAreSound` (so the invariants of both hold of it),
  `FindingTypeCorrect`, `FacesAreFitted`, and `UpdateAdvances`, the safety half of
  `UpdateFinishes`.

With these every safety property that a passing run checks is stated by a theorem.

The argument for `FaceTracker` is `IInv` of `FaceTrackerInductive`. No safety
property is inductive alone: that a detection is mapped back with its own roi
needs `detectorRoi` to be that of `threadGray` while the detector runs
(`CoherentInv`), which needs roi and gray not to change between the two reads,
hence the mutex to be held exactly there (`MutexInv`), which needs the worker to
exist only in threaded mode (`ThreadInv`) and calls to come in the stages of the
object's life (`LifeInv`). `NoLostFrame` is a part of the invariant because the
worker's clearing of `imageDirty` is sound only together with the snapshot that
follows. `ResultsInv` says that half-built results are a prefix of the answer; it
makes the last step of the landmark detector a `Reply` of `FaceService`. The step
lemmas follow the parts (`ControlStep`, `ImageStep`, `FrameStep`, `ResultsStep`),
with one step per action. `NoCircularWait` follows from `MutexInv` and
`ThreadInv`: whoever holds the mutex is past its lock, and no thread joins the
other while holding it.

For `InputGeometry` the box needs the info: because `info` has the width of the
last image (`InfoInv`), the scale is not negative and the mapping keeps or reverses the order
of each coordinate (`MappedBetween`), and the box covers what lies between the
mapped corners (`SideCovers`). That the working copy's sizes fit too is `CacheInv`:
an info that would be found in the cache is the one the next image would get, of
whatever camera and angle. It is also why landmarks return (`CacheFits`). The
mapping scales both axes by the ratio of the widths; the ratio of the heights is
as good as equal, because both sides are rounded roots of the same multiple
(`RootsInProportion`, `OneRatioIsEnough`), and it is there that the image must
not be portrait. That resized images stay as they are is `CopiesInv`: `im`
shares the pixels only of images that were not resized.

For `FacePose` the copies need the tracker: a copy kept with its pose under an
`update()` that returned is coherent because the instance was, whose landmarks are
of the present `info` because such an `update()` makes all instances anew. An
`update()` that throws ends that, so `PoseInv` says it only while `returned`, and of
the copy for ever.

For `DetectorInput` no root is ever taken: both sides are integers between
multiples whose squares are bounded, so that comparing products of squares
(`RootArea`, `RootProportion`) bounds the area and the proportions.
`ScaledInv` carries the facts of the test and the scaling to the run, which needs
the region not to change between them. That faces stay in the region compares the
truncated corner and the truncated width of a face with the side they came from:
roots add up no further than the root of the sum (`RootSum`), and what exceeds the
region by their difference is half a pixel of the copy at most (`RootDifference`).
Here the roots must exist (`RootExists`): the least number with a square too large
is one more than the root (`LeastNumber`).

For `FaceDisplay` the indices of all features are below 68 (`FeatureBounds`), and
a step of `drawDebug` appends to one face's polylines and leaves the others alone
(`AppendAt`). That each landmark is drawn once says that two finite sets have as
many members: the landmark drawn at a vertex is a bijection, since the features
split the 68 landmarks (`FeaturesSplitLandmarks`, `PlaceInFeature`), and `LinesInv`
says which features have been drawn. For the detector `SuppressionInv` says that
what is kept comes from the pool, in its order, and speaks for all windows
looked at; the order of the pool makes the first of two overlapping windows the
better one, whence both `NoFaceLost` and `BestFirst`. For the predictor a
descent stays below twice the number of splits plus one, because a node before
the last split has its children there; with one leaf more than splits what is
left over is a leaf. `PassedInv` counts the trees passed in the stages before
and in this one, and `PathInv` says
that the node reached is the one the path in the tree has on its level, numbered
from the first node of that level; the first number past the splits is the first
leaf (`LeafLevel`), because all levels are filled. `FaceFinding` needs its parts to
be idle when the other one runs (`FindingInv`).

`TreesBefore`, `NodesOn` and `Places` are recursive functions, of which only the
defining `CHOOSE` is known to the provers. That a function with the recursive
equation exists, so that `CHOOSE` finds it, is itself an induction. The induction
theorems of the library cannot be instantiated, but that the natural numbers are
well-founded can be cited, and a counterexample with the least number gives
`Induction`, about the members of a set; `RecursionExists` glues together the
functions on `0 .. n`, which agree where they overlap (`RecursionAgrees`). Both are
about sets and functions, not operators, and so can be cited like any lemma.

`UpdateAdvances` counts what `update()` has left to do in eight numbers, from its
own phases to the nodes of one tree; none is ever negative (`LeftIsNatural`), and
every step brings them down in lexicographic order (`StepAdvances`). That order is
well-founded (the lemma `WaysDownEnd`), so no sequence of steps goes on for ever;
that a step is possible until `update()` has returned is left to TLC.

The assumptions on the constants are those of the modules and are evaluated by
the runs.

### Only model-checked

Liveness: `UpdateReturns`, `StopReturns`, `WorkerCatchesUp`, `AnswersCatchUp` and
`UpdateFinishes`. All of them rest on fairness, and so on which actions are
enabled, which TLAPS does not reason about here; of the first two
`NoThreadWaitsInVain`, of the last `UpdateAdvances` is the part that is safety.
The refuted properties are, of course, only refuted; the theorems named above say
under which conditions they hold. For `LandmarksMapBack` that is
`UprightLandmarksReturn`.

## 5. Not modelled

- The rest of dlib. Nearly all lines of the repository are that vendored library:
  user interface, optimisation, networking, matrices, of which the tracker calls
  two operators. Those are modelled; a model of the rest would say nothing of this
  program, so the share of the repository's lines that the models stand for stays
  far below a percent.
- Of the two operators: filters, pixels and affine maps (numeric), training and
  reading of files, `adjust_threshold`, which the tracker leaves at 0.
- ofxCv's rectangle tracker, which is not in the repository, beyond what the code
  expects of it: after `track()` the labels are any list of distinct ones.
- OpenCV's argument checks beyond the region and the scale in `DetectorInput` and
  `cvtColor` in `FaceTracker`.
- The numbers of the pose: `solvePnP` and the intrinsics are floating-point
  computations of external libraries. Reading them late or twice is modelled.
- `getMesh` (a Delaunay triangulation by OpenCV; it changes no state), OpenGL
  calls, text, colours.
- `thread_fps`, written and read without the mutex; nothing depends on it.
- The examples but for the smile example's sample; build files.

## 6. Plan

The order was: the threads and the service they implement, then the proof of
their invariant, then the sequential parts each with its own hazards, then the
compositions of those that share instances, then the parts of dlib that the
tracker runs, exceptions, and the proofs about all of them. What is left is of
less weight:

1. Compose `FaceTracker` with `InputGeometry`: which `info` landmarks of an old
   rectangle are mapped with after the camera's geometry changed.
2. `setThreaded` on a tracker in use, should its documentation come to say what
   it means; now no property can be held against it.
