# TLA+ models of the autonomous drone

The repository flies a Tello drone through unknown rooms: ORB-SLAM3 gives poses
in units of its own, several estimators find the metric scale, an occupancy map
is built from the metric points, two planners work on that map, and a mission
controller flies their plans while a pilot may take over with the keyboard.
This directory models the program's own control logic: who may do what, in
which order, and what is left behind when two threads, two processes or a map
re-initialisation get in each other's way.

Run `tlc -config X.cfg M` and `tlapm M.tla` in this directory. `PROJECT.json`
lists, for every run, the module and the properties it checks, and for every
definition the source lines it stands for.

## 1. Inventory of the system

The Python program (`tello_autonomy/main.py`) is one process. Each ROS 2 node
has a `SingleThreadedExecutor` on a thread of its own (`main.py:70-88`), so a
node's callbacks never overlap, but two nodes' callbacks do, and so does
everything that pynput's keyboard thread calls directly (`main.py:151-177`).
The SLAM node, the occupancy map, the two planners and the depth worker are
processes of their own.

| Component | State | Operations | Talks to | Hard behaviour | What makes it correct |
|---|---|---|---|---|---|
| MissionController (`goals/mission_controller.py`) | `_state`, two request flags, current map, tracking loss, hop phase | poses, plans, goal/explore commands, cancel, 10 Hz tick | planners (services), CommandHandler, ManualControl, ScaleFactorManager | keyboard thread without a lock, answers after a cancel or a map switch, blocking `wait_for_service` | flags match requests; a cancelled mission stays cancelled; hops end; plans are flown in the map they were made in |
| TrajectoryTracker (`goals/trajectory_tracker.py`) | waypoint list | set, clear, compute | MissionController | cleared while it is read | the answer to a missing path is a zero command |
| CommandHandler, ManualControl (`drone_interface/`) | two in-progress flags, held keys, `took_off` | takeoff, landing, RC, keepalive, 20 Hz loop | TelloDriver's `cmd_lock`, the drone | check-then-send, two senders without a lock, lock contention at shutdown | RC is refused only for a while; the pilot wins; the drone's 15 s watchdog is fed; quitting ends |
| TelloDriver, ExtTofDriver | `cmd_lock`, socket | connect, disconnect, query | the drone | an unfair lock held over a network round trip | disconnect gets the lock |
| ScaleFactorManager (`perception/scale_factor_manager.py`) | scale per map, in-flight requests, quarantine, caches | track, prune, request, poll, adopt, publish dense points | depth worker, ToF estimators, LiveScaler | stale results, a map pruned under a request, 'm' key in another thread | scales belong to tracked maps; a jump is confirmed before it is adopted |
| LiveScaler (`perception/live_scaler.py`) | pending transitions, decided ids, cumulative transforms | raw pose, raw points | ScaleFactorManager (shared dict), OccupancyMap | revisited maps, scales that come or go in mid-callback, timeouts | each map is decided once, in the end, and for good |
| OccupancyMap (`occupancy_map_cpp`) | job queue, gate, OcTree | synced frames, worker, alignment, publish | LiveScaler, planners | frames overtaking the alignment message, resets | only registered geometry; consumers see resets |
| SLAM node (`ros2_orb_slam3/src/common.cpp`) | time step, known map ids, `pAgent` | settings, image, time step, 1 Hz csv timer | bridge, ORB-SLAM3, all of perception | tracking in one thread, merging in another, ids read after the fact | a pose is published under the id of its map; changes of maps are announced |
| RosBridge (`middleware/ros_bridge.py`) | acked or not | settings, ACK, frame tick | SLAM node | processes started in any order and restarted, two topics for one frame, ACK before initialisation | the handshake completes; no image before VSLAM; times do not go back |
| ORB-SLAM3 maps and tracking (`Atlas.cc`, `Map.cc`, `Tracking.cc`) | maps, current map, ids, tracking state | initialise, track, lose, relocalise, reset, new map, merge | SLAM node, the other threads | current map read before its lock, merges that overtake the tracker | the current map is a good one; ids are unique; one coordinate frame per map |
| ORB-SLAM3 threads (`LocalMapping.cc`, `LoopClosing.cc`) | two keyframe queues, stop, release and reset flags, GBA flags and mutex | keyframes, loop correction, merge, global bundle adjustment, reset | each other | four threads that stop each other, a release that takes back everybody's request | a correction is alone; keyframes are not deleted under the map; nobody waits for ever |
| ORB-SLAM3 keyframes and place recognition (`KeyFrame.cc`, `KeyFrameDatabase.cc`, `LoopClosing.cc`) | spanning tree, bad and protected keyframes, database, searches under way | connect, erase, put off and make up for an erasure, search, correct, merge | each other, local mapping's culling | one mutex per keyframe, several held at a time; a flag asked for in one critical section and used in another | the tree stays a tree; protected keyframes are not erased; put-off erasures happen |
| exploration_cpp (NBV planner) | tree, root, history of roots, best branch, octree | pose, octree, plan service | OccupancyMap, MissionController | plans that are not flown, a memory older than the octree, bounds of the search | plans start at the drone and are free; every request is answered |
| search_cpp | a map snapshot | plan service | OccupancyMap, MissionController | - | bounds and start belong to one snapshot |
| Estimators, depth worker | windows, anchors, queues | samples, reset | ScaleFactorManager | reset while a result is under way | a window belongs to one map |
| Bridges, telemetry, exporters, scripts | latest value | periodic copy | topics | none | - |
| ORB-SLAM3's numerical core; Depth-Anything-V2, DBoW2, g2o, Sophus, kdtree | - | - | - | arithmetic, vendored: not modelled | - |

The hazards found while reading, each at its line, are in `PROJECT.json`.

## 2. Modules

| Module | Models |
|---|---|
| `MissionController` | `mission_controller.py` and the waypoint list of `trajectory_tracker.py` |
| `MissionControllerProofs` | theorems about it |
| `CommandChannel` | `command_handler.py`, `manual_control.py`, `cmd_lock`, the sensor and keepalive threads, `main.py`'s shutdown |
| `CommandChannelProofs` | theorems about it |
| `LiveScaler` | `live_scaler.py` |
| `OccupancyMap` | `occupancy_map_node.cpp` |
| `MapPipeline` | the two together, with the topics between them |
| `DataFlowProofs` | theorems about `MapPipeline`, the refinement included, and about `FrameStream` |
| `ScaleManager` | `scale_factor_manager.py`: tracking, requests, sources, quarantine |
| `ScaleManagerProofs` | theorems about it |
| `MapRegistry` | the abstract specification `MapPipeline` implements |
| `Atlas` | ORB-SLAM3's maps as a value: `Atlas.cc`, `Map.cc`, what a merge does to them |
| `SlamNode` | `common.cpp`'s callbacks, tracking in the image callback, the merging thread |
| `SlamNodeProofs` | theorems about both |
| `FrameStream` | `ros_bridge.py` and the receiving half of `common.cpp`, with starts and restarts |
| `SlamThreads` | how `Tracking.cc`, `LocalMapping.cc` and `LoopClosing.cc` stop, release and reset each other |
| `SlamThreadsProofs` | theorems about it |
| `KeyFrameTree` | the spanning tree and the flags of `KeyFrame.cc`, lock by lock |
| `PlaceRecognition` | extends it: local mapping's culling against the searches, corrections and merges of `LoopClosing.cc` |
| `PlaceRecognitionProofs` | theorems about both |
| `NbvPlanner` | `nbvp.hpp`, `rrt.cpp`: what the planner remembers between plans |
| `NbvPlannerProofs` | theorems about it |
| `MCMissionController`, `MCCommandChannel`, `MCMapPipeline`, `MCScaleManager`, `MCSlamNode`, `MCFrameStream`, `MCSlamThreads`, `MCNbvPlanner` | the modules TLC is run on |

An operator named in a comment as "Mutant" is a plausible bug of the definition
it precedes; nothing uses it in the specifications. `PROJECT.json` says which
property notices which.

### MissionController

`state`, `nbvInFlight`, `searchInFlight`, `currentMap`, `trackingLost`,
`recoveryMap` and `recalPhase` are the node's fields of the same names. `path`
is the tracker's list: its length and the map it was planned in. `nbvOut` and
`searchOut` are the requests whose answer has not been handed to the node, in
order; an answered one holds the map the planner knew when it answered.

`pc[t]` says where inside a method a thread is, at the places where the other
thread can get in between: in `wait_for_service` (`nbvWait`, `nbvResume` when
the node itself resumes exploration, `searchWait`), between the IDLE check and
`set_path` of an NBV answer (`installNbv`), between `is_done()` and the velocity
(`compute`), between the velocity and its sending (`sendFly`, `sendHover`), and
in the middle of the keyboard's `cancel_mission` (`cancel`). `dead` is the
executor after an exception has left a callback.

One action is one callback or one part of it between two such places. The
control timer's branches are `HopTimeout` / `HopEscapeNearField` /
`HopClimbDelta` / `HopWaitScale` (calibration hop), `LoseTracking` /
`SweepTick` (tracking loss), `PathDone`, and `EnterTracker` -
`ComputeVelocity` - `SendVelocity`. Comparisons with a clock or a sensor are
arguments of the action (`cleared`, `climbed`, `waited`, `reached`).

The node's environment: the SLAM node changes map (`SlamSwitchesMap`), metric
poses stop for half a second (`PoseAges`), and each planner, single-threaded,
answers its oldest request.

`yielded`, `reinits`, `dups` and `crossed` are history: a flight key came after
the last command; map switches; requests sent with their flag already set (two
threads through the same start method); the path was set while a flight key was
between `clear_path` and IDLE.

### CommandChannel

`held`, `tookOff`, `takingOff`, `landing`, `lock` and `shutdown` are the code's
fields. `takeoff` and `land` are the worker threads, `main` is the 20 Hz loop
(`tick`, `send`) and then the shutdown (`stopping`, `streamoff`, `end`,
`closed`). A send is two steps, the look at the flags and the packet, for every
thread that sends. The keepalive takes `cmd_lock` if it is free, the sensor's
poll waits for it (`asking`); once told to stop (`StopThreads`) neither begins
another round, but a poll that waits already still gets the lock.
`rc` is the kind of the last packet the drone has: `hover`, `manual`, `auto`.
The mission is reduced to `active`, `silent` and a thread that sends when it
likes. `is_active()` counts a request in flight, and `cancel_mission` neither
takes that back nor does anything in IDLE: a flight key (`PressKey`) may find
nothing to cancel, and the mission may stay active after it. `slips` counts the packets that reach the drone in the middle of one
takeoff or landing.

### LiveScaler, OccupancyMap, MapPipeline

`pending`, `alignedIds` and `transforms` are `_pending_transitions`,
`_map_ids_already_aligned` and `_active_map_transforms`. A cumulative transform
is the sequence of alignments it is composed of: the identity is `<<>>`, and
compounding appends, so two frames are in the same coordinates exactly when the
sequences are equal. A pose callback is `OnPoseRaw` (register the transition),
one step per pending transition (`KeepWaiting`, `GiveUp`, `RejectUnscaled`,
`ComputeAlignment`), and `PoseEnds` (publish or drop), because the scale of a
map is another thread's and may change between the looks.

`jobQueue`, `batch`, `gate`, `octree`, `forcePublish` are the occupancy node's
`job_queue_`, `jobs_to_process`, `map_ids_already_aligned_`, `octree_` and
`force_publish_next_tick_`. The tree is the set of frames inserted since its
last reset. Each step under `octree_mutex_` is one action. A publication may fail to
be serialized after `force_publish_next_tick_` was cleared; `missed` is history:
that was the publication of an empty tree, which nothing repeats.

In `MapPipeline` metric frames go straight into the queue, or are lost, while
alignment messages wait in `verdicts`: frames may overtake the message of
their map, messages do not overtake each other. Dense frames of any registered
map may come at any time.

`MapRegistry` is what the occupancy node promises: each map is accepted or
rejected at most once, a rejection empties the world, and only decided maps, or
map 0, get geometry into it. The refinement maps `decided` to `gate` and
`world` to the maps of the frames in `octree`.

### ScaleManager

`tracked` is the key set of `_map_state`, `_map_points_cache` and `_last_seen`,
which the code always changes together; `inFlight`, `depth`, `scale`,
`quarantine` and `mode` are `_in_flight_map_ids`, `_depth_scale_factors`,
`current_scale_factors`, `_quarantine` and `scale_source_mode`. `outstanding`
counts, per map, the requests put into the worker's queue whose result has not
been taken: the worker answers each once, with a scale, an error or nothing.

The executor's callbacks are `StartTracking` and `KeyframePoints` (a keyframe
message), `RecomputeTick`, `PruneStaleMapIds` (topology change), `PollResult`
and `ResolveTimer`; the 'm' key is `CycleScaleSourceMode` in the keyboard's
thread. A thread that resolves scales takes the maps of `todo` one by one
through three steps: `Propose` (read the sources, choose one), `Decide` (read
the active scale, settle or hold the proposal) and `Adopt` (write the scale).
The other thread, and the executor's pruning, may come between them.

Scales are integers, so that the 15 % of the quarantine is computed. The
internal ToF's estimate is any it may have at that moment; the external one's
is state (`ext`), because a property speaks of a reading that stays. Waiting
times are flags: `stale`, and `held` of a quarantine entry.

`prunes`, `seen` and `raced` are history: how often a map was dropped, the
depth results it ever got, and the maps that were dropped while the keyboard's
thread was resolving them.

### Atlas, SlamNode

`Atlas` is a library of operators on a record: the maps in the set, the current
one, the id each map shows, how many keyframes it holds and in which coordinate
frames they are placed. A frame is the outcome of one successful
initialisation; "two initialisations in one map" is what corrupts a map without
any error, and `Cardinality(frames[m]) > 1` says it. A merge is three steps
under different locks: `WeldMaps` (the window moves, the match becomes current,
the old map is bad), `TakeId` (the match shows the old map's id) and `MoveRest`.

`SlamNode` has one action per callback of the node and, inside the image
callback, one per place where another thread can get in between: the check of
the reset request (`ImgCallback`, `ResetActiveMap`), the look at the current map
(`EnterTrack`), the Track under that map's lock (`TrackStep`, one action per
outcome) and the publication (`PublishPose`). `trk` is `mState`,
`mbReadyToInitializate`, the time of the last frame and the coordinate frame of
the tracker's pose. `trackMap` is `pCurrentMap` of the Track under way: the code
goes on using it after a merge has replaced it. What an estimation yields is a
choice; only the states and maps that can follow are the code's. `timeStep` is
not initialised by the constructor and starts as a garbage value.

`Track` counts the map's keyframes twice, when it loses track and when it decides
to reset or to leave the map, and local mapping may add one in between:
`LoseSmallMap` and `LoseGrownMap` both start in a map of `FewKeyFrames`.

`overtaken` and `node.merged` are history: maps a merge made current while
tracking was in another map or in none, and a merge between a Track and its
publication.

A merge does not touch the tracker: tracking takes its pose from its reference
keyframe (`UpdateLastFrame`), and changes frame when that keyframe is moved.
`WeldMaps` moves the window of at most 25 keyframes, with the reference or
without it; `Behind` is a tracker that still has the old frame, until `MoveRest`
comes to its keyframe. A keyframe it makes meanwhile goes into the match's map in
the old frame, is not in the list of those to be moved, and makes that map
`overtaken`.

### FrameStream

Two processes and what lies between them. `settings` and `ack` are the two
handshake topics (depth 1, TRANSIENT_LOCAL: a late subscriber still gets the
last message of a living publisher), `wire` and `slot` the image and time topics
(depth 1, volatile), each with at most one message not yet delivered and one
that waits for the node's executor. Frames are numbered; the number is the
frame's time; `frame` is the last one tracked, with the time it was tracked
with. Both processes may be started and stopped at any time, a node
that tracks an image without VSLAM is gone. `cut` is history: the frames
published before the node was started, or before a bridge ended with a message
on its way.

### SlamThreads

`lm` is `LocalMapping`: its queue, `mbStopRequested`, `mbStopped`, `mbNotStop`,
`mbResetRequestedActiveMap` and the place in `Run`. `lc` is `LoopClosing`: its
queue, the reset request, `bRelaunchBA` and the place in `Run`, `CorrectLoop` or
`MergeLocal`. `gba` has one entry per bundle-adjustment thread alive, `flags` is
`mbRunningGBA`, `mbStopGBA` and whether `mpThreadGBA` is null, live or deleted,
`owner` is who holds `mMutexGBA`. Every wait of the code (`while(!isStopped())`,
the two `RequestResetActiveMap`, the mutex) is a guard; everything that happens
between two of them is one action, but for tracking's looks at local mapping
before a keyframe (`isStopped`, `stopRequested`, `AcceptKeyFrames`, `SetNotStop`),
each under a lock of its own: `NeedNewKeyFrame`, `LooksAgain` twice,
`SetNotStop`. Of a keyframe the model knows whether it is
of the current map and whether it comes from an initialisation.

`loose` is history: what has gone wrong with the protocol so far. `Revived`: a
launch cleared `mbStopGBA` before an aborted adjustment had looked at it.
`Released`: a `Release` took local mapping from a thread that had asked for it,
or found it not stopped. Both happen in the code; the properties say what holds
until they do.

### KeyFrameTree, PlaceRecognition

`kf` holds, per keyframe, `mpParent`, `mspChildrens`, `mbFirstConnection`,
`mbBad`, `mbNotErase`, `mbToBeErased`, whether `mspLoopEdges` is empty, and
`mpMap`; `lock` is who holds its `mMutexConnections`; `made` are the keyframes
that are in a map, or were; `database` is the set in the `KeyFrameDatabase`.
`call[t]` is the operation thread t is in and its local variables. One action is
the part of an operation between two acquires, so that wherever the code holds
one mutex and waits for another, the other thread can come first:

- `UpdateConnections`: `CountsPoints` (choose the parent, without a lock),
  `AddConnection` / `UpdateBestCovisibles` (lock a neighbour, then its
  neighbours), `SetsParent`, `AddChild`.
- `SetBadFlag`: `AsksToErase`, `EraseConnection` / `UpdateBestCovisibles`, then
  the last critical section, all of it with the keyframe's own mutex:
  `TakesOwn`, `ScansChild` and `ChoosesParent` in turns, `GivesChild` and
  `AdoptsChild` for the best pair, `GivesRest` for those that are left, and
  `TurnsBad`; `ForgetsKeyFrame` after it. `ChangeParent` of a keyframe to itself
  throws, of one to a null parent is undefined: the thread is `crashed`.

Of the covisibility graph only the nesting of its locks is kept. Which keyframes
share points, and how many, is a choice: every parent, pair and candidate the
code could choose with some weights is in the model. `UpdateConnections` without
any neighbour ("this should not happen") is left out.

`PlaceRecognition` has two threads. `mapping` is local mapping between the calls
of `Run`: `ProcessNewKeyFrame`, `AddKeyFrame`, `SearchInNeighbors`,
`ListsNeighbours` and `KeyFrameCulling`, `InsertKeyFrame`. `closing` is loop
closing: `mpCurrentKF`, its queue, and the place in `NewDetectCommonRegions`,
`CorrectLoop` or `MergeLocal`; `erase` are the keyframes it is about to call
`SetErase` on, in the code's order. `search[s]` is `mp...LastCurrentKF`,
`mp...MatchedKF`, `mn...NumCoincidences` and `mn...NumNotFound` of the loop and of
the merge search; `mb...Detected` is `n >= Enough`. Whether a region is found is
a choice; of the candidates from the bag of words the loop's match is taken and
protected before the merge's (`MatchesCandidate`, then `Decides`). A merge is `WeldsMaps` (window, first connection of the old root, new
parent), `ReversesLink` once per keyframe on the way to the old root,
`Reconnects` and `MovesRest`. A correction waits until local mapping is between
two keyframes (the stop protocol, with what it drops from local mapping's queue,
is in `SlamThreads`); the calls of `UpdateConnections` it makes on keyframes that
are connected already change nothing here and are left out.

`astray`, `leaked` and `stolen` are history: keyframes that were adopted by one
that was bad by then; matches that no search knows any more although nobody let
them go; and keyframes that an erased one gave away though they were no longer
its own. All three happen in the code.

### NbvPlanner

`root`, `exactRoot`, `iterations`, `history` and `memory` are `root_`,
`exact_root_`, `iterationCount_`, `history_` and `bestBranchMemory_`; `tree` is
the number of nodes, `loopCount` and the branch to `bestNode_`, which is all the
answer is made from. Geometry is reduced to places and an octree to the pairs
of places with a free line between them. `Best` is the set of best branches a
tree of n nodes can have, which stands for every choice of samples and gains.
The mission flies an answer, drops it (cancelled or in a hop) or ends, and a
pilot, or a SLAM map with another origin, may move the drone at any time.

`led`, `astray` and `lost` are history: where the plans on the stack led, and
whether the drone is away from the next root, or from the trail.

Taken for granted: the transform from the pose's frame to `map` is there (the
controller broadcasts it with every metric pose), `exact_root_` and
`softBounds_` are on as in `planner_params.yaml`, there is one drone, and the
controller has relayed every pose before it asks for a plan.

## 3. Runs

All runs but `NbvPlanner` switch the deadlock check off: with every counter used
up, the program hovering or disconnected, the frames all published, the models
really stop.

| Run | Shows | Bounds |
|---|---|---|
| `MissionSafety` | safety of the mission controller | 2 maps, 1 map switch, 1 duplicated request per kind of race, paths of 1 waypoint |
| `MissionLiveness` | requests and hops end | the same without duplicates |
| `CommandChannel` | four liveness properties of the channel | packets not counted: only `AtMostTwoSlip`, which is proved, speaks of them |
| `MapPipeline` | refinement of `MapRegistry`; verdicts once and in the end; consumers catch up | 2 maps, 3 switches (there, back, and there again), 1 frame under way |
| `ScaleManager` | confirmation of sharp changes, a reliable ToF reading wins, nothing left of a dropped map | 1 map, depth results 130 and 140, ToF 100, 2 confirmations, 1 drop |
| `SlamNode` | maps, ids, coordinate frames and published poses under tracking and merging | 3 maps, 4 keyframes per map (more is "many"), 4 coordinate frames in use at a time; thresholds 2 and 3 for 10 and 12 keyframes |
| `FrameStream` | handshake, images before VSLAM, which time an image is tracked with | 4 frames, 2 starts of each process |
| `SlamThreads` | exclusive corrections, lost keyframes, dangling threads, merges and resets that come back | 3 keyframes on their way, 2 adjustments alive, only while `loose = {}` |
| `PlaceRecognition` | the spanning tree under culling, loop closing and a merge; what is protected from being erased, and how long; both threads get on | 4 keyframes: an old map of one, a new one of two that loop closing has yet to take, and one to come; both searches |
| `NbvPlanner` | where plans start, that they are free, that they come | 3 places, 4 octrees of a corridor, 2 nodes and 1 failed sample per node, 3 plans on the stack |

Why these bounds are enough. One map switch already gives a request left behind
by the hop, a hop cut short by a key, an answer from the old map and a tracking
loss across the switch; the proofs below hold for every number of switches. A
plan of one waypoint is one that can be finished, vanish or be flown; longer
ones differ in position only. Three switches between two maps visit a map for
the second time, decided or still pending. Of the scales, 130 and 140 agree and
100 is far from both, which is all the quarantine asks of a number. Three maps
are one that is current, one that is merged and one that is created meanwhile;
a map needs to be seen on both sides of each threshold, and one above the lower
one between the two counts of a lost Track. Four coordinate frames
are in use at a time at most by three maps and a tracker; frames nobody refers
to are used again. Two starts of each process are a restart under the other one
in each order. Two adjustments are one that was aborted and one that was
launched after it. Four keyframes are two roots, one that may be erased while it
is in use, and one with which a search goes on; a detection takes 2 coincidences
instead of 3, and maps are searched from 2 keyframes instead of 12, so that a
search can begin, go on, miss and be given up within them. With
`LastId = 4`, the first keyframe of the new map already taken and no fairness,
TLC finds no violation of the invariants of `PlaceRecognition` in the 15 million
states it sees in five minutes (nearly all there are; too long to be a run). Three places are a root, a plan and a place off
the trail.

`SlamThreads` has the constraint `Tight` (`loose = {}`): its liveness properties
accept everything once the protocol is loose, and it never becomes tight again,
so states beyond add nothing to them; what the invariants say of those states is
proved in `SlamThreadsProofs`. A state with `loose # {}` is still reached and
checked, only not explored further.

`NbvPlanner` runs with `AnyGain = FALSE`: a node may be worth nothing and a
search may fail, which are more behaviours than those of the shipped
`planner_params.yaml`, where `zero_gain` is -1000.

Two more runs each check one statement of a comment or docstring, and TLC
finds it violated by what the code does (details in `PROJECT.json`, "findings"):

| Run | What happens |
|---|---|
| `Mission_ExecutorSurvives` | a flight key clears the list while the executor indexes it: `IndexError` ends the node's thread |
| `Recognition_NotErasedWhileProcessed` | local mapping asks whether a keyframe may be erased, loop closing takes and protects it, local mapping erases it |

Other statements of the documentation the code does not keep, found on the way
and not run: `CorrectLoop` waits "until Local Mapping has effectively stopped"
(`LoopClosing.cc:995`), but the release of an adjustment that is just updating
the map takes its request back and it waits for ever (`CorrectionIsHeard` is the
true part); an image is stamped with "the same value the C++ SLAM node will
store" (`ros_bridge.py:149`), but image and time come on two topics that are not
paired (`OwnTimeUnlessOvertaken` is the true part); a goal's answer after a flight key starts the flight
(`mission_controller.py:462`; `OnlySearchRevives` is the true part); a plan of
the old map is flown after a map switch (`:282`); a flight to a goal goes on as
an exploration after a tracking loss (`:397`); the zero command of `land_async`
is refused by the flag it has just set (`command_handler.py:113`); a map whose
scale came too late has no transform for ever (`live_scaler.py:228`);
`planner_params.yaml:56` says the planner never aborts, but its limit on failed
samples (`nbvp.hpp:253`) still does. The models contain all of them.

## 4. Properties

MissionController:

- `FlagMeansOutstanding`: a set request flag has a request behind it, else
  exploration would be blocked for good.
- `OnlySearchRevives`: after a flight key nothing but a goal's answer, or an
  executor that had passed its check before the key came, takes the idle
  controller out of IDLE.
- `NoWaypointsLeftOver`: idle, or in the hop, the controller has no waypoint
  left; the next mission would fly it until its own plan arrives. Both the key's
  `cancel_mission` and the installation of a plan are a test and then a write
  without a lock. Of all their orders, those of several keys and plans included,
  one leaves waypoints: the path set between `clear_path` and IDLE (`crossed`).
  A key between the test of an answer and its installation does not, as the
  installation sets EXPLORING again (which `OnlySearchRevives` names).
- `NbvFlagClears`, `HopEnds`: liveness.
- Proved, not run: `OutstandingBounded`, `FlightHasPose`, `HopPhased`,
  `RecoveryMapIsCurrent`.

CommandChannel: `StaleVelocityReplaced`, `PilotWins`, `WatchdogFed`,
`QuitDisconnects`; proved, not run: `TypeOK`, `FlagsHaveWorkers` (RC is refused
only while a worker will allow it again), `AtMostTwoSlip`.

Maps in Python and C++: `ImplementsRegistry`, `OneVerdict`,
`TransitionsDecided`, `ConsumersCatchUp`; proved, not run: `TreeRegistered`
(what is in the tree lies where its map is now registered), `RegistrationFinal`.
`ConsumersCatchUp` names the code's exception (`missed`): the flag that forces
the publication of an empty tree is cleared before the tree is serialized
(`occupancy_map_node.cpp:329`).

Scales:

- `DroppedMapsForgotten`: nothing is left of a dropped map and no late result
  brings it back. The exception is real: the 'm' key's thread, stopped between
  `Decide` and `Adopt`, writes the scale of a map that `_stop_tracking` has
  just cleared; that scale may then seed other maps.
- `DepthJumpsConfirmed`: a sharp change by the depth worker has two different
  results behind it, whatever the threads and the ToF sources do in between.
- `ReliableTofWins`: a ToF reading that stays reliable becomes the scale even
  when it is far from the one before and never changes again.
- Proved, not run: `MarkHasRequest`, `RequestsBounded`. A map dropped and
  tracked again while its request is queued does send another one, although the
  comment at lines 167-169 says the mark prevents that; the bound is exactly
  these.

SLAM maps:

- `CurrentMapIsGood`: `GetCurrentMap` waits for ever, with the atlas's mutex,
  for a current map that is bad; no order of merges, resets and new maps leads
  there.
- `IdsUnique`: the rest of the program tells maps apart by an id that merges
  hand from map to map.
- `FramesMixOnlyWhenOvertaken`, `PoseInItsMap`: what a map and a published pose
  mean. The exceptions are the code's: a merge makes its match current without
  asking where tracking is (`LoopClosing.cc:1550`), so that an initialisation
  then goes into that map in a frame of its own; the id is read after the
  Track (`common.cpp:344`); and between the weld and the move of the rest
  (`:1550`, `:1649-1688`) a tracker whose reference keyframe is outside the
  window publishes poses in the old frame under the id of the match (`Behind`),
  which ends with the merge unless it has made a keyframe in that frame.
- `TopologyAnnounced`: the csv timer ends up knowing the maps there are.

Frames: `CrashOnlyAfterRestart` (the bridge keeps its ACK over a restart of the
node: the only way an image meets a node without VSLAM);
`OwnTimeUnlessOvertaken`: an image gets another frame's time, or none, only while
one of the two topics is behind the other, and times never go back;
`HandshakeCompletes`.

Threads:

- `CorrectionIsExclusive`, `MergeDeletesNoKeyFrame`, `NoThreadDetachedTwice`,
  `ResetLeavesNoKeyFrame`: what the stop protocol is for. The first two hold
  until an aborted adjustment is revived (`LoopClosing.cc:1203`). The last one
  speaks of queues and of the keyframes at work in local mapping and loop
  closing; an adjustment that is still optimising the map when it is cleared is
  not asked for by the code, nor by the property.
- `CorrectionIsHeard`, `ResetReturns`: nobody waits for ever as long as releases
  do not cross.
- `AbortsOnlyInCorrectLoop`, proved, not run: `EmptyQueue` before local mapping
  has stopped (`LoopClosing.cc:976`) lets two threads take from one list; the
  program may take the front of an empty one there and nowhere else.

Keyframes:

- `NoCycle`, `LostPoseResolves`: every walk up the tree ends, and from an erased
  keyframe it comes to a good one, in the middle of a merge as well. The
  trajectory, global bundle adjustment and the pose of a frame tracked against an
  erased keyframe rely on it. The exception of both, and of `ParentKnows`,
  (`stolen`) is the code's. `mbToBeErased` is never taken back (`KeyFrame.cc:570`),
  so a search that still holds an erased keyframe erases it again when it is given
  up, and it gives away the children that stayed in its list (`:663-670`); if a merge
  has turned the tree round in between, one of them becomes the child of its own
  descendant. TLC finds this with `LastId = 4`, without the exception.
  With more keyframes the cycle may be erased keyframe by keyframe, so that a walk
  up from one of them never comes to a good one.
- `ParentKnows`: between operations parents and children agree and nobody good
  has a bad parent. The exceptions (`astray`; and `stolen`, as above) are the code's: a parent chosen, or
  inherited from an erased keyframe, may turn bad before it is locked.
- `ProtectedIsInUse`, `DeferredErasureHappens`: `mbNotErase` lasts as long as it
  has to and no longer, except for a match that is replaced, or found without a
  coincidence (`LoopClosing.cc:874`), which nobody ever lets go. With both
  searches at work one may unprotect the match of the other, as the flag does not
  count; no property says otherwise.
- `KeyFramesPassOn`: the threads get done with each keyframe,
  unless they wait for each other's mutexes (`WaitCycle`: `SetBadFlag` locks
  children and parent, `UpdateBestCovisibles` neighbours, in no common order) or
  loop closing meets a bad candidate (`KeyFrameDatabase.cc:712`, which goes round
  without moving on), or, third, `ChangeParent` throws because a keyframe is to
  become its own parent (`Threw`, `KeyFrame.cc:494-498`). The first two are
  reached in the run. The third takes a cycle in the tree, and so an erasure that
  has stolen a child, with more keyframes than the run has. `NobodyCrashes` proves
  that while nothing is stolen there is neither this exception nor a null parent
  (`AddChild` would dereference it). The properties say there is no other way to
  hang; for keyframes beyond the bound and after a stolen child this is not known.

Planner: `PlanStartsAtDrone`, `WayBackRetraces` (both say which earlier events
void the planner's memory), `PlansAreFree`, `PlannerAnswers`.

Every `TypeOK` is proved and need not be run (`MapPipeline`'s includes that the
pose callback's cursor stays within the pending transitions, `NbvPlanner`'s the
bounds of the search loop).

## 5. Fairness

- MissionController. `SingleThreadedExecutor.spin` serves every ready entity in
  turn, so a timer or an answer that is ready again and again is served: strong
  fairness of `HopTimeout` and `NbvPlanReceived`. Weak fairness of the threads
  inside a method (`wait_for_service` has a timeout) and of the NBV planner,
  whose sampling loop is bounded (`PlannerAnswers`). Nothing is assumed of
  poses, keys, ToF readings, scales or the search planner.
- CommandChannel. Threads go on (weak fairness); an acquire of `cmd_lock`
  succeeds if the lock is free again and again (strong fairness): the queries
  wait between two rounds, 10 s for keepalive and `EXT_TOF_POLL_INTERVAL_SEC`
  for the sensor. Time passes for a silent mission. Nothing is assumed of keys
  or of the mission; `WatchdogFed` leaves out missions that start and stop for
  ever between two ticks of the loop.
- MapPipeline. Callbacks end, messages are delivered, worker, timer and time go
  on. Nothing is assumed of the SLAM node or of scales; `TransitionsDecided`
  says itself that poses must keep coming, because the code looks at pending
  transitions only in the pose callback.
- ScaleManager. Both threads go on inside a loop (weak fairness), the resolve
  timer is served however busy the executor is (strong fairness, its round-robin
  again), and time passes for an entry that stays. Nothing is assumed of the
  worker, of messages, keys or readings. `ReliableTofWins` leaves out flights in
  which an exception has ended the node's thread (`alive`): `get_scale_estimate`
  may raise one while the estimator's thread appends to its window.
- SlamNode. A callback and a merge under way come to their end (weak), and the
  executor, which takes timers before subscriptions, comes back to the csv timer
  (strong). Images need not come.
- FrameStream. The retry timer and an ACK that waits (weak), the settings
  callback in an executor that also has images to take (strong), the end of an
  initialisation and of a Track (weak). No process has to be started or kept
  running: `HandshakeCompletes` speaks of runs in which both stay.
- SlamThreads. Each of the threads is scheduled (weak fairness of each thread's
  step, up to an abort of the program). Tracking need not make keyframes, loops
  need not be found.
- PlaceRecognition. Both threads are scheduled (weak fairness of each). The
  mutexes need no more: each thread makes finitely many keyframes' worth of
  steps, so that one that wants a mutex gets it when the other has come to rest.
- NbvPlanner. A search under way goes on (weak).

## 6. Proofs

For every value of the constants that satisfies the modules' assumptions (the
special values differ from map ids, the bounds are natural numbers):

- `MissionControllerProofs`. The inductive invariant is `MissionInv`: `TypeOK`,
  `FlagMeansOutstanding`, `HopPhased`, `RecoveryMapIsCurrent` and two
  strengthenings. `NothingBeforePose` (no pose: nothing requested, no method
  under way, not flying) is needed because `FlightHasPose` depends on who may
  be inside `start_exploration`. `OutstandingTally` is `OutstandingBounded`
  with the map switch the node has not seen yet counted in advance: the
  switch is counted when SLAM makes it, the flag is cleared when the node sees
  it. `MissionInvariant` proves `Spec => []MissionInv`, one step per action;
  the theorems named after the properties follow. `OnlyGoalAnswersRevive` proves
  the action property `OnlySearchRevives`, and `NothingLeftToFly` the invariant
  `NoWaypointsLeftOver`; what makes that one inductive is `KeyClearsPath`: a path
  that is there while a flight key has cleared it and not yet set IDLE was set in
  between.
- `CommandChannelProofs`. The inductive invariant `CommandInv` adds `SlipTally`:
  the packets that have slipped plus those a thread has already decided to send
  are at most two while a takeoff or landing is in progress, and the loop never
  has one on its way then, because it is the loop that starts both.
  `CommandInvariant`, `CommandTypeCorrect`, `RefusalHasWorker` and
  `SlipsBounded` follow.
- `DataFlowProofs`, of the map pipeline and of the frame stream. The inductive
  invariant `MapInv` of the first adds two parts to
  `TypeOK`, `OneVerdict` and `TreeRegistered`. `OnlyDecided` (only a decided map
  has a transform or an open gate) makes a decision the first one of its map, so
  that it never overwrites a transform and its message never finds an open gate.
  `FramesRegistered` says of the frames in the queue and in the worker's hands
  what `TreeRegistered` says of those in the tree; it survives a decision
  because the new transform is of a map that had none. `RegistrationsFinal` and
  `PipelineImplementsRegistry` (initial state, and every step an `Accept`, a
  `Reject`, an `Insert` or a stutter) follow from it. `StreamInv`, of the
  second, joins `StreamTypeOK` with `Unanswered` (a node that has not
  initialised VSLAM and was not started late has not been answered by anybody),
  `Ordered` (a time on its way is not behind one that arrived before it),
  `TimeAtHand` (the time of an image on its way has been taken or is on its way)
  and `ImageAtHand` (an image that waits is the last one or has a later one
  behind it). `HandshakeGuards` and the action property `ImagesGetTheirTime`
  follow.
- `ScaleManagerProofs`. The inductive invariant `ScaleInv` joins `TypeOK` and
  the four safety properties with two strengthenings. `ResolvingTracked` (a map
  that is not tracked is resolved by the keyboard's thread only, and is in
  `raced`) carries `DroppedMapsForgotten` through `Adopt`. `DepthIsSeen`
  (whatever is proposed or held for the depth worker was once a result for that
  map, and what was proposed last is near the candidate) gives
  `DepthJumpsConfirmed` its two results. `NoJumpOnOneResult` holds for every
  number of confirmations above one.
- `SlamNodeProofs`. Lemmas say what each operator of `Atlas` keeps. The
  inductive invariant `MapInv` is `TypeOK`, `IdInv` and `FrameInv`. `IdInv` adds
  to the uniqueness of ids that a map being merged away is out of the set with
  an id no other map shows, so that handing it on keeps ids unique, and that
  maps still to be created own their ids. `FrameInv` adds that a tracker no
  merge has overtaken is in the one frame of the current map, in the one this
  map is still to be moved from (`Behind`), or is about to give that map its
  first: this is what an initialisation into a used map
  breaks, and only a merge can bring about.
- `SlamThreadsProofs`. `ThreadInv` has eight parts. `StopInv` ties `mbStopped`
  to the place in `Run` and `mbNotStop` to tracking. `GbaInv` says that once
  loop closing has looked at the adjustments, all that are alive were told to
  stop and will see it before the next launch; it is what `ExclusiveInv` needs,
  because only an adjustment that was not told could release local mapping
  under a correction. `HandleInv`, `QueueInv`, `ResetInv` and `RoomInv` carry
  the other properties. Each part has its lemma, with one step per action.
- `PlaceRecognitionProofs`, of `KeyFrameTree` and `PlaceRecognition`. Cycles
  and ways up are statements about paths, for which the obvious proof is an
  induction along them; the proof does without. A cycle is a non-empty set of
  keyframes whose parents are all in the set, a way up that never comes to a
  good keyframe a non-empty set of erased ones with the same property
  (`Acyclic`, `BadEnd`), and `MoveLemma` says that one keyframe which moves
  under a parent in a set it is not in, closed under parents (`Closed`), makes
  neither. What has to be known is therefore, at every place where the code
  moves a keyframe, such a set. `Ancestry` has one for each thread inside the
  last critical section of `SetBadFlag`: it holds the parent candidates and the
  ways up from them, it avoids the keyframe that is being erased, and of two
  threads that erase at least one keyframe is not above the other (`Apart`),
  although each takes the other's children and parents as it finds them.
  `Turning` has two for a merge: what hangs from the old map already, and the
  way still to be turned round; they are disjoint. `Orphans` says that whoever
  is erased has a parent and that nobody is given to itself (so that `ChangeParent`
  neither meets a null pointer nor throws, `NobodyCrashes`), `Linked` and `RestGone` that a child is known to its
  parent but for those a thread has in hand, and `Unborn` that keyframes get
  their first parent once.

  All of these are the part `Sound`, and the invariant claims it only while
  `stolen = {}`: after a keyframe has been erased twice and has given away a
  child that was no longer its own, the tree may have a cycle (section 4), and
  nothing can be said of it. `TreeHasNoCycle`, `PosesResolve` and `ParentsKnow`
  prove `NoCycle`, `LostPoseResolves` and `ParentKnows`, which have this
  condition.

  The other parts do without the condition: `Arguments`
  and `Locks` (what a thread has at hand, and which mutex it holds where),
  `MapperPhase` and `CloserPhase` (which loop is in which method), `Known` and
  `FirstOnce` (which keyframes anybody has heard of, and which of them is still
  to be connected), `MapsMergeOnce` (one merge at most, with the one keyframe of
  the old map, and nobody in a method when it begins), `Protection`, from which
  `ProtectionEnds` follows: a protected keyframe closes a loop, was leaked, is
  being processed, is about to be let go, or is the match of a search.
  `FirstMade` (a non-empty set of keyframes has one that was made first) is what
  the initial tree needs; it is the well-foundedness of finite sets from the
  library. One lemma per action says what the action does to each field
  (`...Effect`), one per part of the invariant that every step keeps it. The
  assumptions are those the module states: at least three keyframes, two
  threads, `Enough` and `SmallMap` above 0 (3 and 12 in the code).
- `NbvPlannerProofs`. `IInv` adds to `TypeOK` that the best branch runs along
  free lines from the root while a search is on, that the history and its shadow
  `led` have the same length, and that without an event that voids them the
  drone is at the next root and the trail is connected: each plan on the stack
  led to where the next one started.

Only model-checked: all liveness properties (out of the prover's reach).
Every other property of a passing run is a theorem. The old map of one keyframe
that `PlaceRecognition` starts with is part of its `Init`, and so a condition of
its theorems: merges of two maps of several keyframes each are not covered.

## 7. What is not modelled, and why

- Numbers: positions, the P-controller of the tracker, quaternions, the scale
  estimators' statistics, gains, and the numerical core of ORB-SLAM3
  (`Optimizer.cc`, `ORBmatcher.cc`, `ORBextractor.cc`, `Frame.cc`, the solvers
  and camera models). They are most of the repository's lines, and floating-point
  estimation over images: TLC cannot enumerate their inputs, TLAPS has no theory
  for them, and what they decide (a match, a loop, a lost track, a best branch)
  is a choice in the models, made at the line where the code asks.
- Within ORB-SLAM3: inertial, stereo and RGB-D branches, which the node never
  selects; saving and loading an atlas; the viewer; shutdown (`RequestFinish`);
  the weights of the covisibility graph and map points with their observations;
  resets and relocalisation against the keyframe database.
- The OMPL search of `search_cpp` and its map snapshot; peers and mesh
  inspection of `exploration_cpp`; the octomap shim's line checks.
- I/O: video, sockets, HUD, logging, CSV. Vendored libraries.

Modules that would extend this: MissionController composed with CommandChannel
(what the pilot sees when a flight key meets a mission that is just starting);
`ScaleManager` in the place of `ScaleArrives` and `ScalePruned` of `LiveScaler`,
and `SlamNode` in the place of its `SlamSwitchesMap`; the calibration hop with
heights as numbers, near the ceiling; `PlaceRecognition` with the stop protocol
and the resets of `SlamThreads`.
