------------------------- MODULE MissionController -------------------------
(***************************************************************************)
(* tello_autonomy/goals/mission_controller.py and the path it keeps in     *)
(* goals/trajectory_tracker.py.                                            *)
(*                                                                         *)
(* Two threads run this object.  The "executor" thread spins the node's    *)
(* SingleThreadedExecutor: poses, plans and the control timer, one         *)
(* callback at a time.  The "keyboard" thread is pynput's listener: it     *)
(* calls cancel_mission, start_exploration and start_mission_to_goal       *)
(* directly, with no lock.  pc[t] is the place inside a method where       *)
(* thread t can be overtaken by the other one; a callback that reads and   *)
(* writes shared state only once is one step.                              *)
(*                                                                         *)
(* Abstractions: a path is its length and the map it was planned in; a     *)
(* velocity command is its kind; a clock comparison that may go either way *)
(* is a choice of the action that makes it.                                *)
(***************************************************************************)
EXTENDS Naturals, Sequences

CONSTANTS
    Maps,           \* map_ids ORB-SLAM3 may report
    FirstMap,       \* the map_id of the first raw pose
    NoMap,          \* None, where a map_id is expected
    Unplanned,      \* a request the planner has not answered yet
    MaxPath,        \* bound: waypoints of a plan
    MaxReinits,     \* bound: map switches of the SLAM node
    MaxDups         \* bound: requests sent while one is already in flight

ASSUME MapsAssumption == /\ FirstMap \in Maps
                         /\ NoMap \notin Maps
                         /\ Unplanned \notin Maps
                         /\ Unplanned # NoMap
ASSUME BoundsAssumption == /\ MaxPath \in Nat \ {0}
                           /\ MaxReinits \in Nat
                           /\ MaxDups \in Nat

VARIABLES
    state,          \* MissionState of the node (_state)
    nbvInFlight,    \* _nbv_request_in_flight
    searchInFlight, \* _search_request_in_flight
    path,           \* TrajectoryTracker.path: [len, map]
    hasPose,        \* _has_pose
    poseFresh,      \* now - _last_pose_time <= _TRACKING_TIMEOUT_SEC
    currentMap,     \* _current_map_id
    trackingLost,   \* _tracking_lost
    recoveryMap,    \* _recovery_map_id_at_loss
    recalPhase,     \* _recal_phase ("none" is None)
    rc              \* kind of the last command given to CommandHandler

VARIABLES
    pc,             \* where each thread is inside the node's methods
    plan,           \* map of the NBV plan the executor is about to install
    nbvOut,         \* NbvPlan requests not yet delivered back, in order
    searchOut       \* SearchPlan requests not yet delivered back, in order

VARIABLES
    slamMap,        \* map_id the SLAM node currently publishes
    reinits,        \* history: map switches of the SLAM node
    yielded,        \* history: a flight key was pressed after the last command
    dups,           \* history: plan requests sent with their flag already set
    crossed         \* history: the path was installed while a flight key was
                    \* between clear_path and IDLE

missionVars == <<state, nbvInFlight, searchInFlight>>
poseVars == <<hasPose, poseFresh, currentMap>>
lossVars == <<trackingLost, recoveryMap>>
requestVars == <<nbvOut, searchOut, plan>>
envVars == <<slamMap, reinits>>
histVars == <<yielded, dups, crossed>>
vars == <<missionVars, path, poseVars, lossVars, recalPhase, rc, pc,
          requestVars, envVars, histVars>>

Threads == {"executor", "keyboard"}
States == {"IDLE", "NAVIGATING", "EXPLORING", "RECALIBRATING"}
Phases == {"none", "escape_near_field", "climb_delta", "wait_scale"}
Commands == {"hover", "move"}
NoPath == [len |-> 0, map |-> NoMap]
Paths == {NoPath} \cup [len : 1..MaxPath, map : Maps]

Goto(t, label) == pc' = [pc EXCEPT ![t] = label]
ExecutorIdle == pc["executor"] = "idle"
KeyboardIdle == pc["keyboard"] = "idle"

Init ==
    /\ state = "IDLE" /\ nbvInFlight = FALSE /\ searchInFlight = FALSE
    /\ path = NoPath
    /\ hasPose = FALSE /\ poseFresh = FALSE /\ currentMap = NoMap
    /\ trackingLost = FALSE /\ recoveryMap = NoMap
    /\ recalPhase = "none" /\ rc = "hover"
    /\ pc = [t \in Threads |-> "idle"]
    /\ plan = NoMap /\ nbvOut = <<>> /\ searchOut = <<>>
    /\ slamMap = FirstMap /\ reinits = 0
    /\ yielded = FALSE /\ dups = 0 /\ crossed = FALSE

-----------------------------------------------------------------------------
(* start_exploration and start_mission_to_goal: the guards, then up to a   *)
(* second in wait_for_service, then the flag, the state and the call.      *)

\* start_exploration called by the node itself: its early returns, or on to
\* wait_for_service.
BeginExploration ==
    Goto("executor", IF nbvInFlight \/ ~hasPose THEN "idle" ELSE "nbvResume")

NbvServiceReady(t) ==
    /\ pc[t] \in {"nbvWait", "nbvResume"}
    /\ nbvInFlight => dups < MaxDups
    /\ dups' = IF nbvInFlight THEN dups + 1 ELSE dups
    /\ nbvInFlight' = TRUE
    /\ state' = "EXPLORING"
    /\ nbvOut' = Append(nbvOut, Unplanned)
    /\ Goto(t, "idle")
    /\ UNCHANGED <<searchInFlight, path, poseVars, lossVars, recalPhase,
                   rc, plan, searchOut, envVars, yielded, crossed>>

\* start_mission_to_goal never touches _state.
SearchServiceReady(t) ==
    /\ pc[t] = "searchWait"
    /\ searchInFlight => dups < MaxDups
    /\ dups' = IF searchInFlight THEN dups + 1 ELSE dups
    /\ searchInFlight' = TRUE
    /\ searchOut' = Append(searchOut, Unplanned)
    /\ Goto(t, "idle")
    /\ UNCHANGED <<state, nbvInFlight, path, poseVars, lossVars, recalPhase,
                   rc, plan, nbvOut, envVars, yielded, crossed>>

\* wait_for_service(timeout_sec=1.0) gives up.
ServiceMissing(t) ==
    /\ pc[t] \in {"nbvWait", "nbvResume", "searchWait"}
    /\ Goto(t, "idle")
    /\ UNCHANGED <<missionVars, path, poseVars, lossVars, recalPhase,
                   rc, requestVars, envVars, histVars>>

\* The 'e' key or a message on /explore.
ExploreCommand(t) ==
    /\ pc[t] = "idle"
    /\ ~nbvInFlight /\ hasPose
    /\ Goto(t, "nbvWait")
    /\ yielded' = FALSE
    /\ UNCHANGED <<missionVars, path, poseVars, lossVars, recalPhase,
                   rc, requestVars, envVars, dups, crossed>>

\* The 'h' key or a message on /goal_pose.
GoalCommand(t) ==
    /\ pc[t] = "idle"
    /\ ~searchInFlight /\ hasPose
    /\ Goto(t, "searchWait")
    /\ yielded' = FALSE
    /\ UNCHANGED <<missionVars, path, poseVars, lossVars, recalPhase,
                   rc, requestVars, envVars, dups, crossed>>

-----------------------------------------------------------------------------
(* cancel_mission.  The executor calls it inside a callback; the keyboard  *)
(* thread can be overtaken between clearing the path and leaving the state. *)

CancelMission ==
    /\ state' = "IDLE"
    /\ path' = IF state = "IDLE" THEN path ELSE NoPath
    /\ rc' = IF state = "IDLE" THEN rc ELSE "hover"

\* A flight key: the check and clear_path.
OverrideClearPath ==
    /\ KeyboardIdle
    /\ state # "IDLE"
    /\ path' = NoPath
    /\ Goto("keyboard", "cancel")
    /\ UNCHANGED <<missionVars, poseVars, lossVars, recalPhase, rc,
                   requestVars, envVars, histVars>>

\* The rest of it: the state and the zero command.
OverrideGoIdle ==
    /\ pc["keyboard"] = "cancel"
    /\ state' = "IDLE"
    /\ rc' = "hover"
    /\ Goto("keyboard", "idle")
    /\ yielded' = TRUE
    /\ UNCHANGED <<nbvInFlight, searchInFlight, path, poseVars, lossVars,
                   recalPhase, requestVars, envVars, dups, crossed>>

\* A flight key while the mission waits for its first plan: nothing to cancel.
OverrideInIdle ==
    /\ KeyboardIdle
    /\ state = "IDLE" /\ ~yielded
    /\ yielded' = TRUE
    /\ UNCHANGED <<missionVars, path, poseVars, lossVars, recalPhase, rc, pc,
                   requestVars, envVars, dups, crossed>>

-----------------------------------------------------------------------------
(* Plans.                                                                  *)

\* set_path; a flight key may be inside cancel_mission meanwhile.
SetPath(waypoints, map) ==
    /\ path' = [len |-> waypoints, map |-> map]
    /\ crossed' = (pc["keyboard"] = "cancel")

\* Mutant: an answer that comes in IDLE leaves its flag set.
NbvPlanReceivedKeepsFlag(usable) ==
    /\ ExecutorIdle
    /\ nbvOut # <<>> /\ Head(nbvOut) # Unplanned
    /\ nbvInFlight' = (state = "IDLE")
    /\ nbvOut' = Tail(nbvOut)
    /\ IF state # "IDLE" /\ usable
         THEN /\ plan' = Head(nbvOut)
              /\ Goto("executor", "installNbv")
              /\ UNCHANGED <<state, path, rc>>
         ELSE /\ CancelMission
              /\ UNCHANGED <<plan, pc>>
    /\ UNCHANGED <<searchInFlight, poseVars, lossVars, recalPhase,
                   searchOut, envVars, histVars>>

\* Mutant: the IDLE check is dropped.
NbvPlanReceivedInIdle(usable) ==
    /\ ExecutorIdle
    /\ nbvOut # <<>> /\ Head(nbvOut) # Unplanned
    /\ nbvInFlight' = FALSE
    /\ nbvOut' = Tail(nbvOut)
    /\ IF usable
         THEN /\ SetPath(1, Head(nbvOut))
              /\ state' = "EXPLORING" /\ rc' = rc
         ELSE CancelMission /\ crossed' = crossed
    /\ UNCHANGED <<searchInFlight, poseVars, lossVars, recalPhase, plan, pc,
                   searchOut, envVars, yielded, dups>>

\* _on_nbv_plan_received up to the first write after the IDLE check; an empty
\* plan and a failed call end the mission.
NbvPlanReceived(usable) ==
    /\ ExecutorIdle
    /\ nbvOut # <<>> /\ Head(nbvOut) # Unplanned
    /\ nbvInFlight' = FALSE
    /\ nbvOut' = Tail(nbvOut)
    /\ IF state # "IDLE" /\ usable
         THEN /\ plan' = Head(nbvOut)
              /\ Goto("executor", "installNbv")
              /\ UNCHANGED <<state, path, rc>>
         ELSE /\ CancelMission
              /\ UNCHANGED <<plan, pc>>
    /\ UNCHANGED <<searchInFlight, poseVars, lossVars, recalPhase,
                   searchOut, envVars, histVars>>

InstallUnchanged == UNCHANGED <<nbvInFlight, searchInFlight, poseVars, lossVars, recalPhase,
                                rc, nbvOut, searchOut, envVars, yielded, dups>>

\* Mutant: the state is taken to be what it was at the IDLE check.
InstallKeepsState(waypoints) ==
    /\ pc["executor"] = "installNbv"
    /\ SetPath(waypoints, plan)
    /\ state' = state
    /\ plan' = NoMap
    /\ Goto("executor", "idle")
    /\ InstallUnchanged

\* set_path and the state; the first of several waypoints is dropped.
InstallNbvPlan(waypoints) ==
    /\ pc["executor"] = "installNbv"
    /\ SetPath(waypoints, plan)
    /\ state' = "EXPLORING"
    /\ plan' = NoMap
    /\ Goto("executor", "idle")
    /\ InstallUnchanged

\* _on_search_plan_received: ignored during the hop, but not in IDLE.
SearchPlanReceived(usable, waypoints) ==
    /\ ExecutorIdle
    /\ searchOut # <<>> /\ Head(searchOut) # Unplanned
    /\ searchInFlight' = FALSE
    /\ searchOut' = Tail(searchOut)
    /\ CASE state = "RECALIBRATING" -> UNCHANGED <<state, path, rc, crossed>>
         [] state # "RECALIBRATING" /\ ~usable -> CancelMission /\ crossed' = crossed
         [] OTHER -> /\ SetPath(waypoints, Head(searchOut))
                     /\ state' = "NAVIGATING"
                     /\ rc' = rc
    /\ UNCHANGED <<nbvInFlight, poseVars, lossVars, recalPhase, pc,
                   plan, nbvOut, envVars, yielded, dups>>

-----------------------------------------------------------------------------
(* Poses and ToF.                                                          *)

\* _start_reinit_calibration_hop, with the state it leaves.
StartHop ==
    /\ recalPhase' = "escape_near_field"
    /\ nbvInFlight' = FALSE /\ searchInFlight' = FALSE
    /\ state' = "RECALIBRATING"

\* _on_raw_pose on another map: cancel, hop, forget the tracking loss.
MapReinitialised ==
    /\ path' = IF state = "IDLE" THEN path ELSE NoPath
    /\ rc' = IF state = "IDLE" THEN rc ELSE "hover"
    /\ StartHop
    /\ trackingLost' = FALSE
    /\ recoveryMap' = IF trackingLost THEN NoMap ELSE recoveryMap
    /\ yielded' = FALSE

RawPose ==
    /\ ExecutorIdle
    /\ currentMap # slamMap
    /\ currentMap' = slamMap
    /\ IF currentMap # NoMap
         THEN MapReinitialised
         ELSE UNCHANGED <<missionVars, path, rc, recalPhase, lossVars,
                        yielded>>
    /\ UNCHANGED <<hasPose, poseFresh, pc, requestVars, envVars, dups, crossed>>

\* _pose_callback; m is the map the metric pose is expressed in.  LiveScaler
\* makes metric poses out of raw ones and needs seconds of them for its first
\* scale: a raw pose always comes first.
MetricPose(m) ==
    /\ ExecutorIdle
    /\ currentMap # NoMap
    /\ hasPose' = TRUE /\ poseFresh' = TRUE
    /\ trackingLost' = FALSE
    /\ recoveryMap' = IF trackingLost THEN NoMap ELSE recoveryMap
    /\ IF trackingLost /\ m = recoveryMap /\ state # "IDLE"
         THEN BeginExploration
         ELSE pc' = pc
    /\ UNCHANGED <<missionVars, path, currentMap, recalPhase,
                   rc, requestVars, envVars, histVars>>

-----------------------------------------------------------------------------
(* _control_loop while RECALIBRATING: _handle_recalibration.  The ToF      *)
(* sensor, the clock and ScaleFactorManager decide the arguments.          *)

HopTick == ExecutorIdle /\ state = "RECALIBRATING"

HopUnchanged == UNCHANGED <<nbvInFlight, searchInFlight, path, poseVars, lossVars,
                            requestVars, envVars, histVars>>

\* _finish_recalibration
FinishHop ==
    /\ recalPhase' = "none"
    /\ state' = "IDLE"
    /\ BeginExploration

\* Mutant: the cap is looked at only in the last phase.
HopTimeoutOfLastPhase ==
    HopTick /\ recalPhase = "wait_scale" /\ FinishHop /\ rc' = rc /\ HopUnchanged

\* The 8 s cap on the whole hop; the last command stays what it was.
HopTimeout == HopTick /\ FinishHop /\ rc' = rc /\ HopUnchanged

\* cleared: a ToF reading of at least TARGET_MARGIN_CM has arrived.
HopEscapeNearField(cleared) ==
    /\ HopTick
    /\ recalPhase = "escape_near_field"
    /\ recalPhase' = IF cleared THEN "climb_delta" ELSE recalPhase
    /\ rc' = IF cleared THEN rc ELSE "move"
    /\ state' = state /\ pc' = pc
    /\ HopUnchanged

\* climbed: the height has changed by DELTA_TARGET_CM since the last phase.
HopClimbDelta(climbed) ==
    /\ HopTick
    /\ recalPhase = "climb_delta"
    /\ recalPhase' = IF climbed THEN "wait_scale" ELSE recalPhase
    /\ rc' = IF climbed THEN "hover" ELSE "move"
    /\ state' = state /\ pc' = pc
    /\ HopUnchanged

\* waited: the new map has a scale, or WAIT_SCALE_TIMEOUT_SEC have passed.
HopWaitScale(waited) ==
    /\ HopTick
    /\ recalPhase = "wait_scale"
    /\ rc' = "hover"
    /\ IF waited THEN FinishHop ELSE UNCHANGED <<state, recalPhase, pc>>
    /\ HopUnchanged

-----------------------------------------------------------------------------
(* _control_loop while NAVIGATING or EXPLORING.                            *)

FlightTick == ExecutorIdle /\ state \in {"NAVIGATING", "EXPLORING"}
LossTick == FlightTick /\ hasPose /\ ~poseFresh
TrackTick == FlightTick /\ hasPose /\ poseFresh

SweepUnchanged == UNCHANGED <<missionVars, path, poseVars, recalPhase, pc,
                              requestVars, envVars, histVars>>

\* The first tick on an aged pose starts the sweep with a turn.
LoseTracking ==
    /\ LossTick /\ ~trackingLost
    /\ trackingLost' = TRUE
    /\ recoveryMap' = currentMap
    /\ rc' = "move"
    /\ SweepUnchanged

\* The sweep goes on: turning a step, or dwelling for SLAM to relocalise.
SweepTick(command) ==
    /\ LossTick /\ trackingLost
    /\ rc' = command
    /\ UNCHANGED lossVars
    /\ SweepUnchanged

PathDone ==
    /\ TrackTick
    /\ path.len = 0
    /\ rc' = "hover"
    /\ IF state = "EXPLORING"
         THEN BeginExploration /\ state' = state
         ELSE state' = "IDLE" /\ pc' = pc
    /\ UNCHANGED <<nbvInFlight, searchInFlight, path, poseVars, lossVars,
                   recalPhase, requestVars, envVars, histVars>>

\* is_done() was False: into compute_velocity_commands.
EnterTracker ==
    /\ TrackTick
    /\ path.len > 0
    /\ Goto("executor", "compute")
    /\ UNCHANGED <<missionVars, path, poseVars, lossVars, recalPhase,
                   rc, requestVars, envVars, histVars>>

\* At most one waypoint is popped; reached is position and, on the last
\* waypoint of a goal path, yaw.
ComputeVelocity(reached) ==
    /\ pc["executor"] = "compute"
    /\ LET left == IF reached /\ path.len > 0 THEN path.len - 1 ELSE path.len
       IN  /\ path' = IF left = 0 THEN NoPath ELSE [path EXCEPT !.len = left]
           /\ Goto("executor", IF left = 0 THEN "sendHover" ELSE "sendFly")
    /\ UNCHANGED <<missionVars, poseVars, lossVars, recalPhase, rc,
                   requestVars, envVars, histVars>>

\* clear_path of the other thread between a test of self.path and
\* self.path[0] or pop(0): IndexError leaves the callback, and with it
\* executor.spin() and the thread.
PathVanishes ==
    /\ pc["executor"] = "compute"
    /\ path.len = 0
    /\ Goto("executor", "dead")
    /\ UNCHANGED <<missionVars, path, poseVars, lossVars, recalPhase,
                   rc, requestVars, envVars, histVars>>

SendVelocity ==
    /\ pc["executor"] \in {"sendFly", "sendHover"}
    /\ rc' = IF pc["executor"] = "sendFly" THEN "move" ELSE "hover"
    /\ Goto("executor", "idle")
    /\ UNCHANGED <<missionVars, path, poseVars, lossVars, recalPhase,
                   requestVars, envVars, histVars>>

-----------------------------------------------------------------------------
(* The environment: the SLAM node, the two planners, and time.             *)

nodeVars == <<missionVars, path, hasPose, currentMap, lossVars, recalPhase,
              rc, pc, plan, histVars>>

\* A lost track comes back as another map: a new one, or an older one.
SlamSwitchesMap(m) ==
    /\ reinits < MaxReinits
    /\ m # slamMap
    /\ slamMap' = m
    /\ reinits' = reinits + 1
    /\ UNCHANGED <<nodeVars, poseFresh, nbvOut, searchOut>>

\* No metric pose for _TRACKING_TIMEOUT_SEC.
PoseAges ==
    /\ poseFresh
    /\ poseFresh' = FALSE
    /\ UNCHANGED <<nodeVars, nbvOut, searchOut, envVars>>

\* A single-threaded planner answers its oldest request in the map it knows.
Answered(requests) ==
    {[requests EXCEPT ![i] = slamMap] :
        i \in {j \in 1..Len(requests) : /\ requests[j] = Unplanned
                                       /\ \A k \in 1..(j - 1) : requests[k] # Unplanned}}

NbvPlannerAnswers ==
    /\ nbvOut' \in Answered(nbvOut)
    /\ UNCHANGED <<nodeVars, poseFresh, searchOut, envVars>>

SearchPlannerAnswers ==
    /\ searchOut' \in Answered(searchOut)
    /\ UNCHANGED <<nodeVars, poseFresh, nbvOut, envVars>>

-----------------------------------------------------------------------------
HopStep == \/ HopTimeout
           \/ \E reached \in BOOLEAN : \/ HopEscapeNearField(reached)
                                     \/ HopClimbDelta(reached)
                                     \/ HopWaitScale(reached)

FlightStep == \/ LoseTracking
              \/ \E command \in Commands : SweepTick(command)
              \/ PathDone \/ EnterTracker \/ PathVanishes \/ SendVelocity
              \/ \E reached \in BOOLEAN : ComputeVelocity(reached)

PlanStep == \/ \E usable \in BOOLEAN : NbvPlanReceived(usable)
            \/ \E n \in 1..MaxPath : InstallNbvPlan(n)
            \/ \E usable \in BOOLEAN, n \in 1..MaxPath : SearchPlanReceived(usable, n)

SensorStep == \/ RawPose
              \/ \E m \in {slamMap, currentMap} \cap Maps : MetricPose(m)

ServiceStep == \E t \in Threads : \/ NbvServiceReady(t) \/ SearchServiceReady(t)
                                  \/ ServiceMissing(t)

CommandStep == \E t \in Threads : ExploreCommand(t) \/ GoalCommand(t)

OverrideStep == OverrideClearPath \/ OverrideGoIdle \/ OverrideInIdle

EnvironmentStep == \/ \E m \in Maps : SlamSwitchesMap(m)
                   \/ PoseAges \/ NbvPlannerAnswers \/ SearchPlannerAnswers

Next == \/ HopStep \/ FlightStep \/ PlanStep \/ SensorStep \/ ServiceStep
        \/ CommandStep \/ OverrideStep \/ EnvironmentStep

Spec == Init /\ [][Next]_vars

(* The executor serves every ready entity in turn, so a timer or a message *)
(* that is ready again and again is served even though a callback may be   *)
(* running each time one looks: strong fairness.  The 8 s of the hop pass, *)
(* wait_for_service returns, a thread inside a method goes on, and the NBV *)
(* planner's bounded loop answers: weak fairness.                          *)
ExecutorFairness ==
    /\ SF_vars(HopTimeout)
    /\ SF_vars(\E usable \in BOOLEAN : NbvPlanReceived(usable))

ThreadFairness ==
    /\ \A t \in Threads : WF_vars(NbvServiceReady(t) \/ SearchServiceReady(t) \/ ServiceMissing(t))
    /\ WF_vars(\E n \in 1..MaxPath : InstallNbvPlan(n))
    /\ WF_vars(PathVanishes \/ \E reached \in BOOLEAN : ComputeVelocity(reached))
    /\ WF_vars(SendVelocity)
    /\ WF_vars(OverrideGoIdle)

FairSpec == Spec /\ ExecutorFairness /\ ThreadFairness /\ WF_vars(NbvPlannerAnswers)

-----------------------------------------------------------------------------
(* Every variable has its type.                                            *)
ExecutorLabels == {"idle", "nbvWait", "nbvResume", "searchWait", "installNbv", "compute",
                   "sendFly", "sendHover", "dead"}
KeyboardLabels == {"idle", "nbvWait", "searchWait", "cancel"}

TypeOK ==
    /\ state \in States
    /\ nbvInFlight \in BOOLEAN /\ searchInFlight \in BOOLEAN
    /\ path \in Paths
    /\ hasPose \in BOOLEAN /\ poseFresh \in BOOLEAN
    /\ currentMap \in Maps \cup {NoMap}
    /\ trackingLost \in BOOLEAN /\ recoveryMap \in Maps \cup {NoMap}
    /\ recalPhase \in Phases
    /\ rc \in Commands
    /\ pc \in [Threads -> ExecutorLabels \cup KeyboardLabels]
    /\ pc["executor"] \in ExecutorLabels /\ pc["keyboard"] \in KeyboardLabels
    /\ plan \in Maps \cup {NoMap} /\ (pc["executor"] = "installNbv" => plan \in Maps)
    /\ nbvOut \in Seq(Maps \cup {Unplanned})
    /\ searchOut \in Seq(Maps \cup {Unplanned})
    /\ slamMap \in Maps
    /\ reinits \in 0..MaxReinits /\ dups \in 0..MaxDups
    /\ yielded \in BOOLEAN /\ crossed \in BOOLEAN

-----------------------------------------------------------------------------
(* A request flag that is set belongs to a request that can still be       *)
(* answered; were the flag to outlive its answer, start_exploration and    *)
(* start_mission_to_goal would return early for the rest of the flight.    *)
FlagMeansOutstanding ==
    /\ nbvInFlight => nbvOut # <<>>
    /\ searchInFlight => searchOut # <<>>

(* The planners hold at most one request per flag, plus one for every map  *)
(* switch (whose hop clears the flag under a pending request) and one for  *)
(* every race of two threads through the same start method.                *)
FlagCount(flag) == IF flag THEN 1 ELSE 0

OutstandingBounded ==
    /\ Len(nbvOut) <= FlagCount(nbvInFlight) + reinits + dups
    /\ Len(searchOut) <= FlagCount(searchInFlight) + reinits + dups

(* Whatever the planners, the operator and the other thread do, the drone  *)
(* is flown only after a pose: the ~_has_pose branch of _control_loop is   *)
(* never taken.                                                            *)
FlightHasPose == state \in {"NAVIGATING", "EXPLORING"} => hasPose

(* A hop in progress is in one of its three phases, also when a flight key *)
(* abandoned an earlier hop half-way and a second map switch restarts it.  *)
HopPhased == state = "RECALIBRATING" => recalPhase # "none"

(* A tracking loss is only ever compared with the map the node is in: once *)
(* the raw poses have moved to another map, a recovery on the old one      *)
(* cannot resume exploration behind the hop's back.                        *)
RecoveryMapIsCurrent ==
    recoveryMap = IF trackingLost THEN currentMap ELSE NoMap

(* What makes the five invariants above inductive.  Before the first pose  *)
(* nothing has been asked of a planner and no method is under way; with a  *)
(* pose the map is known.                                                  *)
NothingBeforePose ==
    IF hasPose THEN currentMap # NoMap
    ELSE /\ state \in {"IDLE", "RECALIBRATING"}
         /\ nbvOut = <<>> /\ searchOut = <<>> /\ ~trackingLost
         /\ pc["executor"] = "idle" /\ pc["keyboard"] \in {"idle", "cancel"}

(* A map switch that the node has not yet seen has not yet cleared a flag. *)
SwitchUnseen == currentMap \notin {NoMap, slamMap}

OutstandingTally ==
    /\ Len(nbvOut) + FlagCount(SwitchUnseen) <= FlagCount(nbvInFlight) + reinits + dups
    /\ Len(searchOut) + FlagCount(SwitchUnseen) <= FlagCount(searchInFlight) + reinits + dups

MissionInv == /\ TypeOK /\ FlagMeansOutstanding /\ OutstandingTally
              /\ NothingBeforePose /\ HopPhased /\ RecoveryMapIsCurrent

(* After a flight key the controller leaves IDLE only by the answer to a   *)
(* goal request, which is installed in IDLE too, by a map switch, or where *)
(* the key met the executor between a check it had passed and what it then *)
(* does: between the IDLE check of an NBV answer and its installation, or  *)
(* waiting for a planner's service.  A recovery, a tick, a late pose or a  *)
(* late NBV answer never does it.                                          *)
PastItsCheck == pc["executor"] \in {"nbvWait", "nbvResume", "installNbv"}

OnlySearchRevives ==
    [][(yielded /\ state = "IDLE" /\ state' # "IDLE")
        => \/ PastItsCheck \/ currentMap' # currentMap
           \/ searchOut # <<>> /\ searchOut' = Tail(searchOut)]_vars

(* In IDLE and during the hop no waypoint of an earlier flight is left:    *)
(* start_exploration flies the tracker's path until its plan arrives, so a *)
(* left-over one would be flown by the next mission.  The flight key tests *)
(* and clears with no lock against the executor's test and installation,   *)
(* and the one interleaving that leaves waypoints is a plan installed      *)
(* between the key's clear_path and the IDLE it sets.                      *)
NoWaypointsLeftOver ==
    state \in {"IDLE", "RECALIBRATING"} => path.len = 0 \/ crossed

(* A pending NBV request does not block exploration for ever: its flag is  *)
(* cleared, unless the executor's thread has died.                         *)
NbvFlagClears == nbvInFlight ~> (~nbvInFlight \/ pc["executor"] = "dead")

(* The calibration hop ends whatever the ToF sensor and the scale manager  *)
(* do.                                                                     *)
HopEnds == state = "RECALIBRATING" ~> (state # "RECALIBRATING" \/ pc["executor"] = "dead")

-----------------------------------------------------------------------------
(* trajectory_tracker.py: compute_velocity_commands answers a missing path *)
(* with a zero command; it does not raise and take the executor with it.   *)
ExecutorSurvives == pc["executor"] # "dead"
=============================================================================
