---------------------- MODULE MissionControllerProofs ----------------------
(***************************************************************************)
(* Theorems about MissionController, for every set of map_ids and every    *)
(* bound.                                                                  *)
(***************************************************************************)
EXTENDS MissionController, TLAPS

(* A planner's answer fills in one request and neither adds nor drops one. *)
LEMMA AnsweredLemma ==
    ASSUME NEW S, NEW requests \in Seq(S), slamMap \in S, NEW answered \in Answered(requests)
    PROVE  requests # <<>> /\ answered \in Seq(S) /\ Len(answered) = Len(requests)
  BY DEF Answered

(* Dropping the oldest request and adding a new one, for a sequence.       *)
LEMMA SeqLemma ==
    ASSUME NEW S, NEW s \in Seq(S), NEW e \in S
    PROVE  /\ Append(s, e) \in Seq(S) /\ Len(Append(s, e)) = Len(s) + 1
           /\ s # <<>> => /\ Tail(s) \in Seq(S) /\ Len(Tail(s)) = Len(s) - 1
                          /\ Head(s) \in S
  OBVIOUS

-----------------------------------------------------------------------------
(* Every variable keeps its type.                                          *)
LEMMA TypeInit == Init => TypeOK
  <1> SUFFICES ASSUME Init PROVE TypeOK
    OBVIOUS
  <1> USE DEF Init
  <1>1. /\ pc \in [Threads -> ExecutorLabels \cup KeyboardLabels]
        /\ pc["executor"] \in ExecutorLabels /\ pc["keyboard"] \in KeyboardLabels
        /\ pc["executor"] # "installNbv"
    BY DEF Threads, ExecutorLabels, KeyboardLabels
  <1>2. slamMap \in Maps /\ reinits \in 0..MaxReinits /\ dups \in 0..MaxDups
    BY MapsAssumption, BoundsAssumption DEF MapsAssumption, BoundsAssumption
  <1>3. nbvOut \in Seq(Maps \cup {Unplanned}) /\ searchOut \in Seq(Maps \cup {Unplanned})
    OBVIOUS
  <1> QED BY <1>1, <1>2, <1>3 DEF TypeOK, States, Phases, Commands, Paths

LEMMA TypeHop == TypeOK /\ HopStep => TypeOK'
  <1> SUFFICES ASSUME TypeOK, HopStep PROVE TypeOK'
    OBVIOUS
  <1> USE DEF TypeOK, HopTick, HopUnchanged, requestVars, envVars, histVars, poseVars, lossVars,
              Phases, Commands, States, ExecutorIdle
  <1>1. ASSUME FinishHop, UNCHANGED rc, HopUnchanged PROVE TypeOK'
    BY <1>1 DEF FinishHop, BeginExploration, Goto, Threads, ExecutorLabels
  <1>2. CASE HopTimeout
    BY <1>2, <1>1 DEF HopTimeout
  <1>3. ASSUME NEW b \in BOOLEAN, HopEscapeNearField(b) PROVE TypeOK'
    BY <1>3 DEF HopEscapeNearField
  <1>4. ASSUME NEW b \in BOOLEAN, HopClimbDelta(b) PROVE TypeOK'
    BY <1>4 DEF HopClimbDelta
  <1>5. ASSUME NEW b \in BOOLEAN, HopWaitScale(b) PROVE TypeOK'
    BY <1>5 DEF HopWaitScale, FinishHop, BeginExploration, Goto, Threads, ExecutorLabels
  <1> QED BY <1>2, <1>3, <1>4, <1>5 DEF HopStep

LEMMA TypeFlight == TypeOK /\ FlightStep => TypeOK'
  <1> SUFFICES ASSUME TypeOK, FlightStep PROVE TypeOK'
    OBVIOUS
  <1> USE DEF TypeOK, requestVars, envVars, histVars, missionVars, poseVars, lossVars,
              Commands, States
  <1>1. CASE LoseTracking
    BY <1>1 DEF LoseTracking, SweepUnchanged
  <1>2. ASSUME NEW c \in Commands, SweepTick(c) PROVE TypeOK'
    BY <1>2 DEF SweepTick, SweepUnchanged
  <1>3. CASE PathDone
    BY <1>3 DEF PathDone, BeginExploration, Goto, Threads, ExecutorLabels
  <1>4. CASE EnterTracker
    BY <1>4 DEF EnterTracker, Goto, Threads, ExecutorLabels
  <1>5. CASE PathVanishes
    BY <1>5 DEF PathVanishes, Goto, Threads, ExecutorLabels
  <1>6. CASE SendVelocity
    BY <1>6 DEF SendVelocity, Goto, Threads, ExecutorLabels
  <1>7. ASSUME NEW b \in BOOLEAN, ComputeVelocity(b) PROVE TypeOK'
    <2> DEFINE left == IF b /\ path.len > 0 THEN path.len - 1 ELSE path.len
    <2>1. path' \in Paths
      <3>1. path' = IF left = 0 THEN NoPath ELSE [path EXCEPT !.len = left]
        BY <1>7 DEF ComputeVelocity
      <3>2. CASE left = 0
        BY <3>1, <3>2 DEF Paths
      <3>3. CASE left # 0
        <4>1. path \in [len : 1..MaxPath, map : Maps] /\ left \in 1..MaxPath
          BY <3>3, BoundsAssumption DEF BoundsAssumption, Paths, NoPath
        <4> QED BY <3>1, <3>3, <4>1 DEF Paths
      <3> QED BY <3>2, <3>3
    <2>2. Goto("executor", IF left = 0 THEN "sendHover" ELSE "sendFly")
      BY <1>7 DEF ComputeVelocity
    <2> QED BY <1>7, <2>1, <2>2 DEF ComputeVelocity, Goto, Threads, ExecutorLabels
  <1> QED BY <1>1, <1>2, <1>3, <1>4, <1>5, <1>6, <1>7 DEF FlightStep

LEMMA TypeCancel ==
    ASSUME state \in States, path \in Paths, rc \in Commands, CancelMission
    PROVE  state' \in States /\ path' \in Paths /\ rc' \in Commands
  <1>1. NoPath \in Paths
    BY DEF NoPath, Paths
  <1>2. path' \in Paths
    BY <1>1 DEF CancelMission
  <1> QED BY <1>2 DEF CancelMission, States, Commands

LEMMA TypePlan == TypeOK /\ PlanStep => TypeOK'
  <1> SUFFICES ASSUME TypeOK, PlanStep PROVE TypeOK'
    OBVIOUS
  <1> DEFINE Requests == Maps \cup {Unplanned}
  <1> USE DEF TypeOK, envVars, histVars, poseVars, lossVars, Commands, States
  <1>1. ASSUME NEW u \in BOOLEAN, NbvPlanReceived(u) PROVE TypeOK'
    <2>1. Tail(nbvOut) \in Seq(Requests) /\ Head(nbvOut) \in Requests
      BY <1>1, SeqLemma DEF NbvPlanReceived
    <2>a. nbvOut' \in Seq(Requests) /\ nbvInFlight' = FALSE
      BY <1>1, <2>1 DEF NbvPlanReceived
    <2>2. CASE state # "IDLE" /\ u
      <3>1. /\ plan' \in Maps
            /\ pc' = [pc EXCEPT !["executor"] = "installNbv"]
            /\ UNCHANGED <<state, path, rc>>
        BY <1>1, <2>1, <2>2 DEF NbvPlanReceived, Goto
      <3>2. UNCHANGED <<searchInFlight, poseVars, lossVars, recalPhase, searchOut,
                        envVars, histVars>>
        BY <1>1 DEF NbvPlanReceived
      <3>3. /\ pc' \in [Threads -> ExecutorLabels \cup KeyboardLabels]
            /\ pc'["executor"] \in ExecutorLabels /\ pc'["keyboard"] \in KeyboardLabels
        BY <3>1 DEF Threads, ExecutorLabels
      <3> QED BY <2>a, <3>1, <3>2, <3>3, ZenonT(30)
    <2>3. CASE ~(state # "IDLE" /\ u)
      <3>1. CancelMission
        BY <1>1, <2>3 DEF NbvPlanReceived
      <3>2. UNCHANGED <<plan, pc, searchInFlight, poseVars, lossVars, recalPhase, searchOut,
                        envVars, histVars>>
        BY <1>1, <2>3 DEF NbvPlanReceived
      <3>3. state' \in States /\ path' \in Paths /\ rc' \in Commands
        BY <3>1, TypeCancel
      <3> QED BY <2>a, <3>2, <3>3
    <2> QED BY <2>2, <2>3
  <1>2. ASSUME NEW n \in 1..MaxPath, InstallNbvPlan(n) PROVE TypeOK'
    <2>1. path' \in Paths /\ crossed' \in BOOLEAN /\ plan' = NoMap
      BY <1>2 DEF InstallNbvPlan, SetPath, Paths
    <2>2. /\ pc' \in [Threads -> ExecutorLabels \cup KeyboardLabels]
          /\ pc'["executor"] \in ExecutorLabels \ {"installNbv"}
          /\ pc'["keyboard"] \in KeyboardLabels
      BY <1>2 DEF InstallNbvPlan, Goto, Threads, ExecutorLabels
    <2>3. state' \in States /\ InstallUnchanged
      BY <1>2 DEF InstallNbvPlan
    <2> QED BY <2>1, <2>2, <2>3 DEF InstallUnchanged
  <1>3. ASSUME NEW u \in BOOLEAN, NEW n \in 1..MaxPath, SearchPlanReceived(u, n) PROVE TypeOK'
    <2>1. Tail(searchOut) \in Seq(Requests) /\ Head(searchOut) \in Maps
      BY <1>3, SeqLemma DEF SearchPlanReceived
    <2>a. searchOut' \in Seq(Requests) /\ searchInFlight' = FALSE
      BY <1>3, <2>1 DEF SearchPlanReceived
    <2>b. UNCHANGED <<nbvInFlight, poseVars, lossVars, recalPhase, pc,
                      plan, nbvOut, envVars, yielded, dups>>
      BY <1>3 DEF SearchPlanReceived
    <2>c. crossed' \in BOOLEAN
      BY <1>3 DEF SearchPlanReceived, SetPath
    <2>2. CASE state = "RECALIBRATING"
      <3>1. UNCHANGED <<state, path, rc>>
        BY <1>3, <2>2 DEF SearchPlanReceived
      <3> QED BY <2>a, <2>b, <2>c, <3>1, ZenonT(30)
    <2>3. CASE state # "RECALIBRATING" /\ ~u
      <3>1. CancelMission
        BY <1>3, <2>3 DEF SearchPlanReceived
      <3>2. state' \in States /\ path' \in Paths /\ rc' \in Commands
        BY <3>1, TypeCancel
      <3> QED BY <2>a, <2>b, <2>c, <3>2
    <2>4. CASE state # "RECALIBRATING" /\ u
      <3>1. [len |-> n, map |-> Head(searchOut)] \in Paths
        BY <2>1 DEF Paths
      <3>2. path' \in Paths /\ state' \in States /\ rc' = rc
        BY <1>3, <2>4, <3>1 DEF SearchPlanReceived, SetPath
      <3> QED BY <2>a, <2>b, <2>c, <3>2
    <2> QED BY <2>2, <2>3, <2>4
  <1> QED BY <1>1, <1>2, <1>3 DEF PlanStep

LEMMA TypeSensor == TypeOK /\ SensorStep => TypeOK'
  <1> SUFFICES ASSUME TypeOK, SensorStep PROVE TypeOK'
    OBVIOUS
  <1> USE DEF TypeOK, requestVars, envVars, histVars, missionVars, lossVars
  <1>1. CASE RawPose
    <2>1. NoPath \in Paths
      BY DEF Paths
    <2>2. CASE currentMap # NoMap
      BY <1>1, <2>1, <2>2 DEF RawPose, MapReinitialised, StartHop, Commands, States, Phases
    <2>3. CASE currentMap = NoMap
      BY <1>1, <2>3 DEF RawPose
    <2> QED BY <2>2, <2>3
  <1>2. ASSUME NEW m, MetricPose(m) PROVE TypeOK'
    BY <1>2 DEF MetricPose, BeginExploration, Goto, Threads, ExecutorLabels
  <1> QED BY <1>1, <1>2 DEF SensorStep

LEMMA TypeCommand == TypeOK /\ (CommandStep \/ OverrideStep) => TypeOK'
  <1> SUFFICES ASSUME TypeOK, CommandStep \/ OverrideStep PROVE TypeOK'
    OBVIOUS
  <1> USE DEF TypeOK, requestVars, envVars, histVars, missionVars, poseVars, lossVars
  <1>1. ASSUME NEW t \in Threads, ExploreCommand(t) \/ GoalCommand(t) PROVE TypeOK'
    <2>1. /\ pc' \in [Threads -> ExecutorLabels \cup KeyboardLabels]
          /\ pc'["executor"] \in ExecutorLabels /\ pc'["keyboard"] \in KeyboardLabels
          /\ pc'["executor"] = "installNbv" => pc["executor"] = "installNbv"
      BY <1>1 DEF ExploreCommand, GoalCommand, Goto, Threads, ExecutorLabels, KeyboardLabels
    <2> QED BY <1>1, <2>1 DEF ExploreCommand, GoalCommand
  <1>2. CASE OverrideStep
    <2>1. /\ pc' \in [Threads -> ExecutorLabels \cup KeyboardLabels]
          /\ pc'["executor"] \in ExecutorLabels /\ pc'["keyboard"] \in KeyboardLabels
          /\ pc'["executor"] = "installNbv" => pc["executor"] = "installNbv"
      BY <1>2 DEF OverrideStep, OverrideClearPath, OverrideGoIdle, OverrideInIdle,
                  KeyboardIdle, Goto, Threads, KeyboardLabels
    <2>2. CASE OverrideClearPath
      BY <2>2, <2>1 DEF OverrideClearPath, Paths
    <2>3. CASE OverrideGoIdle
      BY <2>3, <2>1 DEF OverrideGoIdle, States, Commands
    <2>4. CASE OverrideInIdle
      BY <2>4, <2>1 DEF OverrideInIdle
    <2> QED BY <1>2, <2>2, <2>3, <2>4 DEF OverrideStep
  <1> QED BY <1>1, <1>2 DEF CommandStep

LEMMA TypeService == TypeOK /\ ServiceStep => TypeOK'
  <1> SUFFICES ASSUME TypeOK, ServiceStep PROVE TypeOK'
    OBVIOUS
  <1> DEFINE Requests == Maps \cup {Unplanned}
  <1> USE DEF TypeOK, envVars, histVars, missionVars, requestVars, poseVars, lossVars, States
  <1>1. PICK t \in Threads : NbvServiceReady(t) \/ SearchServiceReady(t) \/ ServiceMissing(t)
    BY DEF ServiceStep
  <1>2. /\ pc' \in [Threads -> ExecutorLabels \cup KeyboardLabels]
        /\ pc'["executor"] \in ExecutorLabels /\ pc'["keyboard"] \in KeyboardLabels
        /\ pc'["executor"] = "installNbv" => pc["executor"] = "installNbv"
    BY <1>1 DEF NbvServiceReady, SearchServiceReady, ServiceMissing, Goto, Threads,
                ExecutorLabels, KeyboardLabels
  <1>3. Append(nbvOut, Unplanned) \in Seq(Requests) /\ Append(searchOut, Unplanned) \in Seq(Requests)
    BY SeqLemma
  <1>4. CASE NbvServiceReady(t)
    <2>1. dups' \in 0..MaxDups
      BY <1>4, BoundsAssumption DEF NbvServiceReady, BoundsAssumption
    <2> QED BY <1>4, <1>2, <1>3, <2>1 DEF NbvServiceReady
  <1>5. CASE SearchServiceReady(t)
    <2>1. dups' \in 0..MaxDups
      BY <1>5, BoundsAssumption DEF SearchServiceReady, BoundsAssumption
    <2> QED BY <1>5, <1>2, <1>3, <2>1 DEF SearchServiceReady
  <1>6. CASE ServiceMissing(t)
    BY <1>6, <1>2 DEF ServiceMissing
  <1> QED BY <1>1, <1>4, <1>5, <1>6

LEMMA TypeEnvironment == TypeOK /\ EnvironmentStep => TypeOK'
  <1> SUFFICES ASSUME TypeOK, EnvironmentStep PROVE TypeOK'
    OBVIOUS
  <1> USE DEF TypeOK, nodeVars, envVars, histVars, missionVars, lossVars
  <1>1. ASSUME NEW m \in Maps, SlamSwitchesMap(m) PROVE TypeOK'
    BY <1>1, BoundsAssumption DEF SlamSwitchesMap, BoundsAssumption
  <1>2. CASE PoseAges
    BY <1>2 DEF PoseAges
  <1>3. CASE NbvPlannerAnswers
    BY <1>3, AnsweredLemma DEF NbvPlannerAnswers
  <1>4. CASE SearchPlannerAnswers
    BY <1>4, AnsweredLemma DEF SearchPlannerAnswers
  <1> QED BY <1>1, <1>2, <1>3, <1>4 DEF EnvironmentStep

LEMMA TypeNext == TypeOK /\ [Next]_vars => TypeOK'
  <1> SUFFICES ASSUME TypeOK, [Next]_vars PROVE TypeOK'
    OBVIOUS
  <1>1. CASE Next
    BY <1>1, TypeHop, TypeFlight, TypePlan, TypeSensor, TypeService, TypeCommand, TypeEnvironment
    DEF Next
  <1>2. CASE UNCHANGED vars
    BY <1>2 DEF TypeOK, vars, missionVars, poseVars, lossVars, requestVars, envVars, histVars
  <1> QED BY <1>1, <1>2

-----------------------------------------------------------------------------
(* Flying, hopping, and the operator's keys leave requests and maps alone. *)
LEMMA QuietSteps ==
    HopStep \/ FlightStep \/ CommandStep \/ OverrideStep
      => UNCHANGED <<nbvInFlight, searchInFlight, nbvOut, searchOut,
                     currentMap, slamMap, reinits, dups>>
  <1> USE DEF requestVars, envVars, histVars, missionVars, poseVars
  <1>1. HopStep => UNCHANGED <<nbvInFlight, searchInFlight, requestVars, poseVars, envVars, dups>>
    BY DEF HopStep, HopTimeout, HopEscapeNearField, HopClimbDelta, HopWaitScale, HopUnchanged
  <1>2. FlightStep => UNCHANGED <<nbvInFlight, searchInFlight, requestVars, poseVars, envVars, dups>>
    BY DEF FlightStep, LoseTracking, SweepTick, SweepUnchanged, PathDone, EnterTracker,
           PathVanishes, SendVelocity, ComputeVelocity
  <1>3. CommandStep \/ OverrideStep
          => UNCHANGED <<nbvInFlight, searchInFlight, requestVars, poseVars, envVars, dups>>
    BY DEF CommandStep, ExploreCommand, GoalCommand,
           OverrideStep, OverrideClearPath, OverrideGoIdle, OverrideInIdle
  <1> QED BY <1>1, <1>2, <1>3

LEMMA FlagsNext == TypeOK /\ FlagMeansOutstanding /\ [Next]_vars => FlagMeansOutstanding'
  <1> SUFFICES ASSUME TypeOK, FlagMeansOutstanding, [Next]_vars PROVE FlagMeansOutstanding'
    OBVIOUS
  <1> USE DEF FlagMeansOutstanding, requestVars, missionVars
  <1>1. CASE HopStep \/ FlightStep \/ CommandStep \/ OverrideStep
    BY <1>1, QuietSteps
  <1>2. CASE PlanStep
    BY <1>2 DEF PlanStep, NbvPlanReceived, InstallNbvPlan, InstallUnchanged, SetPath, SearchPlanReceived
  <1>3. CASE SensorStep
    BY <1>3 DEF SensorStep, RawPose, MapReinitialised, StartHop, MetricPose
  <1>4. CASE ServiceStep
    <2>1. Append(nbvOut, Unplanned) # <<>> /\ Append(searchOut, Unplanned) # <<>>
      BY DEF TypeOK
    <2> QED BY <1>4, <2>1 DEF ServiceStep, NbvServiceReady, SearchServiceReady, ServiceMissing
  <1>5. CASE EnvironmentStep
    <2>1. nbvOut # <<>> => nbvOut' # <<>>
      BY <1>5, AnsweredLemma
      DEF TypeOK, EnvironmentStep, SlamSwitchesMap, PoseAges, NbvPlannerAnswers, SearchPlannerAnswers
    <2>2. searchOut # <<>> => searchOut' # <<>>
      BY <1>5, AnsweredLemma
      DEF TypeOK, EnvironmentStep, SlamSwitchesMap, PoseAges, NbvPlannerAnswers, SearchPlannerAnswers
    <2>3. UNCHANGED missionVars
      BY <1>5 DEF EnvironmentStep, SlamSwitchesMap, PoseAges, NbvPlannerAnswers,
                  SearchPlannerAnswers, nodeVars
    <2> QED BY <2>1, <2>2, <2>3
  <1>6. CASE UNCHANGED vars
    BY <1>6 DEF vars
  <1> QED BY <1>1, <1>2, <1>3, <1>4, <1>5, <1>6 DEF Next

LEMMA TallyNext == TypeOK /\ OutstandingTally /\ [Next]_vars => OutstandingTally'
  <1> SUFFICES ASSUME TypeOK, OutstandingTally, [Next]_vars PROVE OutstandingTally'
    OBVIOUS
  <1> USE DEF OutstandingTally, FlagCount, SwitchUnseen, requestVars, missionVars, envVars, histVars
  <1>0. /\ Len(nbvOut) \in Nat /\ Len(searchOut) \in Nat /\ reinits \in Nat /\ dups \in Nat
        /\ nbvInFlight \in BOOLEAN /\ searchInFlight \in BOOLEAN
        /\ slamMap \in Maps /\ slamMap # NoMap
    BY MapsAssumption, BoundsAssumption DEF TypeOK, MapsAssumption, BoundsAssumption
  <1>1. CASE HopStep \/ FlightStep \/ CommandStep \/ OverrideStep
    BY <1>1, QuietSteps
  <1>2. CASE PlanStep
    <2>1. nbvOut # <<>> => Len(Tail(nbvOut)) = Len(nbvOut) - 1
      BY SeqLemma DEF TypeOK
    <2>2. searchOut # <<>> => Len(Tail(searchOut)) = Len(searchOut) - 1
      BY SeqLemma DEF TypeOK
    <2>3. UNCHANGED <<currentMap, slamMap, reinits, dups>>
      BY <1>2 DEF PlanStep, NbvPlanReceived, InstallNbvPlan, InstallUnchanged, SetPath, SearchPlanReceived, poseVars
    <2>4. Len(nbvOut') <= Len(nbvOut) /\ (nbvInFlight' # nbvInFlight => Len(nbvOut') = Len(nbvOut) - 1)
      BY <1>0, <1>2, <2>1 DEF PlanStep, NbvPlanReceived, InstallNbvPlan, InstallUnchanged, SetPath, SearchPlanReceived
    <2>5. Len(searchOut') <= Len(searchOut)
          /\ (searchInFlight' # searchInFlight => Len(searchOut') = Len(searchOut) - 1)
      BY <1>0, <1>2, <2>2 DEF PlanStep, NbvPlanReceived, InstallNbvPlan, InstallUnchanged, SetPath, SearchPlanReceived
    <2> QED BY <1>0, <2>3, <2>4, <2>5
  <1>3. CASE SensorStep
    <2>1. CASE RawPose
      BY <1>0, <2>1 DEF RawPose, MapReinitialised, StartHop
    <2>2. ASSUME NEW m, MetricPose(m) PROVE OutstandingTally'
      BY <2>2 DEF MetricPose
    <2> QED BY <1>3, <2>1, <2>2 DEF SensorStep
  <1>4. CASE ServiceStep
    <2>1. /\ Len(Append(nbvOut, Unplanned)) = Len(nbvOut) + 1
          /\ Len(Append(searchOut, Unplanned)) = Len(searchOut) + 1
      BY SeqLemma DEF TypeOK
    <2>2. PICK t \in Threads : NbvServiceReady(t) \/ SearchServiceReady(t) \/ ServiceMissing(t)
      BY <1>4 DEF ServiceStep
    <2>3. CASE NbvServiceReady(t)
      BY <1>0, <2>1, <2>3 DEF NbvServiceReady, poseVars
    <2>4. CASE SearchServiceReady(t)
      BY <1>0, <2>1, <2>4 DEF SearchServiceReady, poseVars
    <2>5. CASE ServiceMissing(t)
      BY <2>5 DEF ServiceMissing, poseVars
    <2> QED BY <2>2, <2>3, <2>4, <2>5
  <1>5. CASE EnvironmentStep
    <2> USE DEF nodeVars
    <2>1. ASSUME NEW m \in Maps, SlamSwitchesMap(m) PROVE OutstandingTally'
      BY <1>0, <2>1 DEF SlamSwitchesMap
    <2>2. CASE PoseAges
      BY <2>2 DEF PoseAges
    <2>3. CASE NbvPlannerAnswers
      <3>1. Len(nbvOut') = Len(nbvOut)
        BY <2>3, AnsweredLemma DEF NbvPlannerAnswers, TypeOK
      <3> QED BY <2>3, <3>1 DEF NbvPlannerAnswers
    <2>4. CASE SearchPlannerAnswers
      <3>1. Len(searchOut') = Len(searchOut)
        BY <2>4, AnsweredLemma DEF SearchPlannerAnswers, TypeOK
      <3> QED BY <2>4, <3>1 DEF SearchPlannerAnswers
    <2> QED BY <1>5, <2>1, <2>2, <2>3, <2>4 DEF EnvironmentStep
  <1>6. CASE UNCHANGED vars
    BY <1>6 DEF vars, poseVars
  <1> QED BY <1>1, <1>2, <1>3, <1>4, <1>5, <1>6 DEF Next

LEMMA PoseNext == TypeOK /\ NothingBeforePose /\ [Next]_vars => NothingBeforePose'
  <1> SUFFICES ASSUME TypeOK, NothingBeforePose, [Next]_vars PROVE NothingBeforePose'
    OBVIOUS
  <1> USE DEF NothingBeforePose, poseVars, lossVars, requestVars, missionVars
  <1>0. /\ slamMap # NoMap /\ hasPose \in BOOLEAN
        /\ pc \in [Threads -> ExecutorLabels \cup KeyboardLabels]
    BY MapsAssumption DEF TypeOK, MapsAssumption
  <1>1. CASE HopStep
    BY <1>0, <1>1 DEF HopStep, HopTimeout, HopEscapeNearField, HopClimbDelta, HopWaitScale,
                      HopTick, HopUnchanged, FinishHop, BeginExploration, Goto, Threads
  <1>2. CASE FlightStep
    BY <1>2 DEF FlightStep, LoseTracking, SweepTick, SweepUnchanged, PathDone, EnterTracker,
                PathVanishes, SendVelocity, ComputeVelocity, LossTick, TrackTick, FlightTick
  <1>3. CASE PlanStep
    BY <1>3 DEF PlanStep, NbvPlanReceived, InstallNbvPlan, InstallUnchanged, SetPath, SearchPlanReceived
  <1>4. CASE SensorStep
    BY <1>0, <1>4 DEF SensorStep, RawPose, MapReinitialised, StartHop, MetricPose
  <1>5. CASE ServiceStep
    BY <1>5 DEF ServiceStep, NbvServiceReady, SearchServiceReady, ServiceMissing, Threads
  <1>6. CASE CommandStep
    BY <1>6 DEF CommandStep, ExploreCommand, GoalCommand
  <1>7. CASE OverrideStep
    BY <1>0, <1>7 DEF OverrideStep, OverrideClearPath, OverrideGoIdle, OverrideInIdle,
                      Goto, Threads
  <1>8. CASE EnvironmentStep
    <2>1. nbvOut = <<>> => nbvOut' = <<>>
      BY <1>8, AnsweredLemma
      DEF TypeOK, EnvironmentStep, SlamSwitchesMap, PoseAges, NbvPlannerAnswers, SearchPlannerAnswers
    <2>2. searchOut = <<>> => searchOut' = <<>>
      BY <1>8, AnsweredLemma
      DEF TypeOK, EnvironmentStep, SlamSwitchesMap, PoseAges, NbvPlannerAnswers, SearchPlannerAnswers
    <2>3. UNCHANGED <<hasPose, currentMap, state, trackingLost, pc>>
      BY <1>8 DEF EnvironmentStep, SlamSwitchesMap, PoseAges, NbvPlannerAnswers,
                  SearchPlannerAnswers, nodeVars
    <2> QED BY <2>1, <2>2, <2>3
  <1>9. CASE UNCHANGED vars
    BY <1>9 DEF vars
  <1> QED BY <1>1, <1>2, <1>3, <1>4, <1>5, <1>6, <1>7, <1>8, <1>9 DEF Next

LEMMA HopNext == TypeOK /\ HopPhased /\ [Next]_vars => HopPhased'
  <1> SUFFICES ASSUME TypeOK, HopPhased, [Next]_vars PROVE HopPhased'
    OBVIOUS
  <1> USE DEF HopPhased, missionVars
  <1>1. CASE HopStep
    BY <1>1 DEF HopStep, HopTimeout, HopEscapeNearField, HopClimbDelta, HopWaitScale, FinishHop
  <1>2. CASE FlightStep
    BY <1>2 DEF FlightStep, LoseTracking, SweepTick, SweepUnchanged, PathDone, EnterTracker,
                PathVanishes, SendVelocity, ComputeVelocity, FlightTick, TrackTick
  <1>3. CASE PlanStep
    BY <1>3 DEF PlanStep, NbvPlanReceived, InstallNbvPlan, InstallUnchanged, SetPath, SearchPlanReceived, CancelMission
  <1>4. CASE SensorStep
    BY <1>4 DEF SensorStep, RawPose, MapReinitialised, StartHop, MetricPose
  <1>5. CASE ServiceStep
    BY <1>5 DEF ServiceStep, NbvServiceReady, SearchServiceReady, ServiceMissing
  <1>6. CASE CommandStep \/ OverrideStep
    BY <1>6 DEF CommandStep, ExploreCommand, GoalCommand,
                OverrideStep, OverrideClearPath, OverrideGoIdle, OverrideInIdle
  <1>7. CASE EnvironmentStep
    BY <1>7 DEF EnvironmentStep, SlamSwitchesMap, PoseAges, NbvPlannerAnswers,
                SearchPlannerAnswers, nodeVars
  <1>8. CASE UNCHANGED vars
    BY <1>8 DEF vars
  <1> QED BY <1>1, <1>2, <1>3, <1>4, <1>5, <1>6, <1>7, <1>8 DEF Next

(* The first raw pose finds no tracking loss: that needs a metric pose.    *)
LEMMA LossNext ==
    TypeOK /\ NothingBeforePose /\ RecoveryMapIsCurrent /\ [Next]_vars => RecoveryMapIsCurrent'
  <1> SUFFICES ASSUME TypeOK, NothingBeforePose, RecoveryMapIsCurrent, [Next]_vars
               PROVE  RecoveryMapIsCurrent'
    OBVIOUS
  <1> USE DEF RecoveryMapIsCurrent, lossVars, poseVars
  <1>1. CASE HopStep \/ CommandStep \/ OverrideStep \/ PlanStep \/ ServiceStep
    <2>1. HopStep => UNCHANGED <<lossVars, poseVars>>
      BY DEF HopStep, HopTimeout, HopEscapeNearField, HopClimbDelta, HopWaitScale, HopUnchanged
    <2>2. CommandStep \/ OverrideStep => UNCHANGED <<lossVars, poseVars>>
      BY DEF CommandStep, ExploreCommand, GoalCommand,
             OverrideStep, OverrideClearPath, OverrideGoIdle, OverrideInIdle
    <2>3. PlanStep => UNCHANGED <<lossVars, poseVars>>
      BY DEF PlanStep, NbvPlanReceived, InstallNbvPlan, InstallUnchanged, SetPath, SearchPlanReceived
    <2>4. ServiceStep => UNCHANGED <<lossVars, poseVars>>
      BY DEF ServiceStep, NbvServiceReady, SearchServiceReady, ServiceMissing
    <2> QED BY <1>1, <2>1, <2>2, <2>3, <2>4
  <1>2. CASE FlightStep
    BY <1>2 DEF FlightStep, LoseTracking, SweepTick, SweepUnchanged, PathDone, EnterTracker,
                PathVanishes, SendVelocity, ComputeVelocity
  <1>3. CASE SensorStep
    BY <1>3 DEF SensorStep, RawPose, MapReinitialised, MetricPose, NothingBeforePose
  <1>4. CASE EnvironmentStep
    BY <1>4 DEF EnvironmentStep, SlamSwitchesMap, PoseAges, NbvPlannerAnswers,
                SearchPlannerAnswers, nodeVars
  <1>5. CASE UNCHANGED vars
    BY <1>5 DEF vars
  <1> QED BY <1>1, <1>2, <1>3, <1>4, <1>5 DEF Next

-----------------------------------------------------------------------------
(* The inductive invariant holds.                                          *)
THEOREM MissionInvariant == Spec => []MissionInv
  <1>1. Init => MissionInv
    <2> SUFFICES ASSUME Init PROVE MissionInv
      OBVIOUS
    <2>1. TypeOK
      BY TypeInit
    <2> USE DEF Init
    <2>2. Len(nbvOut) = 0 /\ Len(searchOut) = 0 /\ ~SwitchUnseen
      BY DEF SwitchUnseen
    <2>3. FlagMeansOutstanding
      BY DEF FlagMeansOutstanding
    <2>4. OutstandingTally
      BY <2>2 DEF OutstandingTally, FlagCount
    <2>5. NothingBeforePose
      BY DEF NothingBeforePose, Threads
    <2>6. HopPhased /\ RecoveryMapIsCurrent
      BY DEF HopPhased, RecoveryMapIsCurrent
    <2> QED BY <2>1, <2>3, <2>4, <2>5, <2>6 DEF MissionInv
  <1>2. MissionInv /\ [Next]_vars => MissionInv'
    BY TypeNext, FlagsNext, TallyNext, PoseNext, HopNext, LossNext DEF MissionInv
  <1> QED BY <1>1, <1>2, PTL DEF Spec

(* Every variable has its type.                                            *)
THEOREM TypeCorrect == Spec => []TypeOK
  <1>1. MissionInv => TypeOK
    BY DEF MissionInv
  <1> QED BY <1>1, MissionInvariant, PTL

(* A request flag never outlives the request it stands for, whatever the   *)
(* interleaving of keys, plans and map switches.                           *)
THEOREM FlagsNeverStick == Spec => []FlagMeansOutstanding
  <1>1. MissionInv => FlagMeansOutstanding
    BY DEF MissionInv
  <1> QED BY <1>1, MissionInvariant, PTL

(* The planners never hold more requests than flags, map switches and      *)
(* thread races account for.                                               *)
THEOREM RequestsBounded == Spec => []OutstandingBounded
  <1>1. MissionInv => OutstandingBounded
    <2> SUFFICES ASSUME MissionInv PROVE OutstandingBounded
      OBVIOUS
    <2>1. /\ Len(nbvOut) \in Nat /\ Len(searchOut) \in Nat
          /\ FlagCount(nbvInFlight) + reinits + dups \in Nat
          /\ FlagCount(searchInFlight) + reinits + dups \in Nat
          /\ FlagCount(SwitchUnseen) \in Nat
      BY BoundsAssumption DEF MissionInv, TypeOK, FlagCount, BoundsAssumption
    <2> QED BY <2>1 DEF MissionInv, OutstandingTally, OutstandingBounded
  <1> QED BY <1>1, MissionInvariant, PTL

(* The drone is flown autonomously only after a pose.                      *)
THEOREM NoBlindFlight == Spec => []FlightHasPose
  <1>1. MissionInv => FlightHasPose
    BY DEF MissionInv, NothingBeforePose, FlightHasPose
  <1> QED BY <1>1, MissionInvariant, PTL

(* A hop in progress always has a phase.                                   *)
THEOREM HopsHavePhases == Spec => []HopPhased
  <1>1. MissionInv => HopPhased
    BY DEF MissionInv
  <1> QED BY <1>1, MissionInvariant, PTL

(* A tracking loss is only ever compared with the current map.             *)
THEOREM RecoveryComparesCurrentMap == Spec => []RecoveryMapIsCurrent
  <1>1. MissionInv => RecoveryMapIsCurrent
    BY DEF MissionInv
  <1> QED BY <1>1, MissionInvariant, PTL

(* The listener runs one key's callback at a time, so a flight key comes   *)
(* after whatever start method it was in.                                  *)
YieldedOutsideMethods == yielded => pc["keyboard"] \in {"idle", "cancel"}

LEMMA YieldedNext ==
    TypeOK /\ YieldedOutsideMethods /\ [Next]_vars => YieldedOutsideMethods'
  <1> SUFFICES ASSUME TypeOK, YieldedOutsideMethods, [Next]_vars PROVE YieldedOutsideMethods'
    OBVIOUS
  <1> USE DEF YieldedOutsideMethods, histVars
  <1>0. pc \in [Threads -> ExecutorLabels \cup KeyboardLabels]
    BY DEF TypeOK
  <1>1. CASE HopStep
    BY <1>0, <1>1 DEF HopStep, HopTimeout, HopEscapeNearField, HopClimbDelta, HopWaitScale,
                      HopUnchanged, FinishHop, BeginExploration, Goto, Threads
  <1>2. CASE FlightStep
    BY <1>0, <1>2 DEF FlightStep, LoseTracking, SweepTick, SweepUnchanged, PathDone, EnterTracker,
                      PathVanishes, SendVelocity, ComputeVelocity, BeginExploration, Goto, Threads
  <1>3. CASE PlanStep
    BY <1>0, <1>3 DEF PlanStep, NbvPlanReceived, InstallNbvPlan, InstallUnchanged, SetPath, SearchPlanReceived, Goto, Threads
  <1>4. CASE SensorStep
    BY <1>0, <1>4 DEF SensorStep, RawPose, MapReinitialised, MetricPose, BeginExploration, Goto, Threads
  <1>5. CASE ServiceStep
    BY <1>0, <1>5 DEF ServiceStep, NbvServiceReady, SearchServiceReady, ServiceMissing, Goto, Threads
  <1>6. CASE CommandStep
    BY <1>6 DEF CommandStep, ExploreCommand, GoalCommand
  <1>7. CASE OverrideStep
    BY <1>0, <1>7 DEF OverrideStep, OverrideClearPath, OverrideGoIdle, OverrideInIdle,
                      KeyboardIdle, Goto, Threads
  <1>8. CASE EnvironmentStep
    BY <1>8 DEF EnvironmentStep, SlamSwitchesMap, PoseAges, NbvPlannerAnswers,
                SearchPlannerAnswers, nodeVars
  <1>9. CASE UNCHANGED vars
    BY <1>9 DEF vars
  <1> QED BY <1>1, <1>2, <1>3, <1>4, <1>5, <1>6, <1>7, <1>8, <1>9 DEF Next

(* After a flight key only a goal's answer, a map switch, or what the      *)
(* executor had already checked for ends IDLE.                             *)
THEOREM OnlyGoalAnswersRevive == Spec => OnlySearchRevives
  <1> DEFINE Answers == searchOut # <<>> /\ searchOut' = Tail(searchOut)
             Revives == /\ yielded /\ state = "IDLE" /\ state' # "IDLE"
                        /\ ~PastItsCheck /\ currentMap' = currentMap /\ ~Answers
  <1>1. Init => YieldedOutsideMethods
    BY DEF Init, YieldedOutsideMethods
  <1>2. TypeOK /\ YieldedOutsideMethods /\ [Next]_vars => ~Revives
    <2> SUFFICES ASSUME TypeOK, YieldedOutsideMethods, [Next]_vars, Revives PROVE FALSE
      OBVIOUS
    <2> USE DEF YieldedOutsideMethods, PastItsCheck, missionVars
    <2>1. CASE HopStep
      BY <2>1 DEF HopStep, HopTimeout, HopEscapeNearField, HopClimbDelta, HopWaitScale, HopTick
    <2>2. CASE FlightStep
      BY <2>2 DEF FlightStep, LoseTracking, SweepTick, SweepUnchanged, LossTick, PathDone,
                  EnterTracker, TrackTick, FlightTick, PathVanishes, SendVelocity, ComputeVelocity
    <2>3. CASE PlanStep
      BY <2>3 DEF PlanStep, NbvPlanReceived, InstallNbvPlan, InstallUnchanged, SetPath, SearchPlanReceived, CancelMission
    <2>4. CASE SensorStep
      BY <2>4 DEF SensorStep, RawPose, MetricPose
    <2>5. CASE ServiceStep
      BY <2>5 DEF ServiceStep, NbvServiceReady, SearchServiceReady, ServiceMissing, Threads
    <2>6. CASE CommandStep \/ OverrideStep
      BY <2>6 DEF CommandStep, ExploreCommand, GoalCommand,
                  OverrideStep, OverrideClearPath, OverrideGoIdle, OverrideInIdle
    <2>7. CASE EnvironmentStep
      BY <2>7 DEF EnvironmentStep, SlamSwitchesMap, PoseAges, NbvPlannerAnswers,
                  SearchPlannerAnswers, nodeVars
    <2>8. CASE UNCHANGED vars
      BY <2>8 DEF vars
    <2> QED BY <2>1, <2>2, <2>3, <2>4, <2>5, <2>6, <2>7, <2>8 DEF Next
  <1>3. TypeOK /\ YieldedOutsideMethods /\ [Next]_vars =>
          [(yielded /\ state = "IDLE" /\ state' # "IDLE")
             => \/ PastItsCheck \/ currentMap' # currentMap
                \/ searchOut # <<>> /\ searchOut' = Tail(searchOut)]_vars
    BY <1>2
  <1> QED BY <1>1, <1>3, YieldedNext, TypeCorrect, PTL DEF Spec, OnlySearchRevives

(* A path that is there while the key has cleared it and not yet set IDLE  *)
(* was installed in between; the key then leaves it behind.                *)
KeyClearsPath == pc["keyboard"] = "cancel" => path.len = 0 \/ crossed

LeftOverInv == NoWaypointsLeftOver /\ KeyClearsPath

LEMMA LeftOverNext == TypeOK /\ LeftOverInv /\ [Next]_vars => LeftOverInv'
  <1> SUFFICES ASSUME TypeOK, LeftOverInv, [Next]_vars PROVE LeftOverInv'
    OBVIOUS
  <1> USE DEF LeftOverInv, NoWaypointsLeftOver, KeyClearsPath, histVars, missionVars
  <1>0. pc \in [Threads -> ExecutorLabels \cup KeyboardLabels]
    BY DEF TypeOK
  <1>1. CASE HopStep
    BY <1>0, <1>1 DEF HopStep, HopTimeout, HopEscapeNearField, HopClimbDelta, HopWaitScale,
                      HopUnchanged, HopTick, FinishHop, BeginExploration, Goto, Threads
  <1>2. CASE FlightStep
    <2>1. CASE PathDone
      BY <1>0, <2>1 DEF PathDone, BeginExploration, Goto, Threads
    <2>2. CASE \E reached \in BOOLEAN : ComputeVelocity(reached)
      <3> PICK reached \in BOOLEAN : ComputeVelocity(reached)
        BY <2>2
      <3> DEFINE left == IF reached /\ path.len > 0 THEN path.len - 1 ELSE path.len
      <3>1. path.len = 0 => left = 0
        OBVIOUS
      <3>2. left = 0 => path'.len = 0
        BY DEF ComputeVelocity, NoPath
      <3>3. UNCHANGED <<crossed, state>> /\ (pc'["keyboard"] = "cancel" => pc["keyboard"] = "cancel")
        BY <1>0 DEF ComputeVelocity, Goto, Threads
      <3> QED BY <3>1, <3>2, <3>3
    <2>3. CASE LoseTracking \/ \E command \in Commands : SweepTick(command)
      BY <2>3 DEF LoseTracking, SweepTick, SweepUnchanged
    <2>4. CASE EnterTracker \/ PathVanishes \/ SendVelocity
      BY <1>0, <2>4 DEF EnterTracker, PathVanishes, SendVelocity, Goto, Threads
    <2> QED BY <1>2, <2>1, <2>2, <2>3, <2>4 DEF FlightStep
  <1>3. CASE PlanStep
    <2>1. ASSUME NEW u \in BOOLEAN, NbvPlanReceived(u) PROVE LeftOverInv'
      BY <1>0, <2>1 DEF NbvPlanReceived, CancelMission, NoPath, Goto, Threads
    <2>2. ASSUME NEW n \in 1..MaxPath, InstallNbvPlan(n) PROVE LeftOverInv'
      BY <1>0, <2>2 DEF InstallNbvPlan, SetPath, Goto, Threads
    <2>3. ASSUME NEW u \in BOOLEAN, NEW n \in 1..MaxPath, SearchPlanReceived(u, n)
          PROVE  LeftOverInv'
      BY <2>3 DEF SearchPlanReceived, SetPath, CancelMission, NoPath
    <2> QED BY <1>3, <2>1, <2>2, <2>3 DEF PlanStep
  <1>4. CASE SensorStep
    BY <1>0, <1>4 DEF SensorStep, RawPose, MapReinitialised, StartHop, MetricPose,
                      BeginExploration, NoPath, Goto, Threads
  <1>5. CASE ServiceStep
    BY <1>0, <1>5 DEF ServiceStep, NbvServiceReady, SearchServiceReady, ServiceMissing, Goto, Threads
  <1>6. CASE CommandStep
    BY <1>0, <1>6 DEF CommandStep, ExploreCommand, GoalCommand, Goto, Threads
  <1>7. CASE OverrideStep
    BY <1>0, <1>7 DEF OverrideStep, OverrideClearPath, OverrideGoIdle, OverrideInIdle, NoPath,
                      KeyboardIdle, Goto, Threads
  <1>8. CASE EnvironmentStep
    BY <1>8 DEF EnvironmentStep, SlamSwitchesMap, PoseAges, NbvPlannerAnswers,
                SearchPlannerAnswers, nodeVars
  <1>9. CASE UNCHANGED vars
    BY <1>9 DEF vars
  <1> QED BY <1>1, <1>2, <1>3, <1>4, <1>5, <1>6, <1>7, <1>8, <1>9 DEF Next

(* Whatever ends a flight, no waypoint is left for the next mission to     *)
(* fly, unless a plan was installed between a flight key's clear_path and  *)
(* the IDLE it sets.                                                       *)
THEOREM NothingLeftToFly == Spec => []NoWaypointsLeftOver
  <1>1. Init => LeftOverInv
    BY DEF Init, LeftOverInv, NoWaypointsLeftOver, KeyClearsPath, NoPath
  <1>2. LeftOverInv => NoWaypointsLeftOver
    BY DEF LeftOverInv
  <1> QED BY <1>1, <1>2, LeftOverNext, TypeCorrect, PTL DEF Spec
=============================================================================
