----------------------- MODULE CommandChannelProofs -----------------------
(***************************************************************************)
(* Theorems about CommandChannel, for every bound on the packets counted.  *)
(***************************************************************************)
EXTENDS CommandChannel, TLAPS

(* Counting a packet in a takeoff or landing adds at most one.             *)
LEMMA CountedLemma ==
    ASSUME TypeOK
    PROVE  /\ Counted \in 0..MaxSlips /\ Counted <= slips + 1
           /\ ~InProgress => Counted = slips
  BY MaxSlipsAssumption DEF TypeOK, Counted, InProgress, MaxSlipsAssumption

LEMMA CommandInit == Init => CommandInv
  <1> SUFFICES ASSUME Init PROVE CommandInv
    OBVIOUS
  <1>1. /\ takingOff = FALSE /\ landing = FALSE /\ tookOff = FALSE /\ landed = FALSE
        /\ shutdown = FALSE /\ asking = FALSE /\ flying = FALSE /\ active = FALSE /\ silent = FALSE
    BY DEF Init
  <1>2. /\ tookOff \in BOOLEAN /\ takingOff \in BOOLEAN /\ landing \in BOOLEAN
        /\ landed \in BOOLEAN /\ shutdown \in BOOLEAN /\ asking \in BOOLEAN /\ flying \in BOOLEAN
        /\ active \in BOOLEAN /\ silent \in BOOLEAN
    BY <1>1
  <1>3. slips \in 0..MaxSlips /\ slips = 0
    BY MaxSlipsAssumption DEF Init, MaxSlipsAssumption
  <1>4. TypeOK
    BY <1>2, <1>3 DEF Init, TypeOK, Keys, WorkerSteps, Holders
  <1>5. FlagsHaveWorkers
    BY <1>1 DEF Init, FlagsHaveWorkers
  <1>6. SlipTally
    BY <1>1, <1>3 DEF SlipTally, InProgress
  <1> QED BY <1>4, <1>5, <1>6 DEF CommandInv

-----------------------------------------------------------------------------
(* Every variable keeps its type.                                          *)
LEMMA TypeKeys == TypeOK /\ (KeyStep \/ MissionStep) => TypeOK'
  <1> SUFFICES ASSUME TypeOK, KeyStep \/ MissionStep PROVE TypeOK'
    OBVIOUS
  <1> USE DEF TypeOK, flagVars, workerVars, missionVars, keyVars
  <1>1. ASSUME NEW k \in Keys, NEW c \in BOOLEAN, NEW s \in BOOLEAN, PressKey(k, c, s)
        PROVE  TypeOK'
    <2>1. keyboard' \in {"idle", "send"}
      BY <1>1 DEF PressKey
    <2>2. active' \in BOOLEAN /\ silent' \in BOOLEAN /\ held' \subseteq Keys
      BY <1>1 DEF PressKey
    <2>3. UNCHANGED <<tookOff, main, loopRc, flagVars, workerVars, lock, asking, shutdown,
                      flying, rc, executor, slips>>
      BY <1>1 DEF PressKey
    <2> QED BY <2>1, <2>2, <2>3
  <1>2. ASSUME NEW k \in Keys, ReleaseKey(k) PROVE TypeOK'
    BY <1>2 DEF ReleaseKey
  <1>3. CASE OverrideSend
    BY <1>3, CountedLemma DEF OverrideSend
  <1>4. CASE MissionStarts \/ MissionEnds \/ MissionSilent
    BY <1>4 DEF MissionStarts, MissionEnds, MissionSilent
  <1>5. CASE ExecutorAsks
    <2>1. executor' \in {"idle", "send"} /\ silent' \in BOOLEAN
      BY <1>5 DEF ExecutorAsks
    <2> QED BY <1>5, <2>1 DEF ExecutorAsks
  <1>6. CASE ExecutorSend
    BY <1>6, CountedLemma DEF ExecutorSend
  <1> QED BY <1>1, <1>2, <1>3, <1>4, <1>5, <1>6 DEF KeyStep, MissionStep

LEMMA TypeLoop == TypeOK /\ LoopStep => TypeOK'
  <1> SUFFICES ASSUME TypeOK, LoopStep PROVE TypeOK'
    OBVIOUS
  <1> USE DEF TypeOK, flagVars, workerVars, missionVars, keyVars, WorkerSteps
  <1>1. CASE LoopTick
    <2>1. 0 \in 0..MaxSlips
      BY MaxSlipsAssumption DEF MaxSlipsAssumption
    <2>2. /\ landing' \in BOOLEAN /\ land' \in WorkerSteps
          /\ rc' \in {"hover", "manual", "auto"} /\ slips' \in 0..MaxSlips
      BY <1>1, <2>1 DEF LoopTick, LandAsync
    <2>3. tookOff' \in BOOLEAN /\ takingOff' \in BOOLEAN /\ takeoff' \in WorkerSteps
      BY <1>1 DEF LoopTick
    <2>4. main' \in {"tick", "send"} /\ loopRc' \in {"hover", "manual"}
      BY <1>1 DEF LoopTick
    <2> QED BY <1>1, <2>2, <2>3, <2>4 DEF LoopTick
  <1>2. CASE LoopSend
    BY <1>2, CountedLemma DEF LoopSend
  <1> QED BY <1>1, <1>2 DEF LoopStep

LEMMA TypeWorkers == TypeOK /\ (WorkerStep \/ QueryStep \/ ShutdownStep) => TypeOK'
  <1> SUFFICES ASSUME TypeOK, WorkerStep \/ QueryStep \/ ShutdownStep PROVE TypeOK'
    OBVIOUS
  <1> USE DEF TypeOK, flagVars, workerVars, missionVars, keyVars, WorkerSteps, Holders
  <1>0. 0 \in 0..MaxSlips
    BY MaxSlipsAssumption DEF MaxSlipsAssumption
  <1>1. CASE TakeoffLocks \/ LandLocks \/ LandCompletes
    BY <1>1 DEF TakeoffLocks, LandLocks, LandCompletes
  <1>2. ASSUME NEW ok \in BOOLEAN, TakeoffReturns(ok) PROVE TypeOK'
    <2>1. slips' \in 0..MaxSlips
      BY <1>0, <1>2 DEF TakeoffReturns
    <2>2. flying' \in BOOLEAN
      BY <1>2 DEF TakeoffReturns
    <2>3. /\ lock' = "free" /\ takeoff' = "none" /\ takingOff' \in BOOLEAN
          /\ UNCHANGED <<keyVars, main, loopRc, landing, land, landed, asking, shutdown, rc, missionVars>>
      BY <1>2 DEF TakeoffReturns
    <2> QED BY <2>1, <2>2, <2>3
  <1>3. ASSUME NEW ok \in BOOLEAN, LandReturns(ok) PROVE TypeOK'
    <2>1. slips' \in 0..MaxSlips
      BY <1>0, <1>3 DEF LandReturns
    <2>2. flying' \in BOOLEAN
      BY <1>3 DEF LandReturns
    <2>3. /\ lock' = "free" /\ land' = "none" /\ landing' \in BOOLEAN /\ landed' \in BOOLEAN
          /\ UNCHANGED <<keyVars, main, loopRc, takingOff, takeoff, asking, shutdown, rc, missionVars>>
      BY <1>3 DEF LandReturns
    <2> QED BY <2>1, <2>2, <2>3
  <1>4. CASE QueryStep
    BY <1>4 DEF QueryStep, TofAsks, TofLocks, KeepaliveLocks, QueryReturns, QueryUnchanged, Queriers
  <1>5. CASE ShutdownStep
    BY <1>5 DEF ShutdownStep, LoopEnds, CtrlC, LoopGone, StopThreads, StopUnchanged, DisconnectLocks, DisconnectReturns, MainUnchanged
  <1> QED BY <1>1, <1>2, <1>3, <1>4, <1>5 DEF WorkerStep

-----------------------------------------------------------------------------
(* A flag is set together with its worker and cleared by it.               *)
LEMMA FlagsKeys ==
    FlagsHaveWorkers /\ (KeyStep \/ MissionStep \/ QueryStep \/ ShutdownStep) => FlagsHaveWorkers'
  <1> SUFFICES ASSUME FlagsHaveWorkers, KeyStep \/ MissionStep \/ QueryStep \/ ShutdownStep
               PROVE  FlagsHaveWorkers'
    OBVIOUS
  <1>1. UNCHANGED <<takingOff, landing, takeoff, land>>
    BY DEF KeyStep, PressKey, ReleaseKey, OverrideSend,
           MissionStep, MissionStarts, MissionEnds, MissionSilent, ExecutorAsks, ExecutorSend,
           QueryStep, TofAsks, TofLocks, KeepaliveLocks, QueryReturns, QueryUnchanged,
           ShutdownStep, LoopEnds, CtrlC, LoopGone, StopThreads, StopUnchanged, DisconnectLocks, DisconnectReturns, MainUnchanged,
           flagVars, workerVars
  <1> QED BY <1>1 DEF FlagsHaveWorkers

LEMMA FlagsLoop == FlagsHaveWorkers /\ LoopStep => FlagsHaveWorkers'
  <1> SUFFICES ASSUME FlagsHaveWorkers, LoopStep PROVE FlagsHaveWorkers'
    OBVIOUS
  <1> USE DEF FlagsHaveWorkers
  <1>1. CASE LoopTick
    <2>1. landing' <=> land' # "none"
      BY <1>1, Zenon DEF LoopTick, LandAsync
    <2>2. takingOff' <=> takeoff' # "none"
      BY <1>1, Zenon DEF LoopTick
    <2> QED BY <2>1, <2>2
  <1>2. CASE LoopSend
    BY <1>2 DEF LoopSend, flagVars, workerVars
  <1> QED BY <1>1, <1>2 DEF LoopStep

LEMMA FlagsWorkers == FlagsHaveWorkers /\ WorkerStep => FlagsHaveWorkers'
  <1> SUFFICES ASSUME FlagsHaveWorkers, WorkerStep PROVE FlagsHaveWorkers'
    OBVIOUS
  <1> USE DEF FlagsHaveWorkers
  <1>1. CASE TakeoffLocks
    BY <1>1 DEF TakeoffLocks, flagVars
  <1>2. CASE LandLocks
    BY <1>2 DEF LandLocks, flagVars
  <1>3. CASE LandCompletes
    BY <1>3 DEF LandCompletes, flagVars
  <1>4. ASSUME NEW ok \in BOOLEAN, TakeoffReturns(ok) PROVE FlagsHaveWorkers'
    BY <1>4 DEF TakeoffReturns
  <1>5. ASSUME NEW ok \in BOOLEAN, LandReturns(ok) PROVE FlagsHaveWorkers'
    BY <1>5 DEF LandReturns
  <1> QED BY <1>1, <1>2, <1>3, <1>4, <1>5 DEF WorkerStep

-----------------------------------------------------------------------------
(* A thread that has seen the flags clear slips its packet at most once; a *)
(* worker that starts finds at most two such threads, one that ends        *)
(* resets the count when it was the last.                                  *)
LEMMA TallyKeys ==
    TypeOK /\ SlipTally /\ (KeyStep \/ MissionStep) => SlipTally'
  <1> SUFFICES ASSUME TypeOK, SlipTally, KeyStep \/ MissionStep PROVE SlipTally'
    OBVIOUS
  <1>0. slips \in Nat
    BY MaxSlipsAssumption DEF TypeOK, MaxSlipsAssumption
  <1>1. UNCHANGED <<takingOff, landing, main>>
    BY DEF KeyStep, PressKey, ReleaseKey, OverrideSend, MissionStep, MissionStarts, MissionEnds,
           MissionSilent, ExecutorAsks, ExecutorSend, flagVars
  <1>2. InProgress' <=> InProgress
    BY <1>1 DEF InProgress
  <1>3. CASE ~InProgress
    <2>1. Counted = slips
      BY <1>3, CountedLemma
    <2>2. slips' = slips
      BY <2>1 DEF KeyStep, PressKey, ReleaseKey, OverrideSend, MissionStep, MissionStarts,
                  MissionEnds, MissionSilent, ExecutorAsks, ExecutorSend
    <2> QED BY <1>2, <1>3, <2>2 DEF SlipTally
  <1>4. CASE InProgress
    <2>0. slips + Pending(executor) + Pending(keyboard) <= 2 /\ main # "send"
      BY <1>4 DEF SlipTally
    <2>1. ASSUME NEW k \in Keys, NEW c \in BOOLEAN, NEW s \in BOOLEAN, PressKey(k, c, s)
          PROVE  SlipTally'
      <3>1. keyboard = "idle" /\ keyboard' = "idle" /\ slips' = slips /\ executor' = executor
        BY <1>4, <2>1 DEF PressKey
      <3> QED BY <1>1, <1>2, <1>4, <2>0, <3>1 DEF SlipTally, Pending
    <2>2. ASSUME NEW k \in Keys, ReleaseKey(k) PROVE SlipTally'
      <3>1. keyboard' = keyboard /\ slips' = slips /\ executor' = executor
        BY <2>2 DEF ReleaseKey, missionVars
      <3> QED BY <1>1, <1>2, <1>4, <2>0, <3>1 DEF SlipTally, Pending
    <2>3. CASE OverrideSend
      <3>1. keyboard = "send" /\ keyboard' = "idle" /\ slips' = Counted /\ executor' = executor
        BY <2>3 DEF OverrideSend, missionVars
      <3>2. slips' \in Nat /\ slips' <= slips + 1
        BY <3>1, CountedLemma, MaxSlipsAssumption DEF MaxSlipsAssumption
      <3> QED BY <1>0, <1>1, <1>2, <1>4, <2>0, <3>1, <3>2 DEF SlipTally, Pending
    <2>4. CASE MissionStarts \/ MissionEnds \/ MissionSilent
      <3>1. keyboard' = keyboard /\ slips' = slips /\ executor' = executor
        BY <2>4 DEF MissionStarts, MissionEnds, MissionSilent, keyVars
      <3> QED BY <1>1, <1>2, <1>4, <2>0, <3>1 DEF SlipTally, Pending
    <2>5. CASE ExecutorAsks
      <3>1. executor = "idle" /\ executor' = "idle" /\ slips' = slips /\ keyboard' = keyboard
        BY <1>4, <2>5 DEF ExecutorAsks, keyVars
      <3> QED BY <1>1, <1>2, <1>4, <2>0, <3>1 DEF SlipTally, Pending
    <2>6. CASE ExecutorSend
      <3>1. executor = "send" /\ executor' = "idle" /\ slips' = Counted /\ keyboard' = keyboard
        BY <2>6 DEF ExecutorSend, keyVars
      <3>2. slips' \in Nat /\ slips' <= slips + 1
        BY <3>1, CountedLemma, MaxSlipsAssumption DEF MaxSlipsAssumption
      <3> QED BY <1>0, <1>1, <1>2, <1>4, <2>0, <3>1, <3>2 DEF SlipTally, Pending
    <2> QED BY <2>1, <2>2, <2>3, <2>4, <2>5, <2>6 DEF KeyStep, MissionStep
  <1> QED BY <1>3, <1>4

LEMMA TallyLoop == TypeOK /\ SlipTally /\ LoopStep => SlipTally'
  <1> SUFFICES ASSUME TypeOK, SlipTally, LoopStep PROVE SlipTally'
    OBVIOUS
  <1>1. UNCHANGED <<executor, keyboard>>
    BY DEF LoopStep, LoopTick, LoopSend, missionVars, keyVars
  <1>2. CASE LoopTick
    <2>1. InProgress' => main' # "send"
      BY <1>2 DEF LoopTick, InProgress
    <2>2. CASE LandRequested \/ TakeoffRequested
      <3>1. slips' = 0 /\ InProgress'
        BY <1>2, <2>2, Zenon DEF LoopTick, LandAsync, InProgress, TakeoffRequested
      <3> QED BY <1>1, <2>1, <3>1 DEF SlipTally, Pending
    <2>3. CASE ~LandRequested /\ ~TakeoffRequested
      <3>1. slips' = slips /\ takingOff' = takingOff /\ landing' = landing /\ main = "tick"
        BY <1>2, <2>3 DEF LoopTick
      <3>2. InProgress' <=> InProgress
        BY <3>1 DEF InProgress
      <3> QED BY <1>1, <2>1, <3>1, <3>2 DEF SlipTally, Pending
    <2> QED BY <2>2, <2>3
  <1>3. CASE LoopSend
    <2>1. main = "send" /\ slips' = Counted /\ takingOff' = takingOff /\ landing' = landing
      BY <1>3 DEF LoopSend, flagVars
    <2>2. ~InProgress /\ ~InProgress' /\ slips = 0
      BY <2>1 DEF SlipTally, InProgress
    <2>3. slips' = 0
      BY <2>1, <2>2, CountedLemma
    <2> QED BY <2>2, <2>3 DEF SlipTally
  <1> QED BY <1>2, <1>3 DEF LoopStep

LEMMA TallyWorkers ==
    TypeOK /\ SlipTally /\ (WorkerStep \/ QueryStep \/ ShutdownStep) => SlipTally'
  <1> SUFFICES ASSUME TypeOK, SlipTally, WorkerStep \/ QueryStep \/ ShutdownStep PROVE SlipTally'
    OBVIOUS
  <1>0. UNCHANGED <<executor, keyboard>>
    BY DEF WorkerStep, TakeoffLocks, TakeoffReturns, LandLocks, LandReturns, LandCompletes,
           QueryStep, TofAsks, TofLocks, KeepaliveLocks, QueryReturns, QueryUnchanged, ShutdownStep, LoopEnds, CtrlC, LoopGone, StopThreads, StopUnchanged, DisconnectLocks,
           DisconnectReturns, MainUnchanged, missionVars, keyVars
  <1>1. ASSUME UNCHANGED <<takingOff, landing, slips>>, main' = main \/ main' # "send"
        PROVE  SlipTally'
    <2>1. InProgress' <=> InProgress
      BY <1>1 DEF InProgress
    <2> QED BY <1>0, <1>1, <2>1 DEF SlipTally, Pending
  <1>2. CASE TakeoffLocks \/ LandLocks \/ LandCompletes \/ QueryStep
    BY <1>1, <1>2 DEF TakeoffLocks, LandLocks, LandCompletes, QueryStep, TofAsks, TofLocks, KeepaliveLocks, QueryReturns, QueryUnchanged,
                      flagVars
  <1>3. CASE ShutdownStep
    BY <1>1, <1>3 DEF ShutdownStep, LoopEnds, CtrlC, LoopGone, StopThreads, StopUnchanged, DisconnectLocks, DisconnectReturns,
                      MainUnchanged, flagVars
  <1>4. ASSUME NEW ok \in BOOLEAN, TakeoffReturns(ok) PROVE SlipTally'
    <2>1. takingOff' = FALSE /\ landing' = landing /\ main' = main
          /\ slips' = IF landing THEN slips ELSE 0
      BY <1>4 DEF TakeoffReturns
    <2>2. CASE landing
      <3>1. InProgress /\ InProgress' /\ slips' = slips
        BY <2>1, <2>2 DEF InProgress
      <3> QED BY <1>0, <2>1, <3>1 DEF SlipTally, Pending
    <2>3. CASE ~landing
      <3>1. ~InProgress' /\ slips' = 0
        BY <2>1, <2>3 DEF InProgress
      <3> QED BY <3>1 DEF SlipTally
    <2> QED BY <2>2, <2>3
  <1>5. ASSUME NEW ok \in BOOLEAN, LandReturns(ok) PROVE SlipTally'
    <2>1. landing' = FALSE /\ takingOff' = takingOff /\ main' = main
          /\ slips' = IF takingOff THEN slips ELSE 0
      BY <1>5 DEF LandReturns
    <2>2. CASE takingOff
      <3>1. InProgress /\ InProgress' /\ slips' = slips
        BY <2>1, <2>2 DEF InProgress
      <3> QED BY <1>0, <2>1, <3>1 DEF SlipTally, Pending
    <2>3. CASE ~takingOff
      <3>1. ~InProgress' /\ slips' = 0
        BY <2>1, <2>3 DEF InProgress
      <3> QED BY <3>1 DEF SlipTally
    <2> QED BY <2>2, <2>3
  <1> QED BY <1>2, <1>3, <1>4, <1>5 DEF WorkerStep

-----------------------------------------------------------------------------
(* The inductive invariant holds.                                          *)
THEOREM CommandInvariant == Spec => []CommandInv
  <1>1. CommandInv /\ [Next]_vars => CommandInv'
    <2> SUFFICES ASSUME CommandInv, [Next]_vars PROVE CommandInv'
      OBVIOUS
    <2>1. CASE Next
      BY <2>1, TypeKeys, TypeLoop, TypeWorkers, FlagsKeys, FlagsLoop, FlagsWorkers,
         TallyKeys, TallyLoop, TallyWorkers DEF Next, CommandInv
    <2>2. CASE UNCHANGED vars
      <3>1. TypeOK'
        BY <2>2 DEF CommandInv, TypeOK, vars, keyVars, flagVars, workerVars, missionVars
      <3>2. FlagsHaveWorkers' /\ SlipTally'
        BY <2>2 DEF CommandInv, FlagsHaveWorkers, SlipTally, InProgress, Pending,
                    vars, keyVars, flagVars, workerVars, missionVars
      <3> QED BY <3>1, <3>2 DEF CommandInv
    <2> QED BY <2>1, <2>2
  <1> QED BY <1>1, CommandInit, PTL DEF Spec

(* Keys, flags, workers and the lock keep their types.                     *)
THEOREM CommandTypeCorrect == Spec => []TypeOK
  <1>1. CommandInv => TypeOK
    BY DEF CommandInv
  <1> QED BY <1>1, CommandInvariant, PTL

(* RC control is never refused without a worker that will allow it again.  *)
THEOREM RefusalHasWorker == Spec => []FlagsHaveWorkers
  <1>1. CommandInv => FlagsHaveWorkers
    BY DEF CommandInv
  <1> QED BY <1>1, CommandInvariant, PTL

(* At most two packets slip into a takeoff or a landing.                   *)
THEOREM SlipsBounded == Spec => []AtMostTwoSlip
  <1>1. CommandInv => AtMostTwoSlip
    BY MaxSlipsAssumption
    DEF CommandInv, TypeOK, SlipTally, Pending, AtMostTwoSlip, MaxSlipsAssumption
  <1> QED BY <1>1, CommandInvariant, PTL
=============================================================================
