--------------------------- MODULE CommandChannel ---------------------------
(***************************************************************************)
(* The command channel of the drone: drone_interface/command_handler.py,   *)
(* the control loop of manual_control.py, the cmd_lock of tello_driver.py  *)
(* with the threads that take it (takeoff and landing workers, keepalive,  *)
(* ext_tof_driver.py's poll loop) and main.py's shutdown.                  *)
(*                                                                         *)
(* Threads: the main thread (the 20 Hz loop, then the shutdown), pynput's  *)
(* keyboard thread, the executor of MissionController, one worker per      *)
(* takeoff or landing, keepalive and ext ToF.  The mission is reduced to   *)
(* is_active() and to a thread that sends when it likes; an RC packet is   *)
(* its kind, and rc is the last one the drone has received.                *)
(***************************************************************************)
EXTENDS Naturals

CONSTANT MaxSlips   \* bound: RC packets counted in one takeoff or landing

ASSUME MaxSlipsAssumption == MaxSlips \in Nat

VARIABLES
    held,       \* _held_keys: "q", "t", and "move" for any movement key
    tookOff,    \* took_off, the loop's edge detector
    main,       \* where the main thread is
    loopRc,     \* the command the loop is about to send
    keyboard,   \* where the keyboard thread is
    executor    \* where the mission's control loop is

VARIABLES
    takingOff,  \* _takeoff_in_progress
    landing,    \* _landing_in_progress
    takeoff,    \* the takeoff worker
    land,       \* the landing worker
    landed,     \* a landing worker has yet to call on_complete
    lock,       \* holder of cmd_lock, "free" for none
    asking,     \* the ext ToF thread waits for cmd_lock
    shutdown    \* ManualControl._shutdown

VARIABLES
    flying,     \* tello.is_flying
    rc,         \* last RC packet the drone received
    active,     \* MissionController.is_active()
    silent,     \* time_since_last_cmd() > 10
    slips       \* history: RC packets of the takeoff or landing under way

keyVars == <<held, tookOff, keyboard>>
flagVars == <<takingOff, landing>>
workerVars == <<takeoff, land, landed>>
missionVars == <<active, silent, executor>>
vars == <<keyVars, main, loopRc, flagVars, workerVars, lock, asking, shutdown,
          flying, rc, missionVars, slips>>

Keys == {"q", "t", "move"}
WorkerSteps == {"none", "waiting", "commanding"}
Queriers == {"keepalive", "tof"}
Holders == {"takeoff", "land", "main"} \cup Queriers
InProgress == takingOff \/ landing
Counted == IF InProgress /\ slips < MaxSlips THEN slips + 1 ELSE slips

Init ==
    /\ held = {} /\ tookOff = FALSE /\ main = "tick" /\ loopRc = "hover"
    /\ keyboard = "idle" /\ executor = "idle"
    /\ takingOff = FALSE /\ landing = FALSE
    /\ takeoff = "none" /\ land = "none" /\ landed = FALSE
    /\ lock = "free" /\ asking = FALSE /\ shutdown = FALSE
    /\ flying = FALSE /\ rc = "hover" /\ active = FALSE /\ silent = FALSE
    /\ slips = 0

Running == main # "closed"
Stopping == main \notin {"tick", "send"}
Told == main \notin {"tick", "send", "stopping"}     \* the other threads are told to stop

-----------------------------------------------------------------------------
(* The keyboard thread: _on_key_press adds the key, then on_manual_override *)
(* cancels the mission, whose zero command goes through send_rc_control.   *)
(* cancel_mission does nothing in IDLE, and it leaves a request in flight, *)
(* which counts as active: a key may find nothing to cancel, and a mission *)
(* may still be active after it.                                           *)

PressKey(k, cancels, stays) ==
    /\ ~Told /\ keyboard = "idle"
    /\ active <=> (cancels \/ stays)
    /\ held' = held \cup {k}
    /\ active' = stays
    /\ silent' = (silent /\ ~cancels)
    /\ keyboard' = IF cancels /\ ~InProgress THEN "send" ELSE "idle"
    /\ UNCHANGED <<tookOff, main, loopRc, flagVars, workerVars, lock, asking, shutdown,
                   flying, rc, executor, slips>>

ReleaseKey(k) ==
    /\ ~Told /\ keyboard = "idle" /\ k \in held
    /\ held' = held \ {k}
    /\ UNCHANGED <<tookOff, keyboard, main, loopRc, flagVars, workerVars, lock, asking,
                   shutdown, flying, rc, missionVars, slips>>

\* The packet, sent after the two flags have been looked at.
OverrideSend ==
    /\ Running /\ keyboard = "send"
    /\ rc' = "hover"
    /\ slips' = Counted
    /\ keyboard' = "idle"
    /\ UNCHANGED <<held, tookOff, main, loopRc, flagVars, workerVars, lock, asking,
                   shutdown, flying, missionVars>>

-----------------------------------------------------------------------------
(* The mission.                                                            *)

MissionStarts ==
    /\ Running /\ ~active
    /\ active' = TRUE /\ silent' = FALSE
    /\ UNCHANGED <<keyVars, main, loopRc, flagVars, workerVars, lock, asking, shutdown,
                   flying, rc, executor, slips>>

MissionEnds ==
    /\ Running /\ active
    /\ active' = FALSE /\ silent' = FALSE
    /\ UNCHANGED <<keyVars, main, loopRc, flagVars, workerVars, lock, asking, shutdown,
                   flying, rc, executor, slips>>

\* Ten seconds without a command of the mission, its planner still computing.
MissionSilent ==
    /\ Running /\ active /\ ~silent
    /\ silent' = TRUE
    /\ UNCHANGED <<keyVars, main, loopRc, flagVars, workerVars, lock, asking, shutdown,
                   flying, rc, active, executor, slips>>

\* A tick of the mission: _send_rc_control marks the time, send_rc_control
\* looks at the two flags.
ExecutorAsks ==
    /\ Running /\ executor = "idle" /\ active
    /\ silent' = FALSE
    /\ executor' = IF InProgress THEN "idle" ELSE "send"
    /\ UNCHANGED <<keyVars, main, loopRc, flagVars, workerVars, lock, asking, shutdown,
                   flying, rc, active, slips>>

ExecutorSend ==
    /\ Running /\ executor = "send"
    /\ rc' = "auto"
    /\ slips' = Counted
    /\ executor' = "idle"
    /\ UNCHANGED <<keyVars, main, loopRc, flagVars, workerVars, lock, asking, shutdown,
                   flying, active, silent>>

-----------------------------------------------------------------------------
(* The main thread: a tick of the 20 Hz loop, and the RC packet it sends.  *)

\* land_async: the flag first, then a zero command, then the worker.
LandAsync ==
    /\ landing' = TRUE
    /\ rc' = IF takingOff \/ landing' THEN rc ELSE "hover"
    /\ land' = "waiting"
    /\ slips' = 0

LandRequested == "q" \in held /\ ~landing

TakeoffRequested ==
    "t" \in held /\ ~flying /\ ~tookOff /\ ~takingOff /\ ~landing /\ ~LandRequested

\* Mutants: hover-zero is not repeated; a mission keeps the channel; the ten
\* seconds are not looked at.
LoopSendsOnlyKeys == "move" \in held
LoopDefersToMission == ~active \/ silent
LoopIgnoresSilence == "move" \in held \/ ~active

\* Who owns the RC channel in this tick.
LoopOwnsRc == "move" \in held \/ ~active \/ silent

\* Landing, takeoff_async, and then RC if neither is in progress.
LoopTick ==
    /\ main = "tick" /\ ~shutdown
    /\ IF LandRequested
         THEN LandAsync
         ELSE /\ slips' = IF TakeoffRequested THEN 0 ELSE slips
              /\ UNCHANGED <<landing, rc, land>>
    /\ IF TakeoffRequested
         THEN tookOff' = TRUE /\ takingOff' = TRUE /\ takeoff' = "waiting"
         ELSE /\ tookOff' = IF "t" \in held THEN tookOff ELSE FALSE
              /\ UNCHANGED <<takingOff, takeoff>>
    /\ IF flying /\ ~takingOff' /\ ~landing' /\ LoopOwnsRc
         THEN main' = "send" /\ loopRc' = IF "move" \in held THEN "manual" ELSE "hover"
         ELSE main' = "tick" /\ loopRc' = "hover"
    /\ UNCHANGED <<held, keyboard, landed, lock, asking, shutdown, flying, missionVars>>

LoopSend ==
    /\ main = "send"
    /\ rc' = loopRc
    /\ slips' = Counted
    /\ loopRc' = "hover"
    /\ main' = "tick"
    /\ UNCHANGED <<keyVars, flagVars, workerVars, lock, asking, shutdown, flying,
                   missionVars>>

-----------------------------------------------------------------------------
(* Workers.  cmd_lock is not a fair lock: any waiting thread may get it.   *)

TakeoffLocks ==
    /\ Running /\ takeoff = "waiting" /\ lock = "free"
    /\ lock' = "takeoff" /\ takeoff' = "commanding"
    /\ UNCHANGED <<keyVars, main, loopRc, flagVars, land, landed, asking, shutdown,
                   flying, rc, missionVars, slips>>

\* tello.takeoff() returns or raises; the lock is released and the flag
\* cleared on the way out.
TakeoffReturns(ok) ==
    /\ Running /\ takeoff = "commanding"
    /\ flying' = IF ok THEN TRUE ELSE flying
    /\ lock' = "free" /\ takeoff' = "none" /\ takingOff' = FALSE
    /\ slips' = IF landing THEN slips ELSE 0
    /\ UNCHANGED <<keyVars, main, loopRc, landing, land, landed, asking, shutdown,
                   rc, missionVars>>

LandLocks ==
    /\ Running /\ land = "waiting" /\ lock = "free"
    /\ lock' = "land" /\ land' = "commanding"
    /\ UNCHANGED <<keyVars, main, loopRc, flagVars, takeoff, landed, asking, shutdown,
                   flying, rc, missionVars, slips>>

\* Mutant: a landing that raises keeps cmd_lock.
LandKeepsLock(ok) ==
    /\ Running /\ land = "commanding"
    /\ flying' = IF ok THEN FALSE ELSE flying
    /\ lock' = IF ok THEN "free" ELSE lock
    /\ land' = "none" /\ landing' = FALSE /\ landed' = TRUE
    /\ slips' = IF takingOff THEN slips ELSE 0
    /\ UNCHANGED <<keyVars, main, loopRc, takingOff, takeoff, asking, shutdown,
                   rc, missionVars>>

\* The flag is cleared before on_complete is called.
LandReturns(ok) ==
    /\ Running /\ land = "commanding"
    /\ flying' = IF ok THEN FALSE ELSE flying
    /\ lock' = "free" /\ land' = "none" /\ landing' = FALSE /\ landed' = TRUE
    /\ slips' = IF takingOff THEN slips ELSE 0
    /\ UNCHANGED <<keyVars, main, loopRc, takingOff, takeoff, asking, shutdown,
                   rc, missionVars>>

\* _on_land_complete asks for the shutdown, success or not.
LandCompletes ==
    /\ Running /\ landed
    /\ landed' = FALSE /\ shutdown' = TRUE
    /\ UNCHANGED <<keyVars, main, loopRc, flagVars, takeoff, land, lock, asking,
                   flying, rc, missionVars, slips>>

\* A round of the keepalive or of the "EXT tof?" poll begins; none begins once told.
QueryUnchanged == UNCHANGED <<keyVars, main, loopRc, flagVars, workerVars, shutdown, flying,
                              rc, missionVars, slips>>

\* The poll waits for the lock, also when it is told to stop meanwhile.
TofAsks ==
    /\ ~Told /\ ~asking /\ lock # "tof"
    /\ asking' = TRUE /\ lock' = lock
    /\ QueryUnchanged

TofLocks ==
    /\ Running /\ asking /\ lock = "free"
    /\ lock' = "tof" /\ asking' = FALSE
    /\ QueryUnchanged

\* The keepalive only tries to get it.
KeepaliveLocks ==
    /\ ~Told /\ lock = "free"
    /\ lock' = "keepalive" /\ asking' = asking
    /\ QueryUnchanged

QueryReturns ==
    /\ Running /\ lock \in Queriers
    /\ lock' = "free" /\ asking' = asking
    /\ QueryUnchanged

-----------------------------------------------------------------------------
(* Shutdown: the loop ends or Ctrl+C leaves it anywhere.  The listener and  *)
(* the query threads are told to stop (every join may time out: a query    *)
(* that waits for cmd_lock still gets it), and disconnect() takes cmd_lock *)
(* for streamoff and once more for end.  The loop's own variables are gone *)
(* with it, and the keys, which nobody reads any more, with the listener.  *)

StopUnchanged == UNCHANGED <<keyboard, flagVars, workerVars, lock, asking, shutdown,
                             flying, rc, missionVars, slips>>
MainUnchanged == UNCHANGED <<keyVars, loopRc, flagVars, workerVars, asking, shutdown,
                             flying, rc, missionVars, slips>>

LoopGone ==
    /\ main' = "stopping"
    /\ tookOff' = FALSE /\ loopRc' = "hover" /\ held' = held
    /\ StopUnchanged

LoopEnds == main = "tick" /\ shutdown /\ LoopGone
CtrlC == ~Stopping /\ LoopGone

StopThreads ==
    /\ main = "stopping"
    /\ main' = "streamoff"
    /\ held' = {} /\ UNCHANGED <<tookOff, loopRc>>
    /\ StopUnchanged

DisconnectLocks ==
    /\ main \in {"streamoff", "end"} /\ lock = "free"
    /\ lock' = "main" /\ main' = main
    /\ MainUnchanged

DisconnectReturns ==
    /\ lock = "main"
    /\ lock' = "free"
    /\ main' = IF main = "streamoff" THEN "end" ELSE "closed"
    /\ MainUnchanged

-----------------------------------------------------------------------------
KeyStep == \/ \E k \in Keys, cancels, stays \in BOOLEAN : PressKey(k, cancels, stays)
           \/ \E k \in Keys : ReleaseKey(k)
           \/ OverrideSend
MissionStep == \/ MissionStarts \/ MissionEnds \/ MissionSilent
               \/ ExecutorAsks \/ ExecutorSend
LoopStep == LoopTick \/ LoopSend
WorkerStep == \/ TakeoffLocks \/ (\E ok \in BOOLEAN : TakeoffReturns(ok))
              \/ LandLocks \/ (\E ok \in BOOLEAN : LandReturns(ok)) \/ LandCompletes
QueryStep == TofAsks \/ TofLocks \/ KeepaliveLocks \/ QueryReturns
ShutdownStep == LoopEnds \/ CtrlC \/ StopThreads \/ DisconnectLocks \/ DisconnectReturns

Next == KeyStep \/ MissionStep \/ LoopStep \/ WorkerStep \/ QueryStep \/ ShutdownStep

(* Every thread goes on; a blocked acquire of cmd_lock succeeds if the     *)
(* lock is free again and again (the queries wait between two rounds);     *)
(* time passes for a mission that sends nothing.                           *)
TakeoffGoesOn == \E ok \in BOOLEAN : TakeoffReturns(ok)
LandGoesOn == \E ok \in BOOLEAN : LandReturns(ok)
MainGoesOn == LoopStep \/ LoopEnds \/ StopThreads \/ DisconnectReturns

Fairness ==
    /\ WF_vars(MainGoesOn) /\ SF_vars(DisconnectLocks)
    /\ WF_vars(OverrideSend)
    /\ WF_vars(ExecutorSend) /\ WF_vars(MissionSilent)
    /\ SF_vars(TakeoffLocks) /\ WF_vars(TakeoffGoesOn)
    /\ SF_vars(LandLocks) /\ WF_vars(LandGoesOn) /\ WF_vars(LandCompletes)
    /\ WF_vars(QueryReturns)

Spec == Init /\ [][Next]_vars
FairSpec == Spec /\ Fairness

-----------------------------------------------------------------------------
(* Every variable has its type.                                            *)
TypeOK ==
    /\ held \subseteq Keys /\ tookOff \in BOOLEAN
    /\ main \in {"tick", "send", "stopping", "streamoff", "end", "closed"}
    /\ loopRc \in {"hover", "manual"}
    /\ keyboard \in {"idle", "send"}
    /\ executor \in {"idle", "send"}
    /\ takingOff \in BOOLEAN /\ landing \in BOOLEAN
    /\ takeoff \in WorkerSteps /\ land \in WorkerSteps /\ landed \in BOOLEAN
    /\ lock \in Holders \cup {"free"} /\ asking \in BOOLEAN /\ shutdown \in BOOLEAN
    /\ flying \in BOOLEAN /\ rc \in {"hover", "manual", "auto"}
    /\ active \in BOOLEAN /\ silent \in BOOLEAN
    /\ slips \in 0..MaxSlips

(* RC control is refused only while a worker is there to allow it again,   *)
(* also when the takeoff or the landing raises.                            *)
FlagsHaveWorkers ==
    /\ takingOff <=> takeoff # "none"
    /\ landing <=> land # "none"

(* send_rc_control looks at the flags before it sends.  What slips between *)
(* the two into one takeoff or landing is at most one packet of the        *)
(* mission's thread and one of the keyboard's.                             *)
AtMostTwoSlip == slips <= 2

(* What makes AtMostTwoSlip inductive: the packets that have slipped and    *)
(* those that still may; the loop never has one on its way.                *)
Pending(step) == IF step = "send" THEN 1 ELSE 0

SlipTally ==
    IF InProgress
      THEN /\ slips + Pending(executor) + Pending(keyboard) <= 2
           /\ main # "send"
      ELSE slips = 0

CommandInv == TypeOK /\ FlagsHaveWorkers /\ SlipTally

(* A command the mission sent after it was cancelled, or the last one of a *)
(* mission that is over, is soon replaced by the loop's.                   *)
StaleVelocityReplaced ==
    (flying /\ ~active /\ rc = "auto")
        ~> (rc # "auto" \/ active \/ ~flying \/ InProgress \/ Stopping)

(* A held movement key gets through, whatever missions start meanwhile.    *)
PilotWins ==
    ("move" \in held /\ flying /\ ~InProgress)
        ~> (rc = "manual" \/ "move" \notin held \/ ~flying \/ InProgress \/ Stopping)

(* In flight somebody always sends: the drone lands by itself after 15 s   *)
(* of silence, so a mission that has stopped sending is relieved.  Missions *)
(* that start and end for ever between two ticks of the loop are left out. *)
WatchdogFed ==
    (<>[]active \/ <>[]~active) =>
        []<>(~flying \/ InProgress \/ Stopping \/ "send" \in {main, executor, keyboard})

(* Landing, or Ctrl+C, ends with the drone disconnected: disconnect() does *)
(* get cmd_lock from the workers and the sensor that compete for it.       *)
QuitDisconnects == (shutdown \/ Stopping) ~> main = "closed"
=============================================================================
