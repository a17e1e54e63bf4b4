---------------------------- MODULE ScaleManager ----------------------------
(***************************************************************************)
(* tello_autonomy/perception/scale_factor_manager.py: the metric scale of  *)
(* each map of the SLAM node, from a depth worker in another process and   *)
(* two ToF estimators in other threads of this one.                        *)
(*                                                                         *)
(* The executor's thread and, through the 'm' key, the keyboard's thread   *)
(* resolve the scales of the tracked maps without a lock: each goes        *)
(* through Propose, Decide and Adopt for one map after the other; what     *)
(* _maybe_adopt_scale does with the two dictionaries is one step.          *)
(*                                                                         *)
(* Abstractions: a request carries only its map, and the queues between    *)
(* the node and the worker are one count per map; the estimate of the      *)
(* internal ToF is any there may be at the moment it is read; the scale a  *)
(* new map is seeded with is any entry, where the code takes the last;     *)
(* waiting times are within their bound or not.  Publishing, logging and   *)
(* the HUD are left out.                                                   *)
(***************************************************************************)
EXTENDS Integers

CONSTANTS
    Maps,                   \* map_ids with keyframes
    Scales,                 \* results of the depth worker
    TofScales,              \* estimates of the two ToF sources
    NoScale, NoEntry, NoJob,
    ConfirmationsRequired,  \* QUARANTINE_CONFIRMATIONS_REQUIRED
    MaxPrunes               \* bound: times a map is dropped

ASSUME ScalesAssumption ==
    /\ Scales \subseteq Nat \ {0} /\ TofScales \subseteq Nat \ {0}
    /\ NoScale \notin Nat
    /\ ConfirmationsRequired \in Nat \ {0, 1} /\ MaxPrunes \in Nat

VARIABLES
    tracked,        \* maps in _map_state, _map_points_cache and _last_seen
    stale,          \* those without a message for MAP_DATA_STALE_AFTER_SEC
    inFlight,       \* _in_flight_map_ids
    outstanding,    \* requests put whose result has not been taken
    depth,          \* _depth_scale_factors
    scale,          \* current_scale_factors
    quarantine,     \* _quarantine
    ext,            \* the external ToF's estimate while that is reliable
    mode            \* scale_source_mode

VARIABLES
    todo,           \* maps a thread has still to resolve in its loop
    job,            \* what it is doing about one of them
    alive           \* no exception has left a callback of the executor

VARIABLES           \* history
    prunes,         \* times a map has been dropped
    seen,           \* depth results a map has ever got
    raced           \* maps last dropped while the keyboard's thread resolved them

trackVars == <<tracked, stale, inFlight, outstanding, prunes>>
scaleVars == <<depth, scale, quarantine, seen, raced>>
vars == <<trackVars, scaleVars, ext, mode, todo, job, alive>>

Threads == {"node", "key"}
AllScales == Scales \cup TofScales
Sources == {"ext_tof", "internal_tof", "depth"}
Proposals == [map : Maps, value : AllScales, source : Sources]

\* base is the local variable active, once Decide has read it.
Jobs == [p : Proposals, adopt : BOOLEAN, base : AllScales \cup {NoScale}]

\* held says whether QUARANTINE_MIN_HOLD_SEC has passed since first_seen.
Entries == [candidate : AllScales, source : Sources, last : AllScales,
            confirmations : 1..ConfirmationsRequired, held : BOOLEAN]

Idle(t) == todo[t] = {} /\ job[t] = NoJob
NodeIdle == alive /\ Idle("node")

Init ==
    /\ tracked = {} /\ stale = {} /\ inFlight = {}
    /\ outstanding = [m \in Maps |-> 0] /\ prunes = [m \in Maps |-> 0]
    /\ depth = [m \in Maps |-> NoScale] /\ scale = [m \in Maps |-> NoScale]
    /\ quarantine = [m \in Maps |-> NoEntry]
    /\ seen = [m \in Maps |-> {}] /\ raced = {}
    /\ ext = [m \in Maps |-> NoScale] /\ mode = "auto"
    /\ todo = [t \in Threads |-> {}] /\ job = [t \in Threads |-> NoJob]
    /\ alive = TRUE

-----------------------------------------------------------------------------
(* Tracking and requests: callbacks of the executor.                       *)

\* enough: the cached rows are of MIN_KEYFRAMES_FOR_SCALE_FACTOR keyframes.
TriggerRecompute(m, enough) ==
    IF m \notin inFlight /\ enough
    THEN /\ inFlight' = inFlight \cup {m}
         /\ outstanding' = [outstanding EXCEPT ![m] = @ + 1]
    ELSE UNCHANGED <<inFlight, outstanding>>

\* A map without a scale starts with that of another map.
Seeded(m) ==
    IF scale[m] = NoScale /\ \E other \in Maps : scale[other] # NoScale
    THEN {scale[other] : other \in Maps} \ {NoScale}
    ELSE {scale[m]}

\* _on_keyframe_points of a map that is new: _start_tracking.
StartTracking(m, enough) ==
    /\ NodeIdle /\ m \notin tracked
    /\ tracked' = tracked \cup {m}
    /\ \E s \in Seeded(m) : scale' = [scale EXCEPT ![m] = s]
    /\ TriggerRecompute(m, enough)
    /\ raced' = raced \ {m}
    /\ UNCHANGED <<stale, prunes, depth, quarantine, seen, ext, mode, todo, job, alive>>

\* _on_keyframe_points of a map that is tracked.
KeyframePoints(m) ==
    /\ NodeIdle /\ m \in stale
    /\ stale' = stale \ {m}
    /\ UNCHANGED <<tracked, inFlight, outstanding, prunes, scaleVars, ext, mode, todo, job, alive>>

\* The map's timer, every PERIODIC_RECALIBRATION_SECONDS.
RecomputeTick(m, enough) ==
    /\ NodeIdle /\ m \in tracked
    /\ TriggerRecompute(m, enough)
    /\ UNCHANGED <<tracked, stale, prunes, scaleVars, ext, mode, todo, job, alive>>

Resolving(t, m) == m \in todo[t] \/ (job[t] # NoJob /\ job[t].p.map = m)

Without(f, nothing) == [m \in Maps |-> IF m \in stale THEN nothing ELSE f[m]]

\* _on_topology_changed: _stop_tracking of every stale map.
PruneStaleMapIds ==
    /\ NodeIdle /\ stale # {}
    /\ \A m \in stale : prunes[m] < MaxPrunes
    /\ tracked' = tracked \ stale /\ stale' = {} /\ inFlight' = inFlight \ stale
    /\ scale' = Without(scale, NoScale) /\ depth' = Without(depth, NoScale)
    /\ quarantine' = Without(quarantine, NoEntry) /\ ext' = Without(ext, NoScale)
    /\ prunes' = [m \in Maps |-> IF m \in stale THEN prunes[m] + 1 ELSE prunes[m]]
    /\ raced' = raced \cup {m \in stale : Resolving("key", m)}
    /\ UNCHANGED <<outstanding, seen, mode, todo, job, alive>>

\* Mutant: a result is taken for a map that is no longer tracked.
PollResultOfAnyMap(m, result) ==
    /\ NodeIdle /\ outstanding[m] > 0
    /\ outstanding' = [outstanding EXCEPT ![m] = @ - 1]
    /\ inFlight' = inFlight \ {m}
    /\ IF result # NoScale
       THEN /\ depth' = [depth EXCEPT ![m] = result]
            /\ seen' = [seen EXCEPT ![m] = @ \cup {result}]
            /\ todo' = [todo EXCEPT !["node"] = {m}]
       ELSE UNCHANGED <<depth, seen, todo>>
    /\ UNCHANGED <<tracked, stale, prunes, scale, quarantine, raced, ext, mode, job, alive>>

\* One result of _poll_results; NoScale is an error or an attempt without
\* usable points.
PollResult(m, result) ==
    /\ NodeIdle /\ outstanding[m] > 0
    /\ outstanding' = [outstanding EXCEPT ![m] = @ - 1]
    /\ inFlight' = inFlight \ {m}
    /\ IF m \in tracked /\ result # NoScale
       THEN /\ depth' = [depth EXCEPT ![m] = result]
            /\ seen' = [seen EXCEPT ![m] = @ \cup {result}]
            /\ todo' = [todo EXCEPT !["node"] = {m}]
       ELSE UNCHANGED <<depth, seen, todo>>
    /\ UNCHANGED <<tracked, stale, prunes, scale, quarantine, raced, ext, mode, job, alive>>

-----------------------------------------------------------------------------
(* _resolve_all_active_scales, by either thread.                           *)

\* The timer of the executor.
ResolveTimer ==
    /\ NodeIdle
    /\ todo' = [todo EXCEPT !["node"] = tracked]
    /\ UNCHANGED <<trackVars, scaleVars, ext, mode, job, alive>>

\* cycle_scale_source_mode, by the 'm' key.
NextMode == [tof |-> "depth", depth |-> "auto", auto |-> "tof"]

CycleScaleSourceMode ==
    /\ Idle("key")
    /\ mode' = NextMode[mode]
    /\ todo' = [todo EXCEPT !["key"] = tracked]
    /\ UNCHANGED <<trackVars, scaleVars, ext, job, alive>>

\* tof_estimator.get_scale_estimate: the internal ToF is never reset, so it
\* may have an estimate of any map.
Estimates == [value : TofScales \cup {NoScale}, reliable : BOOLEAN]

UsesInternal(e) ==
    e.value # NoScale /\ (mode = "tof" \/ (mode = "auto" /\ e.reliable))

\* The first half of _resolve_active_scale: who has a scale for the map.
Chosen(m, e) ==
    IF ext[m] # NoScale THEN [map |-> m, value |-> ext[m], source |-> "ext_tof"]
    ELSE IF UsesInternal(e) THEN [map |-> m, value |-> e.value, source |-> "internal_tof"]
    ELSE [map |-> m, value |-> depth[m], source |-> "depth"]

Propose(t, m, e) ==
    /\ job[t] = NoJob /\ m \in todo[t]
    /\ todo' = [todo EXCEPT ![t] = @ \ {m}]
    /\ job' = IF Chosen(m, e).value = NoScale THEN job
              ELSE [job EXCEPT ![t] = [p |-> Chosen(m, e), adopt |-> FALSE, base |-> NoScale]]
    /\ UNCHANGED <<trackVars, scaleVars, ext, mode, alive>>

\* The estimator's thread appends to the window that get_scale_estimate goes
\* through.  The keyboard's handler catches the exception.
EstimateRaises(t) ==
    /\ job[t] = NoJob /\ todo[t] # {}
    /\ todo' = [todo EXCEPT ![t] = {}]
    /\ alive' = (alive /\ t # "node")
    /\ UNCHANGED <<trackVars, scaleVars, ext, mode, job>>

-----------------------------------------------------------------------------
(* _maybe_adopt_scale.                                                     *)

\* QUARANTINE_SCALE_JUMP_RATIO_THRESHOLD is 15 %.
Near(value, base) == 100 * value <= 115 * base /\ 85 * base <= 100 * value

TimeBased(p) == p.source \in {"ext_tof", "internal_tof"}

\* The entry is of the same source, and its candidate has not moved.
Comparable(entry, p) ==
    /\ entry # NoEntry /\ entry.source = p.source
    /\ Near(p.value, entry.candidate)

\* Mutants: the same depth result counts each time it is proposed; the ToF
\* sources, too, have to propose something new.
ConfirmsRepeated(entry, p) ==
    IF TimeBased(p) THEN entry.held ELSE entry.confirmations + 1 >= ConfirmationsRequired

ConfirmsByChange(entry, p) ==
    p.value # entry.last /\ entry.confirmations + 1 >= ConfirmationsRequired

Confirms(entry, p) ==
    IF TimeBased(p) THEN entry.held
    ELSE p.value # entry.last /\ entry.confirmations + 1 >= ConfirmationsRequired

\* The entry after a proposal that does not settle it.
Quarantined(entry, p) ==
    IF ~Comparable(entry, p)
    THEN [candidate |-> p.value, source |-> p.source, last |-> p.value,
          confirmations |-> 1, held |-> FALSE]
    ELSE IF TimeBased(p) \/ p.value = entry.last THEN entry
    ELSE [entry EXCEPT !.last = p.value, !.confirmations = @ + 1]

Decide(t) ==
    /\ job[t] # NoJob /\ ~job[t].adopt
    /\ LET p == job[t].p
           active == scale[p.map]
           entry == quarantine[p.map]
           decided == [job[t] EXCEPT !.adopt = TRUE, !.base = active]
       IN  \/ /\ active = NoScale
              /\ job' = [job EXCEPT ![t] = decided]
              /\ UNCHANGED quarantine
           \/ /\ active # NoScale
              /\ Near(p.value, active) \/ (Comparable(entry, p) /\ Confirms(entry, p))
              /\ job' = [job EXCEPT ![t] = decided]
              /\ quarantine' = [quarantine EXCEPT ![p.map] = NoEntry]
           \/ /\ active # NoScale /\ ~Near(p.value, active)
              /\ ~(Comparable(entry, p) /\ Confirms(entry, p))
              /\ job' = [job EXCEPT ![t] = NoJob]
              /\ quarantine' = [quarantine EXCEPT ![p.map] = Quarantined(entry, p)]
    /\ UNCHANGED <<trackVars, depth, scale, seen, raced, ext, mode, todo, alive>>

Adopt(t) ==
    /\ job[t] # NoJob /\ job[t].adopt
    /\ scale' = [scale EXCEPT ![job[t].p.map] = job[t].p.value]
    /\ job' = [job EXCEPT ![t] = NoJob]
    /\ UNCHANGED <<trackVars, depth, quarantine, seen, raced, ext, mode, todo, alive>>

ResolveStep(t) ==
    \/ \E m \in Maps, e \in Estimates : Propose(t, m, e)
    \/ Decide(t) \/ Adopt(t)

-----------------------------------------------------------------------------
(* The world: messages stop, readings change, time passes.                 *)
MapGoesStale(m) ==
    /\ m \in tracked \ stale
    /\ stale' = stale \cup {m}
    /\ UNCHANGED <<tracked, inFlight, outstanding, prunes, scaleVars, ext, mode, todo, job, alive>>

ExtTofChanges(m) ==
    /\ \E s \in TofScales \cup {NoScale} : s # ext[m] /\ ext' = [ext EXCEPT ![m] = s]
    /\ UNCHANGED <<trackVars, scaleVars, mode, todo, job, alive>>

\* QUARANTINE_MIN_HOLD_SEC since first_seen.
HoldElapses(m) ==
    /\ quarantine[m] # NoEntry /\ ~quarantine[m].held
    /\ quarantine[m].source # "depth"
    /\ quarantine' = [quarantine EXCEPT ![m].held = TRUE]
    /\ UNCHANGED <<trackVars, depth, scale, seen, raced, ext, mode, todo, job, alive>>

ExecutorStep(m) ==
    \/ \E enough \in BOOLEAN : StartTracking(m, enough) \/ RecomputeTick(m, enough)
    \/ KeyframePoints(m)
    \/ \E result \in Scales \cup {NoScale} : PollResult(m, result)

WorldStep(m) == MapGoesStale(m) \/ ExtTofChanges(m) \/ HoldElapses(m)

Next ==
    \/ \E m \in Maps : ExecutorStep(m) \/ WorldStep(m)
    \/ PruneStaleMapIds \/ ResolveTimer \/ CycleScaleSourceMode
    \/ \E t \in Threads : ResolveStep(t) \/ EstimateRaises(t)

Spec == Init /\ [][Next]_vars

(* Both threads go on, the resolve timer is served however busy the        *)
(* executor is, and time passes for an entry that stays.                   *)
FairSpec ==
    /\ Spec
    /\ \A t \in Threads : WF_vars(ResolveStep(t))
    /\ SF_vars(ResolveTimer)
    /\ \A m \in Maps : WF_vars(HoldElapses(m))
-----------------------------------------------------------------------------
(* Every variable has its type.                                            *)
TypeOK ==
    /\ tracked \subseteq Maps /\ stale \subseteq tracked /\ inFlight \subseteq Maps
    /\ outstanding \in [Maps -> Nat] /\ prunes \in [Maps -> Nat]
    /\ depth \in [Maps -> Scales \cup {NoScale}]
    /\ scale \in [Maps -> AllScales \cup {NoScale}]
    /\ ext \in [Maps -> TofScales \cup {NoScale}]
    /\ quarantine \in [Maps -> Entries \cup {NoEntry}]
    /\ seen \in [Maps -> SUBSET Scales] /\ raced \subseteq Maps
    /\ mode \in {"tof", "depth", "auto"} /\ alive \in BOOLEAN
    /\ todo \in [Threads -> SUBSET Maps]
    /\ job \in [Threads -> Jobs \cup {NoJob}]

(* An in-flight mark has a request behind it that will clear it, or the    *)
(* map would never be computed again; and a map has more than one request  *)
(* out only for the times it was dropped, and its mark with it.            *)
MarkHasRequest == \A m \in inFlight : outstanding[m] > 0

RequestsBounded ==
    \A m \in Maps : outstanding[m] <= prunes[m] + (IF m \in inFlight THEN 1 ELSE 0)

(* Nothing is left of a map that was dropped, and no result still under    *)
(* way brings it back; only an 'm' key pressed just before may.            *)
DroppedMapsForgotten ==
    \A m \in Maps \ tracked :
        /\ m \notin inFlight /\ depth[m] = NoScale
        /\ m \notin raced => scale[m] = NoScale /\ quarantine[m] = NoEntry

(* A sharp change of a map's scale by the depth worker has two different   *)
(* results behind it that agree with a third or with each other, however   *)
(* often either thread proposes the same result and whatever the ToF       *)
(* sources propose in between.                                             *)
DepthJumpsConfirmed ==
    \A t \in Threads : job[t] # NoJob /\ job[t].adopt =>
        LET p == job[t].p
        IN  p.source = "depth" /\ job[t].base # NoScale /\ ~Near(p.value, job[t].base) =>
                \E c, v \in seen[p.map] :
                    p.value \in seen[p.map] \ {v} /\ Near(v, c) /\ Near(p.value, c)

(* What makes the properties above inductive: only the keyboard's thread   *)
(* can be resolving a map that is not tracked; and whatever is proposed,   *)
(* or held, for the depth worker was once a result for that map.           *)
ResolvingTracked ==
    \A t \in Threads, m \in Maps \ tracked : Resolving(t, m) => t = "key" /\ m \in raced

DepthIsSeen ==
    /\ \A m \in Maps : depth[m] # NoScale => depth[m] \in seen[m]
    /\ \A m \in Maps : quarantine[m] # NoEntry /\ quarantine[m].source = "depth" =>
            /\ quarantine[m].candidate \in seen[m] /\ quarantine[m].last \in seen[m]
            /\ Near(quarantine[m].last, quarantine[m].candidate)
    /\ \A t \in Threads : job[t] # NoJob /\ job[t].p.source = "depth" =>
            job[t].p.value \in seen[job[t].p.map]

ScaleInv ==
    /\ TypeOK /\ MarkHasRequest /\ RequestsBounded /\ DroppedMapsForgotten
    /\ DepthJumpsConfirmed /\ ResolvingTracked /\ DepthIsSeen

(* A reliable ToF reading is the scale in the end, also when it is far     *)
(* from the one before and never changes again.                            *)
ReliableTofWins ==
    \A m \in Maps, s \in TofScales :
        []alive /\ <>[](m \in tracked /\ ext[m] = s) => <>[](scale[m] = s)
=============================================================================
