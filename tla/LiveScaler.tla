----------------------------- MODULE LiveScaler -----------------------------
(***************************************************************************)
(* tello_autonomy/perception/live_scaler.py: it turns the raw poses and    *)
(* points of the SLAM node's maps into metric ones in the frame of map 0,  *)
(* and decides how each new map is registered in that frame.               *)
(*                                                                         *)
(* The node's thread runs one callback at a time.  ScaleFactorManager runs *)
(* in another thread, so the scale of a map may come or go between two     *)
(* looks of one pose callback: cursor says how far the callback has come.  *)
(*                                                                         *)
(* Abstractions: a cumulative transform is the sequence of alignments it   *)
(* is composed of, from map 0 on; the points callback takes the branches   *)
(* of the pose callback, so a metric frame stands for a pose and its       *)
(* points; a distance or a waiting time is within its bound or not.        *)
(***************************************************************************)
EXTENDS Naturals, SequencesExt

CONSTANTS
    Maps,           \* map_ids the SLAM node reports
    MapZero,        \* map_id 0, whose frame is the global one
    NoMap,          \* no raw pose yet
    MaxSwitches     \* bound: map switches of the SLAM node

ASSUME MapsAssumption == MapZero \in Maps /\ NoMap \notin Maps /\ MaxSwitches \in Nat

VARIABLES
    rawMap,         \* _current_raw_map_id
    pending,        \* _pending_transitions, in insertion order
    alignedIds,     \* _map_ids_already_aligned
    transforms,     \* _active_map_transforms
    cursor,         \* 0: no callback runs; n: it looks at the n-th pending one
    verdicts        \* TOPIC_MAP_ALIGNMENT, published and not yet received

VARIABLES
    slamMap,        \* map_id of the SLAM node's poses
    switches,       \* history: its map switches
    scaled          \* maps with an entry in current_scale_factors

resolveVars == <<pending, alignedIds, transforms, verdicts>>
inputVars == <<slamMap, switches, scaled>>
scalerVars == <<rawMap, cursor, resolveVars, inputVars>>

Transitions == [new : Maps, old : Maps, oldScaled : BOOLEAN, late : BOOLEAN]
Verdicts == [map : Maps, accepted : BOOLEAN]

ScalerInit ==
    /\ rawMap = NoMap /\ pending = <<>> /\ alignedIds = {} /\ transforms = <<>>
    /\ cursor = 0 /\ verdicts = <<>>
    /\ slamMap = MapZero /\ switches = 0 /\ scaled = {}

IsPending(m) == \E i \in DOMAIN pending : pending[i].new = m

\* get_global_transform, and the branches of the two callbacks: a map is in
\* the table, or it is map 0, or it has no place in the global frame yet.
IsRegistered(m) == m \in DOMAIN transforms \/ m = MapZero
GlobalTransform(m) == IF m \in DOMAIN transforms THEN transforms[m] ELSE <<>>

-----------------------------------------------------------------------------
(* _on_pose_raw: a transition is registered, then every pending one is     *)
(* looked at, then the pose is published.                                  *)

\* Mutants of _register_transition's early return.
IsNewTransitionForgetsPending(m) == m \notin alignedIds

IsNewTransition(m) == m \notin alignedIds /\ ~IsPending(m)

\* The anchors are captured, and with them whether the old map has a scale.
OnPoseRaw ==
    /\ cursor = 0
    /\ rawMap' = slamMap
    /\ pending' = IF rawMap \notin {NoMap, slamMap} /\ IsNewTransition(slamMap)
                    THEN Append(pending, [new |-> slamMap, old |-> rawMap,
                                          oldScaled |-> rawMap \in scaled, late |-> FALSE])
                    ELSE pending
    /\ cursor' = 1
    /\ UNCHANGED <<alignedIds, transforms, verdicts, inputVars>>

\* The verdict is published and remembered, the transition deleted.
Decide(t, accepted) ==
    /\ pending' = RemoveAt(pending, cursor)
    /\ alignedIds' = alignedIds \cup {t.new}
    /\ verdicts' = Append(verdicts, [map |-> t.new, accepted |-> accepted])

ResolvePending(t) == cursor \in DOMAIN pending /\ t = pending[cursor]

\* No scale yet, and still time.
KeepWaiting(t) ==
    /\ ResolvePending(t)
    /\ t.new \notin scaled /\ ~t.late
    /\ cursor' = cursor + 1
    /\ UNCHANGED <<rawMap, resolveVars, inputVars>>

\* Mutant: no timeout.
GiveUpNever(t) ==
    /\ ResolvePending(t)
    /\ t.new \notin scaled /\ t.late
    /\ cursor' = cursor + 1
    /\ UNCHANGED <<rawMap, resolveVars, inputVars>>

\* MAX_ALIGNMENT_GAP_SEC without a scale: a rejection, and no transform.
GiveUp(t) ==
    /\ ResolvePending(t)
    /\ t.new \notin scaled /\ t.late
    /\ Decide(t, FALSE)
    /\ UNCHANGED <<rawMap, transforms, cursor, inputVars>>

\* _compute_and_publish_alignment without the old map's scale: the same.
RejectUnscaled(t) ==
    /\ ResolvePending(t)
    /\ t.new \in scaled /\ ~t.oldScaled
    /\ Decide(t, FALSE)
    /\ UNCHANGED <<rawMap, transforms, cursor, inputVars>>

\* The new map is composed with the old one's transform (the identity when
\* that has none); out of bounds it is seeded with the old one's transform.
ComputeAlignment(t, near) ==
    /\ ResolvePending(t)
    /\ t.new \in scaled /\ t.oldScaled
    /\ LET accepted == near /\ ~t.late
           parent == GlobalTransform(t.old)
           registered == IF accepted THEN Append(parent, t.new) ELSE parent
       IN  /\ Decide(t, accepted)
           /\ transforms' = [m \in DOMAIN transforms \cup {t.new} |->
                                IF m = t.new THEN registered ELSE transforms[m]]
    /\ UNCHANGED <<rawMap, cursor, inputVars>>

\* The end of the callback: the pose goes out if its map has a scale and a
\* place in the global frame.
EndPoseRaw ==
    /\ cursor > Len(pending)
    /\ cursor' = 0
    /\ UNCHANGED <<rawMap, resolveVars, inputVars>>

IsPublished(m) == m \in scaled /\ IsRegistered(m)

MetricFrame(m) == [map |-> m, transform |-> GlobalTransform(m)]

-----------------------------------------------------------------------------
(* The SLAM node, the scale manager, and time.                             *)

\* A lost track comes back as a new map; a merge goes back to an older one.
SlamSwitchesMap(m) ==
    /\ switches < MaxSwitches /\ m # slamMap
    /\ slamMap' = m
    /\ switches' = switches + 1
    /\ UNCHANGED <<rawMap, resolveVars, cursor, scaled>>

ScaleArrives(m) ==
    /\ m \notin scaled
    /\ scaled' = scaled \cup {m}
    /\ UNCHANGED <<rawMap, resolveVars, cursor, slamMap, switches>>

\* _stop_tracking of a map whose keyframes are no longer published.
ScalePruned(m) ==
    /\ m \in scaled
    /\ scaled' = scaled \ {m}
    /\ UNCHANGED <<rawMap, resolveVars, cursor, slamMap, switches>>

\* MAX_ALIGNMENT_GAP_SEC since the transition was registered.
GapElapses(i) ==
    /\ ~pending[i].late
    /\ pending' = [pending EXCEPT ![i].late = TRUE]
    /\ UNCHANGED <<rawMap, alignedIds, transforms, verdicts, cursor, inputVars>>
=============================================================================
