---------------------------- MODULE MapPipeline -----------------------------
(***************************************************************************)
(* LiveScaler and OccupancyMap together: the metric frames (lossy, dense   *)
(* or not) go from the one to the other on topics of their own, and may    *)
(* overtake the alignment messages, which come in order.                   *)
(***************************************************************************)
EXTENDS LiveScaler, OccupancyMap

ASSUME GroundAssumption == GroundMap = MapZero

vars == <<scalerVars, occupancyVars>>

Init == ScalerInit /\ OccupancyInit

\* A raw pose is published or dropped at the end of its callback; what is
\* published is synchronized into a job or lost.
PoseEnds ==
    /\ EndPoseRaw
    /\ \/ UNCHANGED occupancyVars
       \/ IsPublished(rawMap) /\ SyncedCallback(MetricFrame(rawMap))

\* ScaleFactorManager._publish_dense_depth_points, for any tracked map.
PublishDense(m) ==
    /\ IsPublished(m)
    /\ SyncedCallback(MetricFrame(m))
    /\ UNCHANGED scalerVars

AlignmentReceived ==
    /\ verdicts # <<>>
    /\ MapAlignmentCallback(Head(verdicts).map, Head(verdicts).accepted)
    /\ verdicts' = Tail(verdicts)
    /\ UNCHANGED <<rawMap, cursor, pending, alignedIds, transforms, inputVars>>

ResolveStep ==
    \E t \in Transitions : \/ KeepWaiting(t) \/ GiveUp(t) \/ RejectUnscaled(t)
                           \/ \E near \in BOOLEAN : ComputeAlignment(t, near)

ScalerStep == OnPoseRaw \/ ResolveStep

WorldStep == \E m \in Maps : SlamSwitchesMap(m) \/ ScaleArrives(m) \/ ScalePruned(m)

TimeStep == \E i \in DOMAIN pending : GapElapses(i)

OccupancyStep == WorkerTakes \/ WorkerInserts \/ \E serialized \in BOOLEAN : PublishTimer(serialized)

Next == \/ (ScalerStep \/ WorldStep \/ TimeStep) /\ UNCHANGED occupancyVars
        \/ PoseEnds \/ AlignmentReceived
        \/ \E m \in Maps : PublishDense(m)
        \/ OccupancyStep /\ UNCHANGED scalerVars

Spec == Init /\ [][Next]_vars

(* Every callback ends, messages are received, the worker and the timer of *)
(* the occupancy node go on, a tree that is retried at every tick is once  *)
(* serialized, and time passes.  Nothing is assumed of the SLAM node or of *)
(* the scales.                                                             *)
Fairness ==
    /\ WF_vars(ResolveStep /\ UNCHANGED occupancyVars) /\ WF_vars(PoseEnds)
    /\ WF_vars(TimeStep /\ UNCHANGED occupancyVars)
    /\ WF_vars(AlignmentReceived)
    /\ WF_vars((WorkerTakes \/ WorkerInserts) /\ UNCHANGED scalerVars)
    /\ WF_vars(PublishTimer(TRUE) /\ UNCHANGED scalerVars)

FairSpec == Spec /\ Fairness

-----------------------------------------------------------------------------
(* Every variable has its type.                                            *)
Frames == [map : Maps, transform : Seq(Maps)]

TypeOK ==
    /\ rawMap \in Maps \cup {NoMap} /\ slamMap \in Maps
    /\ switches \in 0..MaxSwitches /\ scaled \subseteq Maps
    /\ pending \in Seq(Transitions) /\ cursor \in 0..(Len(pending) + 1)
    /\ alignedIds \subseteq Maps /\ gate \subseteq Maps
    /\ DOMAIN transforms \subseteq Maps
    /\ \A m \in DOMAIN transforms : transforms[m] \in Seq(Maps)
    /\ verdicts \in Seq(Verdicts)
    /\ jobQueue \in Seq(Frames) /\ batch \in Seq(Frames)
    /\ octree \subseteq Frames /\ published \subseteq Frames
    /\ forcePublish \in BOOLEAN /\ missed \in BOOLEAN

(* However often the SLAM node goes back and forth between maps, a map is  *)
(* decided once: while it is pending nothing has been said of it, and no   *)
(* message is ever the second one for its map.                             *)
OneVerdict ==
    /\ \A i, j \in DOMAIN pending : i # j => pending[i].new # pending[j].new
    /\ \A i \in DOMAIN pending : pending[i].new \notin alignedIds
    /\ \A i, j \in DOMAIN verdicts : i # j => verdicts[i].map # verdicts[j].map
    /\ \A i \in DOMAIN verdicts : verdicts[i].map \in alignedIds \ gate

(* Whatever is in the occupancy map was placed with the transform its map  *)
(* still has: no frame, sparse or dense, early or late, is in the tree     *)
(* under another registration.  Map 0 is left out: a merge back to it      *)
(* registers it anew.                                                      *)
HasRegistration(f) ==
    f.map # MapZero => f.map \in DOMAIN transforms /\ f.transform = transforms[f.map]

TreeRegistered == \A p \in octree : HasRegistration(p)

(* The registration of a map is final: it is neither revised nor dropped.  *)
RegistrationFinal ==
    [][\A m \in DOMAIN transforms :
        m \in DOMAIN transforms' /\ transforms'[m] = transforms[m]]_vars

(* The occupancy node implements the registry of maps.                     *)
Registry == INSTANCE MapRegistry WITH decided <- gate, world <- {p.map : p \in octree}

ImplementsRegistry == Registry!Spec

(* What makes the properties above inductive: only decided maps have a     *)
(* transform or an open gate, and the frames on their way to the tree are  *)
(* registered as those in it are.                                          *)
OnlyDecided == DOMAIN transforms \subseteq alignedIds /\ gate \subseteq alignedIds

FramesRegistered ==
    /\ \A i \in DOMAIN jobQueue : HasRegistration(jobQueue[i])
    /\ \A i \in DOMAIN batch : HasRegistration(batch[i])

MapInv == TypeOK /\ OneVerdict /\ OnlyDecided /\ FramesRegistered /\ TreeRegistered

(* While raw poses keep coming, every transition is decided in the end and *)
(* the occupancy node hears of it, with a scale or without one.            *)
TransitionsDecided ==
    []<>(cursor # 0) => \A m \in Maps : IsPending(m) ~> m \in gate

(* The consumers of the occupancy map end up with the map there is, also   *)
(* when that is the empty one of a reset, unless just the one publication  *)
(* of the empty tree that was forced has failed: nothing repeats it.       *)
ConsumersCatchUp == <>[](published = octree \/ missed)
=============================================================================
