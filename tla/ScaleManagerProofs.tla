------------------------- MODULE ScaleManagerProofs -------------------------
(***************************************************************************)
(* Theorems about ScaleManager, for any maps, scales and bounds.           *)
(***************************************************************************)
EXTENDS ScaleManager, TLAPS

(* The invariant holds at the start.                                       *)
LEMMA ScaleInit == Init => ScaleInv
  <1> SUFFICES ASSUME Init PROVE ScaleInv
    OBVIOUS
  <1> USE DEF Init
  <1>1. TypeOK
    BY DEF TypeOK, Threads
  <1>2. MarkHasRequest /\ RequestsBounded /\ DroppedMapsForgotten
    BY DEF MarkHasRequest, RequestsBounded, DroppedMapsForgotten
  <1>3. DepthJumpsConfirmed /\ ResolvingTracked /\ DepthIsSeen
    BY DEF DepthJumpsConfirmed, ResolvingTracked, DepthIsSeen, Resolving
  <1> QED BY <1>1, <1>2, <1>3 DEF ScaleInv

(* A request is put with its mark, or not at all.                          *)
LEMMA TriggerKeeps ==
    ASSUME TypeOK, MarkHasRequest, RequestsBounded, NEW m \in Maps, NEW enough \in BOOLEAN,
           TriggerRecompute(m, enough), prunes' = prunes
    PROVE  /\ inFlight' \subseteq inFlight \cup {m} /\ outstanding' \in [Maps -> Nat]
           /\ MarkHasRequest' /\ RequestsBounded'
  <1>0. /\ inFlight \subseteq Maps /\ outstanding \in [Maps -> Nat] /\ prunes \in [Maps -> Nat]
    BY DEF TypeOK
  <1>1. CASE UNCHANGED <<inFlight, outstanding>>
    BY <1>0, <1>1 DEF MarkHasRequest, RequestsBounded
  <1>2. CASE /\ m \notin inFlight /\ inFlight' = inFlight \cup {m}
             /\ outstanding' = [outstanding EXCEPT ![m] = @ + 1]
    <2>1. /\ outstanding' \in [Maps -> Nat]
          /\ \A k \in Maps : outstanding'[k] = outstanding[k] + (IF k = m THEN 1 ELSE 0)
      BY <1>0, <1>2
    <2>2. MarkHasRequest'
      BY <1>0, <1>2, <2>1 DEF MarkHasRequest
    <2>3. RequestsBounded'
      BY <1>0, <1>2, <2>1 DEF RequestsBounded
    <2> QED BY <1>2, <2>1, <2>2, <2>3
  <1> QED BY <1>1, <1>2 DEF TriggerRecompute

(* What the threads are doing is not touched by tracking.                  *)
LEMMA JobsKeep ==
    ASSUME DepthJumpsConfirmed, UNCHANGED <<job, seen>>
    PROVE  DepthJumpsConfirmed'
  BY DEF DepthJumpsConfirmed

(* A map is tracked anew.                                                  *)
LEMMA StartTrackingKeeps ==
    ASSUME ScaleInv, NEW m \in Maps, NEW enough \in BOOLEAN, StartTracking(m, enough)
    PROVE  ScaleInv'
  <1>0. /\ TypeOK /\ MarkHasRequest /\ RequestsBounded /\ DroppedMapsForgotten
        /\ DepthJumpsConfirmed /\ ResolvingTracked /\ DepthIsSeen
    BY DEF ScaleInv
  <1>1. /\ tracked' = tracked \cup {m} /\ raced' = raced \ {m}
        /\ UNCHANGED <<stale, prunes, depth, quarantine, seen, ext, mode, todo, job, alive>>
        /\ TriggerRecompute(m, enough)
    BY DEF StartTracking
  <1>2. PICK s \in Seeded(m) : scale' = [scale EXCEPT ![m] = s]
    BY DEF StartTracking
  <1>3. s \in AllScales \cup {NoScale}
    BY <1>0 DEF TypeOK, Seeded
  <1>4. /\ inFlight' \subseteq inFlight \cup {m} /\ outstanding' \in [Maps -> Nat]
        /\ MarkHasRequest' /\ RequestsBounded'
    BY <1>0, <1>1, TriggerKeeps
  <1>5. /\ scale' \in [Maps -> AllScales \cup {NoScale}]
        /\ \A k \in Maps \ {m} : scale'[k] = scale[k]
    BY <1>0, <1>2, <1>3 DEF TypeOK
  <1>6. TypeOK'
    BY <1>0, <1>1, <1>4, <1>5 DEF TypeOK
  <1>7. DroppedMapsForgotten'
    BY <1>0, <1>1, <1>4, <1>5 DEF DroppedMapsForgotten
  <1>8. DepthJumpsConfirmed'
    BY <1>0, <1>1, JobsKeep
  <1>9. ResolvingTracked'
    BY <1>0, <1>1 DEF ResolvingTracked, Resolving
  <1>10. DepthIsSeen'
    BY <1>0, <1>1 DEF DepthIsSeen
  <1> QED BY <1>4, <1>6, <1>7, <1>8, <1>9, <1>10 DEF ScaleInv

(* The steps that change only a mark, a request, a reading or an age.      *)
LEMMA SmallStepsKeep ==
    ASSUME ScaleInv, NEW m \in Maps,
           \/ KeyframePoints(m) \/ MapGoesStale(m) \/ ExtTofChanges(m)
           \/ \E enough \in BOOLEAN : RecomputeTick(m, enough)
    PROVE  ScaleInv'
  <1>0. /\ TypeOK /\ MarkHasRequest /\ RequestsBounded /\ DroppedMapsForgotten
        /\ DepthJumpsConfirmed /\ ResolvingTracked /\ DepthIsSeen
    BY DEF ScaleInv
  <1>1. /\ UNCHANGED <<tracked, prunes, depth, scale, quarantine, seen, raced, mode, todo, job, alive>>
    BY DEF KeyframePoints, MapGoesStale, ExtTofChanges, RecomputeTick, trackVars, scaleVars
  <1>2. DepthJumpsConfirmed' /\ ResolvingTracked' /\ DepthIsSeen'
    BY <1>0, <1>1, JobsKeep DEF ResolvingTracked, Resolving, DepthIsSeen
  <1>3. CASE KeyframePoints(m) \/ MapGoesStale(m)
    <2>1. UNCHANGED <<inFlight, outstanding, ext>> /\ stale' \subseteq tracked
      BY <1>0, <1>3 DEF KeyframePoints, MapGoesStale, TypeOK
    <2>2. TypeOK'
      BY <1>0, <1>1, <2>1 DEF TypeOK
    <2>3. MarkHasRequest' /\ RequestsBounded' /\ DroppedMapsForgotten'
      BY <1>0, <1>1, <2>1 DEF MarkHasRequest, RequestsBounded, DroppedMapsForgotten
    <2> QED BY <1>2, <2>2, <2>3 DEF ScaleInv
  <1>4. CASE ExtTofChanges(m)
    <2>1. /\ UNCHANGED <<stale, inFlight, outstanding>>
          /\ ext' \in [Maps -> TofScales \cup {NoScale}]
      BY <1>0, <1>4 DEF ExtTofChanges, trackVars, TypeOK
    <2>2. TypeOK'
      BY <1>0, <1>1, <2>1 DEF TypeOK
    <2>3. MarkHasRequest' /\ RequestsBounded' /\ DroppedMapsForgotten'
      BY <1>0, <1>1, <2>1 DEF MarkHasRequest, RequestsBounded, DroppedMapsForgotten
    <2> QED BY <1>2, <2>2, <2>3 DEF ScaleInv
  <1>5. CASE \E enough \in BOOLEAN : RecomputeTick(m, enough)
    <2>1. PICK enough \in BOOLEAN : RecomputeTick(m, enough)
      BY <1>5
    <2>2. m \in tracked /\ TriggerRecompute(m, enough) /\ UNCHANGED <<stale, ext>>
      BY <2>1 DEF RecomputeTick
    <2>3. /\ inFlight' \subseteq inFlight \cup {m} /\ outstanding' \in [Maps -> Nat]
          /\ MarkHasRequest' /\ RequestsBounded'
      BY <1>0, <1>1, <2>2, TriggerKeeps
    <2>4. TypeOK'
      BY <1>0, <1>1, <2>2, <2>3 DEF TypeOK
    <2>5. DroppedMapsForgotten'
      BY <1>0, <1>1, <2>2, <2>3 DEF DroppedMapsForgotten
    <2> QED BY <1>2, <2>3, <2>4, <2>5 DEF ScaleInv
  <1> QED BY <1>3, <1>4, <1>5

(* Stale maps are dropped.                                                 *)
LEMMA PruneKeeps == ScaleInv /\ PruneStaleMapIds => ScaleInv'
  <1> SUFFICES ASSUME ScaleInv, PruneStaleMapIds PROVE ScaleInv'
    OBVIOUS
  <1>0. /\ TypeOK /\ MarkHasRequest /\ RequestsBounded /\ DroppedMapsForgotten
        /\ DepthJumpsConfirmed /\ ResolvingTracked /\ DepthIsSeen
    BY DEF ScaleInv
  <1>1. /\ tracked' = tracked \ stale /\ stale' = {} /\ inFlight' = inFlight \ stale
        /\ raced' = raced \cup {m \in stale : Resolving("key", m)}
        /\ UNCHANGED <<outstanding, seen, mode, todo, job, alive>>
        /\ Idle("node")
    BY DEF PruneStaleMapIds, NodeIdle
  <1>2. /\ scale' = Without(scale, NoScale) /\ depth' = Without(depth, NoScale)
        /\ quarantine' = Without(quarantine, NoEntry) /\ ext' = Without(ext, NoScale)
        /\ prunes' = [m \in Maps |-> IF m \in stale THEN prunes[m] + 1 ELSE prunes[m]]
    BY DEF PruneStaleMapIds
  <1>3. /\ scale' \in [Maps -> AllScales \cup {NoScale}]
        /\ depth' \in [Maps -> Scales \cup {NoScale}]
        /\ quarantine' \in [Maps -> Entries \cup {NoEntry}]
        /\ ext' \in [Maps -> TofScales \cup {NoScale}]
        /\ prunes' \in [Maps -> Nat]
    BY <1>0, <1>2 DEF TypeOK, Without
  <1>4. \A m \in Maps :
            /\ scale'[m] = IF m \in stale THEN NoScale ELSE scale[m]
            /\ depth'[m] = IF m \in stale THEN NoScale ELSE depth[m]
            /\ quarantine'[m] = IF m \in stale THEN NoEntry ELSE quarantine[m]
            /\ prunes'[m] = IF m \in stale THEN prunes[m] + 1 ELSE prunes[m]
    BY <1>2 DEF Without
  <1>5. stale \subseteq Maps /\ outstanding \in [Maps -> Nat] /\ prunes \in [Maps -> Nat]
    BY <1>0 DEF TypeOK
  <1>6. TypeOK'
    BY <1>0, <1>1, <1>3, <1>5 DEF TypeOK
  <1>7. MarkHasRequest' /\ RequestsBounded'
    BY <1>0, <1>1, <1>4, <1>5 DEF MarkHasRequest, RequestsBounded
  <1>8. DroppedMapsForgotten'
    BY <1>0, <1>1, <1>4, <1>5 DEF DroppedMapsForgotten
  <1>9. DepthJumpsConfirmed'
    BY <1>0, <1>1, JobsKeep
  <1>10. ResolvingTracked'
    <2>1. \A m \in Maps : ~Resolving("node", m)
      BY <1>1 DEF Idle, Resolving
    <2>2. \A t \in Threads, m \in Maps : Resolving(t, m)' = Resolving(t, m)
      BY <1>1 DEF Resolving
    <2> QED BY <1>0, <1>1, <2>1, <2>2 DEF ResolvingTracked, Threads
  <1>11. DepthIsSeen'
    BY <1>0, <1>1, <1>4 DEF DepthIsSeen
  <1> QED BY <1>6, <1>7, <1>8, <1>9, <1>10, <1>11 DEF ScaleInv

(* A result is taken, and its mark cleared.                                *)
LEMMA PollKeeps ==
    ASSUME ScaleInv, NEW m \in Maps, NEW result \in Scales \cup {NoScale}, PollResult(m, result)
    PROVE  ScaleInv'
  <1>0. /\ TypeOK /\ MarkHasRequest /\ RequestsBounded /\ DroppedMapsForgotten
        /\ DepthJumpsConfirmed /\ ResolvingTracked /\ DepthIsSeen
    BY DEF ScaleInv
  <1>1. /\ outstanding[m] > 0 /\ outstanding' = [outstanding EXCEPT ![m] = @ - 1]
        /\ inFlight' = inFlight \ {m} /\ Idle("node")
        /\ UNCHANGED <<tracked, stale, prunes, scale, quarantine, raced, ext, mode, job, alive>>
    BY DEF PollResult, NodeIdle
  <1>2. /\ outstanding \in [Maps -> Nat] /\ prunes \in [Maps -> Nat] /\ inFlight \subseteq Maps
    BY <1>0 DEF TypeOK
  <1>3. /\ outstanding' \in [Maps -> Nat]
        /\ \A k \in Maps : outstanding'[k] = outstanding[k] - (IF k = m THEN 1 ELSE 0)
    BY <1>1, <1>2
  <1>4. MarkHasRequest'
    BY <1>0, <1>1, <1>2, <1>3 DEF MarkHasRequest
  <1>5. RequestsBounded'
    BY <1>0, <1>1, <1>2, <1>3 DEF RequestsBounded
  <1>6. CASE UNCHANGED <<depth, seen, todo>>
    <2>1. TypeOK'
      BY <1>0, <1>1, <1>3, <1>6 DEF TypeOK
    <2>2. DroppedMapsForgotten' /\ DepthJumpsConfirmed' /\ ResolvingTracked' /\ DepthIsSeen'
      BY <1>0, <1>1, <1>6, JobsKeep
      DEF DroppedMapsForgotten, ResolvingTracked, Resolving, DepthIsSeen
    <2> QED BY <1>4, <1>5, <2>1, <2>2 DEF ScaleInv
  <1>7. CASE /\ m \in tracked /\ result \in Scales
             /\ depth' = [depth EXCEPT ![m] = result]
             /\ seen' = [seen EXCEPT ![m] = @ \cup {result}]
             /\ todo' = [todo EXCEPT !["node"] = {m}]
    <2>1. /\ depth \in [Maps -> Scales \cup {NoScale}] /\ seen \in [Maps -> SUBSET Scales]
          /\ todo \in [Threads -> SUBSET Maps] /\ job \in [Threads -> Jobs \cup {NoJob}]
      BY <1>0 DEF TypeOK
    <2>2. /\ depth' \in [Maps -> Scales \cup {NoScale}] /\ seen' \in [Maps -> SUBSET Scales]
          /\ todo' \in [Threads -> SUBSET Maps]
          /\ \A k \in Maps : seen[k] \subseteq seen'[k]
          /\ \A k \in Maps \ {m} : depth'[k] = depth[k]
          /\ depth'[m] = result /\ result \in seen'[m]
          /\ todo'["node"] = {m} /\ todo'["key"] = todo["key"]
      BY <1>7, <2>1 DEF Threads
    <2>3. TypeOK'
      BY <1>0, <1>1, <1>3, <2>2 DEF TypeOK
    <2>4. DroppedMapsForgotten'
      BY <1>0, <1>1, <1>7, <2>2 DEF DroppedMapsForgotten
    <2>5. \A t \in Threads : job[t] # NoJob => job[t].p.map \in Maps
      BY <2>1 DEF Jobs, Proposals
    <2>6. DepthJumpsConfirmed'
      BY <1>0, <1>1, <2>2, <2>5 DEF DepthJumpsConfirmed
    <2>7. ResolvingTracked'
      BY <1>0, <1>1, <1>7, <2>2 DEF ResolvingTracked, Resolving, Threads, Idle
    <2>8. DepthIsSeen'
      BY <1>0, <1>1, <2>2, <2>5 DEF DepthIsSeen
    <2> QED BY <1>4, <1>5, <2>3, <2>4, <2>6, <2>7, <2>8 DEF ScaleInv
  <1> QED BY <1>6, <1>7 DEF PollResult

-----------------------------------------------------------------------------
(* A loop over the tracked maps begins, or is cut short.                   *)
LEMMA LoopsKeep ==
    ASSUME ScaleInv,
           \/ ResolveTimer \/ CycleScaleSourceMode
           \/ \E t \in Threads : EstimateRaises(t)
    PROVE  ScaleInv'
  <1>0. /\ TypeOK /\ MarkHasRequest /\ RequestsBounded /\ DroppedMapsForgotten
        /\ DepthJumpsConfirmed /\ ResolvingTracked /\ DepthIsSeen
    BY DEF ScaleInv
  <1>1. /\ UNCHANGED <<tracked, stale, inFlight, outstanding, prunes>>
        /\ UNCHANGED <<depth, scale, quarantine, seen, raced, ext, job>>
    BY DEF ResolveTimer, CycleScaleSourceMode, EstimateRaises, trackVars, scaleVars
  <1>2. PICK t \in Threads : /\ todo' = [todo EXCEPT ![t] = tracked]
                                \/ todo' = [todo EXCEPT ![t] = {}]
    BY DEF ResolveTimer, CycleScaleSourceMode, EstimateRaises, Threads
  <1>3. todo \in [Threads -> SUBSET Maps] /\ tracked \subseteq Maps
    BY <1>0 DEF TypeOK
  <1>4. /\ todo' \in [Threads -> SUBSET Maps]
        /\ \A u \in Threads : todo'[u] \subseteq todo[u] \cup tracked
    BY <1>2, <1>3
  <1>5. mode' \in {"tof", "depth", "auto"} /\ alive' \in BOOLEAN
    <2>0. mode \in {"tof", "depth", "auto"} /\ alive \in BOOLEAN
      BY <1>0 DEF TypeOK
    <2>1. CASE ResolveTimer
      BY <2>0, <2>1 DEF ResolveTimer
    <2>2. CASE CycleScaleSourceMode
      <3>1. mode' = NextMode[mode] /\ alive' = alive
        BY <2>2 DEF CycleScaleSourceMode
      <3>2. NextMode[mode] \in {"tof", "depth", "auto"}
        BY <2>0 DEF NextMode
      <3> QED BY <2>0, <3>1, <3>2
    <2>3. CASE \E u \in Threads : EstimateRaises(u)
      <3>1. PICK u \in Threads : EstimateRaises(u)
        BY <2>3
      <3>2. mode' = mode /\ alive' = (alive /\ u # "node")
        BY <3>1, Zenon DEF EstimateRaises
      <3>3. alive' \in BOOLEAN
        BY <3>2, Zenon
      <3> QED BY <2>0, <3>2, <3>3
    <2> QED BY <2>1, <2>2, <2>3
  <1>6. TypeOK'
    BY <1>0, <1>1, <1>4, <1>5 DEF TypeOK
  <1>7. ResolvingTracked'
    BY <1>0, <1>1, <1>4 DEF ResolvingTracked, Resolving
  <1>8. MarkHasRequest' /\ RequestsBounded' /\ DroppedMapsForgotten' /\ DepthIsSeen'
    BY <1>0, <1>1 DEF MarkHasRequest, RequestsBounded, DroppedMapsForgotten, DepthIsSeen
  <1>9. DepthJumpsConfirmed'
    BY <1>0, <1>1, JobsKeep
  <1> QED BY <1>6, <1>7, <1>8, <1>9 DEF ScaleInv

(* Time passes for a quarantined ToF scale.                                *)
LEMMA HoldKeeps ==
    ASSUME ScaleInv, NEW m \in Maps, HoldElapses(m)
    PROVE  ScaleInv'
  <1>0. /\ TypeOK /\ MarkHasRequest /\ RequestsBounded /\ DroppedMapsForgotten
        /\ DepthJumpsConfirmed /\ ResolvingTracked /\ DepthIsSeen
    BY DEF ScaleInv
  <1>1. /\ UNCHANGED <<tracked, stale, inFlight, outstanding, prunes>>
        /\ UNCHANGED <<depth, scale, seen, raced, ext, mode, todo, job, alive>>
        /\ quarantine[m] # NoEntry /\ quarantine[m].source # "depth"
    BY DEF HoldElapses, trackVars
  <1>2. quarantine \in [Maps -> Entries \cup {NoEntry}]
    BY <1>0 DEF TypeOK
  <1> DEFINE e == [quarantine[m] EXCEPT !.held = TRUE]
  <1>3. e \in Entries /\ e.source # "depth"
    BY <1>1, <1>2 DEF Entries
  <1>4. quarantine' = [quarantine EXCEPT ![m] = e]
    BY DEF HoldElapses
  <1> HIDE DEF e
  <1>5. /\ quarantine' \in [Maps -> Entries \cup {NoEntry}]
        /\ \A k \in Maps \ {m} : quarantine'[k] = quarantine[k]
        /\ quarantine'[m] = e
    BY <1>2, <1>3, <1>4
  <1>6. TypeOK'
    BY <1>0, <1>1, <1>5 DEF TypeOK
  <1>7. MarkHasRequest' /\ RequestsBounded' /\ DroppedMapsForgotten'
    BY <1>0, <1>1, <1>5 DEF MarkHasRequest, RequestsBounded, DroppedMapsForgotten
  <1>8. DepthIsSeen'
    BY <1>0, <1>1, <1>3, <1>5 DEF DepthIsSeen
  <1>9. DepthJumpsConfirmed' /\ ResolvingTracked'
    BY <1>0, <1>1, JobsKeep DEF ResolvingTracked, Resolving
  <1> QED BY <1>6, <1>7, <1>8, <1>9 DEF ScaleInv

(* A thread reads what is proposed for a map: for the depth worker one of  *)
(* the map's results.                                                      *)
LEMMA ProposeKeeps ==
    ASSUME ScaleInv, NEW t \in Threads, NEW m \in Maps, NEW e \in Estimates, Propose(t, m, e)
    PROVE  ScaleInv'
  <1>0. /\ TypeOK /\ MarkHasRequest /\ RequestsBounded /\ DroppedMapsForgotten
        /\ DepthJumpsConfirmed /\ ResolvingTracked /\ DepthIsSeen
    BY DEF ScaleInv
  <1>1. /\ UNCHANGED <<tracked, stale, inFlight, outstanding, prunes>>
        /\ UNCHANGED <<depth, scale, quarantine, seen, raced, ext, mode, alive>>
        /\ job[t] = NoJob /\ m \in todo[t] /\ todo' = [todo EXCEPT ![t] = @ \ {m}]
    BY DEF Propose, trackVars, scaleVars
  <1>2. /\ todo \in [Threads -> SUBSET Maps] /\ job \in [Threads -> Jobs \cup {NoJob}]
        /\ depth \in [Maps -> Scales \cup {NoScale}]
        /\ ext \in [Maps -> TofScales \cup {NoScale}]
    BY <1>0 DEF TypeOK
  <1>3. /\ todo' \in [Threads -> SUBSET Maps]
        /\ \A u \in Threads : todo'[u] \subseteq todo[u]
    BY <1>1, <1>2
  <1>4. MarkHasRequest' /\ RequestsBounded' /\ DroppedMapsForgotten'
    BY <1>0, <1>1 DEF MarkHasRequest, RequestsBounded, DroppedMapsForgotten
  <1>5. CASE job' = job
    <2>1. TypeOK'
      BY <1>0, <1>1, <1>3, <1>5 DEF TypeOK
    <2>2. DepthJumpsConfirmed' /\ ResolvingTracked' /\ DepthIsSeen'
      BY <1>0, <1>1, <1>3, <1>5, JobsKeep DEF ResolvingTracked, Resolving, DepthIsSeen
    <2> QED BY <1>4, <2>1, <2>2 DEF ScaleInv
  <1>6. CASE job' # job
    <2> DEFINE p == Chosen(m, e)
               j == [p |-> p, adopt |-> FALSE, base |-> NoScale]
    <2>1. p.value # NoScale /\ job' = [job EXCEPT ![t] = j]
      BY <1>6 DEF Propose
    <2>2. /\ p.map = m
          /\ p = [map |-> m, value |-> p.value, source |-> p.source]
          /\ p.source \in Sources
      BY DEF Chosen, Sources
    <2>3. p.value \in AllScales
      BY <1>2, <2>1 DEF Chosen, Estimates, UsesInternal, AllScales
    <2>4. p.source = "depth" => p.value = depth[m]
      BY DEF Chosen
    <2>5. p \in Proposals
      BY <2>2, <2>3 DEF Proposals
    <2> HIDE DEF p
    <2>6. j \in Jobs /\ j.p = p /\ ~j.adopt
      BY <2>5 DEF Jobs
    <2> HIDE DEF j
    <2>7. /\ job' \in [Threads -> Jobs \cup {NoJob}] /\ job'[t] = j
          /\ \A u \in Threads \ {t} : job'[u] = job[u]
      BY <1>2, <2>1, <2>6
    <2>8. TypeOK'
      BY <1>0, <1>1, <1>3, <2>7 DEF TypeOK
    <2>9. DepthJumpsConfirmed'
      BY <1>0, <1>1, <2>6, <2>7 DEF DepthJumpsConfirmed
    <2>10. ResolvingTracked'
      BY <1>0, <1>1, <1>3, <2>2, <2>6, <2>7 DEF ResolvingTracked, Resolving
    <2>11. DepthIsSeen'
      BY <1>0, <1>1, <2>1, <2>2, <2>4, <2>6, <2>7 DEF DepthIsSeen
    <2> QED BY <1>4, <2>8, <2>9, <2>10, <2>11 DEF ScaleInv
  <1> QED BY <1>5, <1>6

(* A scale is near itself.                                                 *)
LEMMA NearItself == ASSUME NEW s \in Nat PROVE Near(s, s)
  BY DEF Near

(* A decision: the proposal is dropped into the quarantine, or goes on to  *)
(* be adopted.                                                             *)
LEMMA DecideKeeps ==
    ASSUME ScaleInv, NEW t \in Threads, Decide(t)
    PROVE  ScaleInv'
  <1>0. /\ TypeOK /\ MarkHasRequest /\ RequestsBounded /\ DroppedMapsForgotten
        /\ DepthJumpsConfirmed /\ ResolvingTracked /\ DepthIsSeen
    BY DEF ScaleInv
  <1> DEFINE p == job[t].p
             m == p.map
             entry == quarantine[m]
             j == [job[t] EXCEPT !.adopt = TRUE, !.base = scale[m]]
  <1>1. /\ UNCHANGED <<tracked, stale, inFlight, outstanding, prunes>>
        /\ UNCHANGED <<depth, scale, seen, raced, ext, mode, todo, alive>>
        /\ job[t] # NoJob
    BY DEF Decide, trackVars
  <1>2. /\ job \in [Threads -> Jobs \cup {NoJob}] /\ scale \in [Maps -> AllScales \cup {NoScale}]
        /\ quarantine \in [Maps -> Entries \cup {NoEntry}]
    BY <1>0 DEF TypeOK
  <1>3. job[t] \in Jobs /\ p \in Proposals /\ m \in Maps /\ p.value \in AllScales
    BY <1>1, <1>2 DEF Jobs, Proposals
  <1>4. j \in Jobs /\ j.p = p /\ j.adopt /\ j.base = scale[m]
    BY <1>2, <1>3 DEF Jobs
  <1>5. MarkHasRequest' /\ RequestsBounded'
    BY <1>0, <1>1 DEF MarkHasRequest, RequestsBounded
  <1>6. p.source = "depth" => p.value \in seen[m]
    BY <1>0, <1>1 DEF DepthIsSeen
  <1>7. m \in tracked \/ m \in raced
    BY <1>0, <1>1, <1>3 DEF ResolvingTracked, Resolving
  <1>8. CASE /\ job' = [job EXCEPT ![t] = j]
             /\ \/ scale[m] = NoScale /\ quarantine' = quarantine
                \/ /\ Near(p.value, scale[m]) \/ (Comparable(entry, p) /\ Confirms(entry, p))
                   /\ quarantine' = [quarantine EXCEPT ![m] = NoEntry]
    <2> HIDE DEF j
    <2>1. /\ job' \in [Threads -> Jobs \cup {NoJob}] /\ job'[t] = j
          /\ \A u \in Threads \ {t} : job'[u] = job[u]
      BY <1>2, <1>4, <1>8
    <2>2. /\ quarantine' \in [Maps -> Entries \cup {NoEntry}]
          /\ \A k \in Maps : quarantine'[k] \in {quarantine[k], NoEntry}
      BY <1>2, <1>8
    <2>3. TypeOK'
      BY <1>0, <1>1, <2>1, <2>2 DEF TypeOK
    <2>4. DroppedMapsForgotten'
      BY <1>0, <1>1, <2>2 DEF DroppedMapsForgotten
    <2>5. ResolvingTracked'
      BY <1>0, <1>1, <1>4, <2>1 DEF ResolvingTracked, Resolving
    <2>6. DepthIsSeen'
      BY <1>0, <1>1, <1>4, <1>6, <2>1, <2>2 DEF DepthIsSeen
    <2>7. p.source = "depth" /\ scale[m] # NoScale /\ ~Near(p.value, scale[m]) =>
            \E c, v \in seen[m] : p.value \in seen[m] \ {v} /\ Near(v, c) /\ Near(p.value, c)
      <3> SUFFICES ASSUME p.source = "depth", scale[m] # NoScale, ~Near(p.value, scale[m])
                   PROVE  \E c, v \in seen[m] : /\ p.value \in seen[m] \ {v}
                                                /\ Near(v, c) /\ Near(p.value, c)
        OBVIOUS
      <3>1. Comparable(entry, p) /\ Confirms(entry, p)
        BY <1>8
      <3>2. entry # NoEntry /\ entry.source = "depth" /\ Near(p.value, entry.candidate)
        BY <3>1 DEF Comparable
      <3>3. p.value # entry.last
        BY <3>1 DEF Confirms, TimeBased
      <3>4. /\ entry.candidate \in seen[m] /\ entry.last \in seen[m]
            /\ Near(entry.last, entry.candidate)
        BY <1>0, <1>3, <3>2 DEF DepthIsSeen
      <3> QED BY <1>6, <3>2, <3>3, <3>4
    <2>8. DepthJumpsConfirmed'
      <3> SUFFICES ASSUME NEW u \in Threads, job'[u] # NoJob, job'[u].adopt,
                          job'[u].p.source = "depth", job'[u].base # NoScale,
                          ~Near(job'[u].p.value, job'[u].base)
                   PROVE  \E c, v \in seen'[job'[u].p.map] :
                            /\ job'[u].p.value \in seen'[job'[u].p.map] \ {v}
                            /\ Near(v, c) /\ Near(job'[u].p.value, c)
        BY DEF DepthJumpsConfirmed
      <3>1. CASE u = t
        BY <1>1, <1>4, <2>1, <2>7, <3>1
      <3>2. CASE u # t
        BY <1>0, <1>1, <2>1, <3>2 DEF DepthJumpsConfirmed
      <3> QED BY <3>1, <3>2
    <2> QED BY <1>5, <2>3, <2>4, <2>5, <2>6, <2>8 DEF ScaleInv
  <1>9. CASE /\ scale[m] # NoScale
             /\ ~(Comparable(entry, p) /\ Confirms(entry, p))
             /\ job' = [job EXCEPT ![t] = NoJob]
             /\ quarantine' = [quarantine EXCEPT ![m] = Quarantined(entry, p)]
    <2> DEFINE q == Quarantined(entry, p)
    <2>1. q \in Entries
      <3>1. CASE ~Comparable(entry, p)
        <4>1. 1 \in 1..ConfirmationsRequired
          BY ScalesAssumption DEF ScalesAssumption
        <4> QED BY <1>3, <3>1, <4>1 DEF Quarantined, Entries, Proposals
      <3>2. CASE Comparable(entry, p) /\ (TimeBased(p) \/ p.value = entry.last)
        BY <1>2, <1>3, <3>2 DEF Quarantined, Comparable
      <3>3. CASE Comparable(entry, p) /\ ~TimeBased(p) /\ p.value # entry.last
        <4>1. entry \in Entries
          BY <1>2, <1>3, <3>3 DEF Comparable
        <4>2. entry.confirmations + 1 \in 1..ConfirmationsRequired
          BY <1>9, <3>3, <4>1, ScalesAssumption DEF Confirms, Entries, ScalesAssumption
        <4>3. q = [entry EXCEPT !.last = p.value, !.confirmations = @ + 1]
          BY <3>3 DEF Quarantined
        <4> QED BY <1>3, <4>1, <4>2, <4>3 DEF Entries
      <3> QED BY <3>1, <3>2, <3>3
    <2>2. q.source = "depth" =>
            /\ q.candidate \in seen[m] /\ q.last \in seen[m] /\ Near(q.last, q.candidate)
      <3> SUFFICES ASSUME q.source = "depth"
                   PROVE  /\ q.candidate \in seen[m] /\ q.last \in seen[m]
                          /\ Near(q.last, q.candidate)
        OBVIOUS
      <3>1. CASE ~Comparable(entry, p)
        <4>1. p.value \in Nat
          BY <1>3, ScalesAssumption DEF ScalesAssumption, AllScales
        <4>2. q.candidate = p.value /\ q.last = p.value /\ p.source = "depth"
          BY <3>1 DEF Quarantined
        <4> QED BY <1>6, <4>1, <4>2, NearItself
      <3>2. CASE Comparable(entry, p) /\ (TimeBased(p) \/ p.value = entry.last)
        BY <1>0, <1>3, <3>2 DEF Quarantined, Comparable, DepthIsSeen
      <3>3. CASE Comparable(entry, p) /\ ~TimeBased(p) /\ p.value # entry.last
        <4>1. entry \in Entries /\ entry.source = p.source /\ Near(p.value, entry.candidate)
          BY <1>2, <1>3, <3>3 DEF Comparable
        <4>2. q = [entry EXCEPT !.last = p.value, !.confirmations = @ + 1]
          BY <3>3 DEF Quarantined
        <4>3. q.source = entry.source /\ q.candidate = entry.candidate /\ q.last = p.value
          BY <4>1, <4>2 DEF Entries
        <4> QED BY <1>0, <1>3, <1>6, <3>3, <4>1, <4>3 DEF DepthIsSeen, Comparable
      <3> QED BY <3>1, <3>2, <3>3
    <2> HIDE DEF q
    <2>3. /\ quarantine' \in [Maps -> Entries \cup {NoEntry}] /\ quarantine'[m] = q
          /\ \A k \in Maps \ {m} : quarantine'[k] = quarantine[k]
      BY <1>2, <1>3, <1>9, <2>1 DEF q
    <2>4. /\ job' \in [Threads -> Jobs \cup {NoJob}] /\ job'[t] = NoJob
          /\ \A u \in Threads \ {t} : job'[u] = job[u]
      BY <1>2, <1>9
    <2>5. TypeOK'
      BY <1>0, <1>1, <2>3, <2>4 DEF TypeOK
    <2>6. DroppedMapsForgotten'
      BY <1>0, <1>1, <1>7, <2>3 DEF DroppedMapsForgotten
    <2>7. ResolvingTracked'
      BY <1>0, <1>1, <2>4 DEF ResolvingTracked, Resolving
    <2>8. DepthIsSeen'
      BY <1>0, <1>1, <2>2, <2>3, <2>4 DEF DepthIsSeen
    <2>9. DepthJumpsConfirmed'
      BY <1>0, <1>1, <2>4 DEF DepthJumpsConfirmed
    <2> QED BY <1>5, <2>5, <2>6, <2>7, <2>8, <2>9 DEF ScaleInv
  <1> QED BY <1>8, <1>9 DEF Decide

(* An adoption.                                                            *)
LEMMA AdoptKeeps ==
    ASSUME ScaleInv, NEW t \in Threads, Adopt(t)
    PROVE  ScaleInv'
  <1>0. /\ TypeOK /\ MarkHasRequest /\ RequestsBounded /\ DroppedMapsForgotten
        /\ DepthJumpsConfirmed /\ ResolvingTracked /\ DepthIsSeen
    BY DEF ScaleInv
  <1> DEFINE m == job[t].p.map
             s == job[t].p.value
  <1>1. /\ UNCHANGED <<tracked, stale, inFlight, outstanding, prunes>>
        /\ UNCHANGED <<depth, quarantine, seen, raced, ext, mode, todo, alive>>
        /\ job[t] # NoJob /\ job' = [job EXCEPT ![t] = NoJob]
        /\ scale' = [scale EXCEPT ![m] = s]
    BY DEF Adopt, trackVars
  <1>2. /\ job \in [Threads -> Jobs \cup {NoJob}] /\ scale \in [Maps -> AllScales \cup {NoScale}]
    BY <1>0 DEF TypeOK
  <1>3. m \in Maps /\ s \in AllScales
    BY <1>1, <1>2 DEF Jobs, Proposals
  <1>4. m \in tracked \/ m \in raced
    BY <1>0, <1>1, <1>3 DEF ResolvingTracked, Resolving
  <1> HIDE DEF m, s
  <1>5. /\ job' \in [Threads -> Jobs \cup {NoJob}] /\ job'[t] = NoJob
        /\ \A u \in Threads \ {t} : job'[u] = job[u]
    BY <1>1, <1>2
  <1>6. /\ scale' \in [Maps -> AllScales \cup {NoScale}]
        /\ \A k \in Maps \ {m} : scale'[k] = scale[k]
    BY <1>1, <1>2, <1>3
  <1>7. TypeOK'
    BY <1>0, <1>1, <1>5, <1>6 DEF TypeOK
  <1>8. MarkHasRequest' /\ RequestsBounded' /\ DroppedMapsForgotten'
    BY <1>0, <1>1, <1>4, <1>6 DEF MarkHasRequest, RequestsBounded, DroppedMapsForgotten
  <1>9. DepthJumpsConfirmed' /\ ResolvingTracked' /\ DepthIsSeen'
    BY <1>0, <1>1, <1>5 DEF DepthJumpsConfirmed, ResolvingTracked, Resolving, DepthIsSeen
  <1> QED BY <1>7, <1>8, <1>9 DEF ScaleInv

-----------------------------------------------------------------------------
(* Every step keeps the invariant.                                         *)
LEMMA StepKeeps == ScaleInv /\ [Next]_vars => ScaleInv'
  <1> SUFFICES ASSUME ScaleInv, [Next]_vars PROVE ScaleInv'
    OBVIOUS
  <1>1. CASE UNCHANGED vars
    BY <1>1 DEF vars, trackVars, scaleVars, ScaleInv, TypeOK, MarkHasRequest, RequestsBounded,
                DroppedMapsForgotten, DepthJumpsConfirmed, ResolvingTracked, Resolving,
                DepthIsSeen
  <1>2. CASE \E m \in Maps : ExecutorStep(m)
    BY <1>2, StartTrackingKeeps, SmallStepsKeep, PollKeeps DEF ExecutorStep
  <1>3. CASE \E m \in Maps : WorldStep(m)
    BY <1>3, SmallStepsKeep, HoldKeeps DEF WorldStep
  <1>4. CASE PruneStaleMapIds
    BY <1>4, PruneKeeps
  <1>5. CASE ResolveTimer \/ CycleScaleSourceMode \/ \E t \in Threads : EstimateRaises(t)
    BY <1>5, LoopsKeep
  <1>6. CASE \E t \in Threads : ResolveStep(t)
    BY <1>6, ProposeKeeps, DecideKeeps, AdoptKeeps DEF ResolveStep
  <1> QED BY <1>1, <1>2, <1>3, <1>4, <1>5, <1>6 DEF Next

(* The invariant of the scale manager.                                     *)
THEOREM ScaleInvariant == Spec => []ScaleInv
  <1>1. Init => ScaleInv
    BY ScaleInit
  <1>2. ScaleInv /\ [Next]_vars => ScaleInv'
    BY StepKeeps
  <1> QED BY <1>1, <1>2, PTL DEF Spec

(* Every variable has its type.                                            *)
THEOREM TypeCorrect == Spec => []TypeOK
  <1>1. ScaleInv => TypeOK
    BY DEF ScaleInv
  <1> QED BY <1>1, ScaleInvariant, PTL

(* An in-flight mark always has a request that will clear it.              *)
THEOREM MarksNeverStick == Spec => []MarkHasRequest
  <1>1. ScaleInv => MarkHasRequest
    BY DEF ScaleInv
  <1> QED BY <1>1, ScaleInvariant, PTL

(* A map has at most one request out, and one more for each time it was    *)
(* dropped.                                                                *)
THEOREM RequestsStayBounded == Spec => []RequestsBounded
  <1>1. ScaleInv => RequestsBounded
    BY DEF ScaleInv
  <1> QED BY <1>1, ScaleInvariant, PTL

(* Only an 'm' key pressed just before brings a dropped map back.          *)
THEOREM OnlyTheKeyRevives == Spec => []DroppedMapsForgotten
  <1>1. ScaleInv => DroppedMapsForgotten
    BY DEF ScaleInv
  <1> QED BY <1>1, ScaleInvariant, PTL

(* A sharp change by the depth worker has two different results behind it. *)
THEOREM NoJumpOnOneResult == Spec => []DepthJumpsConfirmed
  <1>1. ScaleInv => DepthJumpsConfirmed
    BY DEF ScaleInv
  <1> QED BY <1>1, ScaleInvariant, PTL
=============================================================================
