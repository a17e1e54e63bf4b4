------------------------- MODULE DataFlowProofs -------------------------
(***************************************************************************)
(* Theorems about the flow of data into and out of SLAM: about MapPipeline,*)
(* for any set of maps and any bounds, and about FrameStream, for any      *)
(* number of frames and of restarts.                                       *)
(***************************************************************************)
EXTENDS MapPipeline, FrameStream, TLAPS

(* Deleting an entry of a sequence.                                        *)
LEMMA RemoveAtLemma ==
    ASSUME NEW S, NEW s \in Seq(S), NEW i \in DOMAIN s
    PROVE  /\ RemoveAt(s, i) \in Seq(S)
           /\ Len(RemoveAt(s, i)) = Len(s) - 1
           /\ \A j \in 1..(Len(s) - 1) :
                RemoveAt(s, i)[j] = IF j < i THEN s[j] ELSE s[j + 1]
  <1> DEFINE front == SubSeq(s, 1, i - 1)
             back == SubSeq(s, i + 1, Len(s))
  <1>1. i \in 1..Len(s) /\ Len(s) \in Nat /\ \A k \in 1..Len(s) : s[k] \in S
    OBVIOUS
  <1>2. front \in Seq(S) /\ Len(front) = i - 1 /\ \A j \in 1..(i - 1) : front[j] = s[j]
    BY <1>1
  <1>3. /\ back \in Seq(S) /\ Len(back) = Len(s) - i
        /\ \A j \in 1..(Len(s) - i) : back[j] = s[i + j]
    BY <1>1
  <1> HIDE DEF front, back
  <1>4. front \o back \in Seq(S) /\ Len(front \o back) = Len(s) - 1
    BY <1>1, <1>2, <1>3
  <1>5. \A j \in 1..(Len(s) - 1) :
            (front \o back)[j] = IF j < i THEN front[j] ELSE back[j - i + 1]
    BY <1>1, <1>2, <1>3
  <1>6. \A j \in 1..(Len(s) - 1) : (front \o back)[j] = IF j < i THEN s[j] ELSE s[j + 1]
    BY <1>1, <1>2, <1>3, <1>5
  <1> QED BY <1>4, <1>6 DEF RemoveAt, front, back

(* The invariant holds at the start.                                       *)
LEMMA PipelineInit == Init => MapInv
  <1> SUFFICES ASSUME Init PROVE MapInv
    OBVIOUS
  <1> USE DEF Init, ScalerInit, OccupancyInit
  <1>1. TypeOK
    <2>1. switches \in 0..MaxSwitches /\ slamMap \in Maps
      BY MapsAssumption DEF MapsAssumption
    <2>2. forcePublish \in BOOLEAN /\ missed \in BOOLEAN
      OBVIOUS
    <2>3. DOMAIN transforms = {}
      OBVIOUS
    <2> QED BY <2>1, <2>2, <2>3 DEF TypeOK
  <1>2. OneVerdict
    BY DEF OneVerdict
  <1>3. OnlyDecided /\ FramesRegistered /\ TreeRegistered
    BY DEF OnlyDecided, FramesRegistered, TreeRegistered
  <1> QED BY <1>1, <1>2, <1>3 DEF MapInv

-----------------------------------------------------------------------------
(* A raw pose appends at most one transition, of a map that is neither     *)
(* pending nor decided.                                                    *)
LEMMA OnPoseRawKeeps == MapInv /\ OnPoseRaw /\ UNCHANGED occupancyVars => MapInv'
  <1> SUFFICES ASSUME MapInv, OnPoseRaw, UNCHANGED occupancyVars PROVE MapInv'
    OBVIOUS
  <1>0. /\ TypeOK /\ OneVerdict /\ OnlyDecided /\ FramesRegistered /\ TreeRegistered
    BY DEF MapInv
  <1>1. /\ rawMap' \in Maps /\ cursor' = 1
        /\ UNCHANGED <<alignedIds, transforms, verdicts, slamMap, switches, scaled>>
        /\ UNCHANGED <<jobQueue, batch, gate, octree, forcePublish, published, missed>>
    BY <1>0 DEF OnPoseRaw, TypeOK, inputVars, occupancyVars, publication
  <1>2. CASE pending' = pending
    <2>1. TypeOK'
      BY <1>0, <1>1, <1>2 DEF TypeOK
    <2>2. OneVerdict' /\ OnlyDecided' /\ FramesRegistered' /\ TreeRegistered'
      BY <1>0, <1>1, <1>2
      DEF OneVerdict, OnlyDecided, FramesRegistered, TreeRegistered, HasRegistration
    <2> QED BY <2>1, <2>2 DEF MapInv
  <1>3. CASE pending' # pending
    <2> DEFINE t == [new |-> slamMap, old |-> rawMap, oldScaled |-> rawMap \in scaled,
                     late |-> FALSE]
    <2>1. pending' = Append(pending, t) /\ IsNewTransition(slamMap) /\ rawMap \in Maps
      BY <1>0, <1>3 DEF OnPoseRaw, TypeOK
    <2>2. t \in Transitions /\ t.new = slamMap
      BY <1>0, <2>1 DEF Transitions, TypeOK
    <2> HIDE DEF t
    <2>3. pending' \in Seq(Transitions) /\ Len(pending') = Len(pending) + 1
      BY <1>0, <2>1, <2>2 DEF TypeOK
    <2>4. \A i \in DOMAIN pending' :
            IF i \in DOMAIN pending THEN pending'[i] = pending[i]
            ELSE i = Len(pending') /\ pending'[i] = t
      BY <1>0, <2>1, <2>2 DEF TypeOK
    <2>5. TypeOK'
      BY <1>0, <1>1, <2>3 DEF TypeOK
    <2>6. /\ \A i \in DOMAIN pending : pending[i].new # t.new
          /\ t.new \notin alignedIds
      BY <2>1, <2>2 DEF IsNewTransition, IsPending
    <2>7. OneVerdict'
      BY <1>0, <1>1, <2>4, <2>6 DEF OneVerdict
    <2>8. OnlyDecided' /\ FramesRegistered' /\ TreeRegistered'
      BY <1>0, <1>1 DEF OnlyDecided, FramesRegistered, TreeRegistered, HasRegistration
    <2> QED BY <2>5, <2>7, <2>8 DEF MapInv
  <1> QED BY <1>2, <1>3

(* A decision moves one map from the pending ones to the decided ones and  *)
(* announces it, for the first time.                                       *)
LEMMA DecideKeeps ==
    ASSUME TypeOK, OneVerdict, OnlyDecided,
           NEW t, ResolvePending(t), NEW accepted \in BOOLEAN, Decide(t, accepted),
           gate' = gate
    PROVE  /\ pending' \in Seq(Transitions) /\ cursor \in 0..(Len(pending') + 1)
           /\ t.new \in Maps \ alignedIds /\ alignedIds' = alignedIds \cup {t.new}
           /\ verdicts' \in Seq(Verdicts)
           /\ OneVerdict'
  <1>1. /\ pending \in Seq(Transitions) /\ verdicts \in Seq(Verdicts)
        /\ cursor \in DOMAIN pending /\ t = pending[cursor]
    BY DEF TypeOK, ResolvePending
  <1>2. t \in Transitions /\ t.new \in Maps /\ t.new \notin alignedIds
    <2>1. t \in Transitions
      BY <1>1
    <2>2. t.new \in Maps
      BY <2>1 DEF Transitions
    <2>3. t.new \notin alignedIds
      BY <1>1 DEF OneVerdict
    <2> QED BY <2>1, <2>2, <2>3
  <1>3. /\ pending' \in Seq(Transitions) /\ Len(pending') = Len(pending) - 1
        /\ \A j \in 1..(Len(pending) - 1) :
                pending'[j] = IF j < cursor THEN pending[j] ELSE pending[j + 1]
    BY <1>1, RemoveAtLemma DEF Decide
  <1>4. \A j \in DOMAIN pending' : \E k \in DOMAIN pending \ {cursor} :
            /\ pending'[j] = pending[k]
            /\ k = IF j < cursor THEN j ELSE j + 1
    BY <1>1, <1>3
  <1> DEFINE v == [map |-> t.new, accepted |-> accepted]
  <1>5. v \in Verdicts /\ v.map = t.new
    BY <1>2 DEF Verdicts
  <1>6. verdicts' = Append(verdicts, v) /\ alignedIds' = alignedIds \cup {t.new}
    BY DEF Decide
  <1> HIDE DEF v
  <1>7. /\ verdicts' \in Seq(Verdicts)
        /\ \A i \in DOMAIN verdicts' : IF i \in DOMAIN verdicts THEN verdicts'[i] = verdicts[i]
                                       ELSE i = Len(verdicts') /\ verdicts'[i] = v
    BY <1>1, <1>5, <1>6
  <1>8. cursor \in 0..(Len(pending') + 1)
    BY <1>1, <1>3
  <1>9. \A k \in DOMAIN pending \ {cursor} : pending[k].new # t.new
    BY <1>1 DEF OneVerdict
  <1>10. \A i, j \in DOMAIN pending' : i # j => pending'[i].new # pending'[j].new
    BY <1>1, <1>3, <1>4 DEF OneVerdict
  <1>11. \A i \in DOMAIN pending' : pending'[i].new \notin alignedIds'
    BY <1>4, <1>6, <1>9 DEF OneVerdict
  <1>12. \A i, j \in DOMAIN verdicts' : i # j => verdicts'[i].map # verdicts'[j].map
    BY <1>2, <1>5, <1>7 DEF OneVerdict
  <1>13. \A i \in DOMAIN verdicts' : verdicts'[i].map \in alignedIds' \ gate'
    BY <1>2, <1>5, <1>6, <1>7 DEF OneVerdict, OnlyDecided
  <1>14. OneVerdict'
    BY <1>10, <1>11, <1>12, <1>13 DEF OneVerdict
  <1> QED BY <1>2, <1>3, <1>6, <1>7, <1>8, <1>14

(* The decisions that leave the transforms alone.                          *)
LEMMA RejectKeeps ==
    ASSUME MapInv, NEW t, GiveUp(t) \/ RejectUnscaled(t), UNCHANGED occupancyVars
    PROVE  MapInv'
  <1>0. TypeOK /\ OneVerdict /\ OnlyDecided /\ FramesRegistered /\ TreeRegistered
    BY DEF MapInv
  <1>1. /\ ResolvePending(t) /\ Decide(t, FALSE)
        /\ UNCHANGED <<rawMap, transforms, cursor, slamMap, switches, scaled>>
        /\ UNCHANGED <<jobQueue, batch, gate, octree, forcePublish, published, missed>>
    BY DEF GiveUp, RejectUnscaled, inputVars, occupancyVars, publication
  <1>2. /\ pending' \in Seq(Transitions) /\ cursor \in 0..(Len(pending') + 1)
        /\ t.new \in Maps \ alignedIds /\ alignedIds' = alignedIds \cup {t.new}
        /\ verdicts' \in Seq(Verdicts)
        /\ OneVerdict'
    BY <1>0, <1>1, DecideKeeps
  <1>3. TypeOK'
    BY <1>0, <1>1, <1>2 DEF TypeOK
  <1>4. OnlyDecided' /\ FramesRegistered' /\ TreeRegistered'
    BY <1>0, <1>1, <1>2 DEF OnlyDecided, FramesRegistered, TreeRegistered, HasRegistration
  <1> QED BY <1>2, <1>3, <1>4 DEF MapInv

(* The decision that adds a transform adds the first one of its map.       *)
LEMMA AlignKeeps ==
    ASSUME MapInv, NEW t, NEW near \in BOOLEAN, ComputeAlignment(t, near),
           UNCHANGED occupancyVars
    PROVE  /\ MapInv'
           /\ \A m \in DOMAIN transforms :
                m \in DOMAIN transforms' /\ transforms'[m] = transforms[m]
  <1>0. TypeOK /\ OneVerdict /\ OnlyDecided /\ FramesRegistered /\ TreeRegistered
    BY DEF MapInv
  <1> DEFINE accepted == near /\ ~t.late
             parent == GlobalTransform(t.old)
             registered == IF accepted THEN Append(parent, t.new) ELSE parent
  <1>1. /\ ResolvePending(t) /\ Decide(t, accepted)
        /\ transforms' = [m \in DOMAIN transforms \cup {t.new} |->
                            IF m = t.new THEN registered ELSE transforms[m]]
        /\ UNCHANGED <<rawMap, cursor, slamMap, switches, scaled>>
        /\ UNCHANGED <<jobQueue, batch, gate, octree, forcePublish, published, missed>>
    BY DEF ComputeAlignment, inputVars, occupancyVars, publication
  <1>2. accepted \in BOOLEAN /\ t \in Transitions
    <2>1. pending \in Seq(Transitions) /\ cursor \in DOMAIN pending /\ t = pending[cursor]
      BY <1>0, <1>1 DEF TypeOK, ResolvePending
    <2>2. t \in Transitions
      BY <2>1
    <2>3. accepted \in BOOLEAN
      BY Zenon
    <2> QED BY <2>2, <2>3
  <1>3. /\ pending' \in Seq(Transitions) /\ cursor \in 0..(Len(pending') + 1)
        /\ t.new \in Maps \ alignedIds /\ alignedIds' = alignedIds \cup {t.new}
        /\ verdicts' \in Seq(Verdicts)
        /\ OneVerdict'
    BY <1>0, <1>1, <1>2, DecideKeeps
  <1>4. parent \in Seq(Maps)
    BY <1>0, <1>2 DEF TypeOK, GlobalTransform, Transitions
  <1>5. registered \in Seq(Maps)
    BY <1>3, <1>4
  <1> HIDE DEF accepted, parent, registered
  <1>6. DOMAIN transforms' = DOMAIN transforms \cup {t.new} /\ t.new \notin DOMAIN transforms
    BY <1>0, <1>1, <1>3 DEF OnlyDecided
  <1>7. \A m \in DOMAIN transforms : m \in DOMAIN transforms' /\ transforms'[m] = transforms[m]
    BY <1>1, <1>6
  <1>8. \A m \in DOMAIN transforms' : transforms'[m] \in Seq(Maps)
    BY <1>0, <1>1, <1>5, <1>6 DEF TypeOK
  <1>9. TypeOK'
    BY <1>0, <1>1, <1>3, <1>6, <1>8 DEF TypeOK
  <1>10. OnlyDecided'
    BY <1>0, <1>1, <1>3, <1>6 DEF OnlyDecided
  <1>11. FramesRegistered' /\ TreeRegistered'
    BY <1>0, <1>1, <1>7 DEF FramesRegistered, TreeRegistered, HasRegistration
  <1> QED BY <1>3, <1>7, <1>9, <1>10, <1>11 DEF MapInv

(* The rest of LiveScaler and its environment decides nothing.             *)
LEMMA ScalerKeeps ==
    ASSUME MapInv, UNCHANGED occupancyVars,
           \/ \E t \in Transitions : KeepWaiting(t)
           \/ WorldStep \/ TimeStep
    PROVE  MapInv'
  <1>0. TypeOK /\ OneVerdict /\ OnlyDecided /\ FramesRegistered /\ TreeRegistered
    BY DEF MapInv
  <1>1. UNCHANGED <<jobQueue, batch, gate, octree, forcePublish, published, missed>>
    BY DEF occupancyVars, publication
  <1>2. UNCHANGED <<alignedIds, transforms, verdicts>>
    BY DEF KeepWaiting, WorldStep, SlamSwitchesMap, ScaleArrives, ScalePruned, TimeStep,
           GapElapses, resolveVars
  <1>3. OnlyDecided' /\ FramesRegistered' /\ TreeRegistered'
    BY <1>0, <1>1, <1>2 DEF OnlyDecided, FramesRegistered, TreeRegistered, HasRegistration
  <1>4. CASE \E t \in Transitions : KeepWaiting(t)
    <2>1. /\ UNCHANGED <<rawMap, pending, slamMap, switches, scaled>>
          /\ cursor \in DOMAIN pending /\ cursor' = cursor + 1
      BY <1>4 DEF KeepWaiting, ResolvePending, resolveVars, inputVars
    <2>2. cursor' \in 0..(Len(pending') + 1)
      BY <1>0, <2>1 DEF TypeOK
    <2>3. TypeOK'
      BY <1>0, <1>1, <1>2, <2>1, <2>2 DEF TypeOK
    <2>4. OneVerdict'
      BY <1>0, <1>1, <1>2, <2>1 DEF OneVerdict
    <2> QED BY <1>3, <2>3, <2>4 DEF MapInv
  <1>5. CASE WorldStep
    <2>1. UNCHANGED <<rawMap, pending, cursor>>
      BY <1>5 DEF WorldStep, SlamSwitchesMap, ScaleArrives, ScalePruned, resolveVars
    <2>2. slamMap' \in Maps /\ switches' \in 0..MaxSwitches /\ scaled' \subseteq Maps
      BY <1>0, <1>5, MapsAssumption
      DEF TypeOK, WorldStep, SlamSwitchesMap, ScaleArrives, ScalePruned, MapsAssumption
    <2>3. TypeOK'
      BY <1>0, <1>1, <1>2, <2>1, <2>2 DEF TypeOK
    <2>4. OneVerdict'
      BY <1>0, <1>1, <1>2, <2>1 DEF OneVerdict
    <2> QED BY <1>3, <2>3, <2>4 DEF MapInv
  <1>6. CASE TimeStep
    <2>1. PICK i \in DOMAIN pending : GapElapses(i)
      BY <1>6 DEF TimeStep
    <2>2. /\ UNCHANGED <<rawMap, cursor, slamMap, switches, scaled>>
          /\ pending' = [pending EXCEPT ![i].late = TRUE]
      BY <2>1 DEF GapElapses, inputVars
    <2>3. /\ pending' = [j \in 1..Len(pending) |->
                            IF j = i THEN [pending[i] EXCEPT !.late = TRUE] ELSE pending[j]]
          /\ pending[i] \in Transitions
      <3>1. pending \in Seq(Transitions) /\ DOMAIN pending = 1..Len(pending)
        BY <1>0 DEF TypeOK
      <3>2. pending[i] \in Transitions
        BY <2>1, <3>1
      <3> QED BY <2>2, <3>1, <3>2
    <2>4. /\ [pending[i] EXCEPT !.late = TRUE] \in Transitions
          /\ [pending[i] EXCEPT !.late = TRUE].new = pending[i].new
      BY <2>3 DEF Transitions
    <2>5. /\ pending' \in Seq(Transitions) /\ Len(pending') = Len(pending)
          /\ \A j \in 1..Len(pending) : pending'[j].new = pending[j].new
      BY <1>0, <2>3, <2>4 DEF TypeOK
    <2>6. TypeOK'
      BY <1>0, <1>1, <1>2, <2>2, <2>5 DEF TypeOK
    <2>7. DOMAIN pending' = DOMAIN pending /\ DOMAIN pending = 1..Len(pending)
      BY <1>0, <2>5 DEF TypeOK
    <2>8. OneVerdict'
      BY <1>0, <1>1, <1>2, <2>5, <2>7 DEF OneVerdict
    <2> QED BY <1>3, <2>6, <2>8 DEF MapInv
  <1> QED BY <1>4, <1>5, <1>6

-----------------------------------------------------------------------------
(* A frame that is published has the registration of its map.              *)
LEMMA FrameLemma ==
    ASSUME TypeOK, NEW m \in Maps, IsPublished(m)
    PROVE  MetricFrame(m) \in Frames /\ HasRegistration(MetricFrame(m))
  <1>1. GlobalTransform(m) \in Seq(Maps)
    BY DEF TypeOK, GlobalTransform
  <1>2. m # MapZero => m \in DOMAIN transforms /\ GlobalTransform(m) = transforms[m]
    BY DEF IsPublished, IsRegistered, GlobalTransform
  <1>3. MetricFrame(m).map = m /\ MetricFrame(m).transform = GlobalTransform(m)
    BY DEF MetricFrame
  <1> QED BY <1>1, <1>2, <1>3 DEF MetricFrame, Frames, HasRegistration

(* A frame in the queue.                                                   *)
LEMMA QueueKeeps ==
    ASSUME MapInv, UNCHANGED scalerVars \/ EndPoseRaw,
           NEW f \in Frames, HasRegistration(f), SyncedCallback(f)
    PROVE  MapInv'
  <1>0. TypeOK /\ OneVerdict /\ OnlyDecided /\ FramesRegistered /\ TreeRegistered
    BY DEF MapInv
  <1>1. /\ UNCHANGED <<rawMap, pending, alignedIds, transforms, verdicts, slamMap, switches, scaled>>
        /\ UNCHANGED <<batch, gate, octree, forcePublish, published, missed>>
        /\ jobQueue' = Append(jobQueue, f)
        /\ cursor' \in {0, cursor}
    BY DEF scalerVars, resolveVars, inputVars, EndPoseRaw, SyncedCallback, publication
  <1>2. jobQueue \in Seq(Frames)
    BY <1>0 DEF TypeOK
  <1>3. /\ jobQueue' \in Seq(Frames)
        /\ \A i \in DOMAIN jobQueue' : IF i \in DOMAIN jobQueue THEN jobQueue'[i] = jobQueue[i]
                                       ELSE jobQueue'[i] = f
    BY <1>1, <1>2
  <1>4. cursor' \in 0..(Len(pending') + 1)
    BY <1>0, <1>1 DEF TypeOK
  <1>5. TypeOK'
    BY <1>0, <1>1, <1>3, <1>4 DEF TypeOK
  <1>6. OneVerdict' /\ OnlyDecided' /\ TreeRegistered'
    BY <1>0, <1>1 DEF OneVerdict, OnlyDecided, TreeRegistered, HasRegistration
  <1>7. FramesRegistered'
    BY <1>0, <1>1, <1>3 DEF FramesRegistered, HasRegistration
  <1> QED BY <1>5, <1>6, <1>7 DEF MapInv

(* The end of a pose callback, with or without a frame, and a dense frame. *)
LEMMA PublishKeeps ==
    ASSUME MapInv, PoseEnds \/ \E m \in Maps : PublishDense(m)
    PROVE  MapInv'
  <1>0. TypeOK /\ OneVerdict /\ OnlyDecided /\ FramesRegistered /\ TreeRegistered
    BY DEF MapInv
  <1>1. CASE EndPoseRaw /\ UNCHANGED occupancyVars
    <2>1. /\ UNCHANGED <<rawMap, pending, alignedIds, transforms, verdicts, slamMap, switches, scaled>>
          /\ UNCHANGED <<jobQueue, batch, gate, octree, forcePublish, published, missed>>
          /\ cursor' = 0
      BY <1>1 DEF EndPoseRaw, resolveVars, inputVars, occupancyVars, publication
    <2>2. cursor' \in 0..(Len(pending') + 1)
      BY <1>0, <2>1 DEF TypeOK
    <2>3. TypeOK'
      BY <1>0, <2>1, <2>2 DEF TypeOK
    <2>4. OneVerdict' /\ OnlyDecided' /\ FramesRegistered' /\ TreeRegistered'
      BY <1>0, <2>1
      DEF OneVerdict, OnlyDecided, FramesRegistered, TreeRegistered, HasRegistration
    <2> QED BY <2>3, <2>4 DEF MapInv
  <1>2. CASE EndPoseRaw /\ IsPublished(rawMap) /\ SyncedCallback(MetricFrame(rawMap))
    <2>1. rawMap \in Maps
      BY <1>0, <1>2 DEF TypeOK, IsPublished
    <2> QED BY <1>0, <1>2, <2>1, FrameLemma, QueueKeeps
  <1>3. CASE \E m \in Maps : PublishDense(m)
    <2>1. PICK m \in Maps : PublishDense(m)
      BY <1>3
    <2> QED BY <1>0, <2>1, FrameLemma, QueueKeeps DEF PublishDense
  <1> QED BY <1>1, <1>2, <1>3 DEF PoseEnds

(* An alignment message opens the gate of a map it was not open for.       *)
LEMMA AlignmentKeeps == MapInv /\ AlignmentReceived => MapInv'
  <1> SUFFICES ASSUME MapInv, AlignmentReceived PROVE MapInv'
    OBVIOUS
  <1>0. TypeOK /\ OneVerdict /\ OnlyDecided /\ FramesRegistered /\ TreeRegistered
    BY DEF MapInv
  <1> DEFINE v == Head(verdicts)
  <1>1. /\ verdicts \in Seq(Verdicts) /\ verdicts # <<>> /\ verdicts' = Tail(verdicts)
        /\ MapAlignmentCallback(v.map, v.accepted)
        /\ UNCHANGED <<rawMap, cursor, pending, alignedIds, transforms, slamMap, switches, scaled>>
    BY <1>0 DEF AlignmentReceived, TypeOK, inputVars
  <1>2. /\ v \in Verdicts /\ v = verdicts[1] /\ 1 \in DOMAIN verdicts
        /\ verdicts' \in Seq(Verdicts)
        /\ \A i \in DOMAIN verdicts' : i + 1 \in DOMAIN verdicts /\ i + 1 # 1
                                       /\ verdicts'[i] = verdicts[i + 1]
    BY <1>1
  <1> HIDE DEF v
  <1>3. v.map \in Maps /\ v.map \in alignedIds \ gate
    BY <1>0, <1>2 DEF Verdicts, OneVerdict
  <1>4. /\ gate' = gate \cup {v.map} /\ octree' \subseteq octree
        /\ forcePublish' \in BOOLEAN
        /\ UNCHANGED <<jobQueue, batch, published, missed>>
    BY <1>1 DEF MapAlignmentCallback
  <1>5. TypeOK'
    BY <1>0, <1>1, <1>2, <1>3, <1>4 DEF TypeOK
  <1>6. \A i, j \in DOMAIN verdicts' : i # j => verdicts'[i].map # verdicts'[j].map
    <2> SUFFICES ASSUME NEW i \in DOMAIN verdicts', NEW j \in DOMAIN verdicts', i # j
                 PROVE  verdicts'[i].map # verdicts'[j].map
      OBVIOUS
    <2>1. i + 1 # j + 1
      BY <1>2
    <2> QED BY <1>0, <1>2, <2>1 DEF OneVerdict
  <1>7. \A i \in DOMAIN verdicts' : verdicts'[i].map \in alignedIds' \ gate'
    BY <1>0, <1>1, <1>2, <1>4 DEF OneVerdict
  <1>8. OneVerdict'
    BY <1>0, <1>1, <1>6, <1>7 DEF OneVerdict
  <1>9. OnlyDecided' /\ FramesRegistered' /\ TreeRegistered'
    BY <1>0, <1>1, <1>3, <1>4
    DEF OnlyDecided, FramesRegistered, TreeRegistered, HasRegistration
  <1> QED BY <1>5, <1>8, <1>9 DEF MapInv

(* The worker and the timer of the occupancy node.                         *)
LEMMA OccupancyKeeps == MapInv /\ OccupancyStep /\ UNCHANGED scalerVars => MapInv'
  <1> SUFFICES ASSUME MapInv, OccupancyStep, UNCHANGED scalerVars PROVE MapInv'
    OBVIOUS
  <1>0. TypeOK /\ OneVerdict /\ OnlyDecided /\ FramesRegistered /\ TreeRegistered
    BY DEF MapInv
  <1>1. /\ UNCHANGED <<rawMap, cursor, pending, alignedIds, transforms, verdicts>>
        /\ UNCHANGED <<slamMap, switches, scaled, gate>>
    BY DEF scalerVars, resolveVars, inputVars, OccupancyStep, WorkerTakes, WorkerInserts,
           PublishTimer
  <1>2. OneVerdict' /\ OnlyDecided'
    BY <1>0, <1>1 DEF OneVerdict, OnlyDecided
  <1>3. CASE WorkerTakes
    <2>1. /\ batch' = jobQueue /\ jobQueue' = <<>>
          /\ UNCHANGED <<octree, forcePublish, published, missed>>
      BY <1>3 DEF WorkerTakes, publication
    <2>2. TypeOK'
      BY <1>0, <1>1, <2>1 DEF TypeOK
    <2>3. FramesRegistered' /\ TreeRegistered'
      BY <1>0, <1>1, <2>1 DEF FramesRegistered, TreeRegistered, HasRegistration
    <2> QED BY <1>2, <2>2, <2>3 DEF MapInv
  <1>4. CASE WorkerInserts
    <2>1. /\ batch \in Seq(Frames) /\ batch # <<>> /\ batch' = Tail(batch)
          /\ octree' \subseteq octree \cup {Head(batch)}
          /\ UNCHANGED <<jobQueue, forcePublish, published, missed>>
      BY <1>0, <1>4 DEF WorkerInserts, TypeOK, publication
    <2>2. /\ Head(batch) \in Frames /\ Head(batch) = batch[1] /\ 1 \in DOMAIN batch
          /\ batch' \in Seq(Frames)
          /\ \A i \in DOMAIN batch' : i + 1 \in DOMAIN batch /\ batch'[i] = batch[i + 1]
      BY <2>1
    <2>3. TypeOK'
      BY <1>0, <1>1, <2>1, <2>2 DEF TypeOK
    <2>4. FramesRegistered' /\ TreeRegistered'
      BY <1>0, <1>1, <2>1, <2>2 DEF FramesRegistered, TreeRegistered, HasRegistration
    <2> QED BY <1>2, <2>3, <2>4 DEF MapInv
  <1>5. CASE \E serialized \in BOOLEAN : PublishTimer(serialized)
    <2>1. /\ forcePublish' \in BOOLEAN /\ missed' \in BOOLEAN /\ published' \in {octree, published}
          /\ UNCHANGED <<jobQueue, batch, octree>>
      BY <1>5, Zenon DEF PublishTimer
    <2>2. published' \subseteq Frames
      BY <1>0, <2>1 DEF TypeOK
    <2>3. TypeOK'
      BY <1>0, <1>1, <2>1, <2>2 DEF TypeOK
    <2>4. FramesRegistered' /\ TreeRegistered'
      BY <1>0, <1>1, <2>1 DEF FramesRegistered, TreeRegistered, HasRegistration
    <2> QED BY <1>2, <2>3, <2>4 DEF MapInv
  <1> QED BY <1>3, <1>4, <1>5 DEF OccupancyStep

-----------------------------------------------------------------------------
(* Every step keeps the invariant.                                         *)
LEMMA StepKeeps == MapInv /\ [Next]_vars => MapInv'
  <1> SUFFICES ASSUME MapInv, [Next]_vars PROVE MapInv'
    OBVIOUS
  <1>1. CASE UNCHANGED vars
    BY <1>1 DEF vars, scalerVars, resolveVars, inputVars, occupancyVars, publication, MapInv, TypeOK,
                OneVerdict, OnlyDecided, FramesRegistered, TreeRegistered, HasRegistration
  <1>2. CASE OnPoseRaw /\ UNCHANGED occupancyVars
    BY <1>2, OnPoseRawKeeps
  <1>3. CASE ResolveStep /\ UNCHANGED occupancyVars
    BY <1>3, RejectKeeps, AlignKeeps, ScalerKeeps DEF ResolveStep
  <1>4. CASE (WorldStep \/ TimeStep) /\ UNCHANGED occupancyVars
    BY <1>4, ScalerKeeps
  <1>5. CASE PoseEnds \/ \E m \in Maps : PublishDense(m)
    BY <1>5, PublishKeeps
  <1>6. CASE AlignmentReceived
    BY <1>6, AlignmentKeeps
  <1>7. CASE OccupancyStep /\ UNCHANGED scalerVars
    BY <1>7, OccupancyKeeps
  <1> QED BY <1>1, <1>2, <1>3, <1>4, <1>5, <1>6, <1>7 DEF Next, ScalerStep

(* The invariant of the pipeline.                                          *)
THEOREM PipelineInvariant == Spec => []MapInv
  <1>1. Init => MapInv
    BY PipelineInit
  <1>2. MapInv /\ [Next]_vars => MapInv'
    BY StepKeeps
  <1> QED BY <1>1, <1>2, PTL DEF Spec

(* Every variable has its type.                                            *)
THEOREM TypeCorrect == Spec => []TypeOK
  <1>1. MapInv => TypeOK
    BY DEF MapInv
  <1> QED BY <1>1, PipelineInvariant, PTL

(* Each map is decided, and announced, at most once, however often the     *)
(* SLAM node goes back and forth between maps.                             *)
THEOREM DecidedOnce == Spec => []OneVerdict
  <1>1. MapInv => OneVerdict
    BY DEF MapInv
  <1> QED BY <1>1, PipelineInvariant, PTL

(* Whatever is in the occupancy map was placed with the transform its map  *)
(* has.                                                                    *)
THEOREM TreeIsRegistered == Spec => []TreeRegistered
  <1>1. MapInv => TreeRegistered
    BY DEF MapInv
  <1> QED BY <1>1, PipelineInvariant, PTL

-----------------------------------------------------------------------------
(* The registration of a map is final.                                     *)
THEOREM RegistrationsFinal == Spec => RegistrationFinal
  <1> DEFINE Kept == \A m \in DOMAIN transforms :
                        m \in DOMAIN transforms' /\ transforms'[m] = transforms[m]
  <1>1. MapInv /\ [Next]_vars => Kept
    <2> SUFFICES ASSUME MapInv, [Next]_vars PROVE Kept
      OBVIOUS
    <2>1. CASE \E t \in Transitions, near \in BOOLEAN :
                    ComputeAlignment(t, near) /\ UNCHANGED occupancyVars
      BY <2>1, AlignKeeps
    <2>2. CASE transforms' = transforms
      BY <2>2
    <2>3. \/ transforms' = transforms
          \/ \E t \in Transitions, near \in BOOLEAN :
                    ComputeAlignment(t, near) /\ UNCHANGED occupancyVars
      BY DEF Next, ScalerStep, OnPoseRaw, ResolveStep, KeepWaiting, GiveUp, RejectUnscaled,
             WorldStep, SlamSwitchesMap, ScaleArrives, ScalePruned, TimeStep, GapElapses,
             PoseEnds, EndPoseRaw, PublishDense, AlignmentReceived, vars, scalerVars, resolveVars
    <2> QED BY <2>1, <2>2, <2>3
  <1>2. MapInv /\ [Next]_vars => [Kept]_vars
    BY <1>1
  <1> QED BY <1>2, PipelineInvariant, PTL DEF Spec, RegistrationFinal

-----------------------------------------------------------------------------
(* The refinement: an alignment message is an Accept or a Reject, an       *)
(* insertion an Insert, everything else leaves the registry alone.         *)
LEMMA RegistryInit == Init => Registry!Init
  BY DEF Init, OccupancyInit, Registry!Init

(* Each of the three actions is a step of the registry.                    *)
LEMMA RegistryStep ==
    ASSUME NEW m \in Maps, Registry!Accept(m) \/ Registry!Reject(m) \/ Registry!Insert(m)
    PROVE  Registry!Next
  BY Zenon DEF Registry!Next

(* A received alignment message is an Accept or a Reject.                  *)
LEMMA AlignmentDecides == MapInv /\ AlignmentReceived => Registry!Next
  <1> SUFFICES ASSUME MapInv, AlignmentReceived PROVE Registry!Next
    OBVIOUS
  <1> DEFINE v == Head(verdicts)
  <1>1. TypeOK /\ OneVerdict /\ verdicts \in Seq(Verdicts) /\ verdicts # <<>>
    BY DEF MapInv, TypeOK, AlignmentReceived
  <1>2. v \in Verdicts /\ v = verdicts[1] /\ 1 \in DOMAIN verdicts
    BY <1>1
  <1>3. PICK m \in Maps : m = v.map /\ m \notin gate
    BY <1>1, <1>2 DEF Verdicts, OneVerdict
  <1>4. /\ gate' = gate \cup {m}
        /\ octree' = octree \/ octree' = {}
    BY <1>3 DEF AlignmentReceived, MapAlignmentCallback
  <1>5. CASE octree' = octree
    <2>1. Registry!Accept(m)
      BY <1>3, <1>4, <1>5 DEF Registry!Accept
    <2> QED BY <1>3, <2>1, RegistryStep
  <1>6. CASE octree' = {}
    <2>1. Registry!Reject(m)
      BY <1>3, <1>4, <1>6 DEF Registry!Reject
    <2> QED BY <1>3, <2>1, RegistryStep
  <1> QED BY <1>4, <1>5, <1>6

(* A job taken from the batch is inserted or skipped.                      *)
LEMMA InsertionInserts == MapInv /\ WorkerInserts => [Registry!Next]_Registry!vars
  <1> SUFFICES ASSUME MapInv, WorkerInserts PROVE [Registry!Next]_Registry!vars
    OBVIOUS
  <1> DEFINE f == Head(batch)
  <1>1. batch \in Seq(Frames) /\ batch # <<>> /\ gate' = gate
    BY DEF MapInv, TypeOK, WorkerInserts
  <1>2. PICK m \in Maps : m = f.map
    <2>1. f \in Frames
      BY <1>1
    <2> QED BY <2>1 DEF Frames
  <1>3. CASE m = GroundMap \/ m \in gate
    <2>1. octree' = octree \cup {f}
      BY <1>2, <1>3 DEF WorkerInserts
    <2>2. {p.map : p \in octree'} = {p.map : p \in octree} \cup {m}
      BY <1>2, <2>1
    <2>3. m \in gate \cup {MapZero}
      BY <1>3, GroundAssumption DEF GroundAssumption
    <2> HIDE DEF f
    <2>4. Registry!Insert(m)
      BY <1>1, <2>2, <2>3 DEF Registry!Insert
    <2> QED BY <1>2, <2>4, RegistryStep
  <1>4. CASE ~(m = GroundMap \/ m \in gate)
    <2>1. octree' = octree
      BY <1>2, <1>4 DEF WorkerInserts
    <2> QED BY <1>1, <2>1 DEF Registry!vars
  <1> QED BY <1>3, <1>4

(* The occupancy node implements the registry of maps.                     *)
THEOREM PipelineImplementsRegistry == Spec => ImplementsRegistry
  <1>1. MapInv /\ [Next]_vars => [Registry!Next]_Registry!vars
    <2> SUFFICES ASSUME MapInv, [Next]_vars PROVE [Registry!Next]_Registry!vars
      OBVIOUS
    <2>1. CASE AlignmentReceived
      BY <2>1, AlignmentDecides
    <2>2. CASE WorkerInserts
      BY <2>2, InsertionInserts
    <2>3. CASE UNCHANGED <<gate, octree>>
      BY <2>3 DEF Registry!vars
    <2>4. AlignmentReceived \/ WorkerInserts \/ UNCHANGED <<gate, octree>>
      BY DEF Next, PoseEnds, PublishDense, SyncedCallback, OccupancyStep, WorkerTakes,
             PublishTimer, vars, occupancyVars, publication
    <2> QED BY <2>1, <2>2, <2>3, <2>4
  <1> QED BY <1>1, RegistryInit, PipelineInvariant, PTL DEF Spec, ImplementsRegistry, Registry!Spec
-----------------------------------------------------------------------------
(* FrameStream. A topic of depth one holds a message or none.              *)
LEMMA AtMostOneSets ==
    /\ {} \in AtMostOne
    /\ \A n \in Numbers : {n} \in AtMostOne
    /\ \A s \in AtMostOne : \A n : s \ {n} \in AtMostOne
  <1>1. ASSUME NEW s \in AtMostOne, NEW n PROVE s \ {n} \in AtMostOne
    <2>1. CASE s = {}
      BY <2>1 DEF AtMostOne
    <2>2. CASE \E m \in Numbers : s = {m}
      <3>1. PICK m \in Numbers : s = {m}
        BY <2>2
      <3>2. s \ {n} = {} \/ s \ {n} = {m}
        BY <3>1
      <3> QED BY <3>2 DEF AtMostOne
    <2> QED BY <2>1, <2>2 DEF AtMostOne
  <1> QED BY <1>1 DEF AtMostOne

\* Every topic is empty, or holds one message, at the start.
LEMMA StreamTypeStart == StreamInit => StreamTypeOK
  <1> SUFFICES ASSUME StreamInit PROVE StreamTypeOK
    OBVIOUS
  <1>1. 0 \in 0 .. MaxFrames /\ 0 \in 0 .. MaxStarts
    BY StreamAssumption DEF StreamAssumption
  <1>2. Nothing \in [Topics -> AtMostOne]
    BY AtMostOneSets DEF Nothing
  <1>3. timeStep \in Times /\ frame \in [img : Numbers \cup {0}, time : Times]
    BY DEF StreamInit, NoFrame, Times, Garbage
  <1>4. /\ bridge \in [up : BOOLEAN, acked : BOOLEAN, starts : 0 .. MaxStarts]
        /\ node \in [pc : {"down", "idle", "init", "track"}, agent : BOOLEAN, acks : BOOLEAN,
                     late : BOOLEAN, starts : 0 .. MaxStarts]
    BY <1>1 DEF StreamInit
  <1> QED BY <1>1, <1>2, <1>3, <1>4 DEF StreamInit, StreamTypeOK

\* Every step keeps the types: what is published replaces what waited.
LEMMA StreamTypeStep ==
    ASSUME StreamTypeOK, [StreamNext]_linkVars
    PROVE  StreamTypeOK'
  <1> USE StreamAssumption, AtMostOneSets DEF StreamAssumption, Topics
  <1> USE DEF StreamTypeOK, streamVars
  <1>1. CASE BridgeStarts
    BY <1>1 DEF BridgeStarts
  <1>2. CASE BridgeStops
    BY <1>2 DEF BridgeStops, Nothing
  <1>3. CASE NodeStarts
    <2>1. timeStep' \in Times /\ frame' \in [img : Numbers \cup {0}, time : Times]
      BY <1>3 DEF NodeStarts, NoFrame, Times, Garbage
    <2> QED BY <1>3, <2>1 DEF NodeStarts
  <1>4. CASE NodeGone
    BY <1>4 DEF NodeGone, Nothing
  <1>5. CASE PublishSettings \/ OnAck
    BY <1>5 DEF PublishSettings, OnAck
  <1>6. CASE PublishFrameTick
    <2>1. frames' \in Numbers /\ frames' \in 0 .. MaxFrames
      BY <1>6 DEF PublishFrameTick, Numbers
    <2> QED BY <1>6, <2>1 DEF PublishFrameTick
  <1>7. ASSUME NEW t \in Topics, Deliver(t) PROVE StreamTypeOK'
    BY <1>7 DEF Deliver
  <1>8. CASE SettingsCallback \/ VslamInitialized \/ TrackingReturns
    BY <1>8 DEF SettingsCallback, VslamInitialized, TrackingReturns
  <1>9. CASE TimestepCallback
    <2>1. PICK n \in slot["timestep"] :
            timeStep' = n /\ slot' = [slot EXCEPT !["timestep"] = @ \ {n}]
      BY <1>9 DEF TimestepCallback
    <2>2. n \in Times
      BY <2>1 DEF AtMostOne, Times
    <2> QED BY <1>9, <2>1, <2>2 DEF TimestepCallback
  <1>10. CASE ImgCallback
    <2>1. PICK n \in slot["img"] : /\ frame' = [img |-> n, time |-> timeStep]
                                  /\ slot' = [slot EXCEPT !["img"] = @ \ {n}]
      BY <1>10 DEF ImgCallback
    <2>2. n \in Numbers
      BY <2>1 DEF AtMostOne
    <2> QED BY <1>10, <2>1, <2>2 DEF ImgCallback
  <1>11. CASE UNCHANGED linkVars
    BY <1>11 DEF linkVars
  <1> QED BY <1>1, <1>2, <1>3, <1>4, <1>5, <1>6, <1>7, <1>8, <1>9, <1>10, <1>11
          DEF StreamNext, NodeStops, ImgCallbackWithoutAgent

\* Every step keeps a node that cannot track yet unanswered: only its own settings
\* callback answers, after the initialisation.
LEMMA UnansweredStep ==
    ASSUME StreamTypeOK, Unanswered, [StreamNext]_linkVars
    PROVE  Unanswered'
  <1> USE DEF Unanswered, Topics, streamVars, Nothing
  <1>1. CASE BridgeStarts
    BY <1>1 DEF BridgeStarts, StreamTypeOK
  <1>2. CASE BridgeStops
    BY <1>2 DEF BridgeStops, StreamTypeOK
  <1>3. CASE NodeStarts
    BY <1>3 DEF NodeStarts, StreamTypeOK
  <1>4. CASE NodeGone
    BY <1>4 DEF NodeGone, StreamTypeOK
  <1>5. CASE PublishSettings \/ OnAck
    BY <1>5 DEF PublishSettings, OnAck, StreamTypeOK
  <1>6. CASE PublishFrameTick
    BY <1>6 DEF PublishFrameTick, StreamTypeOK
  <1>7. ASSUME NEW t \in Topics, Deliver(t) PROVE Unanswered'
    <2>1. CASE node.pc = "down"
      <3>1. slot' = [slot EXCEPT ![t] = {}]
        BY <1>7, <2>1 DEF Deliver
      <3>2. slot' = Nothing
        BY <3>1, <2>1
      <3> QED BY <1>7, <2>1, <3>2 DEF Deliver, StreamTypeOK
    <2>2. CASE node.pc # "down"
      BY <1>7, <2>2 DEF Deliver, StreamTypeOK
    <2> QED BY <2>1, <2>2
  <1>8. CASE SettingsCallback \/ VslamInitialized \/ TrackingReturns
    BY <1>8 DEF SettingsCallback, VslamInitialized, TrackingReturns, StreamTypeOK
  <1>9. CASE TimestepCallback
    BY <1>9 DEF TimestepCallback, StreamTypeOK
  <1>10. CASE ImgCallback
    BY <1>10 DEF ImgCallback, StreamTypeOK
  <1>11. CASE UNCHANGED linkVars
    BY <1>11 DEF linkVars
  <1> QED BY <1>1, <1>2, <1>3, <1>4, <1>5, <1>6, <1>7, <1>8, <1>9, <1>10, <1>11
          DEF StreamNext, NodeStops, ImgCallbackWithoutAgent

\* What the steps do to the messages on their way.
LEMMA WaitingNumbers ==
    ASSUME StreamTypeOK
    PROVE  /\ \A n \in Numbers : n \in Nat
           /\ frames \in Nat /\ cut \in Nat
           /\ \A t \in Topics : wire[t] \subseteq Numbers /\ slot[t] \subseteq Numbers
           /\ \A t \in Topics : \A n \in slot[t] : slot[t] \ {n} = {}
  BY StreamAssumption DEF StreamAssumption, StreamTypeOK, AtMostOne, Numbers

\* Every step keeps the times in order: ticks are published in order, and a topic of depth
\* one forgets but does not reorder.
LEMMA OrderedStep ==
    ASSUME StreamTypeOK, Ordered, [StreamNext]_linkVars
    PROVE  Ordered'
  <1> USE StreamAssumption, WaitingNumbers
      DEF StreamAssumption, Ordered, Topics, streamVars, Nothing
  <1>1. CASE BridgeStarts \/ PublishSettings \/ OnAck \/ SettingsCallback
            \/ VslamInitialized \/ TrackingReturns
    BY <1>1 DEF BridgeStarts, PublishSettings, OnAck, SettingsCallback, VslamInitialized,
                TrackingReturns
  <1>2. CASE BridgeStops
    BY <1>2 DEF BridgeStops
  <1>3. CASE NodeStarts
    <2>1. frame'.time \notin Numbers /\ timeStep' \notin Numbers
      BY <1>3 DEF NodeStarts, NoFrame, Garbage, Numbers
    <2> QED BY <1>3, <2>1 DEF NodeStarts
  <1>4. CASE NodeGone
    BY <1>4 DEF NodeGone
  <1>6. CASE PublishFrameTick
    <2>1. /\ frames' = frames + 1
          /\ wire' = [t \in {"img", "timestep"} |-> {frames + 1}]
          /\ UNCHANGED <<slot, timeStep, frame>>
      BY <1>6 DEF PublishFrameTick
    <2>2. \A n \in Numbers : n <= frames => n <= frames + 1
      OBVIOUS
    <2> QED BY <2>1, <2>2
  <1>7. ASSUME NEW t \in Topics, Deliver(t) PROVE Ordered'
    <2>1. /\ wire' = [wire EXCEPT ![t] = {}]
          /\ UNCHANGED <<frames, timeStep, frame>>
          /\ slot' = [slot EXCEPT ![t] = {}] \/ slot' = [slot EXCEPT ![t] = wire[t]]
      BY <1>7 DEF Deliver
    <2> QED BY <2>1 DEF StreamTypeOK
  <1>9. CASE TimestepCallback
    <2>1. PICK n \in slot["timestep"] :
            timeStep' = n /\ slot' = [slot EXCEPT !["timestep"] = @ \ {n}]
      BY <1>9 DEF TimestepCallback
    <2>2. slot["timestep"] \ {n} = {}
      BY <2>1
    <2>3. /\ slot'["timestep"] = {} /\ slot'["img"] = slot["img"]
          /\ UNCHANGED <<frames, wire, frame>>
      BY <1>9, <2>1, <2>2 DEF TimestepCallback, StreamTypeOK
    <2>4. frame.time \in Numbers => frame.time <= n
      BY <2>1
    <2> QED BY <2>1, <2>3, <2>4
  <1>10. CASE ImgCallback
    <2>1. /\ UNCHANGED <<frames, wire, timeStep>> /\ frame'.time = timeStep
          /\ slot'["timestep"] = slot["timestep"] /\ slot'["img"] \subseteq slot["img"]
      BY <1>10 DEF ImgCallback, StreamTypeOK
    <2> QED BY <2>1
  <1>11. CASE UNCHANGED linkVars
    BY <1>11 DEF linkVars
  <1> QED BY <1>1, <1>2, <1>3, <1>4, <1>6, <1>7, <1>9, <1>10, <1>11
          DEF StreamNext, NodeStops, ImgCallbackWithoutAgent

\* Every step keeps the partners of an image and of a time at hand: a tick publishes both,
\* and a message is dropped only for a newer one or by a cut.
LEMMA AtHandStep ==
    ASSUME StreamTypeOK, Unanswered, Ordered, TimeAtHand, ImageAtHand, [StreamNext]_linkVars
    PROVE  TimeAtHand' /\ ImageAtHand'
  <1> USE StreamAssumption, WaitingNumbers
      DEF StreamAssumption, Ordered, Topics, streamVars, Nothing, TimeAtHand, ImageAtHand, Waiting
  <1>1. CASE BridgeStarts \/ PublishSettings \/ OnAck \/ SettingsCallback
            \/ VslamInitialized \/ TrackingReturns
    BY <1>1 DEF BridgeStarts, PublishSettings, OnAck, SettingsCallback, VslamInitialized,
                TrackingReturns
  <1>2. CASE BridgeStops
    <2>1. CASE wire = Nothing
      BY <1>2, <2>1 DEF BridgeStops
    <2>2. CASE wire # Nothing
      <3>1. cut' = frames /\ UNCHANGED <<slot, timeStep, frames>> /\ wire'["img"] = {}
        BY <1>2, <2>2 DEF BridgeStops
      <3>2. \A i \in slot["img"] : i <= frames
        OBVIOUS
      <3> QED BY <3>1, <3>2
    <2> QED BY <2>1, <2>2
  <1>3. CASE NodeStarts
    <2>1. cut' = frames /\ UNCHANGED <<slot, wire, frames>>
      BY <1>3 DEF NodeStarts
    <2>2. \A i \in slot["img"] \cup wire["img"] : i <= frames
      OBVIOUS
    <2>3. TimeAtHand' /\ ImageAtHand'
      BY <2>1, <2>2
    <2> QED BY <2>3
  <1>4. CASE NodeGone
    BY <1>4 DEF NodeGone, StreamTypeOK
  <1>6. CASE PublishFrameTick
    <2>1. /\ frames' = frames + 1
          /\ wire'["img"] = {frames + 1} /\ wire'["timestep"] = {frames + 1}
          /\ UNCHANGED <<slot, timeStep, cut, node>>
      BY <1>6 DEF PublishFrameTick
    <2>2. \A i \in slot["img"] : frames + 1 >= i
      OBVIOUS
    <2>3. ImageAtHand'
      BY <2>1
    <2>4. TimeAtHand'
      BY <2>1, <2>2
    <2> QED BY <2>3, <2>4
  <1>7. CASE Deliver("img")
    <2>1. /\ slot'["timestep"] = slot["timestep"] /\ wire'["timestep"] = wire["timestep"]
          /\ wire'["img"] = {} /\ UNCHANGED <<node, timeStep, cut>>
      BY <1>7 DEF Deliver, StreamTypeOK
    <2>2. CASE node.pc = "down"
      BY <1>7, <2>1, <2>2 DEF Deliver, StreamTypeOK
    <2>3. CASE node.pc # "down"
      <3>1. slot'["img"] = wire["img"]
        BY <1>7, <2>3 DEF Deliver, StreamTypeOK
      <3>2. \A i \in wire["img"] : ~(i < frames)
        OBVIOUS
      <3> QED BY <1>7, <2>1, <2>3, <3>1, <3>2 DEF Deliver
    <2> QED BY <2>2, <2>3
  <1>8. CASE Deliver("timestep")
    <2>1. /\ slot'["img"] = slot["img"] /\ wire'["img"] = wire["img"]
          /\ wire'["timestep"] = {} /\ UNCHANGED <<node, timeStep, cut, frames>>
      BY <1>8 DEF Deliver, StreamTypeOK
    <2>2. CASE node.pc = "down"
      <3>1. slot'["timestep"] = {}
        BY <1>8, <2>2 DEF Deliver, StreamTypeOK
      <3> QED BY <2>1, <2>2, <3>1
    <2>3. CASE node.pc # "down"
      <3>1. slot'["timestep"] = wire["timestep"]
        BY <1>8, <2>3 DEF Deliver, StreamTypeOK
      <3>2. wire["timestep"] # {}
        BY <1>8 DEF Deliver
      <3>3. PICK n \in wire["timestep"] : n = frames
        BY <3>2
      <3>4. \A i \in slot["img"] \cup wire["img"] : n >= i
        BY <3>3
      <3>5. TimeAtHand'
        BY <2>1, <3>1, <3>3, <3>4
      <3> QED BY <1>8, <2>1, <3>5 DEF Deliver
    <2> QED BY <2>2, <2>3
  <1>9. CASE TimestepCallback
    <2>1. PICK n \in slot["timestep"] :
            timeStep' = n /\ slot' = [slot EXCEPT !["timestep"] = @ \ {n}]
      BY <1>9 DEF TimestepCallback
    <2>2. /\ slot'["timestep"] = {} /\ slot'["img"] = slot["img"]
          /\ UNCHANGED <<wire, cut, node, frames>>
      BY <1>9, <2>1 DEF TimestepCallback, StreamTypeOK
    <2>3. \A m \in slot["timestep"] : m = n
      BY <2>1
    <2>4. ImageAtHand'
      BY <2>1, <2>2
    <2>5. n \in Numbers /\ \A i \in Numbers : timeStep \in Numbers /\ timeStep >= i => n >= i
      BY <2>1
    <2>6. TimeAtHand'
      BY <2>1, <2>2, <2>3, <2>5
    <2> QED BY <2>4, <2>6
  <1>10. CASE ImgCallback
    <2>1. /\ UNCHANGED <<wire, timeStep, cut, frames>> /\ node'.pc # "down" /\ node.pc # "down"
          /\ slot'["timestep"] = slot["timestep"] /\ slot'["img"] \subseteq slot["img"]
      BY <1>10 DEF ImgCallback, StreamTypeOK
    <2> QED BY <2>1
  <1>11. CASE UNCHANGED linkVars
    BY <1>11 DEF linkVars
  <1> QED BY <1>1, <1>2, <1>3, <1>4, <1>6, <1>7, <1>8, <1>9, <1>10, <1>11
          DEF StreamNext, NodeStops, ImgCallbackWithoutAgent

\* Nothing is under way at the start.
LEMMA StreamStart == StreamInit => StreamInv
  <1> SUFFICES ASSUME StreamInit PROVE Unanswered /\ Ordered /\ TimeAtHand /\ ImageAtHand
    BY StreamTypeStart DEF StreamInv
  <1>1. frame.time \notin Numbers /\ timeStep \notin Numbers
    BY StreamAssumption DEF StreamAssumption, StreamInit, NoFrame, Garbage, Numbers
  <1> QED BY <1>1 DEF StreamInit, Unanswered, Ordered, TimeAtHand, ImageAtHand, Waiting,
                      Nothing, Topics

(* The inductive invariant: messages wait one at a time and in order, the  *)
(* partner of each is at hand, and nobody has answered for a node that     *)
(* cannot track yet.                                                       *)
THEOREM StreamInvariant == StreamSpec => []StreamInv
  <1>1. StreamInv /\ [StreamNext]_linkVars => StreamInv'
    BY StreamTypeStep, UnansweredStep, OrderedStep, AtHandStep DEF StreamInv
  <1> QED BY StreamStart, <1>1, PTL DEF StreamSpec

(* Type correctness of the frame stream.                                   *)
THEOREM StreamTypeCorrect == StreamSpec => []StreamTypeOK
  BY StreamInvariant, PTL DEF StreamInv

(* The handshake keeps images away from a node that cannot track, unless   *)
(* the node was started again under a bridge that had its answer.          *)
THEOREM HandshakeGuards == StreamSpec => []CrashOnlyAfterRestart
  <1>1. StreamInv => CrashOnlyAfterRestart
    BY DEF StreamInv, Unanswered, CrashOnlyAfterRestart
  <1> QED BY StreamInvariant, <1>1, PTL

(* An image is tracked with the time of another frame only while one topic *)
(* is behind the other, and times never go back.                           *)
THEOREM ImagesGetTheirTime == StreamSpec => OwnTimeUnlessOvertaken
  <1> DEFINE Paired ==
        /\ frame'.time \notin Numbers \/ frame'.time < frame'.img =>
             \E n \in Waiting("timestep") : n >= frame'.img
        /\ frame'.time \in Numbers /\ frame'.time > frame'.img =>
             \E n \in wire["img"] : n >= frame'.time
        /\ {frame.time, frame'.time} \subseteq Numbers => frame.time <= frame'.time
  <1>1. ASSUME StreamInv, ImgCallback, frame'.img > cut PROVE Paired
    <2> USE <1>1, WaitingNumbers DEF StreamInv
    <2>1. PICK i \in slot["img"] : frame'.img = i /\ frame'.time = timeStep
      BY DEF ImgCallback
    <2>a. frames \in Nat /\ \A n \in Numbers : n \in Nat
      OBVIOUS
    <2>2. i \in Nat /\ i \in Numbers
      BY <2>1 DEF Topics
    <2>3. timeStep \notin Numbers \/ timeStep < i => \E n \in Waiting("timestep") : n >= i
      <3>1. node.pc # "down"
        BY DEF ImgCallback
      <3>2. ~(timeStep \in Numbers /\ timeStep >= i) => \E n \in Waiting("timestep") : n >= i
        BY <2>1, <3>1 DEF TimeAtHand, Waiting
      <3>3. timeStep \in Numbers /\ timeStep < i => ~(timeStep >= i)
        BY <2>a, <2>2
      <3> QED BY <3>2, <3>3, Zenon
    <2>4. timeStep \in Numbers /\ timeStep > i => \E n \in wire["img"] : n >= timeStep
      <3> SUFFICES ASSUME timeStep \in Numbers, timeStep > i
                   PROVE  \E n \in wire["img"] : n >= timeStep
        OBVIOUS
      <3>1. timeStep <= frames /\ \A n \in wire["img"] : n = frames
        BY DEF Ordered, Topics
      <3>2. wire["img"] # {}
        BY <2>1, <2>a, <2>2, <3>1 DEF ImageAtHand
      <3> QED BY <3>1, <3>2
    <2>5. frame.time \in Numbers => frame.time <= timeStep
      BY DEF Ordered
    <2> QED BY <2>1, <2>3, <2>4, <2>5
  <1>2. StreamInv /\ [StreamNext]_linkVars => [ImgCallback /\ frame'.img > cut => Paired]_linkVars
    BY <1>1
  <1> QED BY StreamInvariant, <1>2, PTL DEF StreamSpec, OwnTimeUnlessOvertaken
=============================================================================
