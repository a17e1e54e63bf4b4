-------------------------- MODULE SlamThreadsProofs --------------------------
(***************************************************************************)
(* Theorems about SlamThreads, for any number of keyframes under way and   *)
(* any set of GBA threads.                                                 *)
(***************************************************************************)
EXTENDS SlamThreads, FiniteSetTheorems, SequenceTheorems, TLAPS

-----------------------------------------------------------------------------
(* What the queues are after each thing that is done to them.              *)

Keyframes == [cur : BOOLEAN, init : BOOLEAN]

LEMMA OthersLemma ==
    ASSUME NEW q \in Seq(BOOLEAN)
    PROVE  /\ OthersOf(q) \in Seq(BOOLEAN) /\ Len(OthersOf(q)) <= Len(q)
           /\ \A i \in DOMAIN OthersOf(q) : ~OthersOf(q)[i]
  <1> DEFINE S == {j \in DOMAIN q : ~q[j]}
             f == [i \in 1 .. Cardinality(S) |-> FALSE]
  <1>1. Len(q) \in Nat /\ DOMAIN q = 1 .. Len(q)
    BY LenProperties
  <1>2. IsFiniteSet(1 .. Len(q)) /\ Cardinality(1 .. Len(q)) = Len(q)
    BY <1>1, FS_Interval
  <1>3. S \subseteq 1 .. Len(q)
    BY <1>1
  <1>4. IsFiniteSet(S) /\ Cardinality(S) <= Len(q)
    BY <1>2, <1>3, FS_Subset
  <1>5. Cardinality(S) \in Nat
    BY <1>4, FS_CardinalityType
  <1>6. OthersOf(q) = f
    BY DEF OthersOf
  <1> HIDE DEF S
  <1>7. f \in [1 .. Cardinality(S) -> BOOLEAN]
    OBVIOUS
  <1>8. f \in Seq(BOOLEAN)
    BY <1>5, <1>7, SeqDef
  <1>9. Len(f) = Cardinality(S)
    BY <1>5, <1>8, LenProperties
  <1> QED BY <1>4, <1>6, <1>8, <1>9

LEMMA RelabelLemma ==
    ASSUME NEW S, NEW T, NEW q \in Seq(S), NEW p \in [DOMAIN q -> T]
    PROVE  p \in Seq(T) /\ Len(p) = Len(q)
  <1>1. Len(q) \in Nat /\ DOMAIN q = 1 .. Len(q)
    BY LenProperties
  <1>2. p \in Seq(T)
    BY <1>1, SeqDef
  <1>3. DOMAIN p = 1 .. Len(p) /\ Len(p) \in Nat
    BY <1>2, LenProperties
  <1> QED BY <1>1, <1>2, <1>3

LEMMA NoneLemma ==
    ASSUME NEW q \in Seq(BOOLEAN)
    PROVE  [i \in DOMAIN q |-> FALSE] \in Seq(BOOLEAN)
  <1>1. [i \in DOMAIN q |-> FALSE] \in [DOMAIN q -> BOOLEAN]
    OBVIOUS
  <1> QED BY <1>1, RelabelLemma

LEMMA OfAnotherMapLemma ==
    ASSUME NEW q \in Seq(Keyframes), NEW p,
           p = [i \in DOMAIN q |-> [q[i] EXCEPT !.cur = FALSE]]
    PROVE  p \in Seq(Keyframes) /\ Len(p) = Len(q)
  <1>1. \A i \in DOMAIN q : q[i] \in Keyframes
    BY LenProperties, ElementOfSeq
  <1>2. p \in [DOMAIN q -> Keyframes]
    BY <1>1 DEF Keyframes
  <1> QED BY <1>2, RelabelLemma

-----------------------------------------------------------------------------
(* Every action keeps the parts of the invariant.                          *)

LmType == [pc : {"top", "pop", "work", "stop", "stopped", "tail", "aborted"},
           queue : Seq(Keyframes), work : BOOLEAN, stopReq : BOOLEAN,
           stopped : BOOLEAN, notStop : BOOLEAN, reset : BOOLEAN]
LcType == [pc : LcPcs, queue : Seq(BOOLEAN), reset : BOOLEAN, relaunch : BOOLEAN]

Shape ==
    /\ trk \in [pc : {"idle", "running", "free", "need", "make", "made",
                      "lmReset", "lcReset", "clear"},
                map : BOOLEAN, merged : BOOLEAN]
    /\ lm \in LmType /\ lc \in LcType
    /\ gba \in [Gbas -> [pc : {"none", "optimise", "check", "wait", "update"},
                         moved : BOOLEAN, aborted : BOOLEAN]]
    /\ flags \in [running : BOOLEAN, stop : BOOLEAN, handle : {"null", "live", "deleted"}]
    /\ owner \in Gbas \cup {Nobody} /\ loose \subseteq {Revived, Released}

LEMMA ShapeIsType == TypeOK <=> Shape /\ Taken <= MaxTaken
  BY DEF TypeOK, Shape, LmType, LcType, Keyframes

LmLen == Len(lm.queue)
LcLen == Len(lc.queue)
AtWork == IF lm.pc = "work" THEN 1 ELSE 0

LEMMA TakenLemma ==
    ASSUME TRUE
    PROVE  /\ Taken = LmLen + LcLen + AtWork /\ Taken' = LmLen' + LcLen' + AtWork'
           /\ AtWork \in {0, 1} /\ AtWork' \in {0, 1}
           /\ AtWork = 1 <=> lm.pc = "work"
           /\ AtWork' = 1 <=> lm'.pc = "work"
  BY DEF Taken, AtWork, LmLen, LcLen

USE DEF NeedsRoom

\* What is under way does not grow where the queues do not.
LEMMA RoomLemma ==
    ASSUME TypeOK, RoomInv, LmLen \in Nat, LcLen \in Nat, LmLen' \in Nat, LcLen' \in Nat,
           LmLen' + LcLen' + AtWork' <= LmLen + LcLen + AtWork,
           trk'.pc \in NeedsRoom => trk.pc \in NeedsRoom
    PROVE  (Taken <= MaxTaken)' /\ RoomInv'
  <1>1. MaxTaken \in Nat
    BY ThreadsAssumption DEF ThreadsAssumption
  <1>2. Taken \in Nat /\ Taken' \in Nat /\ Taken' <= Taken
    BY TakenLemma
  <1>3. Taken <= MaxTaken /\ (trk.pc \in NeedsRoom => Taken < MaxTaken)
    BY DEF TypeOK, RoomInv
  <1>4. Taken' <= MaxTaken /\ (trk'.pc \in NeedsRoom => Taken' < MaxTaken)
    BY <1>1, <1>2, <1>3
  <1> QED BY <1>4 DEF RoomInv

LEMMA RoomFrame ==
    ASSUME TypeOK, RoomInv, LmLen \in Nat, LcLen \in Nat,
           lm'.queue = lm.queue, lc'.queue = lc.queue, lm'.pc = "work" => lm.pc = "work",
           trk'.pc \in NeedsRoom => trk.pc \in NeedsRoom
    PROVE  (Taken <= MaxTaken)' /\ RoomInv'
  <1>1. LmLen' = LmLen /\ LcLen' = LcLen
    BY DEF LmLen, LcLen
  <1>2. AtWork' <= AtWork
    BY TakenLemma
  <1> QED BY <1>1, <1>2, TakenLemma, RoomLemma

LEMMA LmStopsLemma ==
    ASSUME lm \in LmType, LmStops
    PROVE  /\ lm' \in LmType /\ UNCHANGED <<lmRest, lc>>
           /\ lm'.queue = lm.queue /\ lm'.reset = lm.reset /\ lm'.pc \in {"stopped", "tail"}
  <1>1. UNCHANGED <<lmRest, lc>>
    BY DEF LmStops
  <1>2. CASE lm' = [lm EXCEPT !.pc = "stopped", !.stopped = TRUE]
    BY <1>1, <1>2 DEF LmType
  <1>3. CASE lm' = [lm EXCEPT !.pc = "tail"]
    BY <1>1, <1>3 DEF LmType
  <1> QED BY <1>2, <1>3 DEF LmStops

LEMMA GbaChecksLemma ==
    ASSUME lm \in LmType, NEW t \in Gbas, GbaChecks(t)
    PROVE  /\ lm' \in LmType /\ UNCHANGED <<trk, lc>>
           /\ lm'.queue = lm.queue /\ lm'.reset = lm.reset /\ lm'.pc = lm.pc
  <1>1. UNCHANGED <<trk, lc>> /\ (lm' = lm \/ lm' = RequestStop(lm))
    BY DEF GbaChecks
  <1>2. CASE lm' = lm
    BY <1>1, <1>2
  <1>3. CASE lm' = RequestStop(lm)
    BY <1>1, <1>3 DEF RequestStop, LmType
  <1> QED BY <1>1, <1>2, <1>3

LEMMA ShapeStep ==
    ASSUME TypeOK, [Next]_vars
    PROVE  Shape'
  <1> Shape
    BY ShapeIsType
  <1> USE DEF Shape
  <1>1. CASE CreateInitialMap
    <2>1. lm.queue \o <<Kf(TRUE), Kf(TRUE)>> \in Seq(Keyframes)
      <3>1. lm.queue \in Seq(Keyframes) /\ <<Kf(TRUE), Kf(TRUE)>> \in Seq(Keyframes)
        BY DEF LmType, Keyframes, Kf
      <3> QED BY <3>1, ConcatProperties
    <2>2. lm' \in LmType
      BY <1>1, <2>1 DEF CreateInitialMap, Insert, LmType
    <2> QED BY <1>1, <2>2 DEF CreateInitialMap, trkRest
  <1>2. CASE NeedNewKeyFrame \/ LooksAgain
    BY <1>2 DEF NeedNewKeyFrame, LooksAgain, trkRest
  <1>3. CASE CreateMapInAtlas
    <2>1. lm.queue \in Seq(Keyframes) /\ lc.queue \in Seq(BOOLEAN)
      BY DEF LmType, LcType
    <2>2. [j \in DOMAIN lm.queue |-> [lm.queue[j] EXCEPT !.cur = FALSE]] \in Seq(Keyframes)
      BY <2>1, OfAnotherMapLemma
    <2>3. [j \in DOMAIN lc.queue |-> FALSE] \in Seq(BOOLEAN)
      BY <2>1, NoneLemma
    <2>4. lm' \in LmType
      BY <1>3, <2>2 DEF CreateMapInAtlas, LmType
    <2>5. lc' \in LcType
      BY <1>3, <2>3 DEF CreateMapInAtlas, LcType
    <2> QED BY <1>3, <2>4, <2>5 DEF CreateMapInAtlas
  <1>4. CASE RequestReset
    BY <1>4 DEF RequestReset, trkRest, LmType
  <1>5. CASE SetNotStop
    BY <1>5 DEF SetNotStop, trkRest, LmType
  <1>6. CASE InsertKeyFrame
    <2>1. lm.queue \o <<Kf(FALSE)>> \in Seq(Keyframes)
      <3>1. lm.queue \in Seq(Keyframes) /\ <<Kf(FALSE)>> \in Seq(Keyframes)
        BY DEF LmType, Keyframes, Kf
      <3> QED BY <3>1, ConcatProperties
    <2>2. lm' \in LmType
      BY <1>6, <2>1 DEF InsertKeyFrame, Insert, LmType
    <2> QED BY <1>6, <2>2 DEF InsertKeyFrame, trkRest
  <1>7. CASE KeyFrameMade
    BY <1>7 DEF KeyFrameMade, trkRest, LmType
  <1>8. CASE LmWasReset
    BY <1>8 DEF LmWasReset, LcType
  <1>9. CASE LcWasReset
    BY <1>9 DEF LcWasReset, trkRest, LcType, LcPcs
  <1>10. CASE ClearMap
    <2>1. trk' = [trk EXCEPT !.pc = "idle", !.map = FALSE] /\ UNCHANGED <<trkRest, lm>>
      BY <1>10 DEF ClearMap
    <2>2. trk' \in [pc : {"idle", "need", "make", "made", "lmReset", "lcReset", "clear"},
                    map : BOOLEAN, merged : BOOLEAN]
      BY <2>1
    <2> QED BY <2>1, <2>2 DEF trkRest
  <1>11. CASE LmTurns
    BY <1>11 DEF LmTurns, lmRest, LmType
  <1>12. CASE LmTakes
    <2>1. lm.queue # << >> =>
            Head(lm.queue) \in Keyframes /\ Tail(lm.queue) \in Seq(Keyframes)
      BY HeadTailProperties DEF LmType
    <2>2. lm' \in LmType
      BY <1>12, <2>1 DEF LmTakes, LmType, Keyframes
    <2> QED BY <1>12, <2>2 DEF LmTakes, lmRest
  <1>13. CASE LmDone
    <2>1. Append(lc.queue, lm.work) \in Seq(BOOLEAN)
      BY AppendProperties DEF LmType, LcType
    <2>2. lm' \in LmType /\ lc' \in LcType
      BY <1>13, <2>1 DEF LmDone, LmType, LcType
    <2> QED BY <1>13, <2>2 DEF LmDone, lmRest
  <1>14. CASE LmStops
    BY <1>14, LmStopsLemma DEF lmRest
  <1>15. CASE LmReleased
    BY <1>15 DEF LmReleased, lmRest, LmType
  <1>16. CASE LmTail
    <2>1. lm' \in LmType
      BY <1>16, EmptySeq DEF LmTail, LmType
    <2> QED BY <1>16, <2>1 DEF LmTail, lmRest
  <1>17. CASE LcTakes
    <2>1. Tail(lc.queue) \in Seq(BOOLEAN)
      BY <1>17, HeadTailProperties DEF LcTakes, LcType
    <2> QED BY <1>17, <2>1 DEF LcTakes, LcType, LcPcs
  <1>18. CASE LcDetects
    <2>1. PICK pc \in {"tail", "loopStop", "mergeGba"} : lc' = [lc EXCEPT !.pc = pc]
      BY <1>18 DEF LcDetects, LcGoto
    <2>2. lc' \in LcType
      BY <2>1 DEF LcType, LcPcs
    <2> QED BY <1>18, <2>2 DEF LcDetects
  <1>19. CASE LcTail
    <2>1. PICK kept \in {OthersOf(lc.queue), lc.queue} :
            lc' = [lc EXCEPT !.pc = "check", !.reset = FALSE, !.relaunch = FALSE,
                             !.queue = kept]
      BY <1>19 DEF LcTail
    <2>2. kept \in Seq(BOOLEAN)
      BY OthersLemma DEF LcType
    <2>3. lc' \in LcType
      BY <2>1, <2>2 DEF LcType, LcPcs
    <2> QED BY <1>19, <2>3 DEF LcTail
  <1>20. CASE LcRequestsStop
    <2>1. PICK pc \in {"loopEmpty", "mergeWait", "restWait"} : lc' = [lc EXCEPT !.pc = pc]
      BY <1>20 DEF LcRequestsStop, LcGoto
    <2>2. lc' \in LcType
      BY <2>1 DEF LcType, LcPcs
    <2>3. lm' \in LmType
      BY <1>20 DEF LcRequestsStop, RequestStop, LmType
    <2> QED BY <1>20, <2>2, <2>3 DEF LcRequestsStop
  <1>21. CASE LcEmptiesQueue
    BY <1>21 DEF LcEmptiesQueue, LcGoto, LcType, LcPcs
  <1>22. CASE LcTakesFront
    <2>1. lm.queue # << >> =>
            Head(lm.queue) \in Keyframes /\ Tail(lm.queue) \in Seq(Keyframes)
      BY HeadTailProperties DEF LmType
    <2>2. lm' \in LmType
      BY <1>22, <2>1 DEF LcTakesFront, LmType, Keyframes
    <2> QED BY <1>22, <2>2 DEF LcTakesFront, LcGoto, LcType, LcPcs
  <1>23. CASE LcAsksForGba
    BY <1>23 DEF LcAsksForGba, LcGoto, LcType, LcPcs
  <1>24. CASE LcAbortsGba
    <2>1. lc' \in LcType
      BY <1>24 DEF LcAbortsGba, LcGoto, LcType, LcPcs
    <2>2. flags' = [flags EXCEPT !.stop = TRUE, !.handle = "deleted"]
      BY <1>24 DEF LcAbortsGba
    <2>3. gba' = [t \in Gbas |-> [gba[t] EXCEPT !.moved = (gba[t].pc = "check"),
                                               !.aborted = Alive(t)]]
      BY <1>24 DEF LcAbortsGba
    <2>4. ASSUME NEW t \in Gbas
          PROVE  gba'[t] \in [pc : {"none", "optimise", "check", "wait", "update"},
                              moved : BOOLEAN, aborted : BOOLEAN]
      <3>1. (gba[t].pc = "check") \in BOOLEAN /\ Alive(t) \in BOOLEAN
        BY DEF Alive
      <3> QED BY <2>3, <3>1
    <2>5. gba' \in [Gbas -> [pc : {"none", "optimise", "check", "wait", "update"},
                            moved : BOOLEAN, aborted : BOOLEAN]]
      BY <2>3, <2>4
    <2>6. flags' \in [running : BOOLEAN, stop : BOOLEAN, handle : {"null", "live", "deleted"}]
      BY <2>2
    <2>7. UNCHANGED <<trk, lm, owner, loose>>
      BY <1>24 DEF LcAbortsGba
    <2> QED BY <2>1, <2>5, <2>6, <2>7
  <1>25. CASE LcSeesStop
    BY <1>25 DEF LcSeesStop, LcGoto, LcType, LcPcs
  <1>26. CASE LcWelds
    <2>1. PICK pc \in {"mergeRest", "mergeRelease"}, q \in [DOMAIN lc.queue -> BOOLEAN] :
            lc' = [lc EXCEPT !.pc = pc, !.queue = q]
      BY <1>26 DEF LcWelds
    <2>2. q \in Seq(BOOLEAN)
      BY RelabelLemma DEF LcType
    <2>3. lc' \in LcType
      BY <2>1, <2>2 DEF LcType, LcPcs
    <2>4. lm' \in LmType
      BY <1>26, EmptySeq DEF LcWelds, Release, LmType
    <2> QED BY <1>26, <2>3, <2>4 DEF LcWelds, Release
  <1>27. CASE LcMoves
    BY <1>27 DEF LcMoves, LcGoto, LcType, LcPcs
  <1>28. CASE LcCorrects
    BY <1>28 DEF LcCorrects, LcGoto, Launch, Alive, LcType, LcPcs
  <1>29. CASE LcReleases
    <2>1. lm' \in LmType
      BY <1>29, EmptySeq DEF LcReleases, Release, LmType
    <2> QED BY <1>29, <2>1 DEF LcReleases, LcGoto, Release, LcType, LcPcs
  <1>30. CASE LcRelaunches
    BY <1>30 DEF LcRelaunches, LcGoto, Launch, Alive, LcType, LcPcs
  <1>31. ASSUME NEW t \in Gbas, GbaOptimised(t) PROVE Shape'
    BY <1>31 DEF GbaOptimised, NoGba, LmType
  <1>32. ASSUME NEW t \in Gbas, GbaChecks(t) PROVE Shape'
    <2>1. lm' \in LmType
      BY <1>32 DEF GbaChecks, RequestStop, LmType
    <2>2. /\ gba' = [gba EXCEPT ![t] = NoGba] \/ gba' = [gba EXCEPT ![t].pc = "wait"]
          /\ owner' \in Gbas \cup {Nobody}
      BY <1>32 DEF GbaChecks
    <2>3. flags' \in [running : BOOLEAN, stop : BOOLEAN, handle : {"null", "live", "deleted"}]
      BY <1>32 DEF GbaChecks
    <2>4. gba' \in [Gbas -> [pc : {"none", "optimise", "check", "wait", "update"},
                            moved : BOOLEAN, aborted : BOOLEAN]]
      <3>1. CASE gba' = [gba EXCEPT ![t] = NoGba]
        BY <3>1 DEF NoGba
      <3>2. CASE gba' = [gba EXCEPT ![t].pc = "wait"]
        BY <3>2
      <3> QED BY <2>2, <3>1, <3>2
    <2> QED BY <1>32, <2>1, <2>2, <2>3, <2>4 DEF GbaChecks
  <1>33. ASSUME NEW t \in Gbas, GbaSeesStop(t) PROVE Shape'
    BY <1>33 DEF GbaSeesStop, LmType
  <1>34. ASSUME NEW t \in Gbas, GbaUpdated(t) PROVE Shape'
    <2>1. lm' \in LmType
      BY <1>34, EmptySeq DEF GbaUpdated, Release, LmType
    <2> QED BY <1>34, <2>1 DEF GbaUpdated, Release, NoGba
  <1>35. CASE UNCHANGED vars
    BY <1>35 DEF vars
  <1> QED BY <1>1, <1>2, <1>3, <1>4, <1>5, <1>6, <1>7, <1>8, <1>9, <1>10, <1>11,
             <1>12, <1>13, <1>14, <1>15, <1>16, <1>17, <1>18, <1>19, <1>20, <1>21,
             <1>22, <1>23, <1>24, <1>25, <1>26, <1>27, <1>28, <1>29, <1>30, <1>31,
             <1>32, <1>33, <1>34, <1>35
          DEF Next, TrackStep, LmStep, LcStep, GbaStep

LEMMA RoomStep ==
    ASSUME TypeOK, RoomInv, [Next]_vars
    PROVE  (Taken <= MaxTaken)' /\ RoomInv'
  <1> DEFINE Goal == (Taken <= MaxTaken)' /\ RoomInv'
  <1>0. Shape /\ Shape'
    BY ShapeIsType, ShapeStep
  <1>a. /\ lm.queue \in Seq(Keyframes) /\ lm.queue' \in Seq(Keyframes)
        /\ lc.queue \in Seq(BOOLEAN) /\ lc.queue' \in Seq(BOOLEAN)
    BY <1>0 DEF Shape, LmType, LcType
  <1>b. LmLen \in Nat /\ LmLen' \in Nat /\ LcLen \in Nat /\ LcLen' \in Nat
    BY <1>a, LenProperties DEF LmLen, LcLen
  <1>1. CASE CreateInitialMap
    <2>1. lm.queue' = lm.queue \o <<Kf(TRUE), Kf(TRUE)>>
      BY <1>1, <1>0 DEF CreateInitialMap, Insert, Shape, LmType
    <2>2. <<Kf(TRUE), Kf(TRUE)>> \in Seq(Keyframes) /\ Len(<<Kf(TRUE), Kf(TRUE)>>) = 2
      BY DEF Kf, Keyframes
    <2>3. LmLen' = LmLen + 2
      BY <1>a, <2>1, <2>2, ConcatProperties DEF LmLen
    <2>4. lc' = lc /\ lm.pc' = lm.pc /\ trk.pc' \notin NeedsRoom
      BY <1>1, <1>0 DEF CreateInitialMap, trkRest, Insert, Shape, LmType
    <2>5. MaxTaken \in Nat
      BY ThreadsAssumption DEF ThreadsAssumption
    <2>6. Taken + 2 <= MaxTaken /\ Taken' = Taken + 2
      <3>1. Taken + 2 <= MaxTaken
        BY <1>1 DEF CreateInitialMap
      <3>2. LcLen' = LcLen /\ AtWork' = AtWork
        BY <2>4 DEF LcLen, AtWork
      <3> QED BY <1>b, <2>3, <2>5, <3>1, <3>2, TakenLemma
    <2> QED BY <2>4, <2>6 DEF RoomInv
  <1>2. CASE NeedNewKeyFrame \/ LooksAgain
    <2>1. lm' = lm /\ lc' = lc /\ Taken < MaxTaken
      BY <1>2 DEF NeedNewKeyFrame, LooksAgain, trkRest, RoomInv
    <2>2. Taken' = Taken
      BY <2>1 DEF Taken
    <2> QED BY <2>1, <2>2 DEF RoomInv, TypeOK
  <1>3. CASE CreateMapInAtlas
    <2>1. LmLen' = LmLen
      BY <1>3, <1>0, <1>a, OfAnotherMapLemma DEF LmLen, CreateMapInAtlas, Shape, LmType
    <2>2. LcLen' = LcLen
      BY <1>3, <1>0, <1>a, RelabelLemma DEF LcLen, CreateMapInAtlas, Shape, LcType
    <2>3. lm.pc' = lm.pc /\ trk.pc' = trk.pc
      BY <1>3, <1>0 DEF CreateMapInAtlas, Shape, LmType
    <2>4. AtWork' = AtWork
      BY <2>3 DEF AtWork
    <2> QED BY <1>b, <2>1, <2>2, <2>3, <2>4, TakenLemma, RoomLemma
  <1>4. CASE RequestReset
    <2>1. /\ lm.queue' = lm.queue /\ (lm.pc' = "work" => lm.pc = "work")
          /\ lc.queue' = lc.queue
          /\ trk.pc' \in NeedsRoom => trk.pc \in NeedsRoom
      BY <1>4, <1>0 DEF RequestReset, trkRest, Shape, LmType, LcType
    <2> QED BY <1>b, <2>1, RoomFrame
  <1>5. CASE SetNotStop
    <2>1. /\ lm.queue' = lm.queue /\ (lm.pc' = "work" => lm.pc = "work")
          /\ lc.queue' = lc.queue
          /\ trk.pc' \in NeedsRoom => trk.pc \in NeedsRoom
      BY <1>5, <1>0 DEF SetNotStop, trkRest, Shape, LmType, LcType
    <2> QED BY <1>b, <2>1, RoomFrame
  <1>6. CASE InsertKeyFrame
    <2>1. lm.queue' = lm.queue \o <<Kf(FALSE)>>
      BY <1>6, <1>0 DEF InsertKeyFrame, Insert, Shape, LmType
    <2>2. <<Kf(FALSE)>> \in Seq(Keyframes) /\ Len(<<Kf(FALSE)>>) = 1
      BY DEF Kf, Keyframes
    <2>3. LmLen' = LmLen + 1
      BY <1>a, <2>1, <2>2, ConcatProperties DEF LmLen
    <2>4. lc' = lc /\ lm.pc' = lm.pc /\ trk.pc' \notin NeedsRoom
      BY <1>6, <1>0 DEF InsertKeyFrame, trkRest, Insert, Shape, LmType
    <2>5. MaxTaken \in Nat
      BY ThreadsAssumption DEF ThreadsAssumption
    <2>6. Taken + 1 <= MaxTaken /\ Taken' = Taken + 1
      <3>1. Taken < MaxTaken
        BY <1>6 DEF InsertKeyFrame, RoomInv
      <3>2. LcLen' = LcLen /\ AtWork' = AtWork
        BY <2>4 DEF LcLen, AtWork
      <3> QED BY <1>b, <2>3, <2>5, <3>1, <3>2, TakenLemma
    <2> QED BY <2>4, <2>6 DEF RoomInv
  <1>7. CASE KeyFrameMade
    <2>1. /\ lm.queue' = lm.queue /\ (lm.pc' = "work" => lm.pc = "work")
          /\ lc.queue' = lc.queue
          /\ trk.pc' \in NeedsRoom => trk.pc \in NeedsRoom
      BY <1>7, <1>0 DEF KeyFrameMade, trkRest, Shape, LmType, LcType
    <2> QED BY <1>b, <2>1, RoomFrame
  <1>8. CASE LmWasReset
    <2>1. /\ lm.queue' = lm.queue /\ (lm.pc' = "work" => lm.pc = "work")
          /\ lc.queue' = lc.queue
          /\ trk.pc' \in NeedsRoom => trk.pc \in NeedsRoom
      BY <1>8, <1>0 DEF LmWasReset, Shape, LmType, LcType
    <2> QED BY <1>b, <2>1, RoomFrame
  <1>9. CASE LcWasReset
    <2>1. /\ lm.queue' = lm.queue /\ (lm.pc' = "work" => lm.pc = "work")
          /\ lc.queue' = lc.queue
          /\ trk.pc' \in NeedsRoom => trk.pc \in NeedsRoom
      BY <1>9, <1>0 DEF LcWasReset, trkRest, Shape, LmType, LcType
    <2> QED BY <1>b, <2>1, RoomFrame
  <1>10. CASE ClearMap
    <2>1. /\ lm.queue' = lm.queue /\ (lm.pc' = "work" => lm.pc = "work")
          /\ lc.queue' = lc.queue
          /\ trk.pc' \in NeedsRoom => trk.pc \in NeedsRoom
      BY <1>10, <1>0 DEF ClearMap, trkRest, Shape, LmType, LcType
    <2> QED BY <1>b, <2>1, RoomFrame
  <1>11. CASE LmTurns
    <2>1. /\ lm.queue' = lm.queue /\ (lm.pc' = "work" => lm.pc = "work")
          /\ lc.queue' = lc.queue
          /\ trk.pc' \in NeedsRoom => trk.pc \in NeedsRoom
      BY <1>11, <1>0 DEF LmTurns, lmRest, Shape, LmType, LcType
    <2> QED BY <1>b, <2>1, RoomFrame
  <1>12. CASE LmTakes
    <2>1. CASE lm.queue = << >>
      <3>1. lm.queue' = lm.queue /\ lc.queue' = lc.queue /\ trk' = trk /\ lm.pc' = "aborted"
        BY <1>12, <1>0, <2>1 DEF LmTakes, lmRest, Shape, LmType, LcType
      <3> QED BY <1>b, <3>1, RoomFrame
    <2>2. CASE lm.queue # << >>
      <3>1. Len(Tail(lm.queue)) = Len(lm.queue) - 1
        BY <1>a, <2>2, HeadTailProperties
      <3>2. /\ lm.queue' = Tail(lm.queue) /\ lc.queue' = lc.queue /\ trk' = trk
            /\ lm.pc' = "work" /\ lm.pc = "pop"
        BY <1>12, <1>0, <2>2 DEF LmTakes, lmRest, Shape, LmType, LcType
      <3>3. LmLen' = LmLen - 1
        BY <3>1, <3>2 DEF LmLen
      <3>4. LcLen' = LcLen
        BY <3>2 DEF LcLen
      <3>5. AtWork' <= AtWork + 1
        BY TakenLemma
      <3> QED BY <1>b, <3>2, <3>3, <3>4, <3>5, TakenLemma, RoomLemma
    <2> QED BY <2>1, <2>2
  <1>13. CASE LmDone
    <2>1. Len(Append(lc.queue, lm.work)) = Len(lc.queue) + 1
      BY <1>0, <1>a, AppendProperties DEF Shape, LmType
    <2>2. /\ lm.queue' = lm.queue /\ lc.queue' = Append(lc.queue, lm.work) /\ trk' = trk
          /\ lm.pc' = "tail" /\ lm.pc = "work"
      BY <1>13, <1>0 DEF LmDone, lmRest, Shape, LmType, LcType
    <2>3. LcLen' = LcLen + 1
      BY <2>1, <2>2 DEF LcLen
    <2>4. LmLen' = LmLen
      BY <2>2 DEF LmLen
    <2>5. AtWork' = 0 /\ AtWork = 1
      BY <2>2 DEF AtWork
    <2> QED BY <1>b, <2>2, <2>3, <2>4, <2>5, TakenLemma, RoomLemma
  <1>14. CASE LmStops
    <2>1. /\ lm.queue' = lm.queue /\ (lm.pc' = "work" => lm.pc = "work")
          /\ lc.queue' = lc.queue
          /\ trk.pc' \in NeedsRoom => trk.pc \in NeedsRoom
      BY <1>14, <1>0, LmStopsLemma DEF lmRest, Shape
    <2> QED BY <1>b, <2>1, RoomFrame
  <1>15. CASE LmReleased
    <2>1. /\ lm.queue' = lm.queue /\ (lm.pc' = "work" => lm.pc = "work")
          /\ lc.queue' = lc.queue
          /\ trk.pc' \in NeedsRoom => trk.pc \in NeedsRoom
      BY <1>15, <1>0 DEF LmReleased, lmRest, Shape, LmType, LcType
    <2> QED BY <1>b, <2>1, RoomFrame
  <1>16. CASE LmTail
    <2>1. /\ lm.queue' \in {<< >>, lm.queue} /\ lm.pc' = "top" /\ lc' = lc /\ trk' = trk
      BY <1>16, <1>0 DEF LmTail, lmRest, Shape, LmType
    <2>2. LmLen' <= LmLen
      BY <1>b, <2>1 DEF LmLen
    <2>3. LcLen' = LcLen /\ AtWork' = 0
      BY <2>1 DEF LcLen, AtWork
    <2> QED BY <1>b, <2>1, <2>2, <2>3, TakenLemma, RoomLemma
  <1>17. CASE LcTakes
    <2>1. Len(Tail(lc.queue)) = Len(lc.queue) - 1
      BY <1>17, <1>a, HeadTailProperties DEF LcTakes
    <2>2. lc.queue' = Tail(lc.queue) /\ lm' = lm /\ trk' = trk
      BY <1>17, <1>0 DEF LcTakes, Shape, LcType
    <2>3. LcLen' = LcLen - 1
      BY <2>1, <2>2 DEF LcLen
    <2>4. LmLen' = LmLen /\ AtWork' = AtWork
      BY <2>2 DEF LmLen, AtWork
    <2> QED BY <1>b, <2>2, <2>3, <2>4, TakenLemma, RoomLemma
  <1>18. CASE LcDetects
    <2>1. /\ lm.queue' = lm.queue /\ (lm.pc' = "work" => lm.pc = "work")
          /\ lc.queue' = lc.queue
          /\ trk.pc' \in NeedsRoom => trk.pc \in NeedsRoom
      BY <1>18, <1>0 DEF LcDetects, LcGoto, Shape, LmType, LcType
    <2> QED BY <1>b, <2>1, RoomFrame
  <1>19. CASE LcTail
    <2>1. lc.queue' \in {OthersOf(lc.queue), lc.queue} /\ lm' = lm /\ trk' = trk
      BY <1>19, <1>0 DEF LcTail, Shape, LcType
    <2>2. LcLen' <= LcLen
      BY <1>a, <1>b, <2>1, OthersLemma DEF LcLen
    <2>3. LmLen' = LmLen /\ AtWork' = AtWork
      BY <2>1 DEF LmLen, AtWork
    <2> QED BY <1>b, <2>1, <2>2, <2>3, TakenLemma, RoomLemma
  <1>20. CASE LcRequestsStop
    <2>1. /\ lm.queue' = lm.queue /\ (lm.pc' = "work" => lm.pc = "work")
          /\ lc.queue' = lc.queue
          /\ trk.pc' \in NeedsRoom => trk.pc \in NeedsRoom
      BY <1>20, <1>0 DEF LcRequestsStop, LcGoto, RequestStop, Shape, LmType, LcType
    <2> QED BY <1>b, <2>1, RoomFrame
  <1>21. CASE LcEmptiesQueue
    <2>1. /\ lm.queue' = lm.queue /\ (lm.pc' = "work" => lm.pc = "work")
          /\ lc.queue' = lc.queue
          /\ trk.pc' \in NeedsRoom => trk.pc \in NeedsRoom
      BY <1>21, <1>0 DEF LcEmptiesQueue, LcGoto, Shape, LmType, LcType
    <2> QED BY <1>b, <2>1, RoomFrame
  <1>22. CASE LcTakesFront
    <2>1. CASE lm.queue = << >>
      <3>1. lm.queue' = lm.queue /\ lc.queue' = lc.queue /\ trk' = trk /\ lm.pc' = "aborted"
        BY <1>22, <1>0, <2>1 DEF LcTakesFront, LcGoto, Shape, LmType, LcType
      <3> QED BY <1>b, <3>1, RoomFrame
    <2>2. CASE lm.queue # << >>
      <3>1. Len(Tail(lm.queue)) = Len(lm.queue) - 1
        BY <1>a, <2>2, HeadTailProperties
      <3>2. /\ lm.queue' = Tail(lm.queue) /\ lc.queue' = lc.queue /\ trk' = trk
            /\ lm.pc' = lm.pc
        BY <1>22, <1>0, <2>2 DEF LcTakesFront, LcGoto, Shape, LmType, LcType
      <3>3. LmLen' = LmLen - 1
        BY <3>1, <3>2 DEF LmLen
      <3>4. LcLen' = LcLen
        BY <3>2 DEF LcLen
      <3>5. AtWork' <= AtWork + 1
        BY TakenLemma
      <3> QED BY <1>b, <3>2, <3>3, <3>4, <3>5, TakenLemma, RoomLemma
    <2> QED BY <2>1, <2>2
  <1>23. CASE LcAsksForGba
    <2>1. /\ lm.queue' = lm.queue /\ (lm.pc' = "work" => lm.pc = "work")
          /\ lc.queue' = lc.queue
          /\ trk.pc' \in NeedsRoom => trk.pc \in NeedsRoom
      BY <1>23, <1>0 DEF LcAsksForGba, LcGoto, Shape, LmType, LcType
    <2> QED BY <1>b, <2>1, RoomFrame
  <1>24. CASE LcAbortsGba
    <2>1. /\ lm.queue' = lm.queue /\ (lm.pc' = "work" => lm.pc = "work")
          /\ lc.queue' = lc.queue
          /\ trk.pc' \in NeedsRoom => trk.pc \in NeedsRoom
      <3>1. lm' = lm /\ trk' = trk
        BY <1>24 DEF LcAbortsGba
      <3>2. lc' \in {[lc EXCEPT !.pc = "loopWait"],
                     [lc EXCEPT !.pc = "mergeStop", !.relaunch = TRUE]}
        BY <1>24 DEF LcAbortsGba, LcGoto
      <3>3. lc'.queue = lc.queue
        BY <3>2, <1>0 DEF Shape, LcType
      <3> QED BY <3>1, <3>3
    <2> QED BY <1>b, <2>1, RoomFrame
  <1>25. CASE LcSeesStop
    <2>1. /\ lm.queue' = lm.queue /\ (lm.pc' = "work" => lm.pc = "work")
          /\ lc.queue' = lc.queue
          /\ trk.pc' \in NeedsRoom => trk.pc \in NeedsRoom
      BY <1>25, <1>0 DEF LcSeesStop, LcGoto, Shape, LmType, LcType
    <2> QED BY <1>b, <2>1, RoomFrame
  <1>26. CASE LcWelds
    <2>1. lc.queue' \in [DOMAIN lc.queue -> BOOLEAN]
      BY <1>26, <1>0 DEF LcWelds, Shape, LcType
    <2>2. LcLen' = LcLen
      BY <1>a, <2>1, RelabelLemma DEF LcLen
    <2>3. lm.queue' = << >> /\ lm.pc' = lm.pc /\ trk.pc' = trk.pc
      BY <1>26, <1>0 DEF LcWelds, Release, Shape, LmType
    <2>4. LmLen' = 0
      BY <2>3 DEF LmLen
    <2>5. AtWork' = AtWork
      BY <2>3 DEF AtWork
    <2> QED BY <1>b, <2>2, <2>3, <2>4, <2>5, TakenLemma, RoomLemma
  <1>27. CASE LcMoves
    <2>1. /\ lm.queue' = lm.queue /\ (lm.pc' = "work" => lm.pc = "work")
          /\ lc.queue' = lc.queue
          /\ trk.pc' \in NeedsRoom => trk.pc \in NeedsRoom
      BY <1>27, <1>0 DEF LcMoves, LcGoto, Shape, LmType, LcType
    <2> QED BY <1>b, <2>1, RoomFrame
  <1>28. CASE LcCorrects
    <2>1. /\ lm.queue' = lm.queue /\ (lm.pc' = "work" => lm.pc = "work")
          /\ lc.queue' = lc.queue
          /\ trk.pc' \in NeedsRoom => trk.pc \in NeedsRoom
      BY <1>28, <1>0 DEF LcCorrects, LcGoto, Launch, Alive, Shape, LmType, LcType
    <2> QED BY <1>b, <2>1, RoomFrame
  <1>29. CASE LcReleases
    <2>1. lm.queue' = << >> /\ lm.pc' = lm.pc /\ trk' = trk /\ lc.queue' = lc.queue
      BY <1>29, <1>0 DEF LcReleases, LcGoto, Release, Shape, LmType, LcType
    <2>2. LmLen' = 0
      BY <2>1 DEF LmLen
    <2>3. LcLen' = LcLen /\ AtWork' = AtWork
      BY <2>1 DEF LcLen, AtWork
    <2> QED BY <1>b, <2>1, <2>2, <2>3, TakenLemma, RoomLemma
  <1>30. CASE LcRelaunches
    <2>1. /\ lm.queue' = lm.queue /\ (lm.pc' = "work" => lm.pc = "work")
          /\ lc.queue' = lc.queue
          /\ trk.pc' \in NeedsRoom => trk.pc \in NeedsRoom
      BY <1>30, <1>0 DEF LcRelaunches, LcGoto, Launch, Alive, Shape, LmType, LcType
    <2> QED BY <1>b, <2>1, RoomFrame
  <1>31. ASSUME NEW t \in Gbas, GbaOptimised(t) PROVE Goal
    <2>1. /\ lm.queue' = lm.queue /\ (lm.pc' = "work" => lm.pc = "work")
          /\ lc.queue' = lc.queue
          /\ trk.pc' \in NeedsRoom => trk.pc \in NeedsRoom
      BY <1>31, <1>0 DEF GbaOptimised, NoGba, Shape, LmType, LcType
    <2> QED BY <1>b, <2>1, RoomFrame
  <1>32. ASSUME NEW t \in Gbas, GbaChecks(t) PROVE Goal
    <2>1. /\ lm.queue' = lm.queue /\ (lm.pc' = "work" => lm.pc = "work")
          /\ lc.queue' = lc.queue
          /\ trk.pc' \in NeedsRoom => trk.pc \in NeedsRoom
      BY <1>32, <1>0 DEF GbaChecks, RequestStop, NoGba, Shape, LmType, LcType
    <2> QED BY <1>b, <2>1, RoomFrame
  <1>33. ASSUME NEW t \in Gbas, GbaSeesStop(t) PROVE Goal
    <2>1. /\ lm.queue' = lm.queue /\ (lm.pc' = "work" => lm.pc = "work")
          /\ lc.queue' = lc.queue
          /\ trk.pc' \in NeedsRoom => trk.pc \in NeedsRoom
      BY <1>33, <1>0 DEF GbaSeesStop, Shape, LmType, LcType
    <2> QED BY <1>b, <2>1, RoomFrame
  <1>34. ASSUME NEW t \in Gbas, GbaUpdated(t) PROVE Goal
    <2>1. lm.queue' = << >> /\ lm.pc' = lm.pc /\ trk' = trk /\ lc.queue' = lc.queue
      BY <1>34, <1>0 DEF GbaUpdated, Release, NoGba, Shape, LmType, LcType
    <2>2. LmLen' = 0
      BY <2>1 DEF LmLen
    <2>3. LcLen' = LcLen /\ AtWork' = AtWork
      BY <2>1 DEF LcLen, AtWork
    <2> QED BY <1>b, <2>1, <2>2, <2>3, TakenLemma, RoomLemma
  <1>35. CASE UNCHANGED vars
    BY <1>35 DEF vars, Taken, RoomInv, TypeOK
  <1> QED BY <1>1, <1>2, <1>3, <1>4, <1>5, <1>6, <1>7, <1>8, <1>9, <1>10, <1>11,
             <1>12, <1>13, <1>14, <1>15, <1>16, <1>17, <1>18, <1>19, <1>20, <1>21,
             <1>22, <1>23, <1>24, <1>25, <1>26, <1>27, <1>28, <1>29, <1>30, <1>31,
             <1>32, <1>33, <1>34, <1>35
          DEF Next, TrackStep, LmStep, LcStep, GbaStep

LEMMA TypeStep ==
    ASSUME TypeOK, RoomInv, [Next]_vars
    PROVE  (TypeOK /\ RoomInv)'
  <1>1. Shape' /\ (Taken <= MaxTaken)' /\ RoomInv'
    BY ShapeStep, RoomStep
  <1>2. TypeOK'
    BY <1>1, ShapeIsType DEF TypeOK, Shape, LmType, LcType, Keyframes
  <1> QED BY <1>1, <1>2

LEMMA StopStep ==
    ASSUME TypeOK, StopInv, [Next]_vars
    PROVE  StopInv'
  <1> USE DEF TypeOK, StopInv
  <1>1. CASE LcTakes \/ LcDetects \/ LcTail \/ LcEmptiesQueue \/ LcAsksForGba
            \/ LcAbortsGba \/ LcSeesStop \/ LcMoves \/ LcCorrects \/ LcRelaunches
    BY <1>1 DEF LcTakes, LcDetects, LcGoto, LcTail, LcEmptiesQueue, LcAsksForGba,
               LcAbortsGba, Alive, LcSeesStop, LcMoves, LcCorrects, Launch,
               LcRelaunches
  <1>2. CASE LmWasReset \/ LcWasReset \/ ClearMap
    BY <1>2 DEF LmWasReset, LcWasReset, trkRest, ClearMap
  <1>3. CASE CreateInitialMap
    BY <1>3 DEF CreateInitialMap, trkRest, Insert, Kf
  <1>4. CASE NeedNewKeyFrame \/ LooksAgain
    BY <1>4 DEF NeedNewKeyFrame, LooksAgain, trkRest
  <1>5. CASE CreateMapInAtlas
    BY <1>5 DEF CreateMapInAtlas
  <1>6. CASE RequestReset
    BY <1>6 DEF RequestReset, trkRest
  <1>7. CASE SetNotStop
    BY <1>7 DEF SetNotStop, trkRest
  <1>8. CASE InsertKeyFrame
    BY <1>8 DEF InsertKeyFrame, trkRest, Insert, Kf
  <1>9. CASE KeyFrameMade
    BY <1>9 DEF KeyFrameMade, trkRest
  <1>10. CASE LmTurns
    BY <1>10 DEF LmTurns, lmRest
  <1>11. CASE LmTakes
    BY <1>11 DEF LmTakes, lmRest
  <1>12. CASE LmDone
    BY <1>12 DEF LmDone, lmRest
  <1>13. CASE LmStops
    BY <1>13 DEF LmStops, lmRest
  <1>14. CASE LmReleased
    BY <1>14 DEF LmReleased, lmRest
  <1>15. CASE LmTail
    BY <1>15 DEF LmTail, lmRest
  <1>16. CASE LcRequestsStop
    BY <1>16 DEF LcRequestsStop, LcGoto, RequestStop
  <1>17. CASE LcTakesFront
    BY <1>17 DEF LcTakesFront, LcGoto
  <1>18. CASE LcWelds
    BY <1>18 DEF LcWelds, Release
  <1>19. CASE LcReleases
    BY <1>19 DEF LcReleases, LcGoto, Release
  <1>20. ASSUME NEW t \in Gbas, GbaOptimised(t) PROVE StopInv'
    BY <1>20 DEF GbaOptimised
  <1>21. ASSUME NEW t \in Gbas, GbaChecks(t) PROVE StopInv'
    BY <1>21 DEF GbaChecks, RequestStop
  <1>22. ASSUME NEW t \in Gbas, GbaSeesStop(t) PROVE StopInv'
    BY <1>22 DEF GbaSeesStop
  <1>23. ASSUME NEW t \in Gbas, GbaUpdated(t) PROVE StopInv'
    BY <1>23 DEF GbaUpdated, Release
  <1>24. CASE UNCHANGED vars
    BY <1>24 DEF vars
  <1> QED BY <1>1, <1>2, <1>3, <1>4, <1>5, <1>6, <1>7, <1>8, <1>9, <1>10, <1>11,
             <1>12, <1>13, <1>14, <1>15, <1>16, <1>17, <1>18, <1>19, <1>20, <1>21,
             <1>22, <1>23, <1>24
          DEF Next, TrackStep, LmStep, LcStep, GbaStep

LEMMA GbaStepLemma ==
    ASSUME TypeOK, GbaInv, [Next]_vars
    PROVE  GbaInv'
  <1> USE DEF TypeOK, GbaInv, GbaQuiet, Wanted, Alive, NoGba
  <1>1. CASE lc.pc' = lc.pc /\ UNCHANGED <<gba, flags, owner, loose>>
    BY <1>1
  <1>2. CASE \/ CreateInitialMap \/ NeedNewKeyFrame \/ LooksAgain \/ CreateMapInAtlas \/ RequestReset
            \/ SetNotStop \/ InsertKeyFrame \/ KeyFrameMade
            \/ LmWasReset \/ LcWasReset \/ ClearMap
            \/ LmTurns \/ LmTakes \/ LmDone \/ LmStops \/ LmReleased \/ LmTail
    <2>1. CASE CreateInitialMap
      BY <1>1, <2>1 DEF CreateInitialMap, trkRest
    <2>2. CASE NeedNewKeyFrame \/ LooksAgain
      BY <1>1, <2>2 DEF NeedNewKeyFrame, LooksAgain, trkRest
    <2>3. CASE CreateMapInAtlas
      BY <1>1, <2>3 DEF CreateMapInAtlas
    <2>4. CASE RequestReset
      BY <1>1, <2>4 DEF RequestReset, trkRest
    <2>5. CASE SetNotStop
      BY <1>1, <2>5 DEF SetNotStop, trkRest
    <2>6. CASE InsertKeyFrame
      BY <1>1, <2>6 DEF InsertKeyFrame, trkRest
    <2>7. CASE KeyFrameMade
      BY <1>1, <2>7 DEF KeyFrameMade, trkRest
    <2>8. CASE LmWasReset
      BY <1>1, <2>8 DEF LmWasReset
    <2>9. CASE LcWasReset
      BY <1>1, <2>9 DEF LcWasReset, trkRest
    <2>10. CASE ClearMap
      BY <1>1, <2>10 DEF ClearMap, trkRest
    <2>11. CASE LmTurns
      BY <1>1, <2>11 DEF LmTurns, lmRest
    <2>12. CASE LmTakes
      BY <1>1, <2>12 DEF LmTakes, lmRest
    <2>13. CASE LmDone
      BY <1>1, <2>13 DEF LmDone, lmRest
    <2>14. CASE LmStops
      BY <1>1, <2>14 DEF LmStops, lmRest
    <2>15. CASE LmReleased
      BY <1>1, <2>15 DEF LmReleased, lmRest
    <2>16. CASE LmTail
      BY <1>1, <2>16 DEF LmTail, lmRest
    <2> QED BY <1>2, <2>1, <2>2, <2>3, <2>4, <2>5, <2>6, <2>7, <2>8,
               <2>9, <2>10, <2>11, <2>12, <2>13, <2>14, <2>15, <2>16
  <1>3. CASE LcTakes
    BY <1>3 DEF LcTakes
  <1>4. CASE LcDetects
    BY <1>4 DEF LcDetects, LcGoto
  <1>5. CASE LcTail
    BY <1>5 DEF LcTail
  <1>6. CASE LcRequestsStop
    BY <1>6 DEF LcRequestsStop, LcGoto, RequestStop
  <1>7. CASE LcEmptiesQueue
    BY <1>7 DEF LcEmptiesQueue, LcGoto
  <1>8. CASE LcTakesFront
    BY <1>8 DEF LcTakesFront, LcGoto
  <1>9. CASE LcAsksForGba
    BY <1>9 DEF LcAsksForGba, LcGoto
  <1>10. CASE LcAbortsGba
    <2>1. \A t \in Gbas : gba[t].pc \notin {"wait", "update"}
      <3>1. owner \notin Gbas
        BY <1>10, ThreadsAssumption DEF LcAbortsGba, ThreadsAssumption
      <3> QED BY <3>1
    <2>2. flags'.stop /\ loose' = loose
      BY <1>10 DEF LcAbortsGba
    <2>3. ASSUME NEW t \in Gbas
          PROVE  /\ gba'[t].pc = gba[t].pc /\ gba'[t].moved = (gba[t].pc = "check")
                 /\ gba'[t].aborted = (gba[t].pc # "none")
                 /\ gba[t].pc = "none" => gba'[t] = NoGba
      <3>1. gba'[t] = [gba[t] EXCEPT !.moved = (gba[t].pc = "check"),
                                     !.aborted = (gba[t].pc # "none")]
        BY <1>10 DEF LcAbortsGba
      <3>2. gba[t] \in [pc : {"none", "optimise", "check", "wait", "update"},
                       moved : BOOLEAN, aborted : BOOLEAN]
        OBVIOUS
      <3>3. gba'[t] = [pc |-> gba[t].pc, moved |-> gba[t].pc = "check",
                       aborted |-> gba[t].pc # "none"]
        BY <3>1, <3>2
      <3>4. gba[t].pc = "none" => gba'[t] = NoGba
        <4> SUFFICES ASSUME gba[t].pc = "none" PROVE gba'[t] = NoGba
          OBVIOUS
        <4>1. (gba[t].pc = "check") = FALSE /\ (gba[t].pc # "none") = FALSE
          OBVIOUS
        <4> QED BY <3>3, <4>1
      <3>5. /\ gba'[t].pc = gba[t].pc /\ gba'[t].moved = (gba[t].pc = "check")
            /\ gba'[t].aborted = (gba[t].pc # "none")
        BY <3>3
      <3> QED BY <3>4, <3>5
    <2> QED BY <2>1, <2>2, <2>3
  <1>11. CASE LcSeesStop
    BY <1>11 DEF LcSeesStop, LcGoto
  <1>12. CASE LcWelds
    BY <1>12 DEF LcWelds, Release
  <1>13. CASE LcMoves
    BY <1>13 DEF LcMoves, LcGoto
  <1>14. CASE LcCorrects
    BY <1>14 DEF LcCorrects, LcGoto, Launch, Alive
  <1>15. CASE LcReleases
    BY <1>15 DEF LcReleases, LcGoto, Release
  <1>16. CASE LcRelaunches
    BY <1>16 DEF LcRelaunches, LcGoto, Launch, Alive
  <1>17. ASSUME NEW t \in Gbas, GbaOptimised(t) PROVE GbaInv'
    BY <1>17 DEF GbaOptimised
  <1>18. ASSUME NEW t \in Gbas, GbaChecks(t) PROVE GbaInv'
    <2>1. gba[t].pc = "check" /\ owner = Nobody /\ lc' = lc /\ loose' = loose
      BY <1>18 DEF GbaChecks
    <2>2. \A u \in Gbas : gba[u].pc \notin {"wait", "update"}
      BY <2>1, ThreadsAssumption DEF ThreadsAssumption
    <2>3. CASE gba[t].moved
      <3>1. gba' = [gba EXCEPT ![t] = NoGba] /\ flags' = flags /\ owner' = owner
        BY <1>18, <2>3 DEF GbaChecks
      <3> QED BY <2>1, <2>2, <3>1
    <2>4. CASE ~gba[t].moved /\ flags.stop
      <3>1. /\ gba' = [gba EXCEPT ![t] = NoGba] /\ owner' = owner
            /\ flags' = [flags EXCEPT !.running = FALSE]
        BY <1>18, <2>4 DEF GbaChecks
      <3> QED BY <2>1, <2>2, <2>4, <3>1
    <2>5. CASE ~gba[t].moved /\ ~flags.stop
      <3>1. gba' = [gba EXCEPT ![t].pc = "wait"] /\ owner' = t /\ flags' = flags
        BY <1>18, <2>5 DEF GbaChecks
      <3> QED BY <2>1, <2>2, <2>5, <3>1
    <2> QED BY <2>3, <2>4, <2>5
  <1>19. ASSUME NEW t \in Gbas, GbaSeesStop(t) PROVE GbaInv'
    BY <1>19 DEF GbaSeesStop
  <1>20. ASSUME NEW t \in Gbas, GbaUpdated(t) PROVE GbaInv'
    BY <1>20 DEF GbaUpdated, Release
  <1>21. CASE UNCHANGED vars
    BY <1>21 DEF vars
  <1> QED BY <1>1, <1>2, <1>3, <1>4, <1>5, <1>6, <1>7, <1>8, <1>9, <1>10, <1>11,
             <1>12, <1>13, <1>14, <1>15, <1>16, <1>17, <1>18, <1>19, <1>20, <1>21
          DEF Next, TrackStep, LmStep, LcStep, GbaStep

LEMMA HandleStep ==
    ASSUME TypeOK, HandleInv, [Next]_vars
    PROVE  HandleInv'
  <1> USE DEF TypeOK, HandleInv, GbaQuiet
  <1>1. CASE CreateInitialMap \/ NeedNewKeyFrame \/ LooksAgain \/ CreateMapInAtlas
            \/ RequestReset \/ SetNotStop \/ InsertKeyFrame \/ KeyFrameMade
            \/ LmWasReset \/ LcWasReset \/ ClearMap
    <2>1. UNCHANGED flags /\ lc'.pc = lc.pc /\ lc'.relaunch = lc.relaunch
      <3>1. CASE CreateInitialMap
        BY <3>1 DEF CreateInitialMap, trkRest
      <3>2. CASE NeedNewKeyFrame \/ LooksAgain
        BY <3>2 DEF NeedNewKeyFrame, LooksAgain, trkRest
      <3>3. CASE CreateMapInAtlas
        BY <3>3 DEF CreateMapInAtlas
      <3>4. CASE RequestReset
        BY <3>4 DEF RequestReset, trkRest
      <3>5. CASE SetNotStop
        BY <3>5 DEF SetNotStop, trkRest
      <3>6. CASE InsertKeyFrame
        BY <3>6 DEF InsertKeyFrame, trkRest
      <3>7. CASE KeyFrameMade
        BY <3>7 DEF KeyFrameMade, trkRest
      <3>8. CASE LmWasReset
        BY <3>8 DEF LmWasReset
      <3>9. CASE LcWasReset
        BY <3>9 DEF LcWasReset, trkRest
      <3>10. CASE ClearMap
        BY <3>10 DEF ClearMap, trkRest
      <3> QED BY <1>1, <3>1, <3>2, <3>3, <3>4, <3>5, <3>6, <3>7, <3>8, <3>9, <3>10
    <2> QED BY <2>1
  <1>2. CASE LmTurns \/ LmTakes \/ LmDone \/ LmStops \/ LmReleased \/ LmTail
    <2>1. UNCHANGED flags /\ lc'.pc = lc.pc /\ lc'.relaunch = lc.relaunch
      <3>1. CASE LmDone
        BY <3>1 DEF LmDone, lmRest
      <3>2. CASE LmTurns \/ LmTakes \/ LmStops \/ LmReleased \/ LmTail
        BY <3>2 DEF LmTurns, lmRest, LmTakes, LmStops, LmReleased, LmTail
      <3> QED BY <1>2, <3>1, <3>2
    <2> QED BY <2>1
  <1>3. CASE LcTakes
    BY <1>3 DEF LcTakes
  <1>4. CASE LcDetects
    BY <1>4 DEF LcDetects, LcGoto
  <1>5. CASE LcTail
    BY <1>5 DEF LcTail
  <1>6. CASE LcRequestsStop
    BY <1>6 DEF LcRequestsStop, LcGoto, RequestStop
  <1>7. CASE LcEmptiesQueue
    BY <1>7 DEF LcEmptiesQueue, LcGoto
  <1>8. CASE LcTakesFront
    BY <1>8 DEF LcTakesFront, LcGoto
  <1>9. CASE LcAsksForGba
    BY <1>9 DEF LcAsksForGba, LcGoto
  <1>10. CASE LcAbortsGba
    BY <1>10 DEF LcAbortsGba, LcGoto, Alive
  <1>11. CASE LcSeesStop
    BY <1>11 DEF LcSeesStop, LcGoto
  <1>12. CASE LcWelds
    BY <1>12 DEF LcWelds, Release
  <1>13. CASE LcMoves
    BY <1>13 DEF LcMoves, LcGoto
  <1>14. CASE LcCorrects
    BY <1>14 DEF LcCorrects, LcGoto, Launch, Alive
  <1>15. CASE LcReleases
    BY <1>15 DEF LcReleases, LcGoto, Release
  <1>16. CASE LcRelaunches
    BY <1>16 DEF LcRelaunches, LcGoto, Launch, Alive
  <1>17. ASSUME NEW t \in Gbas, GbaOptimised(t) PROVE HandleInv'
    BY <1>17 DEF GbaOptimised
  <1>18. ASSUME NEW t \in Gbas, GbaChecks(t) PROVE HandleInv'
    BY <1>18 DEF GbaChecks, RequestStop
  <1>19. ASSUME NEW t \in Gbas, GbaSeesStop(t) PROVE HandleInv'
    BY <1>19 DEF GbaSeesStop
  <1>20. ASSUME NEW t \in Gbas, GbaUpdated(t) PROVE HandleInv'
    BY <1>20 DEF GbaUpdated, Release
  <1>21. CASE UNCHANGED vars
    BY <1>21 DEF vars
  <1> QED BY <1>1, <1>2, <1>3, <1>4, <1>5, <1>6, <1>7, <1>8, <1>9, <1>10, <1>11,
             <1>12, <1>13, <1>14, <1>15, <1>16, <1>17, <1>18, <1>19, <1>20, <1>21
          DEF Next, TrackStep, LmStep, LcStep, GbaStep

LEMMA ExclusiveStep ==
    ASSUME TypeOK, StopInv, GbaInv, ExclusiveInv, Alright, [Next]_vars
    PROVE  ExclusiveInv'
  <1> USE DEF TypeOK, StopInv, ExclusiveInv, MergeDeletesNoKeyFrame, Alright
  <1>1. CASE CreateInitialMap
    BY <1>1 DEF CreateInitialMap, trkRest, Insert, Kf
  <1>2. CASE NeedNewKeyFrame \/ LooksAgain
    BY <1>2 DEF NeedNewKeyFrame, LooksAgain, trkRest
  <1>3. CASE CreateMapInAtlas
    BY <1>3 DEF CreateMapInAtlas
  <1>4. CASE RequestReset
    BY <1>4 DEF RequestReset, trkRest
  <1>5. CASE SetNotStop
    BY <1>5 DEF SetNotStop, trkRest
  <1>6. CASE InsertKeyFrame
    BY <1>6 DEF InsertKeyFrame, trkRest, Insert, Kf
  <1>7. CASE KeyFrameMade
    BY <1>7 DEF KeyFrameMade, trkRest
  <1>8. CASE LmWasReset
    BY <1>8 DEF LmWasReset
  <1>9. CASE LcWasReset
    BY <1>9 DEF LcWasReset, trkRest
  <1>10. CASE ClearMap
    BY <1>10 DEF ClearMap, trkRest
  <1>11. CASE LmTurns
    BY <1>11 DEF LmTurns, lmRest
  <1>12. CASE LmTakes
    BY <1>12 DEF LmTakes, lmRest
  <1>13. CASE LmDone
    BY <1>13 DEF LmDone, lmRest
  <1>14. CASE LmStops
    BY <1>14 DEF LmStops, lmRest
  <1>15. CASE LmReleased
    BY <1>15 DEF LmReleased, lmRest
  <1>16. CASE LmTail
    BY <1>16 DEF LmTail, lmRest
  <1>17. CASE LcTakes
    BY <1>17 DEF LcTakes
  <1>18. CASE LcDetects
    BY <1>18 DEF LcDetects, LcGoto
  <1>19. CASE LcTail
    BY <1>19 DEF LcTail
  <1>20. CASE LcRequestsStop
    BY <1>20 DEF LcRequestsStop, LcGoto, RequestStop
  <1>21. CASE LcEmptiesQueue
    BY <1>21 DEF LcEmptiesQueue, LcGoto
  <1>22. CASE LcTakesFront
    BY <1>22 DEF LcTakesFront, LcGoto
  <1>23. CASE LcAsksForGba
    BY <1>23 DEF LcAsksForGba, LcGoto
  <1>24. CASE LcAbortsGba
    <2>1. lc'.pc \in {"loopWait", "mergeStop"} /\ lm' = lm /\ loose' = loose
      BY <1>24 DEF LcAbortsGba, LcGoto
    <2> QED BY <2>1
  <1>25. CASE LcSeesStop
    <2>1. lm.stopped /\ lm' = lm /\ loose' = loose
      BY <1>25 DEF LcSeesStop
    <2>2. lc'.pc \in {"correct", "mergeEmpty", "move"}
      BY <1>25 DEF LcSeesStop, LcGoto
    <2>3. lm.pc \in {"stopped", "aborted"}
      BY <2>1
    <2> QED BY <2>1, <2>2, <2>3
  <1>26. CASE LcWelds
    BY <1>26 DEF LcWelds, Release
  <1>27. CASE LcMoves
    BY <1>27 DEF LcMoves, LcGoto
  <1>28. CASE LcCorrects
    BY <1>28 DEF LcCorrects, LcGoto, Launch, Alive
  <1>29. CASE LcReleases
    BY <1>29 DEF LcReleases, LcGoto, Release
  <1>30. CASE LcRelaunches
    BY <1>30 DEF LcRelaunches, LcGoto, Launch, Alive
  <1>31. ASSUME NEW t \in Gbas, GbaOptimised(t) PROVE ExclusiveInv'
    BY <1>31 DEF GbaOptimised
  <1>32. ASSUME NEW t \in Gbas, GbaChecks(t) PROVE ExclusiveInv'
    BY <1>32 DEF GbaChecks, RequestStop
  <1>33. ASSUME NEW t \in Gbas, GbaSeesStop(t) PROVE ExclusiveInv'
    BY <1>33 DEF GbaSeesStop
  <1>34. ASSUME NEW t \in Gbas, GbaUpdated(t) PROVE ExclusiveInv'
    <2>1. Revived \notin loose => lc.pc \notin GbaQuiet
      BY <1>34 DEF GbaUpdated, GbaInv, Wanted, Alive
    <2> QED BY <1>34, <2>1 DEF GbaUpdated, GbaQuiet, Release
  <1>35. CASE UNCHANGED vars
    BY <1>35 DEF vars
  <1> QED BY <1>1, <1>2, <1>3, <1>4, <1>5, <1>6, <1>7, <1>8, <1>9, <1>10, <1>11,
             <1>12, <1>13, <1>14, <1>15, <1>16, <1>17, <1>18, <1>19, <1>20, <1>21,
             <1>22, <1>23, <1>24, <1>25, <1>26, <1>27, <1>28, <1>29, <1>30, <1>31,
             <1>32, <1>33, <1>34, <1>35
          DEF Next, TrackStep, LmStep, LcStep, GbaStep

LEMMA QueueStep ==
    ASSUME TypeOK, StopInv, ExclusiveInv, QueueInv, Alright, [Next]_vars
    PROVE  QueueInv'
  <1>0. Shape
    BY ShapeIsType
  <1> USE DEF TypeOK, StopInv, QueueInv, SharesQueue, AbortsOnlyInCorrectLoop, Alright
  <1>1. CASE CreateInitialMap
    BY <1>1 DEF CreateInitialMap, trkRest, Insert, Kf
  <1>2. CASE NeedNewKeyFrame \/ LooksAgain
    BY <1>2 DEF NeedNewKeyFrame, LooksAgain, trkRest
  <1>3. CASE CreateMapInAtlas
    <2>1. /\ lm.queue' = [i \in DOMAIN lm.queue |-> [lm.queue[i] EXCEPT !.cur = FALSE]]
          /\ lm.pc' = lm.pc /\ lc.pc' = lc.pc /\ loose' = loose
      BY <1>3 DEF CreateMapInAtlas
    <2>2. lm.queue \in Seq(Keyframes)
      BY DEF Keyframes
    <2>3. lm.queue' \in Seq(Keyframes) /\ Len(lm.queue') = Len(lm.queue)
      BY <2>1, <2>2, OfAnotherMapLemma
    <2>4. lm.queue # << >> => lm.queue' # << >>
      BY <2>2, <2>3, EmptySeq
    <2> QED BY <2>1, <2>4
  <1>4. CASE RequestReset
    BY <1>4 DEF RequestReset, trkRest
  <1>5. CASE SetNotStop
    BY <1>5 DEF SetNotStop, trkRest
  <1>6. CASE InsertKeyFrame
    BY <1>6 DEF InsertKeyFrame, trkRest, Insert, Kf
  <1>7. CASE KeyFrameMade
    BY <1>7 DEF KeyFrameMade, trkRest
  <1>8. CASE LmWasReset
    BY <1>8 DEF LmWasReset
  <1>9. CASE LcWasReset
    BY <1>9 DEF LcWasReset, trkRest
  <1>10. CASE ClearMap
    BY <1>10 DEF ClearMap, trkRest
  <1>11. CASE LmTurns
    BY <1>11 DEF LmTurns, lmRest
  <1>12. CASE LmTakes
    BY <1>12 DEF LmTakes, lmRest
  <1>13. CASE LmDone
    BY <1>13 DEF LmDone, lmRest
  <1>14. CASE LmStops
    <2>1. lm'.pc \in {"stopped", "tail"}
      BY <1>0, <1>14, LmStopsLemma DEF Shape
    <2> QED BY <2>1
  <1>15. CASE LmReleased
    BY <1>15 DEF LmReleased, lmRest
  <1>16. CASE LmTail
    BY <1>16 DEF LmTail, lmRest
  <1>17. CASE LcTakes
    BY <1>17 DEF LcTakes
  <1>18. CASE LcDetects
    BY <1>18 DEF LcDetects, LcGoto
  <1>19. CASE LcTail
    BY <1>19 DEF LcTail
  <1>20. CASE LcRequestsStop
    BY <1>20 DEF LcRequestsStop, LcGoto, RequestStop
  <1>21. CASE LcEmptiesQueue
    BY <1>21 DEF LcEmptiesQueue, LcGoto
  <1>22. CASE LcTakesFront
    <2>1. CASE lc.pc = "loopPop"
      BY <1>22, <2>1 DEF LcTakesFront, LcGoto
    <2>2. CASE lc.pc = "mergePop"
      <3>1. loose = {} => lm.queue # << >> /\ lm.pc = "stopped"
        BY <2>2 DEF ExclusiveInv
      <3>2. loose' = loose /\ (lm.queue # << >> => lm.pc' = lm.pc)
        BY <1>22 DEF LcTakesFront
      <3> QED BY <3>1, <3>2
    <2> QED BY <1>22, <2>1, <2>2 DEF LcTakesFront
  <1>23. CASE LcAsksForGba
    BY <1>23 DEF LcAsksForGba, LcGoto
  <1>24. CASE LcAbortsGba
    BY <1>24 DEF LcAbortsGba, LcGoto, Alive
  <1>25. CASE LcSeesStop
    BY <1>25 DEF LcSeesStop, LcGoto
  <1>26. CASE LcWelds
    BY <1>26 DEF LcWelds, Release
  <1>27. CASE LcMoves
    BY <1>27 DEF LcMoves, LcGoto
  <1>28. CASE LcCorrects
    BY <1>28 DEF LcCorrects, LcGoto, Launch, Alive
  <1>29. CASE LcReleases
    BY <1>29 DEF LcReleases, LcGoto, Release
  <1>30. CASE LcRelaunches
    BY <1>30 DEF LcRelaunches, LcGoto, Launch, Alive
  <1>31. ASSUME NEW t \in Gbas, GbaOptimised(t) PROVE QueueInv'
    BY <1>31 DEF GbaOptimised
  <1>32. ASSUME NEW t \in Gbas, GbaChecks(t) PROVE QueueInv'
    BY <1>32 DEF GbaChecks, RequestStop
  <1>33. ASSUME NEW t \in Gbas, GbaSeesStop(t) PROVE QueueInv'
    BY <1>33 DEF GbaSeesStop
  <1>34. ASSUME NEW t \in Gbas, GbaUpdated(t) PROVE QueueInv'
    BY <1>34 DEF GbaUpdated, Release
  <1>35. CASE UNCHANGED vars
    BY <1>35 DEF vars
  <1> QED BY <1>1, <1>2, <1>3, <1>4, <1>5, <1>6, <1>7, <1>8, <1>9, <1>10, <1>11,
             <1>12, <1>13, <1>14, <1>15, <1>16, <1>17, <1>18, <1>19, <1>20, <1>21,
             <1>22, <1>23, <1>24, <1>25, <1>26, <1>27, <1>28, <1>29, <1>30, <1>31,
             <1>32, <1>33, <1>34, <1>35
          DEF Next, TrackStep, LmStep, LcStep, GbaStep

LEMMA ResetStep ==
    ASSUME TypeOK, ResetInv, [Next]_vars
    PROVE  ResetInv'
  <1>0. Shape
    BY ShapeIsType
  <1> USE DEF TypeOK, ResetInv
  <1>1. CASE CreateInitialMap
    BY <1>1 DEF CreateInitialMap, trkRest, Insert, Kf
  <1>2. CASE NeedNewKeyFrame \/ LooksAgain
    BY <1>2 DEF NeedNewKeyFrame, LooksAgain, trkRest
  <1>3. CASE CreateMapInAtlas
    BY <1>3 DEF CreateMapInAtlas
  <1>4. CASE RequestReset
    BY <1>4 DEF RequestReset, trkRest
  <1>5. CASE SetNotStop
    BY <1>5 DEF SetNotStop, trkRest
  <1>6. CASE InsertKeyFrame
    BY <1>6 DEF InsertKeyFrame, trkRest, Insert, Kf
  <1>7. CASE KeyFrameMade
    BY <1>7 DEF KeyFrameMade, trkRest
  <1>8. CASE LmWasReset
    BY <1>8 DEF LmWasReset
  <1>9. CASE LcWasReset
    BY <1>9 DEF LcWasReset, trkRest
  <1>10. CASE ClearMap
    BY <1>10 DEF ClearMap, trkRest
  <1>11. CASE LmTurns
    BY <1>11 DEF LmTurns, lmRest
  <1>12. CASE LmTakes
    BY <1>12 DEF LmTakes, lmRest
  <1>13. CASE LmDone
    BY <1>13 DEF LmDone, lmRest
  <1>14. CASE LmStops
    BY <1>14, <1>0, LmStopsLemma DEF lmRest, Shape
  <1>15. CASE LmReleased
    BY <1>15 DEF LmReleased, lmRest
  <1>16. CASE LmTail
    BY <1>16 DEF LmTail, lmRest
  <1>17. CASE LcTakes
    BY <1>17 DEF LcTakes
  <1>18. CASE LcDetects
    BY <1>18 DEF LcDetects, LcGoto
  <1>19. CASE LcTail
    <2>1. /\ lm' = lm /\ trk' = trk
          /\ \/ lc.queue' = lc.queue /\ (~lc.reset \/ trk.merged)
             \/ lc.reset /\ lc.queue' = OthersOf(lc.queue)
      BY <1>19 DEF LcTail
    <2>2. \A i \in DOMAIN OthersOf(lc.queue) : ~OthersOf(lc.queue)[i]
      BY OthersLemma
    <2> QED BY <2>1, <2>2
  <1>20. CASE LcRequestsStop
    BY <1>20 DEF LcRequestsStop, LcGoto, RequestStop
  <1>21. CASE LcEmptiesQueue
    BY <1>21 DEF LcEmptiesQueue, LcGoto
  <1>22. CASE LcTakesFront
    BY <1>22 DEF LcTakesFront, LcGoto
  <1>23. CASE LcAsksForGba
    BY <1>23 DEF LcAsksForGba, LcGoto
  <1>24. CASE LcAbortsGba
    BY <1>24 DEF LcAbortsGba, LcGoto, Alive
  <1>25. CASE LcSeesStop
    BY <1>25 DEF LcSeesStop, LcGoto
  <1>26. CASE LcWelds
    BY <1>26 DEF LcWelds, Release
  <1>27. CASE LcMoves
    BY <1>27 DEF LcMoves, LcGoto
  <1>28. CASE LcCorrects
    BY <1>28 DEF LcCorrects, LcGoto, Launch, Alive
  <1>29. CASE LcReleases
    BY <1>29 DEF LcReleases, LcGoto, Release
  <1>30. CASE LcRelaunches
    BY <1>30 DEF LcRelaunches, LcGoto, Launch, Alive
  <1>31. ASSUME NEW t \in Gbas, GbaOptimised(t) PROVE ResetInv'
    BY <1>31 DEF GbaOptimised
  <1>32. ASSUME NEW t \in Gbas, GbaChecks(t) PROVE ResetInv'
    BY <1>32, <1>0, GbaChecksLemma DEF Shape
  <1>33. ASSUME NEW t \in Gbas, GbaSeesStop(t) PROVE ResetInv'
    BY <1>33 DEF GbaSeesStop
  <1>34. ASSUME NEW t \in Gbas, GbaUpdated(t) PROVE ResetInv'
    BY <1>34 DEF GbaUpdated, Release
  <1>35. CASE UNCHANGED vars
    BY <1>35 DEF vars
  <1> QED BY <1>1, <1>2, <1>3, <1>4, <1>5, <1>6, <1>7, <1>8, <1>9, <1>10, <1>11,
             <1>12, <1>13, <1>14, <1>15, <1>16, <1>17, <1>18, <1>19, <1>20, <1>21,
             <1>22, <1>23, <1>24, <1>25, <1>26, <1>27, <1>28, <1>29, <1>30, <1>31,
             <1>32, <1>33, <1>34, <1>35
          DEF Next, TrackStep, LmStep, LcStep, GbaStep

-----------------------------------------------------------------------------
(* Why Alright may be assumed of a step.                                   *)

LEMMA AlrightStep == [Next]_vars => Alright \/ UNCHANGED vars
  BY DEF Next

LEMMA ThreadStart == Init => ThreadInv
  <1> SUFFICES ASSUME Init PROVE ThreadInv
    OBVIOUS
  <1>1. TypeOK /\ RoomInv
    BY ThreadsAssumption DEF ThreadsAssumption, Init, TypeOK, RoomInv, Taken, LcPcs, NoGba
  <1>2. StopInv /\ HandleInv /\ ResetInv /\ QueueInv /\ ExclusiveInv
    BY DEF Init, StopInv, HandleInv, ResetInv, QueueInv, SharesQueue, ExclusiveInv,
           MergeDeletesNoKeyFrame, AbortsOnlyInCorrectLoop
  <1>3. GbaInv
    BY DEF Init, GbaInv, NoGba, Wanted, Alive
  <1> QED BY <1>1, <1>2, <1>3 DEF ThreadInv

(* The inductive invariant: who may touch the queue, the maps and          *)
(* mpThreadGBA, and when.                                                  *)
THEOREM ThreadInvariant == Spec => []ThreadInv
  <1>1. ThreadInv /\ [Next]_vars => ThreadInv'
    <2> SUFFICES ASSUME ThreadInv, [Next]_vars PROVE ThreadInv'
      OBVIOUS
    <2>1. TypeOK' /\ RoomInv'
      BY TypeStep DEF ThreadInv
    <2>2. StopInv' /\ GbaInv' /\ HandleInv' /\ ResetInv'
      BY StopStep, GbaStepLemma, HandleStep, ResetStep DEF ThreadInv
    <2>3. ExclusiveInv' /\ QueueInv'
      <3>1. CASE Alright
        BY <3>1, ExclusiveStep, QueueStep DEF ThreadInv
      <3>2. CASE UNCHANGED vars
        BY <3>2 DEF ThreadInv, vars, ExclusiveInv, MergeDeletesNoKeyFrame, QueueInv,
                    SharesQueue, AbortsOnlyInCorrectLoop
      <3> QED BY <3>1, <3>2, AlrightStep
    <2> QED BY <2>1, <2>2, <2>3 DEF ThreadInv
  <1> QED BY ThreadStart, <1>1, PTL DEF Spec

(* Type correctness of the SLAM threads and their queues.                  *)
THEOREM ThreadsTypeCorrect == Spec => []TypeOK
  BY ThreadInvariant, PTL DEF ThreadInv

(* While a loop is corrected or maps are merged, local mapping is stopped. *)
THEOREM CorrectionsAreExclusive == Spec => []CorrectionIsExclusive
  <1>1. ThreadInv => CorrectionIsExclusive
    BY DEF ThreadInv, ExclusiveInv, CorrectionIsExclusive
  <1> QED BY ThreadInvariant, <1>1, PTL

(* The release in a merge deletes no keyframe that tracking made.          *)
THEOREM MergesKeepKeyFrames == Spec => []MergeDeletesNoKeyFrame
  <1>1. ThreadInv => MergeDeletesNoKeyFrame
    BY DEF ThreadInv, ExclusiveInv, MergeDeletesNoKeyFrame
  <1> QED BY ThreadInvariant, <1>1, PTL

(* Only CorrectLoop takes the front of a queue that another may have emptied. *)
THEOREM AbortsConfined == Spec => []AbortsOnlyInCorrectLoop
  <1>1. ThreadInv => AbortsOnlyInCorrectLoop
    BY DEF ThreadInv, QueueInv
  <1> QED BY ThreadInvariant, <1>1, PTL

(* When the active map is cleared no keyframe of it is under way.          *)
THEOREM ResetsLeaveNothing == Spec => []ResetLeavesNoKeyFrame
  <1>1. ThreadInv => ResetLeavesNoKeyFrame
    BY DEF ThreadInv, ResetInv, ResetLeavesNoKeyFrame
  <1> QED BY ThreadInvariant, <1>1, PTL

(* A GBA thread that was detached and deleted is not detached again.       *)
THEOREM ThreadsDetachedOnce == Spec => []NoThreadDetachedTwice
  <1>1. ThreadInv => NoThreadDetachedTwice
    BY DEF ThreadInv, TypeOK, HandleInv, GbaQuiet, NoThreadDetachedTwice
  <1> QED BY ThreadInvariant, <1>1, PTL
==============================================================================
