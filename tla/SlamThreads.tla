----------------------------- MODULE SlamThreads -----------------------------
(***************************************************************************)
(* The threads of ORB-SLAM3 and how they stop each other: tracking (in the *)
(* node's executor) makes keyframes and resets the map; local mapping      *)
(* takes them from a queue; loop closing corrects loops and merges maps    *)
(* while local mapping is stopped; each correction leaves a global bundle  *)
(* adjustment (GBA) behind, which stops local mapping too when it is done. *)
(* Of a keyframe the model knows whether its map is the current one and    *)
(* whether it comes from an initialisation. Viewer and shutdown are left   *)
(* out.                                                                    *)
(***************************************************************************)
EXTENDS Naturals, Sequences, FiniteSets

CONSTANTS MaxTaken,     \* bound: keyframes on their way through both queues
          Gbas,         \* bound: GBA threads alive at a time
          Nobody

ASSUME ThreadsAssumption == MaxTaken \in Nat \ {0, 1} /\ Nobody \notin Gbas

VARIABLES
    trk,        \* tracking: pc, map initialised; (ghost) a merge came during the reset
    lm,         \* LocalMapping: pc, mlNewKeyFrames, keyframe at work is of the current
                \*   map, the stop flags, reset requested
    lc,         \* LoopClosing: pc, its queue (is the keyframe of the current map?),
                \*   reset requested, bRelaunchBA
    gba,        \* GBA threads: pc, mnFullBAIdx changed since it was read, aborted
    flags,      \* mbRunningGBA, mbStopGBA, mpThreadGBA
    owner,      \* GBA thread that holds mMutexGBA, if any
    loose       \* ghost: what went wrong with the protocol so far, see Revived, Released

vars == <<trk, lm, lc, gba, flags, owner, loose>>

Revived == "revived"     \* mbStopGBA was cleared before an aborted GBA had seen it
Released == "released"   \* a release took local mapping from a thread that wanted it
                         \*   stopped, or it was not stopped at all

NoGba == [pc |-> "none", moved |-> FALSE, aborted |-> FALSE]

Init ==
    /\ trk = [pc |-> "idle", map |-> FALSE, merged |-> FALSE]
    /\ lm = [pc |-> "top", queue |-> << >>, work |-> FALSE, stopReq |-> FALSE,
             stopped |-> FALSE, notStop |-> FALSE, reset |-> FALSE]
    /\ lc = [pc |-> "check", queue |-> << >>, reset |-> FALSE, relaunch |-> FALSE]
    /\ gba = [t \in Gbas |-> NoGba]
    /\ flags = [running |-> FALSE, stop |-> FALSE, handle |-> "null"]
    /\ owner = Nobody /\ loose = {}

-----------------------------------------------------------------------------
(* LocalMapping's interface, as operators on lm.                           *)

RequestStop(l) == [l EXCEPT !.stopReq = TRUE]

\* Release deletes the keyframes that are queued.
Release(wanted) ==
    /\ lm' = [lm EXCEPT !.stopped = FALSE, !.stopReq = FALSE, !.queue = << >>]
    /\ loose' = loose \cup {x \in {Released} : wanted \/ ~lm.stopped}

Insert(l, kfs) == [l EXCEPT !.queue = @ \o kfs]

\* SetAcceptKeyFrames(true) is called at the end of the loop, (false) at its start.
AcceptKeyFrames == lm.pc = "top"

\* Keyframes that tracking made and loop closing has not taken yet.
Taken == Len(lm.queue) + Len(lc.queue) + (IF lm.pc = "work" THEN 1 ELSE 0)

Kf(init) == [cur |-> TRUE, init |-> init]

-----------------------------------------------------------------------------
(* Tracking.                                                               *)

trkRest == <<lc, gba, flags, owner, loose>>

\* Two keyframes of a new map, inserted whatever local mapping is doing.
CreateInitialMap ==
    /\ trk.pc = "idle" /\ ~trk.map /\ Taken + 2 <= MaxTaken
    /\ trk' = [trk EXCEPT !.map = TRUE]
    /\ lm' = Insert(lm, <<Kf(TRUE), Kf(TRUE)>>)
    /\ UNCHANGED trkRest

\* Three looks at local mapping, each under a mutex of its own: is it stopped, is it
\* asked to stop, does it accept keyframes?
NeedNewKeyFrame ==
    /\ trk.pc = "idle" /\ trk.map /\ Taken < MaxTaken /\ ~lm.stopped
    /\ trk' = [trk EXCEPT !.pc = "running"]
    /\ UNCHANGED <<trkRest, lm>>

LooksAgain ==
    /\ \/ trk.pc = "running" /\ trk' = [trk EXCEPT !.pc = IF lm.stopReq THEN "idle" ELSE "free"]
       \/ trk.pc = "free" /\ trk' = [trk EXCEPT !.pc = IF AcceptKeyFrames THEN "need" ELSE "idle"]
    /\ UNCHANGED <<trkRest, lm>>

SetNotStop ==
    /\ trk.pc = "need"
    /\ trk' = [trk EXCEPT !.pc = IF lm.stopped THEN "idle" ELSE "make"]
    /\ lm' = [lm EXCEPT !.notStop = @ \/ ~lm.stopped]
    /\ UNCHANGED trkRest

InsertKeyFrame ==
    /\ trk.pc = "make"
    /\ trk' = [trk EXCEPT !.pc = "made"]
    /\ lm' = Insert(lm, <<Kf(FALSE)>>)
    /\ UNCHANGED trkRest

\* Mutant: local mapping may not stop until the next keyframe.
KeyFrameMadeKeepingNotStop ==
    /\ trk.pc = "made"
    /\ trk' = [trk EXCEPT !.pc = "idle"]
    /\ UNCHANGED <<trkRest, lm>>

KeyFrameMade ==
    /\ trk.pc = "made"
    /\ trk' = [trk EXCEPT !.pc = "idle"]
    /\ lm' = [lm EXCEPT !.notStop = FALSE]
    /\ UNCHANGED trkRest

\* CreateMapInAtlas: the keyframes on their way are of another map from now on.
CreateMapInAtlas ==
    /\ trk.pc = "idle" /\ trk.map
    /\ trk' = [trk EXCEPT !.map = FALSE]
    /\ lm' = [lm EXCEPT !.work = FALSE,
                        !.queue = [i \in DOMAIN @ |-> [@[i] EXCEPT !.cur = FALSE]]]
    /\ lc' = [lc EXCEPT !.queue = [i \in DOMAIN @ |-> FALSE]]
    /\ UNCHANGED <<gba, flags, owner, loose>>

\* Mutant: loop closing is reset before local mapping.
RequestLcResetFirst ==
    /\ trk.pc = "idle"
    /\ trk' = [trk EXCEPT !.pc = "lcReset", !.merged = FALSE]
    /\ lc' = [lc EXCEPT !.reset = TRUE] /\ lm' = [lm EXCEPT !.reset = TRUE]
    /\ UNCHANGED <<gba, flags, owner, loose>>

\* ResetActiveMap waits for local mapping, then for loop closing.
RequestReset ==
    /\ trk.pc = "idle"
    /\ trk' = [trk EXCEPT !.pc = "lmReset", !.merged = FALSE]
    /\ lm' = [lm EXCEPT !.reset = TRUE]
    /\ UNCHANGED trkRest

LmWasReset ==
    /\ trk.pc = "lmReset" /\ ~lm.reset
    /\ trk' = [trk EXCEPT !.pc = "lcReset"]
    /\ lc' = [lc EXCEPT !.reset = TRUE]
    /\ UNCHANGED <<lm, gba, flags, owner, loose>>

LcWasReset ==
    /\ trk.pc = "lcReset" /\ ~lc.reset
    /\ trk' = [trk EXCEPT !.pc = "clear"]
    /\ UNCHANGED <<trkRest, lm>>

ClearMap ==
    /\ trk.pc = "clear"
    /\ trk' = [trk EXCEPT !.pc = "idle", !.map = FALSE]
    /\ UNCHANGED <<trkRest, lm>>

TrackStep ==
    \/ LooksAgain \/ SetNotStop \/ InsertKeyFrame \/ KeyFrameMade
    \/ LmWasReset \/ LcWasReset \/ ClearMap

-----------------------------------------------------------------------------
(* Local mapping: one turn of Run.                                         *)

lmRest == <<trk, gba, flags, owner, loose>>

LmTurns ==
    /\ lm.pc = "top"
    /\ lm' = [lm EXCEPT !.pc = IF lm.queue # << >> THEN "pop" ELSE "stop"]
    /\ UNCHANGED <<lmRest, lc>>

\* ProcessNewKeyFrame. If the queue was emptied since it was looked at, the program
\* takes the front of an empty list: with the library's list, it aborts.
LmTakes ==
    /\ lm.pc = "pop"
    /\ lm' = IF lm.queue = << >> THEN [lm EXCEPT !.pc = "aborted"]
             ELSE [lm EXCEPT !.pc = "work", !.queue = Tail(@), !.work = Head(lm.queue).cur]
    /\ UNCHANGED <<lmRest, lc>>

LmDone ==
    /\ lm.pc = "work"
    /\ lm' = [lm EXCEPT !.pc = "tail", !.work = FALSE]
    /\ lc' = [lc EXCEPT !.queue = Append(@, lm.work)]
    /\ UNCHANGED lmRest

\* Mutant: stops although tracking makes a keyframe.
LmStopsAnyway ==
    /\ lm.pc = "stop"
    /\ IF lm.stopReq THEN lm' = [lm EXCEPT !.pc = "stopped", !.stopped = TRUE]
                     ELSE lm' = [lm EXCEPT !.pc = "tail"]
    /\ UNCHANGED <<lmRest, lc>>

LmStops ==
    /\ lm.pc = "stop"
    /\ IF lm.stopReq /\ ~lm.notStop
       THEN lm' = [lm EXCEPT !.pc = "stopped", !.stopped = TRUE]
       ELSE lm' = [lm EXCEPT !.pc = "tail"]
    /\ UNCHANGED <<lmRest, lc>>

LmReleased ==
    /\ lm.pc = "stopped" /\ ~lm.stopped
    /\ lm' = [lm EXCEPT !.pc = "tail"]
    /\ UNCHANGED <<lmRest, lc>>

\* Mutant: the request is not taken back.
LmTailKeepingRequest ==
    /\ lm.pc = "tail"
    /\ lm' = [lm EXCEPT !.pc = "top", !.queue = IF lm.reset THEN << >> ELSE @]
    /\ UNCHANGED <<lmRest, lc>>

\* ResetIfRequested, and keyframes are accepted again.
LmTail ==
    /\ lm.pc = "tail"
    /\ lm' = [lm EXCEPT !.pc = "top", !.reset = FALSE,
                        !.queue = IF lm.reset THEN << >> ELSE @]
    /\ UNCHANGED <<lmRest, lc>>

LmStep == LmTurns \/ LmTakes \/ LmDone \/ LmStops \/ LmReleased \/ LmTail

-----------------------------------------------------------------------------
(* Loop closing.                                                           *)

LcGoto(pc) == lc' = [lc EXCEPT !.pc = pc]

Alive(t) == gba[t].pc # "none"
CanLaunch == \E t \in Gbas : ~Alive(t)

LcTakes ==
    /\ lc.pc = "check" /\ lc.queue # << >>
    /\ lc' = [lc EXCEPT !.pc = "detect", !.queue = Tail(@)]
    /\ UNCHANGED <<trk, lm, gba, flags, owner, loose>>

\* NewDetectCommonRegions finds nothing, a loop or a merge.
LcDetects ==
    /\ lc.pc = "detect"
    /\ \/ LcGoto("tail")
       \/ CanLaunch /\ LcGoto("loopStop")
       \/ CanLaunch /\ LcGoto("mergeGba")
    /\ UNCHANGED <<trk, lm, gba, flags, owner, loose>>

\* The keyframes of other maps.
OthersOf(q) == [i \in 1 .. Cardinality({j \in DOMAIN q : ~q[j]}) |-> FALSE]

\* ResetIfRequested: keyframes of the map to reset go, unless a merge has moved
\* them into another map since.
LcTail ==
    /\ lc.pc = "tail" \/ (lc.pc = "check" /\ lc.queue = << >>)
    /\ \E kept \in (IF lc.reset THEN {OthersOf(lc.queue)} ELSE {lc.queue})
                      \cup (IF trk.merged THEN {lc.queue} ELSE {}) :
         lc' = [lc EXCEPT !.pc = "check", !.reset = FALSE, !.relaunch = FALSE, !.queue = kept]
    /\ UNCHANGED <<trk, lm, gba, flags, owner, loose>>

LcRequestsStop ==
    /\ \/ lc.pc = "loopStop" /\ LcGoto("loopEmpty")
       \/ lc.pc = "mergeStop" /\ LcGoto("mergeWait")
       \/ lc.pc = "mergeRest" /\ LcGoto("restWait")
    /\ lm' = RequestStop(lm)
    /\ UNCHANGED <<trk, gba, flags, owner, loose>>

\* EmptyQueue: loop closing looks at the queue and takes its front, as local mapping may
\* be doing too. It makes it local mapping's current keyframe: one that is at work goes on
\* with it.
LcEmptiesQueue ==
    /\ \/ lc.pc = "loopEmpty" /\ LcGoto(IF lm.queue # << >> THEN "loopPop" ELSE "loopGba")
       \/ lc.pc = "mergeEmpty" /\ LcGoto(IF lm.queue # << >> THEN "mergePop" ELSE "weld")
    /\ UNCHANGED <<trk, lm, gba, flags, owner, loose>>

LcTakesFront ==
    /\ \/ lc.pc = "loopPop" /\ LcGoto("loopEmpty")
       \/ lc.pc = "mergePop" /\ LcGoto("mergeEmpty")
    /\ lm' = IF lm.queue = << >> THEN [lm EXCEPT !.pc = "aborted"]
             ELSE [lm EXCEPT !.queue = Tail(@),
                             !.work = IF lm.pc = "work" THEN Head(lm.queue).cur ELSE @]
    /\ UNCHANGED <<trk, gba, flags, owner, loose>>

\* isRunningGBA waits for the mutex of a GBA that updates the map.
LcAsksForGba ==
    /\ owner = Nobody
    /\ \/ lc.pc = "loopGba" /\ LcGoto(IF flags.running THEN "loopAbort" ELSE "loopWait")
       \/ lc.pc = "mergeGba" /\ LcGoto(IF flags.running THEN "mergeAbort" ELSE "mergeStop")
    /\ UNCHANGED <<trk, lm, gba, flags, owner, loose>>

\* Mutant: the merge forgets that it stopped a GBA.
LcAbortsGbaForgetting ==
    /\ owner = Nobody
    /\ \/ lc.pc = "loopAbort" /\ LcGoto("loopWait")
       \/ lc.pc = "mergeAbort" /\ LcGoto("mergeStop")
    /\ flags' = [flags EXCEPT !.stop = TRUE, !.handle = "deleted"]
    /\ gba' = [t \in Gbas |-> [gba[t] EXCEPT !.moved = (gba[t].pc = "check"),
                                             !.aborted = Alive(t)]]
    /\ UNCHANGED <<trk, lm, owner, loose>>

LcAbortsGba ==
    /\ owner = Nobody
    /\ \/ lc.pc = "loopAbort" /\ LcGoto("loopWait")
       \/ lc.pc = "mergeAbort" /\ lc' = [lc EXCEPT !.pc = "mergeStop", !.relaunch = TRUE]
    /\ flags' = [flags EXCEPT !.stop = TRUE, !.handle = "deleted"]
    /\ gba' = [t \in Gbas |-> [gba[t] EXCEPT !.moved = (gba[t].pc = "check"),
                                             !.aborted = Alive(t)]]
    /\ UNCHANGED <<trk, lm, owner, loose>>

\* Mutant: the request is taken for the stop.
LcSeesRequest ==
    /\ lm.stopReq
    /\ \/ lc.pc = "loopWait" /\ LcGoto("correct")
       \/ lc.pc = "mergeWait" /\ LcGoto("mergeEmpty")
       \/ lc.pc = "restWait" /\ LcGoto("move")
    /\ UNCHANGED <<trk, lm, gba, flags, owner, loose>>

LcSeesStop ==
    /\ lm.stopped
    /\ \/ lc.pc = "loopWait" /\ LcGoto("correct")
       \/ lc.pc = "mergeWait" /\ LcGoto("mergeEmpty")
       \/ lc.pc = "restWait" /\ LcGoto("move")
    /\ UNCHANGED <<trk, lm, gba, flags, owner, loose>>

\* A merge decides anew which map is current: a queued keyframe may come to be of
\* it, or of another.
LcWelds ==
    /\ lc.pc = "weld"
    /\ \E pc \in {"mergeRest", "mergeRelease"}, q \in [DOMAIN lc.queue -> BOOLEAN] :
         lc' = [lc EXCEPT !.pc = pc, !.queue = q]
    /\ Release(owner # Nobody)
    /\ trk' = [trk EXCEPT !.merged = TRUE]
    /\ UNCHANGED <<gba, flags, owner>>

LcMoves ==
    /\ lc.pc = "move" /\ LcGoto("mergeRelease")
    /\ UNCHANGED <<trk, lm, gba, flags, owner, loose>>

\* A new GBA: the flags are written without the mutex.
Launch ==
    /\ \E t \in Gbas : ~Alive(t) /\
         gba' = [gba EXCEPT ![t] = [pc |-> "optimise", moved |-> FALSE, aborted |-> FALSE]]
    /\ flags' = [running |-> TRUE, stop |-> FALSE, handle |-> "live"]
    /\ loose' = loose \cup {x \in {Revived} : \E t \in Gbas :
                           gba[t].aborted /\ ~gba[t].moved}

LcCorrects ==
    /\ lc.pc = "correct"
    /\ Launch /\ LcGoto("loopRelease")
    /\ UNCHANGED <<trk, lm, owner>>

LcReleases ==
    /\ \/ lc.pc = "loopRelease" /\ LcGoto("tail")
       \/ lc.pc = "mergeRelease" /\ LcGoto(IF lc.relaunch THEN "relaunch" ELSE "tail")
    /\ Release(owner # Nobody)
    /\ UNCHANGED <<trk, gba, flags, owner>>

LcRelaunches ==
    /\ lc.pc = "relaunch"
    /\ Launch /\ LcGoto("tail")
    /\ UNCHANGED <<trk, lm, owner>>

LcStep ==
    \/ LcTakes \/ LcDetects \/ LcTail \/ LcRequestsStop \/ LcEmptiesQueue \/ LcTakesFront
    \/ LcAsksForGba \/ LcAbortsGba \/ LcSeesStop \/ LcWelds \/ LcMoves \/ LcCorrects
    \/ LcReleases \/ LcRelaunches

-----------------------------------------------------------------------------
(* Global bundle adjustment.                                               *)

\* Loop closing has asked local mapping to stop and not released it yet.
Stopping == {"loopEmpty", "loopPop", "loopGba", "loopAbort", "loopWait", "correct",
             "loopRelease", "mergeWait", "mergeEmpty", "mergePop", "weld", "restWait",
             "move"}

\* The optimisation ends, by itself or because it was told to; mnFullBAIdx is
\* read only then.
GbaOptimised(t) ==
    /\ gba[t].pc = "optimise"
    /\ gba' = [gba EXCEPT ![t].pc = "check"]
    /\ UNCHANGED <<trk, lm, lc, flags, owner, loose>>

\* With the mutex: nothing if the index has changed; the flag only if stopped;
\* else local mapping is asked to stop, and the mutex kept.
GbaChecks(t) ==
    /\ gba[t].pc = "check" /\ owner = Nobody
    /\ \/ /\ gba[t].moved
          /\ gba' = [gba EXCEPT ![t] = NoGba]
          /\ UNCHANGED <<lm, flags, owner>>
       \/ /\ ~gba[t].moved /\ flags.stop
          /\ gba' = [gba EXCEPT ![t] = NoGba]
          /\ flags' = [flags EXCEPT !.running = FALSE]
          /\ UNCHANGED <<lm, owner>>
       \/ /\ ~gba[t].moved /\ ~flags.stop
          /\ gba' = [gba EXCEPT ![t].pc = "wait"]
          /\ lm' = RequestStop(lm) /\ owner' = t
          /\ UNCHANGED flags
    /\ UNCHANGED <<trk, lc, loose>>

GbaSeesStop(t) ==
    /\ gba[t].pc = "wait" /\ lm.stopped
    /\ gba' = [gba EXCEPT ![t].pc = "update"]
    /\ UNCHANGED <<trk, lm, lc, flags, owner, loose>>

GbaUpdated(t) ==
    /\ gba[t].pc = "update"
    /\ gba' = [gba EXCEPT ![t] = NoGba]
    /\ Release(lc.pc \in Stopping)
    /\ flags' = [flags EXCEPT !.running = FALSE] /\ owner' = Nobody
    /\ UNCHANGED <<trk, lc>>

GbaStep(t) == GbaOptimised(t) \/ GbaChecks(t) \/ GbaSeesStop(t) \/ GbaUpdated(t)

-----------------------------------------------------------------------------
Alright == lm.pc # "aborted"

Next ==
    /\ Alright
    /\ \/ CreateInitialMap \/ NeedNewKeyFrame \/ CreateMapInAtlas \/ RequestReset
       \/ TrackStep \/ LmStep \/ LcStep
       \/ \E t \in Gbas : GbaStep(t)

Spec == Init /\ [][Next]_vars

(* Each thread is scheduled; frames need not come.                         *)
Fairness ==
    /\ WF_vars(Alright /\ TrackStep) /\ WF_vars(Alright /\ LmStep)
    /\ WF_vars(Alright /\ LcStep) /\ \A t \in Gbas : WF_vars(Alright /\ GbaStep(t))

FairSpec == Spec /\ Fairness

-----------------------------------------------------------------------------
LcPcs == {"check", "detect", "tail", "loopStop", "loopEmpty", "loopPop", "loopGba",
          "loopAbort", "loopWait", "correct", "loopRelease", "mergeGba", "mergeAbort",
          "mergeStop", "mergeWait", "mergeEmpty", "mergePop", "weld", "mergeRest",
          "restWait", "move", "mergeRelease", "relaunch"}

(* Shape of the state; the queues stay within what tracking may have made. *)
TypeOK ==
    /\ trk \in [pc : {"idle", "running", "free", "need", "make", "made",
                      "lmReset", "lcReset", "clear"},
                map : BOOLEAN, merged : BOOLEAN]
    /\ lm \in [pc : {"top", "pop", "work", "stop", "stopped", "tail", "aborted"},
               queue : Seq([cur : BOOLEAN, init : BOOLEAN]), work : BOOLEAN,
               stopReq : BOOLEAN, stopped : BOOLEAN, notStop : BOOLEAN, reset : BOOLEAN]
    /\ lc \in [pc : LcPcs, queue : Seq(BOOLEAN), reset : BOOLEAN, relaunch : BOOLEAN]
    /\ gba \in [Gbas -> [pc : {"none", "optimise", "check", "wait", "update"},
                         moved : BOOLEAN, aborted : BOOLEAN]]
    /\ flags \in [running : BOOLEAN, stop : BOOLEAN, handle : {"null", "live", "deleted"}]
    /\ owner \in Gbas \cup {Nobody} /\ loose \subseteq {Revived, Released}
    /\ Taken <= MaxTaken

(* While a loop is corrected or maps are merged, local mapping is stopped, *)
(* whatever GBAs come to their end meanwhile: unless a GBA that had been   *)
(* aborted got its stop flag back before it looked at it.                  *)
CorrectionIsExclusive ==
    lc.pc \in {"correct", "mergeEmpty", "weld", "move"} /\ Revived \notin loose =>
        lm.pc = "stopped"

(* The merge empties the queue before it works on the maps, and the        *)
(* release after it deletes no keyframe that tracking made: only those of  *)
(* an initialisation come although local mapping is stopped.               *)
MergeDeletesNoKeyFrame ==
    lc.pc = "weld" /\ Revived \notin loose => \A i \in DOMAIN lm.queue : lm.queue[i].init

(* The program takes the front of an empty list only where two threads     *)
(* take from it: CorrectLoop empties the queue without waiting for local   *)
(* mapping to stop. A merge, a reset or a release never leads there.       *)
AbortsOnlyInCorrectLoop ==
    lm.pc = "aborted" =>
        loose # {} \/ lc.pc \in {"loopPop", "loopEmpty", "loopGba", "loopAbort", "loopWait"}

(* When the active map is cleared, no keyframe of it is queued or at work  *)
(* in another thread, unless a merge moved the keyframes meanwhile.        *)
ResetLeavesNoKeyFrame ==
    trk.pc = "clear" /\ ~trk.merged =>
        /\ lm.queue = << >> /\ lm.pc # "work"
        /\ \A i \in DOMAIN lc.queue : ~lc.queue[i]

(* A thread object that was detached and deleted is not detached again,    *)
(* although mpThreadGBA keeps pointing to it.                              *)
NoThreadDetachedTwice == lc.pc \in {"loopAbort", "mergeAbort"} => flags.handle = "live"

-----------------------------------------------------------------------------
(* Why the invariants hold.                                                *)

(* A keyframe that tracking decided to make has its room.                  *)
NeedsRoom == {"running", "free", "need", "make"}
RoomInv == trk.pc \in NeedsRoom => Taken < MaxTaken

(* Local mapping does not stop while tracking makes a keyframe.            *)
StopInv ==
    /\ lm.stopped => lm.pc \in {"stopped", "aborted"}
    /\ lm.notStop => ~lm.stopped
    /\ trk.pc \in {"make", "made"} => lm.notStop

(* Once loop closing has looked at the GBAs, all that are alive have been  *)
(* told to stop, and until the next launch each of them will see it.       *)
GbaQuiet == {"loopWait", "correct", "mergeStop", "mergeWait", "mergeEmpty", "mergePop",
             "weld", "mergeRest", "restWait", "move", "mergeRelease", "relaunch"}
Wanted(t) == Alive(t) /\ ~gba[t].aborted

GbaInv ==
    /\ \A t \in Gbas :
         /\ gba[t].pc \in {"wait", "update"} => owner = t /\ ~gba[t].moved
         /\ ~Alive(t) => gba[t] = NoGba
    /\ Revived \notin loose =>
         /\ \A t \in Gbas : gba[t].aborted =>
               (gba[t].moved \/ flags.stop) /\ gba[t].pc \notin {"wait", "update"}
         /\ \A t \in Gbas : Wanted(t) => flags.running /\ ~flags.stop /\ lc.pc \notin GbaQuiet
         /\ \A t, u \in Gbas : Wanted(t) /\ Wanted(u) => t = u

(* mpThreadGBA dangles only from an abort to the launch that is owed.      *)
HandleInv ==
    /\ flags.running \/ lc.pc \in {"loopAbort", "mergeAbort"} => flags.handle # "null"
    /\ flags.handle = "deleted" =>
         lc.pc \in GbaQuiet /\ (lc.pc \in {"loopWait", "correct"} \/ lc.relaunch)

(* Loop closing keeps local mapping stopped from when it saw it stopped.   *)
ExclusiveInv ==
    Revived \notin loose =>
        /\ lc.pc \in {"correct", "mergeEmpty", "mergePop", "weld", "move"} =>
             lm.stopped /\ lm.pc = "stopped"
        /\ lc.pc = "mergePop" => lm.queue # << >>
        /\ MergeDeletesNoKeyFrame

(* The front that local mapping is about to take is there.                 *)
SharesQueue == lc.pc \in {"loopPop", "loopEmpty", "loopGba", "loopAbort", "loopWait"}
QueueInv ==
    /\ lm.pc = "pop" /\ loose = {} => lm.queue # << >> \/ SharesQueue
    /\ AbortsOnlyInCorrectLoop

(* What a reset has emptied stays empty while tracking waits.              *)
ResetInv ==
    /\ trk.pc \in {"lcReset", "clear"} \/ (trk.pc = "lmReset" /\ ~lm.reset) =>
         lm.queue = << >> /\ lm.pc \notin {"pop", "work"}
    /\ trk.pc = "clear" \/ (trk.pc = "lcReset" /\ ~lc.reset) =>
         trk.merged \/ \A i \in DOMAIN lc.queue : ~lc.queue[i]

ThreadInv ==
    TypeOK /\ RoomInv /\ StopInv /\ GbaInv /\ HandleInv /\ ExclusiveInv /\ QueueInv /\ ResetInv

-----------------------------------------------------------------------------
(* A merge or a loop correction gets local mapping to stop, unless an      *)
(* earlier release took away a request: the one that ends a global bundle  *)
(* adjustment takes back CorrectLoop's own, which then waits for ever.     *)
CorrectionIsHeard ==
    \A pc \in {"loopWait", "mergeWait", "restWait"} :
        (lc.pc = pc) ~> (lc.pc # pc \/ loose # {} \/ ~Alright)

(* A reset, which blocks the executor, comes back, unless releases of local *)
(* mapping have crossed: then a thread may wait for ever, and the reset    *)
(* behind it.                                                              *)
ResetReturns ==
    (trk.pc \in {"lmReset", "lcReset"}) ~> (trk.pc = "idle" \/ loose # {} \/ ~Alright)
==============================================================================
