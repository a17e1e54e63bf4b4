------------------------------ MODULE SlamNode -------------------------------
(***************************************************************************)
(* The ROS node around ORB-SLAM3 once it is initialised: the tracking that *)
(* runs in its image callback, the loop-closing thread that merges maps    *)
(* beside it, the pose it publishes and the timer that announces changes   *)
(* of the maps.  The node has one executor thread: a callback runs to its  *)
(* end before the next.  Images come at any time (FrameStream says how).   *)
(***************************************************************************)
EXTENDS Atlas

CONSTANTS LostKFs,      \* a lost map of no more keyframes is reset (10 in the code)
          MergeKFs,     \* places are recognised in maps of this many (12)
          NoFrame

ASSUME NodeAssumption ==
  /\ LostKFs \in Nat /\ MergeKFs \in Nat \ {0}
  /\ NoFrame \notin Frames

VARIABLES
    node,       \* executor: pc, frame of the pose TrackMonocular returned and
                \*   (ghost) whether a merge came since
    timeStep,   \* MonocularMode::timeStep, not initialised by the constructor
    trk,        \* Tracking: mState, mbReadyToInitializate, mLastFrame's time, frame
    trackMap,   \* pCurrentMap of the Track in progress, 0 outside
    resetMap,   \* System::mbResetActiveMap
    atlas,      \* mpAtlas
    lc,         \* LoopClosing::MergeLocal: pc, the two maps, their frames
    known,      \* prevMapIds_ of the csv timer
    overtaken   \* ghost: maps that a merge made current without taking along a
                \*   tracker elsewhere, or one that went on in the frame given up

slamVars == <<trk, trackMap, resetMap, atlas, lc, overtaken>>
vars == <<node, timeStep, slamVars, known>>

\* Times as far as Track compares them: a garbage one may be later than all real
\* ones, which come in order.
Times == {"real", "garbage"}
States == {"NO_IMAGES_YET", "NOT_INITIALIZED", "OK", "RECENTLY_LOST", "LOST"}

NoMerge == [pc |-> "idle", cur |-> 0, match |-> 0, from |-> NoFrame, to |-> NoFrame]
\* The tracker of a map without keyframes; Frame() has time 0.
NoImages == [state |-> "NO_IMAGES_YET", ready |-> FALSE, last |-> "real", frame |-> NoFrame]

Init ==
    /\ node = [pc |-> "idle", pose |-> NoFrame, merged |-> FALSE]
    /\ timeStep \in Times
    /\ trk = NoImages
    /\ trackMap = 0 /\ resetMap = FALSE
    /\ atlas = FirstAtlas /\ lc = NoMerge
    /\ known = {} /\ overtaken = {}

-----------------------------------------------------------------------------
(* The node's callbacks.                                                   *)

Goto(pc) == node' = [node EXCEPT !.pc = pc]

TimestepCallback ==
    /\ node.pc = "idle"
    /\ timeStep' = "real"
    /\ UNCHANGED <<node, slamVars, known>>

OlderThanLast ==
    trk.state # "NO_IMAGES_YET" /\ trk.last = "garbage" /\ timeStep = "real"

\* Img_callback, up to TrackMonocular's check of the reset request.  Bound: no
\* image comes that needs a map beyond MaxMaps.
ImgCallback ==
    /\ node.pc = "idle" /\ (OlderThanLast => MapsLeft(atlas))
    /\ Goto(IF resetMap THEN "reset" ELSE "enter")
    /\ UNCHANGED <<timeStep, slamVars, known>>

\* Mutant: only the number of maps is compared.
LiveCsvTimerCounting ==
    /\ node.pc = "idle" /\ Cardinality(known) # Cardinality(LiveIds(atlas))
    /\ known' = LiveIds(atlas)
    /\ UNCHANGED <<node, timeStep, slamVars>>

LiveCsvTimer ==
    /\ node.pc = "idle"
    /\ known' = LiveIds(atlas)
    /\ UNCHANGED <<node, timeStep, slamVars>>

-----------------------------------------------------------------------------
(* Tracking, in the image callback.                                        *)

\* ResetActiveMap, answered by a loop-closing thread that is not merging; the map
\* cleared is the one that is current by then.
ResetActiveMap ==
    /\ node.pc = "reset" /\ lc.pc = "idle"
    /\ atlas' = ClearMap(atlas) /\ resetMap' = FALSE
    /\ trk' = NoImages
    /\ overtaken' = overtaken \ {atlas.cur}
    /\ Goto("enter")
    /\ UNCHANGED <<timeStep, trackMap, lc, known>>

\* Mutant: tracking starts again in the map it was lost in.
CreateNoMapInAtlas ==
    /\ trk' = NoImages
    /\ Goto("idle") /\ trackMap' = 0
    /\ UNCHANGED <<timeStep, resetMap, atlas, lc, known, overtaken>>

CreateMapInAtlas ==
    /\ MapsLeft(atlas)
    /\ atlas' = CreateNewMap(atlas)
    /\ trk' = NoImages
    /\ Goto("idle") /\ trackMap' = 0
    /\ UNCHANGED <<timeStep, resetMap, lc, known, overtaken>>

GiveUpOlderFrame == node.pc = "enter" /\ OlderThanLast /\ CreateMapInAtlas

\* Track reads the current map, and takes that map's lock afterwards.
EnterTrack ==
    /\ node.pc = "enter" /\ ~OlderThanLast
    /\ trackMap' = atlas.cur
    /\ trk' = [trk EXCEPT !.state = IF @ = "NO_IMAGES_YET" THEN "NOT_INITIALIZED" ELSE @]
    /\ Goto("track")
    /\ UNCHANGED <<timeStep, resetMap, atlas, lc, overtaken, known>>

\* The end of a Track that leaves a state other than OK: nothing is published.
Untracked(state, ready, last) ==
    /\ node.pc = "track"
    /\ trk' = [trk EXCEPT !.state = state, !.ready = ready, !.last = last]
    /\ Goto("idle") /\ trackMap' = 0
    /\ UNCHANGED <<timeStep, lc, overtaken, known>>

\* ... and of one that leaves OK, with a pose in frame f.
Tracked(f) ==
    /\ node.pc = "track"
    /\ trk' = [trk EXCEPT !.state = "OK", !.last = timeStep, !.frame = f]
    /\ node' = [node EXCEPT !.pc = "publish", !.pose = f] /\ trackMap' = 0
    /\ UNCHANGED <<timeStep, resetMap, lc, known>>

\* MonocularInitialization without a result: a reference frame is taken, is kept
\* although no two views could be reconstructed, or is given up.
StillNotInitialized ==
    /\ trk.state = "NOT_INITIALIZED"
    /\ \E ready \in BOOLEAN : Untracked("NOT_INITIALIZED", ready, timeStep)
    /\ UNCHANGED <<resetMap, atlas>>

FramesInUse == (UNION {atlas.frames[m] : m \in Maps})
                 \cup {trk.frame, node.pose, lc.from, lc.to}
NewFrame == CHOOSE f \in Frames : f \notin FramesInUse

\* CreateInitialMapMonocular: two keyframes into the map that is current now.
InitialAtlas == AddKeyFrames(atlas, atlas.cur, 2, NewFrame)

CanInitialize == trk.state = "NOT_INITIALIZED" /\ trk.ready /\ Frames \ FramesInUse # {}

CreateInitialMap ==
    /\ CanInitialize
    /\ Tracked(NewFrame)
    /\ atlas' = InitialAtlas /\ UNCHANGED overtaken

WrongInitialization ==
    /\ CanInitialize
    /\ Untracked("NOT_INITIALIZED", TRUE, timeStep)
    /\ atlas' = InitialAtlas /\ resetMap' = TRUE

\* The map has been welded, but tracking goes by a keyframe outside the window.
Behind == lc.pc \in {"moved", "relabelled"} /\ trk.frame = lc.from /\ atlas.cur = lc.match

\* A keyframe made by this Track belongs to the map current now, and is not moved
\* with the rest of the one merged away.
TrackOk ==
    /\ trk.state = "OK"
    /\ Tracked(trk.frame)
    /\ \/ UNCHANGED <<atlas, overtaken>>
       \/ /\ atlas' = AddKeyFrames(atlas, atlas.cur, 1, trk.frame)
          /\ overtaken' = overtaken \cup {m \in {atlas.cur} : Behind}

TrackWeakens ==
    /\ trk.state = "OK"
    /\ Untracked("RECENTLY_LOST", trk.ready, timeStep)
    /\ UNCHANGED <<resetMap, atlas>>

Relocalize ==
    /\ trk.state = "RECENTLY_LOST"
    /\ \E f \in atlas.frames[atlas.cur] : Tracked(f)
    /\ UNCHANGED <<atlas, overtaken>>

StillLost ==
    /\ trk.state = "RECENTLY_LOST"
    /\ Untracked("RECENTLY_LOST", trk.ready, timeStep)
    /\ UNCHANGED <<resetMap, atlas>>

\* Nothing lasts while every frame has the same garbage time.
TimeRecentlyLostIsOver == trk.state = "RECENTLY_LOST" /\ timeStep = "real"

\* Track counts the keyframes twice, and misses one that local mapping has yet to
\* add.  The first count makes a tracker LOST at once, in a map of few.
FewKeyFrames == atlas.kfs[trackMap] <= LostKFs + 1

\* LOST with few at the second count: the map is to be reset.
LoseSmallMap ==
    /\ trk.state = "OK" \/ TimeRecentlyLostIsOver
    /\ FewKeyFrames
    /\ Untracked("LOST", trk.ready, trk.last)
    /\ resetMap' = TRUE
    /\ UNCHANGED atlas

\* LOST with a map worth keeping: the loss lasted, or the last keyframe was added
\* between the counts.
LoseGrownMap ==
    /\ node.pc = "track"
    /\ TimeRecentlyLostIsOver \/ (trk.state = "OK" /\ FewKeyFrames)
    /\ atlas.kfs[trackMap] > LostKFs
    /\ CreateMapInAtlas

TrackStep ==
    \/ StillNotInitialized \/ CreateInitialMap \/ WrongInitialization
    \/ TrackOk \/ TrackWeakens \/ Relocalize \/ StillLost \/ LoseSmallMap \/ LoseGrownMap

\* PublishCurrentPoseAndPoints: the id is that of the map current now.
PublishPose ==
    /\ node.pc = "publish"
    /\ node' = [node EXCEPT !.pc = "idle", !.pose = NoFrame, !.merged = FALSE]
    /\ UNCHANGED <<timeStep, trk, trackMap, resetMap, atlas, lc, overtaken, known>>

-----------------------------------------------------------------------------
(* Local mapping and loop closing, in threads of their own.                *)

lcRest == <<timeStep, trackMap, resetMap, known>>

CullKeyFrame ==
    /\ lc.pc \in {"idle", "relabelled"}
    /\ \E m \in atlas.maps : atlas.kfs[m] > 1 /\ atlas' = EraseKeyFrame(atlas, m)
    /\ UNCHANGED <<lcRest, node, trk, lc, overtaken>>

\* A place of map m is recognised in a keyframe of map c, which may have been
\* queued while c was current.
MergeDetected ==
    /\ lc.pc = "idle"
    /\ \E c, m \in atlas.maps : \E f \in atlas.frames[c], g \in atlas.frames[m] :
         /\ c # m /\ atlas.kfs[c] >= MergeKFs /\ atlas.kfs[m] > 0
         /\ lc' = [pc |-> "detected", cur |-> c, match |-> m, from |-> f, to |-> g]
    /\ UNCHANGED <<lcRest, node, trk, atlas, overtaken>>

\* Mutant: tracking stays where it was.
TrackerStays == trk

\* Tracking follows its reference keyframe, which goes from the frame of the merged
\* map to that of the match.
TrackerMoves == [trk EXCEPT !.frame = IF @ = lc.from THEN lc.to ELSE @]

\* The welding window moves, with tracking if its reference keyframe is in the
\* window, and the match's map becomes current.
ApplyMerge ==
    /\ lc.pc = "detected"
    /\ lc' = [lc EXCEPT !.pc = "moved"]
    /\ \E n \in 1 .. atlas.kfs[lc.cur] : atlas' = WeldMaps(atlas, lc.cur, lc.match, n)
    /\ trk' \in {TrackerMoves, trk}
    /\ node' = [node EXCEPT !.merged = (@ \/ node.pc = "publish")]
    /\ overtaken' = overtaken \cup
         (IF atlas.cur # lc.cur \/ trk.state \in {"NO_IMAGES_YET", "NOT_INITIALIZED"}
             \/ lc.cur \in overtaken
          THEN {lc.match} ELSE {})
    /\ UNCHANGED lcRest

ChangeId ==
    /\ lc.pc = "moved"
    /\ lc' = [lc EXCEPT !.pc = "relabelled"]
    /\ atlas' = TakeId(atlas, lc.cur, lc.match)
    /\ UNCHANGED <<lcRest, node, trk, overtaken>>

\* The rest of the merged map moves, with a tracker that was left behind unless its
\* reference keyframe has changed to one that was moved or made since.
FinishMerge ==
    /\ lc.pc = "relabelled"
    /\ lc' = NoMerge
    /\ atlas' = MoveRest(atlas, lc.cur, lc.match, lc.from)
    /\ node' = [node EXCEPT !.merged = (@ \/ (node.pc = "publish" /\ node.pose = lc.from))]
    /\ IF Behind THEN \/ trk' = TrackerMoves /\ UNCHANGED overtaken
                      \/ trk' = trk /\ overtaken' = overtaken \cup {lc.match}
       ELSE UNCHANGED <<trk, overtaken>>
    /\ UNCHANGED lcRest

-----------------------------------------------------------------------------
CallbackStep ==
    \/ ResetActiveMap \/ GiveUpOlderFrame \/ EnterTrack
    \/ TrackStep \/ PublishPose

MergeStep == ApplyMerge \/ ChangeId \/ FinishMerge

Next ==
    \/ TimestepCallback \/ ImgCallback \/ LiveCsvTimer
    \/ CallbackStep
    \/ CullKeyFrame \/ MergeDetected \/ MergeStep

Spec == Init /\ [][Next]_vars

(* Callbacks and a merge come to their end, and the executor, which serves *)
(* timers before subscriptions, always comes back to the csv timer.        *)
Fairness == WF_vars(CallbackStep) /\ WF_vars(MergeStep) /\ SF_vars(LiveCsvTimer)

FairSpec == Spec /\ Fairness

-----------------------------------------------------------------------------
(* Every variable has its type.                                            *)
AnyFrame == Frames \cup {NoFrame}

TypeOK ==
    /\ node \in [pc : {"idle", "reset", "enter", "track", "publish"},
                 pose : AnyFrame, merged : BOOLEAN]
    /\ timeStep \in Times
    /\ trk \in [state : States, ready : BOOLEAN, last : Times, frame : AnyFrame]
    /\ trackMap \in Maps /\ resetMap \in BOOLEAN /\ atlas \in Atlases
    /\ lc \in [pc : {"idle", "detected", "moved", "relabelled"}, cur : Maps, match : Maps,
               from : AnyFrame, to : AnyFrame]
    /\ known \subseteq Maps /\ overtaken \subseteq Maps

(* The current map is never a bad one, whatever a merge, a reset and a new *)
(* map do to each other: GetCurrentMap would wait for it for ever with the *)
(* atlas's mutex held.                                                     *)
CurrentMapIsGood == atlas.cur \in atlas.maps

(* No two maps show the same id, although merges hand ids on and bad maps  *)
(* keep theirs.                                                            *)
IdsUnique == \A m, k \in atlas.maps : atlas.id[m] = atlas.id[k] => m = k

(* Two initialisations end up in one map only if a merge overtook the      *)
(* tracker: it made a map current while tracking was somewhere else, or    *)
(* while it made a keyframe in the frame the merge gives up.               *)
FramesMixOnlyWhenOvertaken ==
    \A m \in atlas.maps : Cardinality(atlas.frames[m]) > 1 => m \in overtaken

(* A pose is published under the id of a map that holds its frame, unless  *)
(* a merge came between tracking and publication or has overtaken the      *)
(* tracker.  The one exception that passes by itself: a tracker whose      *)
(* reference keyframe is outside the welding window publishes poses in the *)
(* old frame, under the id of the match, until the rest is moved.          *)
PoseInItsMap ==
    node.pc = "publish" /\ ~node.merged /\ overtaken = {} =>
        \/ node.pose \in atlas.frames[atlas.cur]
        \/ Behind /\ node.pose = lc.from

(* What makes the properties above inductive.  A map that is being merged  *)
(* away is out of the set and has an id no other map shows; maps still to  *)
(* be created have their own ids and no frames.                            *)
IdInv ==
    /\ CurrentMapIsGood /\ IdsUnique
    /\ \A m \in Maps :
         IF m < atlas.next THEN atlas.id[m] < atlas.next
         ELSE m \notin atlas.maps /\ atlas.id[m] = m /\ atlas.frames[m] = {}
    /\ lc.pc # "idle" => lc.match \in atlas.maps /\ lc.match # lc.cur
    /\ lc.pc = "detected" => lc.cur \in atlas.maps
    /\ lc.pc \in {"moved", "relabelled"} =>
         lc.cur \notin atlas.maps /\ lc.cur < atlas.next
    /\ lc.pc = "moved" => \A k \in atlas.maps : atlas.id[k] # atlas.id[lc.cur]

(* A tracker that no merge has overtaken is in the one frame of the        *)
(* current map, or is about to give that map its first.                    *)
Starting == trk.state \in {"NO_IMAGES_YET", "NOT_INITIALIZED"}

FrameInv ==
    /\ ~Starting => trk.frame \in Frames
    /\ node.pc \in {"enter", "track", "publish"} => ~resetMap
    /\ \A m \in atlas.maps \ overtaken : \A f, g \in atlas.frames[m] : f = g
    /\ atlas.cur \notin overtaken =>
         /\ Starting /\ ~resetMap => atlas.frames[atlas.cur] = {}
         /\ ~Starting => atlas.frames[atlas.cur] = {IF Behind THEN lc.to ELSE trk.frame}
    /\ lc.pc = "detected" => /\ lc.from \in atlas.frames[lc.cur]
                            /\ lc.to \in atlas.frames[lc.match]
    /\ lc.pc # "idle" => lc.to \in Frames
    /\ lc.pc \in {"moved", "relabelled"} /\ lc.match \notin overtaken =>
         atlas.frames[lc.cur] \subseteq {lc.from}
    /\ PoseInItsMap

MapInv == TypeOK /\ IdInv /\ FrameInv

(* Every change of the maps that hold keyframes is announced in the end.   *)
TopologyAnnounced == []<>(known = LiveIds(atlas))

==============================================================================
