--------------------------- MODULE PlaceRecognition ---------------------------
(***************************************************************************)
(* Local mapping, which adds keyframes to the spanning tree and culls      *)
(* others, against loop closing, which takes the keyframes one by one,     *)
(* searches earlier ones of the same place, protects those it works with   *)
(* from being erased, and corrects the loop or merges the old map's tree   *)
(* with the new one's. The sensor is monocular. How local mapping is       *)
(* stopped is in SlamThreads; here a correction waits until it is between  *)
(* two keyframes, and keeps it there.                                      *)
(***************************************************************************)
EXTENDS KeyFrameTree, Sequences, FiniteSets

CONSTANTS Searches,     \* {"loop"}, {"merge"} or both
          Enough,       \* coincidences that make a detection: 3 in the code
          SmallMap,     \* keyframes below which nothing is searched: 12 in the code
          mapper, closer

ASSUME RecognitionAssumption ==
    /\ Searches \subseteq {"loop", "merge"} /\ Enough \in Nat \ {0} /\ SmallMap \in Nat \ {0}
    /\ mapper # closer /\ Threads = {mapper, closer}

VARIABLES
    tracking,   \* mnId of the keyframe it makes next, and its map
    mapping,    \* LocalMapping: pc, mpCurrentKeyFrame, keyframes to look at
    closing,    \* LoopClosing: pc, mpCurrentKF, its queue, keyframes to SetErase and
                \*   where it goes on then, searches to go on with or to begin anew,
                \*   candidates, pNewChild and pNewParent of a merge
    search,     \* mp...LastCurrentKF, mp...MatchedKF, mn...NumCoincidences, mn...NumNotFound
    leaked      \* ghost: matches that no search knows any more, still protected

vars == <<treeVars, tracking, mapping, closing, search, leaked>>

NoCandidate == [s \in Searches |-> NULL]

KeyFrame(parent, children, first, map) ==
    [parent |-> parent, children |-> children, first |-> first, bad |-> FALSE,
     notErase |-> FALSE, toBeErased |-> FALSE, loopEdges |-> FALSE, inMap |-> map]

\* An old map, of one keyframe, and a new one, whose keyframes loop closing has yet to
\* take; tracking makes the last.
Init ==
    /\ kf = [k \in KeyFrames |->
              CASE k \in {0, 1, LastId} -> KeyFrame(NULL, ({2} \cap {k + 1}) \ {LastId}, TRUE,
                                                   IF k = 0 THEN "old" ELSE "new")
                [] OTHER -> KeyFrame(k - 1, {k + 1} \ {LastId}, FALSE, "new")]
    /\ lock = [k \in KeyFrames |-> NULL]
    /\ call = [t \in Threads |-> NoCall]
    /\ made = 0 .. LastId - 1 /\ database = {0} /\ astray = {} /\ stolen = {} /\ leaked = {}
    /\ tracking = [id |-> LastId, map |-> "new"]
    /\ mapping = [pc |-> "top", cur |-> NULL, left |-> {}]
    /\ closing = [pc |-> "idle", cur |-> NULL, queue |-> [i \in 1 .. LastId - 1 |-> i],
                  erase |-> << >>, next |-> "idle", todo |-> {}, anew |-> {}, cand |-> NoCandidate,
                  child |-> NULL, parent |-> NULL]
    /\ search = [s \in Searches |-> [last |-> NULL, matched |-> NULL, n |-> 0, miss |-> 0]]

\* Loop closing keeps local mapping stopped.
Stopped == closing.pc = "reverse"

-----------------------------------------------------------------------------
(* Local mapping.                                                          *)

\* UpdateConnections of a keyframe that tracking has made.
ProcessNewKeyFrame ==
    /\ mapping.pc = "top" /\ tracking.id <= LastId /\ ~Stopped
    /\ kf' = [kf EXCEPT ![tracking.id].inMap = tracking.map]
    /\ mapping' = [pc |-> "new", cur |-> tracking.id, left |-> {}]
    /\ tracking' = [tracking EXCEPT !.id = @ + 1]
    /\ Begin(mapper, "count", tracking.id)
    /\ UNCHANGED <<lock, made, database, astray, stolen, closing, search, leaked>>

\* Connected, it is added to the map.
AddKeyFrame ==
    /\ mapping.pc = "new" /\ call[mapper].pc = "none"
    /\ made' = made \cup {mapping.cur}
    /\ mapping' = [mapping EXCEPT !.pc = "fuse"]
    /\ UNCHANGED <<kf, lock, call, database, astray, stolen, tracking, closing, search, leaked>>

\* With points of its neighbours it is connected again, if there is time for it.
SearchInNeighbors ==
    /\ mapping.pc = "fuse"
    /\ mapping' = [mapping EXCEPT !.pc = "sort"]
    /\ Begin(mapper, "count", mapping.cur) \/ UNCHANGED call
    /\ UNCHANGED <<kf, lock, made, database, astray, stolen, tracking, closing, search, leaked>>

\* Any other keyframe may be redundant.
ListsNeighbours ==
    /\ mapping.pc = "sort" /\ call[mapper].pc = "none"
    /\ mapping' = [mapping EXCEPT !.pc = "cull", !.left = made \ {mapping.cur}]
    /\ Begin(mapper, "sort", mapping.cur)
    /\ UNCHANGED <<kf, lock, made, database, astray, stolen, tracking, closing, search, leaked>>

\* Not the first of a map, and not a bad one.
KeyFrameCulling ==
    /\ mapping.pc = "cull" /\ call[mapper].pc = "none"
    /\ \E k \in mapping.left :
         /\ Good(k) /\ ~IsOrigin(k)
         /\ mapping' = [mapping EXCEPT !.left = @ \ {k}]
         /\ Begin(mapper, "ask", k)
    /\ UNCHANGED <<kf, lock, made, database, astray, stolen, tracking, closing, search, leaked>>

InsertKeyFrame ==
    /\ mapping.pc = "cull" /\ call[mapper].pc = "none"
    /\ mapping' = [pc |-> "top", cur |-> NULL, left |-> {}]
    /\ closing' = [closing EXCEPT !.queue = Append(@, mapping.cur)]
    /\ UNCHANGED <<treeVars, tracking, search, leaked>>

Mapping ==
    \/ ProcessNewKeyFrame \/ AddKeyFrame \/ SearchInNeighbors \/ ListsNeighbours
    \/ KeyFrameCulling \/ InsertKeyFrame
    \/ KeyFrameStep(mapper) /\ UNCHANGED <<tracking, mapping, closing, search, leaked>>

-----------------------------------------------------------------------------
(* Loop closing: a keyframe, and what it is compared with.                 *)

rest == <<made, astray, stolen, tracking, mapping, leaked>>

Last(s) == search[s].last
Matched(s) == search[s].matched
Detected == {s \in Searches : search[s].n >= Enough}

\* SetErase for each of the keyframes, then on to pc.
Erase(kfs, pc) == [closing EXCEPT !.pc = "erase", !.erase = kfs, !.next = pc]

MapSize(m) == Cardinality({k \in made : Good(k) /\ kf[k].inMap = m})

\* The keyframe is protected while the queue is locked. A small map is not searched.
TakesKeyFrame ==
    /\ closing.pc = "idle" /\ closing.queue # << >>
    /\ LET k == Head(closing.queue)  small == MapSize(kf[k].inMap) < SmallMap IN
         /\ Free(k)
         /\ kf' = [kf EXCEPT ![k].notErase = TRUE]
         /\ closing' = [closing EXCEPT !.cur = k, !.queue = Tail(@), !.anew = Searches,
                          !.pc = IF small THEN "decide" ELSE "again",
                          !.todo = {s \in Searches : search[s].n > 0}]
    /\ UNCHANGED <<lock, call, database, search, rest>>

\* A search under way looks for its match in this keyframe.
MeetsAgain(s) ==
    /\ search' = [search EXCEPT ![s].last = closing.cur, ![s].n = @ + 1,
                                ![s].miss = IF s = "loop" THEN 0 ELSE @]
    /\ closing' = [Erase(<<Last(s)>>, "again") EXCEPT !.todo = @ \ {s}, !.anew = @ \ {s}]

\* Mutant: the match is not let go.
MissesKeepingMatch(s) ==
    LET given == search[s].miss >= 1
        to == IF given THEN Erase(<<Last(s)>>, "again") ELSE closing
    IN  /\ search' = [search EXCEPT ![s].miss = IF given THEN 0 ELSE @ + 1,
                                    ![s].n = IF given THEN 0 ELSE @]
        /\ closing' = [to EXCEPT !.todo = @ \ {s}]

\* One that misses it a second time is given up.
MissesAgain(s) ==
    LET given == search[s].miss >= 1
        to == IF given THEN Erase(<<Last(s), Matched(s)>>, "again") ELSE closing
    IN  /\ search' = [search EXCEPT ![s].miss = IF given THEN 0 ELSE @ + 1,
                                    ![s].n = IF given THEN 0 ELSE @]
        /\ closing' = [to EXCEPT !.todo = @ \ {s}]

LooksAgain ==
    /\ closing.pc = "again"
    /\ \E s \in closing.todo :
         /\ s = "loop" \/ "loop" \notin closing.todo
         /\ MeetsAgain(s) \/ MissesAgain(s)
    /\ UNCHANGED <<treeVars, tracking, mapping, leaked>>

\* DetectNBestCandidates lists keyframes of the database; nobody locks them.
ListsCandidates ==
    /\ closing.pc = "again" /\ closing.todo = {}
    /\ IF Detected # {} THEN closing' = [closing EXCEPT !.pc = "decide"]
       ELSE \E c \in [closing.anew -> (database \ {closing.cur}) \cup {NULL}] :
              closing' = [closing EXCEPT !.pc = "candidates",
                            !.cand = [s \in Searches |-> IF s \in closing.anew THEN c[s] ELSE NULL]]
    /\ UNCHANGED <<treeVars, tracking, mapping, search, leaked>>

Candidates == {s \in Searches : closing.cand[s] # NULL}

\* One that is bad is looked at for ever. Those of the same map may close a loop, the
\* others merge.
ChecksCandidates ==
    /\ closing.pc = "candidates"
    /\ closing' = [closing EXCEPT
            !.pc = IF \E s \in Candidates : kf[closing.cand[s]].bad THEN "spins" ELSE "match",
            !.cand = [s \in Searches |->
                        IF s \in Candidates /\ (SameMap(closing.cand[s], closing.cur) <=> s = "loop")
                        THEN closing.cand[s] ELSE NULL]]
    /\ UNCHANGED <<treeVars, tracking, mapping, search, leaked>>

\* The loop's candidate is matched before the merge's. A match replaces what the search
\* had, and is protected from now on. The one it replaces stays protected, and so does
\* one that begins no search.
TakesMatch(s) ==
    LET k == closing.cand[s] IN
    /\ Free(k)
    /\ kf' = [kf EXCEPT ![k].notErase = TRUE]
    /\ \E n \in 0 .. Enough :
         /\ search' = [search EXCEPT ![s].last = closing.cur, ![s].matched = k, ![s].n = n]
         /\ leaked' = leaked \cup {x \in {Matched(s)} : search[s].n > 0} \cup {x \in {k} : n = 0}

\* One that shares too little with the keyframe is no match.
MatchesCandidate ==
    /\ closing.pc = "match"
    /\ \E s \in Candidates :
         /\ s = "loop" \/ "loop" \notin Candidates
         /\ TakesMatch(s) \/ UNCHANGED <<kf, search, leaked>>
         /\ closing' = [closing EXCEPT !.cand[s] = NULL]
    /\ UNCHANGED <<lock, call, made, database, astray, stolen, tracking, mapping>>

Decides ==
    /\ closing.pc = "match" /\ Candidates = {}
    /\ closing' = [closing EXCEPT !.pc = "decide"]
    /\ UNCHANGED <<treeVars, tracking, mapping, search, leaked>>

\* Only a keyframe without a detection is let go here.
AddsToDatabase ==
    /\ closing.pc = "decide"
    /\ database' = database \cup {closing.cur}
    /\ closing' = IF Detected # {} THEN [closing EXCEPT !.pc = "found"]
                  ELSE Erase(<<closing.cur>>, "idle")
    /\ UNCHANGED <<kf, lock, call, search, rest>>

\* Mutant: an erasure that was put off is forgotten.
SetEraseForgetting ==
    /\ closing.pc = "erase" /\ call[closer].pc = "none" /\ closing.erase # << >>
    /\ LET k == Head(closing.erase) IN
         /\ Free(k)
         /\ kf' = [kf EXCEPT ![k].notErase = @ /\ kf[k].loopEdges]
    /\ closing' = [closing EXCEPT !.erase = Tail(@)]
    /\ UNCHANGED <<lock, call, database, search, rest>>

\* SetErase: an erasure that was put off is carried out.
SetErase ==
    /\ closing.pc = "erase" /\ call[closer].pc = "none" /\ closing.erase # << >>
    /\ LET k == Head(closing.erase) IN
         /\ Free(k)
         /\ kf' = [kf EXCEPT ![k].notErase = @ /\ kf[k].loopEdges]
         /\ IF kf[k].toBeErased THEN Begin(closer, "ask", k) ELSE UNCHANGED call
    /\ closing' = [closing EXCEPT !.erase = Tail(@)]
    /\ UNCHANGED <<lock, database, search, rest>>

GoesOn ==
    /\ closing.pc = "erase" /\ call[closer].pc = "none" /\ closing.erase = << >>
    /\ closing' = [closing EXCEPT !.pc = closing.next,
                                  !.cur = IF closing.next = "idle" THEN NULL ELSE @]
    /\ UNCHANGED <<treeVars, tracking, mapping, search, leaked>>

-----------------------------------------------------------------------------
(* Loop closing: the correction.                                           *)

\* The searches are over, and their keyframes are let go.
Finish(over) ==
    /\ search' = [s \in Searches |->
            IF s \in over THEN [search[s] EXCEPT !.n = 0, !.miss = 0] ELSE search[s]]
    /\ closing' = Erase((IF "merge" \in over THEN <<Last("merge"), Matched("merge")>> ELSE << >>)
                        \o (IF "loop" \in over THEN <<Last("loop"), Matched("loop")>> ELSE << >>),
                        "idle")

\* The loop edges protect both for good.
CorrectLoop ==
    /\ closing.pc = "found" /\ mapping.pc = "top" /\ "merge" \notin Detected
    /\ kf' = [k \in KeyFrames |->
                IF k \in {closing.cur, Matched("loop")}
                THEN [kf[k] EXCEPT !.notErase = TRUE, !.loopEdges = TRUE] ELSE kf[k]]
    /\ Finish({"loop"})
    /\ UNCHANGED <<lock, call, database, rest>>

\* Mutant: the old root may still be connected for the first time.
WeldsMapsKeepingFirst ==
    LET cur == closing.cur  m == Matched("merge")
        new == {k \in made : Good(k) /\ kf[k].inMap = "new"}
    IN  /\ closing.pc = "found" /\ mapping.pc = "top" /\ "merge" \in Detected
        /\ \E window \in SUBSET new :
             /\ cur \in new => cur \in window
             /\ kf' = [k \in KeyFrames |->
                  [kf[k] EXCEPT !.inMap = IF k \in window THEN "old" ELSE @,
                                !.parent = IF k = cur THEN m ELSE @,
                                !.children = @ \cup {x \in {cur} : k = m}]]
        /\ tracking' = [tracking EXCEPT !.map = "old"]
        /\ closing' = [closing EXCEPT !.pc = "reverse", !.child = kf[cur].parent, !.parent = cur]
        /\ Adopted(cur, m) /\ UNCHANGED <<lock, call, made, database, stolen, mapping, search, leaked>>

\* MergeLocal: a window around the keyframe moves to the old map, which becomes the
\* current one, and the keyframe becomes a child of its match.
WeldsMaps ==
    LET cur == closing.cur  m == Matched("merge")
        new == {k \in made : Good(k) /\ kf[k].inMap = "new"}
    IN  /\ closing.pc = "found" /\ mapping.pc = "top" /\ "merge" \in Detected
        /\ \E window \in SUBSET new :
             /\ cur \in new => cur \in window
             /\ kf' = [k \in KeyFrames |->
                  [kf[k] EXCEPT !.inMap = IF k \in window THEN "old" ELSE @,
                                !.first = @ /\ k # Origin["new"],
                                !.parent = IF k = cur THEN m ELSE @,
                                !.children = @ \cup {x \in {cur} : k = m}]]
        /\ tracking' = [tracking EXCEPT !.map = "old"]
        /\ closing' = [closing EXCEPT !.pc = "reverse", !.child = kf[cur].parent, !.parent = cur]
        /\ Adopted(cur, m) /\ UNCHANGED <<lock, call, made, database, stolen, mapping, search, leaked>>

\* The path from the keyframe to its old root is turned round, a link at a time.
ReversesLink ==
    LET child == closing.child  parent == closing.parent IN
    /\ closing.pc = "reverse" /\ child # NULL
    /\ kf' = [kf EXCEPT ![child].children = @ \ {parent}, ![child].parent = parent,
                       ![parent].children = @ \cup {child}]
    /\ closing' = [closing EXCEPT !.parent = child, !.child = kf[child].parent]
    /\ Adopted(child, parent)
    /\ UNCHANGED <<lock, call, made, database, stolen, tracking, mapping, search, leaked>>

\* UpdateConnections of the window: none is to be connected for the first time. Then
\* local mapping is released.
Reconnects ==
    LET fresh == {k \in made : Good(k) /\ kf[k].first /\ ~IsOrigin(k)} IN
    /\ closing.pc = "reverse" /\ closing.child = NULL
    /\ \E p \in made \ fresh :
         /\ Good(p) /\ (fresh = {} => p = Matched("merge"))
         /\ kf' = [k \in KeyFrames |->
              CASE k \in fresh -> [kf[k] EXCEPT !.parent = p, !.first = FALSE]
                [] k = p -> [kf[k] EXCEPT !.children = @ \cup fresh]
                [] OTHER -> kf[k]]
    /\ closing' = [closing EXCEPT !.pc = "move", !.parent = NULL]
    /\ UNCHANGED <<lock, call, database, search, rest>>

\* With local mapping stopped again, the rest of the map follows.
MovesRest ==
    /\ closing.pc = "move" /\ mapping.pc = "top"
    /\ kf' = [k \in KeyFrames |->
                [kf[k] EXCEPT !.inMap = IF k \in made /\ Good(k) THEN "old" ELSE @,
                              !.notErase = @ \/ k \in {closing.cur, Matched("merge")}]]
    /\ Finish({"merge"} \cup Detected)
    /\ UNCHANGED <<lock, call, database, rest>>

Closing ==
    \/ TakesKeyFrame \/ LooksAgain \/ ListsCandidates \/ ChecksCandidates
    \/ MatchesCandidate \/ Decides \/ AddsToDatabase \/ SetErase \/ GoesOn \/ CorrectLoop
    \/ WeldsMaps \/ ReversesLink \/ Reconnects \/ MovesRest
    \/ /\ SetBadFlag(closer) \/ UpdateBestCovisibles(closer)
       /\ UNCHANGED <<tracking, mapping, closing, search, leaked>>

-----------------------------------------------------------------------------
Next == Mapping \/ Closing

Spec == Init /\ [][Next]_vars

(* Both threads are scheduled.                                             *)
FairSpec == Spec /\ WF_vars(Mapping) /\ WF_vars(Closing)

-----------------------------------------------------------------------------
(* Properties.                                                             *)

\* No keyframe is its own ancestor, even while a merge turns the tree round: walks up
\* the tree (trajectory, global bundle adjustment) end. That is as long as no keyframe
\* that was erased once is erased again and gives children away that have gone over to
\* others since.
NoCycle == stolen = {} => ~\E S \in SUBSET made : S # {} /\ \A k \in S : kf[k].parent \in S

\* From every erased keyframe the parents lead to a good one, so that the pose of a frame
\* tracked against an erased keyframe can be found: as long as NoCycle's exception has
\* not come about, after which erased keyframes may come to be a cycle of their own.
LostPoseResolves == stolen = {} =>
    ~\E S \in SUBSET {k \in made : kf[k].bad} :
        S # {} /\ \A k \in S : kf[k].parent \in S \cup {NULL}

\* Between operations the parent of a good keyframe is good and lists it as a child,
\* unless it was bad already when it took it, and with the same exception.
Quiet == (\A t \in Threads : call[t].pc = "none") /\ closing.pc # "reverse"

ParentKnows ==
    stolen = {} /\ Quiet => \A k \in made \ astray : Good(k) /\ kf[k].parent # NULL =>
                Good(kf[k].parent) /\ k \in kf[kf[k].parent].children

InUse(k) ==
    \/ k = closing.cur
    \/ \E i \in DOMAIN closing.erase : closing.erase[i] = k
    \/ \E s \in Searches : search[s].n > 0 /\ k \in {Last(s), Matched(s)}

\* A keyframe stays protected only as long as loop closing works with it, for ever if
\* it closes a loop, and if a search replaces its match without letting it go.
ProtectedIsInUse ==
    \A k \in made : kf[k].notErase => kf[k].loopEdges \/ k \in leaked \/ InUse(k)

\* What LoopClosing.cc says of mpCurrentKF: while it is processed, and marked so, it
\* is not erased.
NotErasedWhileProcessed ==
    [][\A k \in KeyFrames : k = closing.cur /\ kf[k].notErase /\ kf'[k].bad => kf[k].bad]_vars

\* Loop closing looks at a bad candidate for ever, or the threads wait for each other.
Jammed == closing.pc = "spins" \/ WaitCycle

\* Each keyframe that local mapping takes is passed on, and each that loop closing takes
\* is done with, unless it is jammed or a keyframe was to be its own parent: nobody runs
\* into a null pointer or his own mutex.
KeyFramesPassOn ==
    /\ mapping.pc # "top" ~> mapping.pc = "top" \/ WaitCycle \/ Threw
    /\ closing.cur # NULL ~> closing.cur = NULL \/ Jammed \/ Threw

\* An erasure that was put off is made up for once nobody needs the keyframe.
DeferredErasureHappens ==
    \A k \in 2 .. LastId :
        (kf[k].toBeErased /\ ~InUse(k) /\ ~kf[k].loopEdges /\ k \notin leaked)
            ~> (kf[k].bad \/ Jammed \/ Threw)
===============================================================================
