------------------------ MODULE PlaceRecognitionProofs ------------------------
(***************************************************************************)
(* That the spanning tree of keyframes stays a tree, and that protection   *)
(* ends, for any number of keyframes.                                      *)
(*                                                                         *)
(* A cycle, or a way up that ends among erased keyframes, is a set of      *)
(* keyframes whose parents are all in the set, so that nothing has to be   *)
(* said of walks along the tree: there is no such set before a step, and   *)
(* a step that moves one keyframe under a parent whose way up avoids it    *)
(* makes none. The ways up of all that a thread may give its children to   *)
(* while it erases a keyframe are therefore part of the invariant.         *)
(***************************************************************************)
EXTENDS PlaceRecognition, FiniteSetTheorems, SequenceTheorems, WellFoundedInduction, TLAPS

\* The fields of a keyframe, of a call and of the two loops.
Maps == {"old", "new"}
NodesOrNull == KeyFrames \cup {NULL}

KeyFrameRecord ==
    [parent : NodesOrNull, children : SUBSET KeyFrames, first : BOOLEAN, bad : BOOLEAN,
     notErase : BOOLEAN, toBeErased : BOOLEAN, loopEdges : BOOLEAN, inMap : Maps]

\* Where UpdateConnections, SearchInNeighbors' sort and SetBadFlag can be, the last in its
\* order: from Holding on with the keyframe's mutex, from Chosen on certain to erase.
Connecting == {"count", "link", "linkBest", "join", "addChild"}
Sorting == {"sort", "sortBest"}
Holding == {"scan", "give", "given", "rest", "restGiven"}
Chosen == {"unlink", "unlinkBest", "own"} \cup Holding
Erasing == {"ask", "forget", "crashed"} \cup Chosen
CallPcs == {"none"} \cup Connecting \cup Sorting \cup Erasing

CallRecord ==
    [pc : CallPcs, kf : NodesOrNull, scan : SUBSET KeyFrames, able : SUBSET KeyFrames,
     cands : SUBSET KeyFrames, child : NodesOrNull, to : NodesOrNull, wait : NodesOrNull]

ClosingPcs == {"idle", "again", "candidates", "spins", "match", "decide", "erase", "found",
               "reverse", "move"}

\* The variables of KeyFrameTree.
TreeTypeOK ==
    /\ kf \in [KeyFrames -> KeyFrameRecord]
    /\ lock \in [KeyFrames -> Threads \cup {NULL}]
    /\ call \in [Threads -> CallRecord]
    /\ made \in SUBSET KeyFrames /\ database \in SUBSET KeyFrames
    /\ astray \in SUBSET KeyFrames /\ stolen \in SUBSET KeyFrames

MappingRecord ==
    [pc : {"top", "new", "fuse", "sort", "cull"}, cur : NodesOrNull, left : SUBSET KeyFrames]

ClosingRecord ==
    [pc : ClosingPcs, cur : NodesOrNull, queue : Seq(KeyFrames), erase : Seq(KeyFrames),
     next : {"idle", "again"}, todo : SUBSET Searches, anew : SUBSET Searches,
     cand : [Searches -> NodesOrNull], child : NodesOrNull, parent : NodesOrNull]

SearchRecord == [last : NodesOrNull, matched : NodesOrNull, n : Nat, miss : Nat]

TypeOK ==
    /\ TreeTypeOK /\ leaked \in SUBSET NodesOrNull
    /\ tracking \in [id : Nat, map : Maps]
    /\ mapping \in MappingRecord /\ closing \in ClosingRecord
    /\ search \in [Searches -> SearchRecord]

(* Each thread is inside a method only while its loop has called one.      *)
MapperPhase ==
    /\ mapping.pc = "top" => mapping.cur = NULL /\ call[mapper].pc = "none"
    /\ mapping.pc = "new" => call[mapper].pc \in Connecting \cup {"none"}
    /\ mapping.pc = "fuse" => call[mapper].pc = "none"
    /\ mapping.pc = "sort" => call[mapper].pc \in Connecting \cup {"none"}
    /\ mapping.pc = "cull" => call[mapper].pc \in Sorting \cup Erasing \cup {"none"}
    /\ call[mapper].pc \in Connecting => call[mapper].kf = mapping.cur
    /\ call[mapper].pc = "addChild" => mapping.pc = "new"
    /\ mapping.pc # "top" => mapping.cur \in KeyFrames \ {0, 1}
    /\ closing.pc = "reverse" => mapping.pc = "top"

\* Loop closing is in a method only while it lets keyframes be erased.
CloserPhase ==
    /\ call[closer].pc \in Erasing \cup {"none"}
    /\ call[closer].pc # "none" => closing.pc = "erase"
    /\ closing.pc # "erase" => closing.erase = << >>
    /\ closing.pc = "idle" <=> closing.cur = NULL
    /\ closing.pc = "reverse" => closing.parent \in KeyFrames

(* Keyframes that local mapping has put into a map, in the order in which  *)
(* tracking makes them.                                                    *)
Known ==
    /\ tracking.id \in 2 .. LastId + 1
    /\ made = {k \in KeyFrames : k < tracking.id /\ ~(mapping.pc = "new" /\ k = mapping.cur)}
    /\ mapping.pc # "top" => mapping.cur < tracking.id
    /\ mapping.left \subseteq made /\ database \subseteq made
    /\ closing.cur # NULL => closing.cur \in made \ {0}
    /\ \A i \in DOMAIN closing.queue : closing.queue[i] \in made \ {0}
    /\ \A i \in DOMAIN closing.erase : closing.erase[i] \in made
    /\ \A s \in Searches : search[s].n > 0 => Last(s) \in made /\ Matched(s) \in made
    /\ closing.pc \in {"candidates", "match"} =>
         \A s \in Searches : closing.cand[s] # NULL => closing.cand[s] \in made
    /\ closing.pc = "again" \/ (closing.pc = "erase" /\ closing.next = "again") =>
         \A s \in closing.todo : search[s].n > 0

\* There are two maps, before a merge; and it is in its midst.
Split == tracking.map = "new"
Welding == closing.pc \in {"reverse", "move"}

(* The maps.  Only one merge is ever possible, of the old map's one        *)
(* keyframe with the new one's.                                            *)
MapsMergeOnce ==
    /\ kf[0].inMap = "old"
    /\ mapping.pc = "new" => kf[mapping.cur].inMap = tracking.map
    /\ Split => /\ \A k \in made \ {0} : kf[k].inMap = "new"
                /\ ~Welding
                /\ \A s \in Searches : s = "merge" =>
                     /\ search[s].n > 0 => Matched(s) = 0
                     /\ closing.pc = "match" /\ closing.cand[s] # NULL => closing.cand[s] = 0
    /\ ~Split /\ ~Welding =>
         /\ \A k \in made : Good(k) => kf[k].inMap = "old"
         /\ closing.pc \in {"again", "candidates", "match"} \/ (closing.pc = "erase" /\ closing.next = "again")
              => kf[closing.cur].inMap = "old"
         /\ \A s \in Searches : s = "merge" =>
              search[s].n = 0 /\ (closing.pc = "match" => closing.cand[s] = NULL)

\* Only keyframes without a parent so far are connected for the first time.
FirstOnce ==
    /\ \A k \in made : kf[k].first => k = 0 \/ (k = 1 /\ Split)
    /\ \A k \in KeyFrames \ made : ~(mapping.pc = "new" /\ k = mapping.cur) => kf[k].first
    /\ mapping.pc = "new" => kf[mapping.cur].first = (call[mapper].pc # "none")

(* What a thread has at hand, and the mutexes it holds.                    *)
Arguments == \A t \in Threads :
    LET c == call[t] IN
    /\ c.pc # "none" => c.kf \in KeyFrames
    /\ c.pc \in Erasing => c.kf \in made
    /\ c.pc \in Chosen => c.kf # 0
    /\ c.pc \in {"link", "linkBest", "join", "addChild"} => c.to \in made /\ (Split => c.to # 0)
    /\ c.pc \in {"give", "given", "restGiven"} => c.child \in KeyFrames
    /\ c.pc \in {"given", "restGiven"} => c.to \in KeyFrames
    /\ c.pc = "give" => c.to \in c.cands /\ c.to # c.child

\* Only the holder of a mutex is where it is held; the child in hand has its new parent.
Locks == \A t \in Threads :
    LET c == call[t] IN
    /\ c.pc \in Holding \cup {"addChild"} => lock[c.kf] = t
    /\ c.pc \in {"unlinkBest", "linkBest", "sortBest"} => c.child \in KeyFrames /\ lock[c.child] = t
    /\ c.pc \in {"given", "restGiven"} =>
         lock[c.child] = t /\ c.child # c.kf /\ kf[c.child].parent = c.to
    /\ c.pc = "addChild" => kf[c.kf].parent = c.to

\* Loop closing has given up the keyframe, or is done with it.
Done == closing.pc = "erase" /\ closing.next = "idle"

\* What makes somebody let a protected keyframe go in the end.
Kept(k) ==
    \/ kf[k].loopEdges \/ k \in leaked
    \/ k = closing.cur /\ ~Done
    \/ \E i \in DOMAIN closing.erase : closing.erase[i] = k
    \/ \E s \in Searches : search[s].n > 0 /\ k = Matched(s)

\* Each protected keyframe is on somebody's list; what was found is still known when it is
\* corrected or merged.
Protection ==
    /\ \A k \in KeyFrames : kf[k].notErase => Kept(k)
    /\ closing.pc = "idle" \/ Done => Detected = {}
    /\ \A s \in Detected : Last(s) = closing.cur
    /\ closing.pc = "found" => Detected # {}
    /\ Welding => "merge" \in Detected

-----------------------------------------------------------------------------
(* The tree.                                                               *)
Parents == [k \in KeyFrames |-> kf[k].parent]

\* U is a way up, or several: with a keyframe it has the parent.
Closed(f, U) == U \subseteq KeyFrames /\ \A y \in U : f[y] \in U \cup {NULL}

\* No keyframes have all their parents among themselves.
Acyclic(f) == \A S \in SUBSET KeyFrames : (\A y \in S : f[y] \in S) => S = {}

\* No way up ends among B.
BadEnd(f, B) == \A S \in SUBSET B : Closed(f, S) => S = {}
BadOnes == {k \in KeyFrames : kf[k].bad}

\* Keyframes that have a parent or once were roots, of the merged map only the old one's
\* root.
Rooted == {k \in KeyFrames : (k \in made \/ kf[k].parent # NULL) /\ (Split => k # 0)}

\* U holds the ways up of everything thread t may give its children to, and they avoid the
\* keyframe it erases.
Above(t, U) ==
    LET k == call[t].kf IN
    /\ U \subseteq Rooted /\ Closed(Parents, U)
    /\ k \notin U /\ kf[k].parent \in U \cup {NULL} /\ call[t].cands \subseteq U
    /\ call[t].pc = "given" => call[t].child \in U

\* Two threads that erase do not each have the other's keyframe above: of two keyframes one
\* is not above the other.
Apart(t, u, T, U) == call[t].kf \notin U \/ call[u].kf \notin T

\* The thread holds the mutex of the keyframe it erases.
Erases(t) == call[t].pc \in Holding

\* The ways up of the threads that erase.
Ancestry ==
    \E up \in [Threads -> SUBSET KeyFrames] :
      /\ \A t \in Threads : Erases(t) => Above(t, up[t])
      /\ \A t, u \in Threads : t # u /\ Erases(t) /\ Erases(u) => Apart(t, u, up[t], up[u])

\* While a merge turns the links round, the ones turned already hang from the old map, and
\* those still to be turned do not.
Turning == closing.pc = "reverse" /\ closing.child # NULL =>
      /\ closing.parent \in Rooted
      /\ \E U, V \in SUBSET KeyFrames :
           /\ Closed(Parents, U) /\ Closed(Parents, V) /\ U \subseteq Rooted /\ U \cap V = {}
           /\ closing.child \in U /\ closing.parent \in V /\ 0 \in V

\* Only the roots have no parent: an erasure always finds one, so that nobody runs into a
\* null pointer, and no keyframe is given to itself.
Orphans ==
    /\ kf[0].parent = NULL
    /\ \A k \in KeyFrames : kf[k].parent # NULL => kf[k].parent \in Rooted
    /\ kf[1].parent = NULL => Split \/ (closing.pc = "reverse" /\ closing.child # NULL)
    /\ \A k \in made \ {0, 1} : kf[k].parent # NULL
    /\ \A t \in Threads : call[t].pc \in Chosen => kf[call[t].kf].parent # NULL
    /\ \A t \in Threads : call[t].pc # "crashed"

\* A keyframe has no parent before local mapping connects it, and has one then.
Unborn ==
    /\ \A k \in KeyFrames \ made : ~(mapping.pc = "new" /\ k = mapping.cur) => kf[k].parent = NULL
    /\ mapping.pc = "new" =>
         /\ call[mapper].pc = "none" => kf[mapping.cur].parent # NULL
         /\ call[mapper].pc \in Connecting \ {"addChild"} => kf[mapping.cur].parent = NULL

\* Thread t has locked k and changed its parent but not yet told the parent.
InHandOf(t, k) ==
    \/ call[t].pc \in {"given", "restGiven"} /\ call[t].child = k
    \/ call[t].pc = "addChild" /\ call[t].kf = k

\* A good keyframe is a child of its parent, and that is good.
Linked ==
    \A k \in KeyFrames \ astray :
        Good(k) /\ kf[k].parent # NULL /\ (\A t \in Threads : ~InHandOf(t, k)) =>
            Good(kf[k].parent) /\ k \in kf[kf[k].parent].children

\* A child an erasure has given away is somebody else's.
RestGone ==
    \A t \in Threads : call[t].pc \in {"rest", "restGiven"} =>
        \A c \in kf[call[t].kf].children \ call[t].scan :
            kf[c].parent # call[t].kf \/ \E u \in Threads \ {t} : InHandOf(u, c)

\* The tree as it is until a keyframe that was erased twice has given away a child that was
\* no longer its own.
Sound ==
    /\ Acyclic(Parents) /\ BadEnd(Parents, BadOnes) /\ Ancestry /\ Turning /\ Orphans
    /\ Linked /\ RestGone

Tree == stolen = {} => Sound /\ Unborn

\* The inductive invariant.
Inv == /\ TypeOK /\ MapperPhase /\ CloserPhase /\ Known /\ MapsMergeOnce /\ FirstOnce
       /\ Arguments /\ Locks /\ Protection /\ Tree
-----------------------------------------------------------------------------
(* Sets that are closed under a function that gives each keyframe a parent *)
(* or none.                                                                *)

ParentFunctions == [KeyFrames -> NodesOrNull]

\* NULL is neither a keyframe nor a thread.
LEMMA NullIsNoKeyFrame == NULL \notin KeyFrames /\ NULL \notin Threads
  BY TreeAssumption DEF TreeAssumption, KeyFrames

\* Two ways up make one together, and what they share is one.
LEMMA ClosedSetsCombine ==
    ASSUME NEW f \in ParentFunctions, NEW U, NEW V, Closed(f, U), Closed(f, V)
    PROVE  Closed(f, U \cap V) /\ Closed(f, U \cup V)
  BY DEF Closed

\* Where there is no cycle, the way up from a keyframe does not lead back to it.
LEMMA WayUpAvoids ==
    ASSUME NEW f \in ParentFunctions, Acyclic(f), NEW k \in KeyFrames
    PROVE  \E U \in SUBSET KeyFrames : Closed(f, U) /\ k \notin U /\ f[k] \in U \cup {NULL}
  <1>1. CASE f[k] = NULL
    <2> Closed(f, {})
      BY DEF Closed
    <2> QED BY <1>1
  <1>2. CASE f[k] # NULL
    <2> DEFINE S == {y \in KeyFrames : \A C \in SUBSET KeyFrames : Closed(f, C) /\ y \in C => k \in C}
    <2>1. f[k] \in KeyFrames
      BY <1>2 DEF ParentFunctions, NodesOrNull
    <2>2. CASE f[k] \notin S
      BY <2>1, <2>2
    <2>3. CASE f[k] \in S
      <3>1. ASSUME NEW y \in S PROVE f[y] \in S
        <4>1. f[y] \in KeyFrames
          <5>1. CASE f[y] = NULL
            <6>1. Closed(f, {y}) /\ {y} \in SUBSET KeyFrames
              BY <5>1 DEF Closed
            <6>2. k = y
              BY <6>1
            <6> QED BY <5>1, <6>2, <1>2
          <5> QED BY <5>1 DEF ParentFunctions, NodesOrNull
        <4>2. ASSUME NEW C \in SUBSET KeyFrames, Closed(f, C), f[y] \in C PROVE k \in C
          <5>1. Closed(f, C \cup {y}) /\ C \cup {y} \in SUBSET KeyFrames
            BY <4>2 DEF Closed
          <5>2. k \in C \cup {y}
            BY <5>1
          <5>3. CASE k = y
            BY <5>3, <4>2, <2>3
          <5> QED BY <5>2, <5>3
        <4> QED BY <4>1, <4>2
      <3>2. S \in SUBSET KeyFrames /\ k \in S
        OBVIOUS
      <3> QED BY <3>1, <3>2 DEF Acyclic
    <2> QED BY <2>2, <2>3
  <1> QED BY <1>1, <1>2

\* A keyframe that gets a parent in a closed set it is not in makes no cycle, and no way
\* up that ends among bad ones.
LEMMA MoveLemma ==
    ASSUME NEW f \in ParentFunctions, NEW g \in ParentFunctions, NEW c \in KeyFrames,
           NEW V, Closed(f, V), c \notin V, g[c] \in V,
           \A y \in KeyFrames \ {c} : g[y] = f[y]
    PROVE  /\ Acyclic(f) => Acyclic(g)
           /\ \A B \in SUBSET KeyFrames : BadEnd(f, B) => BadEnd(g, B)
  <1> NULL \notin KeyFrames
    BY NullIsNoKeyFrame
  <1> USE DEF Closed
  <1>1. ASSUME Acyclic(f), NEW S \in SUBSET KeyFrames, \A y \in S : g[y] \in S PROVE S = {}
    <2>1. CASE c \notin S
      BY <1>1, <2>1 DEF Acyclic
    <2>2. CASE c \in S
      <3>1. \A y \in S \cap V : f[y] \in S \cap V
        BY <1>1
      <3>2. S \cap V = {}
        BY <3>1, <1>1 DEF Acyclic
      <3> QED BY <1>1, <2>2, <3>2
    <2> QED BY <2>1, <2>2
  <1>2. ASSUME NEW B \in SUBSET KeyFrames, BadEnd(f, B), NEW S \in SUBSET B, Closed(g, S) PROVE S = {}
    <2>1. CASE c \notin S
      BY <1>2, <2>1 DEF BadEnd
    <2>2. CASE c \in S
      <3>1. S \cap V \in SUBSET B /\ Closed(f, S \cap V)
        BY <1>2
      <3>2. S \cap V = {}
        BY <3>1, <1>2 DEF BadEnd
      <3> QED BY <1>2, <2>2, <3>2
    <2> QED BY <2>1, <2>2
  <1> QED BY <1>1, <1>2 DEF Acyclic, BadEnd

\* Nor does one that turns bad under a parent of such a set.
LEMMA OneMoreBad ==
    ASSUME NEW f \in ParentFunctions, NEW k \in KeyFrames, NEW V, Closed(f, V), k \notin V, f[k] \in V,
           NEW B \in SUBSET KeyFrames, BadEnd(f, B)
    PROVE  BadEnd(f, B \cup {k})
  <1> NULL \notin KeyFrames
    BY NullIsNoKeyFrame
  <1> SUFFICES ASSUME NEW S \in SUBSET (B \cup {k}), Closed(f, S) PROVE S = {}
    BY DEF BadEnd
  <1>1. CASE k \notin S
    BY <1>1 DEF BadEnd
  <1>2. CASE k \in S
    <2>1. S \cap V \in SUBSET B /\ Closed(f, S \cap V)
      BY DEF Closed
    <2>2. S \cap V = {}
      BY <2>1 DEF BadEnd
    <2> QED BY <1>2, <2>2 DEF Closed
  <1> QED BY <1>1, <1>2

-----------------------------------------------------------------------------
(* What each step of a method of KeyFrame.cc does, field by field.         *)

\* What a step of a method may rely on.
Typed == TreeTypeOK /\ Arguments /\ Locks

\* Of a step of thread t: the others' calls are as they were; tree and protection are.
OthersWait(t) == \A u \in Threads \ {t} : call'[u] = call[u]

SameLinks ==
    /\ \A x \in KeyFrames : /\ kf'[x].parent = kf[x].parent /\ kf'[x].children = kf[x].children
                            /\ kf'[x].bad = kf[x].bad /\ kf'[x].first = kf[x].first
    /\ astray' = astray /\ stolen' = stolen

SameMarks ==
    /\ made' = made /\ database' \in SUBSET database
    /\ \A x \in KeyFrames : /\ kf'[x].notErase = kf[x].notErase /\ kf'[x].inMap = kf[x].inMap
                            /\ kf'[x].loopEdges = kf[x].loopEdges

\* The call of one thread becomes another record.
LEMMA CallUpdate ==
    ASSUME TreeTypeOK, NEW t \in Threads, NEW r \in CallRecord, call' = [call EXCEPT ![t] = r]
    PROVE  call' \in [Threads -> CallRecord] /\ call'[t] = r /\ OthersWait(t)
  BY DEF TreeTypeOK, OthersWait

\* Being in no method is a value of a call.
LEMMA NoCallTyped == NoCall \in CallRecord /\ NoCall.pc = "none"
  BY DEF NoCall, CallRecord, NodesOrNull, CallPcs

\* Goto changes the place only.
LEMMA GotoLemma ==
    ASSUME TreeTypeOK, NEW t \in Threads, NEW p \in CallPcs, Goto(t, p)
    PROVE  /\ call' \in [Threads -> CallRecord] /\ OthersWait(t)
           /\ call'[t].pc = p /\ call'[t].child = call[t].child /\ call'[t].kf = call[t].kf
           /\ call'[t].to = call[t].to /\ call'[t].scan = call[t].scan
           /\ call'[t].able = call[t].able /\ call'[t].cands = call[t].cands
  BY DEF TreeTypeOK, OthersWait, Goto, CallRecord

\* Return ends the call.
LEMMA ReturnLemma ==
    ASSUME TreeTypeOK, NEW t \in Threads, Return(t)
    PROVE  /\ call' \in [Threads -> CallRecord] /\ OthersWait(t)
           /\ call'[t] = NoCall /\ call'[t].pc = "none"
  BY CallUpdate, NoCallTyped DEF Return

\* Begin starts a call on a keyframe.
LEMMA BeginLemma ==
    ASSUME TreeTypeOK, NEW t \in Threads, NEW p \in CallPcs, NEW k \in KeyFrames, Begin(t, p, k)
    PROVE  /\ call' \in [Threads -> CallRecord] /\ OthersWait(t)
           /\ call'[t].pc = p /\ call'[t].kf = k
  <1>1. [NoCall EXCEPT !.pc = p, !.kf = k] \in CallRecord
    BY DEF NoCall, CallRecord, NodesOrNull
  <1> QED BY <1>1, CallUpdate DEF Begin, NoCall

\* A step that changes only calls and mutexes leaves links and marks as they are.
LEMMA SameTree ==
    ASSUME TreeTypeOK, call' \in [Threads -> CallRecord], lock' \in [KeyFrames -> Threads \cup {NULL}],
           kf' = kf, made' = made, database' = database, astray' = astray, stolen' = stolen
    PROVE  TreeTypeOK' /\ SameLinks /\ SameMarks
  BY DEF TreeTypeOK, SameLinks, SameMarks

\* A mutex that is taken or released stays a mutex.
LEMMA LockTyped ==
    ASSUME TreeTypeOK, NEW k, NEW t \in Threads \cup {NULL}, lock' = [lock EXCEPT ![k] = t]
    PROVE  lock' \in [KeyFrames -> Threads \cup {NULL}]
  BY DEF TreeTypeOK

\* AddConnection and EraseConnection on each neighbour: take its mutex, or go on.
LEMMA LinksEffect ==
    ASSUME Typed, NEW t \in Threads, NEW others, others \subseteq KeyFrames, NEW best \in CallPcs,
           NEW next \in CallPcs, Links(t, others, best, next)
    PROVE  /\ TreeTypeOK' /\ OthersWait(t) /\ SameLinks /\ SameMarks
           /\ call'[t].kf = call[t].kf /\ call'[t].to = call[t].to
           /\ \/ call'[t].pc = next /\ lock' = lock
              \/ /\ call'[t].pc = best /\ call'[t].child \in KeyFrames
                 /\ lock[call'[t].child] = NULL
                 /\ lock' = [lock EXCEPT ![call'[t].child] = t]
  <1>1. TreeTypeOK
    BY DEF Typed
  <1>2. kf' = kf /\ made' = made /\ database' = database /\ astray' = astray /\ stolen' = stolen
    BY DEF Links
  <1>3. CASE Goto(t, next) /\ UNCHANGED lock
    <2>1. lock' \in [KeyFrames -> Threads \cup {NULL}]
      BY <1>1, <1>3 DEF TreeTypeOK
    <2> QED BY <1>1, <1>2, <1>3, <2>1, GotoLemma, SameTree
  <1>4. CASE \E n \in made \ {call[t].kf}, m \in others :
               /\ n # m /\ Free(n) /\ Take(t, n)
               /\ call' = [call EXCEPT ![t].pc = best, ![t].child = n, ![t].wait = m]
    <2>1. PICK n \in made \ {call[t].kf}, m \in others :
               /\ n # m /\ Free(n) /\ Take(t, n)
               /\ call' = [call EXCEPT ![t].pc = best, ![t].child = n, ![t].wait = m]
      BY <1>4
    <2>2. n \in KeyFrames /\ m \in KeyFrames
      BY <1>1 DEF TreeTypeOK
    <2>3. lock[n] = NULL /\ lock' = [lock EXCEPT ![n] = t]
      BY <2>1 DEF Free, Take
    <2>4. lock' \in [KeyFrames -> Threads \cup {NULL}]
      BY <1>1, <2>3, LockTyped
    <2> DEFINE r == [call[t] EXCEPT !.pc = best, !.child = n, !.wait = m]
    <2>5. /\ r \in CallRecord /\ r.pc = best /\ r.child = n /\ r.kf = call[t].kf
          /\ r.to = call[t].to
      BY <1>1, <2>2 DEF TreeTypeOK, CallRecord, NodesOrNull
    <2>6. call' = [call EXCEPT ![t] = r]
      BY <2>1
    <2> HIDE DEF r
    <2>7. call' \in [Threads -> CallRecord] /\ OthersWait(t) /\ call'[t] = r
      BY <1>1, <2>5, <2>6, CallUpdate
    <2> QED BY <1>1, <1>2, <2>2, <2>3, <2>4, <2>5, <2>7, SameTree
  <1> QED BY <1>3, <1>4 DEF Links

\* A sort of the keyframe's own covisibles takes its own mutex.
LEMMA SortsOwnEffect ==
    ASSUME Typed, NEW t \in Threads, SortsOwn(t)
    PROVE  /\ TreeTypeOK' /\ OthersWait(t) /\ SameLinks /\ SameMarks
           /\ call[t].pc = "sort" /\ call'[t].pc = "sortBest"
           /\ call'[t].kf = call[t].kf /\ call'[t].child = call[t].kf
           /\ lock[call[t].kf] = NULL /\ lock' = [lock EXCEPT ![call[t].kf] = t]
  <1>1. /\ kf' = kf /\ made' = made /\ database' = database /\ astray' = astray /\ stolen' = stolen
        /\ call[t].pc = "sort" /\ lock[call[t].kf] = NULL /\ lock' = [lock EXCEPT ![call[t].kf] = t]
    BY DEF SortsOwn, Free, Take
  <1>2. PICK m \in made \ {call[t].kf} :
          call' = [call EXCEPT ![t].pc = "sortBest", ![t].child = call[t].kf, ![t].wait = m]
    BY DEF SortsOwn
  <1>3. TreeTypeOK /\ call[t].kf \in KeyFrames /\ m \in KeyFrames /\ "sortBest" \in CallPcs
    BY <1>1 DEF Typed, TreeTypeOK, Arguments, CallPcs, Sorting
  <1>4. lock' \in [KeyFrames -> Threads \cup {NULL}]
    BY <1>1, <1>3, LockTyped
  <1> DEFINE r == [call[t] EXCEPT !.pc = "sortBest", !.child = call[t].kf, !.wait = m]
  <1>5. /\ r \in CallRecord /\ r.pc = "sortBest" /\ r.child = call[t].kf /\ r.kf = call[t].kf
    BY <1>3 DEF TreeTypeOK, CallRecord, NodesOrNull
  <1>6. call' = [call EXCEPT ![t] = r]
    BY <1>2
  <1> HIDE DEF r
  <1>7. call' \in [Threads -> CallRecord] /\ OthersWait(t) /\ call'[t] = r
    BY <1>3, <1>5, <1>6, CallUpdate
  <1> QED BY <1>1, <1>3, <1>4, <1>5, <1>7, SameTree

\* UpdateBestCovisibles releases the mutex of the one it sorts.
LEMMA UpdateBestEffect ==
    ASSUME Typed, NEW t \in Threads, UpdateBestCovisibles(t)
    PROVE  /\ TreeTypeOK' /\ OthersWait(t) /\ SameLinks /\ SameMarks
           /\ lock' = [lock EXCEPT ![call[t].child] = NULL]
           /\ \/ call[t].pc = "unlinkBest" /\ call'[t].pc = "own" /\ call'[t].kf = call[t].kf
              \/ /\ call[t].pc = "linkBest" /\ call'[t].pc = "join" /\ call'[t].kf = call[t].kf
                 /\ call'[t].to = call[t].to
              \/ call[t].pc = "sortBest" /\ call'[t].pc = "none"
  <1>1. /\ kf' = kf /\ made' = made /\ database' = database /\ astray' = astray /\ stolen' = stolen
        /\ lock' = [lock EXCEPT ![call[t].child] = NULL]
    BY DEF UpdateBestCovisibles, Release
  <1>2. TreeTypeOK
    BY DEF Typed
  <1>3. lock' \in [KeyFrames -> Threads \cup {NULL}]
    BY <1>1, <1>2, LockTyped
  <1>4. CASE call[t].pc = "unlinkBest"
    <2>1. Goto(t, "own") /\ "own" \in CallPcs
      BY <1>4 DEF UpdateBestCovisibles, CallPcs, Erasing, Chosen
    <2> QED BY <1>1, <1>2, <1>3, <1>4, <2>1, GotoLemma, SameTree
  <1>5. CASE call[t].pc = "linkBest"
    <2>1. Goto(t, "join") /\ "join" \in CallPcs
      BY <1>5 DEF UpdateBestCovisibles, CallPcs, Connecting
    <2> QED BY <1>1, <1>2, <1>3, <1>5, <2>1, GotoLemma, SameTree
  <1>6. CASE call[t].pc = "sortBest"
    <2>1. Return(t)
      BY <1>6 DEF UpdateBestCovisibles
    <2> QED BY <1>1, <1>2, <1>3, <1>6, <2>1, ReturnLemma, SameTree
  <1> QED BY <1>4, <1>5, <1>6 DEF UpdateBestCovisibles

\* UpdateConnections chooses a parent among the keyframes of the map.
LEMMA CountsEffect ==
    ASSUME Typed, NEW t \in Threads, CountsPoints(t)
    PROVE  /\ TreeTypeOK' /\ OthersWait(t) /\ SameLinks /\ SameMarks /\ lock' = lock
           /\ call[t].pc = "count" /\ call'[t].pc = "link" /\ call'[t].kf = call[t].kf
           /\ call'[t].to \in made /\ SameMap(call'[t].to, call[t].kf)
  <1>1. /\ kf' = kf /\ made' = made /\ database' = database /\ astray' = astray /\ stolen' = stolen
        /\ lock' = lock /\ call[t].pc = "count"
    BY DEF CountsPoints
  <1>2. PICK p \in made \ {call[t].kf} :
          SameMap(p, call[t].kf) /\ call' = [call EXCEPT ![t].pc = "link", ![t].to = p]
    BY DEF CountsPoints
  <1>3. "link" \in CallPcs /\ p \in NodesOrNull /\ TreeTypeOK
    BY DEF CallPcs, Connecting, Typed, TreeTypeOK, NodesOrNull
  <1>4. /\ call' \in [Threads -> CallRecord] /\ OthersWait(t)
        /\ call'[t].pc = "link" /\ call'[t].kf = call[t].kf /\ call'[t].to = p
    BY <1>2, <1>3 DEF TreeTypeOK, CallRecord, OthersWait
  <1>5. lock' \in [KeyFrames -> Threads \cup {NULL}]
    BY <1>1, <1>3 DEF TreeTypeOK
  <1> QED BY <1>1, <1>2, <1>3, <1>4, <1>5, SameTree

\* UpdateConnections sets mpParent if it is the first time and no origin.
LEMMA SetsParentEffect ==
    ASSUME Typed, NEW t \in Threads, SetsParent(t)
    PROVE  LET k == call[t].kf IN
           /\ TreeTypeOK' /\ OthersWait(t) /\ SameMarks /\ call[t].pc = "join" /\ lock[k] = NULL
           /\ \/ call'[t].pc = "none" /\ SameLinks /\ lock' = lock /\ ~(kf[k].first /\ ~IsOrigin(k))
              \/ /\ kf[k].first /\ ~IsOrigin(k)
                 /\ call'[t].pc = "addChild" /\ call'[t].kf = k /\ call'[t].to = call[t].to
                 /\ lock' = [lock EXCEPT ![k] = t] /\ astray' = astray /\ stolen' = stolen
                 /\ \A x \in KeyFrames :
                      /\ kf'[x].parent = (IF x = k THEN call[t].to ELSE kf[x].parent)
                      /\ kf'[x].children = kf[x].children /\ kf'[x].bad = kf[x].bad
                      /\ kf'[x].first = kf[x].first
  <1> DEFINE k == call[t].kf
  <1>1. TreeTypeOK /\ call[t] \in CallRecord /\ call[t].pc = "join" /\ k \in KeyFrames /\ lock[k] = NULL
    BY DEF Typed, TreeTypeOK, Arguments, SetsParent, Free
  <1>2. made' = made /\ database' = database /\ astray' = astray /\ stolen' = stolen
    BY DEF SetsParent
  <1>3. CASE kf[k].first /\ ~IsOrigin(k)
    <2>1. /\ kf' = [kf EXCEPT ![k].parent = call[t].to] /\ lock' = [lock EXCEPT ![k] = t]
          /\ Goto(t, "addChild") /\ "addChild" \in CallPcs
      BY <1>3 DEF SetsParent, Take, CallPcs, Connecting
    <2>2. /\ call' \in [Threads -> CallRecord] /\ OthersWait(t)
          /\ call'[t].pc = "addChild" /\ call'[t].kf = k /\ call'[t].to = call[t].to
      BY <1>1, <2>1, GotoLemma
    <2>3. call[t].to \in NodesOrNull
      BY <1>1 DEF CallRecord
    <2>4. kf' \in [KeyFrames -> KeyFrameRecord]
      BY <1>1, <2>1, <2>3 DEF TreeTypeOK, KeyFrameRecord
    <2>5. \A x \in KeyFrames :
             /\ kf'[x].parent = (IF x = k THEN call[t].to ELSE kf[x].parent)
             /\ kf'[x].children = kf[x].children /\ kf'[x].bad = kf[x].bad
             /\ kf'[x].first = kf[x].first /\ kf'[x].notErase = kf[x].notErase
             /\ kf'[x].inMap = kf[x].inMap /\ kf'[x].loopEdges = kf[x].loopEdges
      BY <1>1, <2>1 DEF TreeTypeOK, KeyFrameRecord
    <2>6. TreeTypeOK' /\ SameMarks
      BY <1>1, <1>2, <2>1, <2>2, <2>4, <2>5, LockTyped DEF TreeTypeOK, SameMarks
    <2> QED BY <1>1, <1>2, <1>3, <2>1, <2>2, <2>5, <2>6
  <1>4. CASE ~(kf[k].first /\ ~IsOrigin(k))
    <2>1. kf' = kf /\ lock' = lock /\ Return(t)
      BY <1>4 DEF SetsParent
    <2>2. lock' \in [KeyFrames -> Threads \cup {NULL}]
      BY <1>1, <2>1 DEF TreeTypeOK
    <2> QED BY <1>1, <1>2, <1>4, <2>1, <2>2, ReturnLemma, SameTree
  <1> QED BY <1>3, <1>4

\* AddChild adds the keyframe to the children of a parent that nobody holds.
LEMMA AddChildEffect ==
    ASSUME Typed, NEW t \in Threads, AddChild(t)
    PROVE  LET k == call[t].kf  p == call[t].to IN
           /\ TreeTypeOK' /\ OthersWait(t) /\ SameMarks
           /\ call[t].pc = "addChild" /\ call'[t].pc = "none"
           /\ k \in KeyFrames /\ p \in made /\ lock[p] = NULL
           /\ lock' = [lock EXCEPT ![k] = NULL] /\ stolen' = stolen
           /\ astray' = (IF Good(p) THEN astray \ {k} ELSE astray \cup {k})
           /\ \A x \in KeyFrames :
                /\ kf'[x].parent = kf[x].parent /\ kf'[x].bad = kf[x].bad
                /\ kf'[x].children = (IF x = p THEN kf[x].children \cup {k} ELSE kf[x].children)
                /\ (x = k => kf'[x].first = FALSE) /\ (x # k => kf'[x].first = kf[x].first)
  <1> DEFINE k == call[t].kf  p == call[t].to
  <1>1. /\ TreeTypeOK /\ call[t].pc = "addChild" /\ k \in KeyFrames /\ p \in made /\ p \in KeyFrames
        /\ lock[p] = NULL
    BY DEF Typed, TreeTypeOK, Arguments, AddChild, Free
  <1>2. /\ made' = made /\ database' = database /\ stolen' = stolen /\ Return(t)
        /\ astray' = (IF Good(p) THEN astray \ {k} ELSE astray \cup {k})
        /\ kf' = [kf EXCEPT ![p].children = @ \cup {k}, ![k].first = FALSE]
        /\ lock' = [lock EXCEPT ![k] = NULL]
    BY DEF AddChild, Adopted, Release
  <1> HIDE DEF k, p
  <1>3. call' \in [Threads -> CallRecord] /\ OthersWait(t) /\ call'[t].pc = "none"
    BY <1>1, <1>2, ReturnLemma
  <1> DEFINE q == [kf[p] EXCEPT !.children = @ \cup {k}]
             g == [kf EXCEPT ![p] = q]
             r == [g[k] EXCEPT !.first = FALSE]
  <1>4. kf[p] \in KeyFrameRecord /\ kf[p].children \cup {k} \in SUBSET KeyFrames
    BY <1>1 DEF TreeTypeOK, KeyFrameRecord
  <1>5. /\ q \in KeyFrameRecord /\ q.children = kf[p].children \cup {k}
        /\ q.parent = kf[p].parent /\ q.first = kf[p].first /\ q.bad = kf[p].bad
        /\ q.notErase = kf[p].notErase /\ q.loopEdges = kf[p].loopEdges /\ q.inMap = kf[p].inMap
    BY <1>4 DEF KeyFrameRecord
  <1>6. g \in [KeyFrames -> KeyFrameRecord] /\ g[p] = q /\ \A x \in KeyFrames \ {p} : g[x] = kf[x]
    <2> HIDE DEF q
    <2> QED BY <1>1, <1>5 DEF TreeTypeOK
  <1>7. kf' = [g EXCEPT ![k] = r]
    BY <1>2
  <1> HIDE DEF q, g
  <1>typed. g[k] \in KeyFrameRecord
    BY <1>1, <1>6
  <1>8. /\ r \in KeyFrameRecord /\ r.first = FALSE
        /\ r.parent = g[k].parent /\ r.children = g[k].children /\ r.bad = g[k].bad
        /\ r.notErase = g[k].notErase /\ r.loopEdges = g[k].loopEdges /\ r.inMap = g[k].inMap
    BY <1>typed DEF KeyFrameRecord
  <1> HIDE DEF r
  <1>10. /\ kf' \in [KeyFrames -> KeyFrameRecord] /\ kf'[k] = r
         /\ \A x \in KeyFrames \ {k} : kf'[x] = g[x]
    BY <1>1, <1>6, <1>7, <1>8
  <1>11. \A x \in KeyFrames :
           /\ kf'[x].parent = kf[x].parent /\ kf'[x].bad = kf[x].bad
           /\ kf'[x].children = (IF x = p THEN kf[x].children \cup {k} ELSE kf[x].children)
           /\ (x = k => kf'[x].first = FALSE) /\ (x # k => kf'[x].first = kf[x].first)
           /\ kf'[x].notErase = kf[x].notErase
           /\ kf'[x].inMap = kf[x].inMap /\ kf'[x].loopEdges = kf[x].loopEdges
    BY <1>5, <1>6, <1>8, <1>10
  <1>9. TreeTypeOK' /\ SameMarks
    BY <1>1, <1>2, <1>3, <1>10, <1>11, LockTyped DEF TreeTypeOK, SameMarks
  <1> QED BY <1>1, <1>2, <1>3, <1>9, <1>11 DEF k, p

\* SetBadFlag goes on only if the keyframe is neither an origin nor protected.
LEMMA AsksEffect ==
    ASSUME Typed, NEW t \in Threads, AsksToErase(t)
    PROVE  LET k == call[t].kf IN
           /\ TreeTypeOK' /\ OthersWait(t) /\ SameLinks /\ SameMarks /\ lock' = lock
           /\ call[t].pc = "ask"
           /\ \/ call'[t].pc = "none"
              \/ /\ call'[t].pc = "unlink" /\ call'[t].kf = k
                 /\ ~IsOrigin(k) /\ ~kf[k].notErase
  <1> DEFINE k == call[t].kf
  <1>1. TreeTypeOK /\ call[t].pc = "ask" /\ k \in KeyFrames
    BY DEF Typed, TreeTypeOK, Arguments, AsksToErase
  <1>2. /\ made' = made /\ database' = database /\ astray' = astray /\ stolen' = stolen /\ lock' = lock
        /\ kf' = [kf EXCEPT ![k].toBeErased = @ \/ (kf[k].notErase /\ ~IsOrigin(k))]
        /\ Return(t) \/ (~IsOrigin(k) /\ ~kf[k].notErase /\ Goto(t, "unlink"))
    BY DEF AsksToErase
  <1> HIDE DEF k
  <1>3. kf' \in [KeyFrames -> KeyFrameRecord]
    <2>1. kf[k].toBeErased \in BOOLEAN /\ kf[k].notErase \in BOOLEAN
      BY <1>1 DEF TreeTypeOK, KeyFrameRecord
    <2>2. (kf[k].toBeErased \/ (kf[k].notErase /\ ~IsOrigin(k))) \in BOOLEAN
      OBVIOUS
    <2> QED BY <1>1, <1>2, <2>2 DEF TreeTypeOK, KeyFrameRecord
  <1>4. \A x \in KeyFrames :
           /\ kf'[x].parent = kf[x].parent /\ kf'[x].bad = kf[x].bad
           /\ kf'[x].children = kf[x].children
           /\ kf'[x].first = kf[x].first /\ kf'[x].notErase = kf[x].notErase
           /\ kf'[x].inMap = kf[x].inMap /\ kf'[x].loopEdges = kf[x].loopEdges
    BY <1>1, <1>2 DEF TreeTypeOK, KeyFrameRecord
  <1>5. /\ call' \in [Threads -> CallRecord] /\ OthersWait(t)
        /\ call'[t].pc = "none" \/ (call'[t].pc = "unlink" /\ call'[t].kf = call[t].kf
                                      /\ ~IsOrigin(k) /\ ~kf[k].notErase)
    <2>1. "unlink" \in CallPcs
      BY DEF CallPcs, Erasing, Chosen
    <2> QED BY <1>1, <1>2, <2>1, ReturnLemma, GotoLemma
  <1>6. TreeTypeOK' /\ SameMarks /\ SameLinks
    BY <1>1, <1>2, <1>3, <1>4, <1>5 DEF TreeTypeOK, SameMarks, SameLinks
  <1> QED BY <1>1, <1>2, <1>5, <1>6 DEF k

\* SetBadFlag takes the keyframe's own mutex; its parent is the first candidate.
LEMMA TakesOwnEffect ==
    ASSUME Typed, NEW t \in Threads, TakesOwn(t)
    PROVE  LET k == call[t].kf IN
           /\ TreeTypeOK' /\ OthersWait(t) /\ SameLinks /\ SameMarks
           /\ call[t].pc = "own" /\ lock[k] = NULL /\ lock' = [lock EXCEPT ![k] = t]
           /\ call'[t].pc = "scan" /\ call'[t].kf = k /\ call'[t].cands = {kf[k].parent} \ {NULL}
  <1> DEFINE k == call[t].kf
  <1>1. TreeTypeOK /\ call[t].pc = "own" /\ k \in KeyFrames
    BY DEF Typed, TreeTypeOK, Arguments, TakesOwn
  <1>2. /\ made' = made /\ database' = database /\ astray' = astray /\ stolen' = stolen /\ kf' = kf
        /\ lock' = [lock EXCEPT ![k] = t] /\ lock[k] = NULL
    BY DEF TakesOwn, Take, Free
  <1>3. lock' \in [KeyFrames -> Threads \cup {NULL}]
    BY <1>1, <1>2, LockTyped
  <1> DEFINE r == [NoCall EXCEPT !.pc = "scan", !.kf = k, !.scan = kf[k].children,
                                 !.cands = {kf[k].parent} \ {NULL}]
  <1>4. call' = [call EXCEPT ![t] = r]
    BY DEF TakesOwn
  <1>5. "scan" \in CallPcs /\ kf[k].children \in SUBSET KeyFrames /\ kf[k].parent \in NodesOrNull
    BY <1>1 DEF CallPcs, Erasing, Chosen, Holding, TreeTypeOK, KeyFrameRecord
  <1>6. r \in CallRecord /\ r.pc = "scan" /\ r.kf = k /\ r.cands = {kf[k].parent} \ {NULL}
    <2> HIDE DEF k
    <2> QED BY <1>1, <1>5 DEF NoCall, CallRecord, NodesOrNull
  <1> HIDE DEF r
  <1>7. /\ call' \in [Threads -> CallRecord] /\ OthersWait(t)
        /\ call'[t] = r
    BY <1>1, <1>4, <1>6, CallUpdate
  <1> QED BY <1>1, <1>2, <1>3, <1>6, <1>7, SameTree

\* SetBadFlag looks at the next child.
LEMMA ScansEffect ==
    ASSUME Typed, NEW t \in Threads, ScansChild(t)
    PROVE  /\ TreeTypeOK' /\ OthersWait(t) /\ SameLinks /\ SameMarks /\ lock' = lock
           /\ call[t].pc = "scan" /\ call'[t].pc = "scan"
           /\ call'[t].kf = call[t].kf /\ call'[t].cands = call[t].cands
  <1>1. /\ made' = made /\ database' = database /\ astray' = astray /\ stolen' = stolen /\ kf' = kf
        /\ lock' = lock /\ call[t].pc = "scan"
    BY DEF ScansChild
  <1>2. PICK c \in call[t].scan :
          call' = [call EXCEPT ![t].scan = @ \ {c}, ![t].able = @ \cup {x \in {c} : Good(x)}]
    BY DEF ScansChild
  <1>3. TreeTypeOK /\ call[t] \in CallRecord
    BY DEF Typed, TreeTypeOK
  <1> DEFINE r == [call[t] EXCEPT !.scan = @ \ {c}, !.able = @ \cup {x \in {c} : Good(x)}]
  <1>4. r \in CallRecord /\ r.pc = call[t].pc /\ r.kf = call[t].kf /\ r.cands = call[t].cands
    BY <1>3 DEF CallRecord
  <1>5. call' = [call EXCEPT ![t] = r]
    BY <1>2, <1>3 DEF TreeTypeOK, CallRecord
  <1> HIDE DEF r
  <1>6. call' \in [Threads -> CallRecord] /\ OthersWait(t) /\ call'[t] = r
    BY <1>3, <1>4, <1>5, CallUpdate
  <1>7. lock' \in [KeyFrames -> Threads \cup {NULL}]
    BY <1>1, <1>3 DEF TreeTypeOK
  <1> QED BY <1>1, <1>3, <1>4, <1>6, <1>7, SameTree

\* SetBadFlag chooses a child and one of the candidates, or has none left.
LEMMA ChoosesEffect ==
    ASSUME Typed, NEW t \in Threads, ChoosesParent(t)
    PROVE  /\ TreeTypeOK' /\ OthersWait(t) /\ SameLinks /\ SameMarks /\ lock' = lock
           /\ call[t].pc = "scan"
           /\ call'[t].kf = call[t].kf /\ call'[t].cands = call[t].cands
           /\ \/ /\ call'[t].pc = "give" /\ call'[t].child \in KeyFrames
                 /\ call'[t].to \in call[t].cands /\ call'[t].to # call'[t].child
              \/ call'[t].pc = "rest" /\ call'[t].scan = kf[call[t].kf].children
  <1>1. /\ made' = made /\ database' = database /\ astray' = astray /\ stolen' = stolen /\ kf' = kf
        /\ lock' = lock /\ call[t].pc = "scan"
    BY DEF ChoosesParent
  <1>2. TreeTypeOK /\ call[t] \in CallRecord /\ call[t].kf \in KeyFrames
    BY <1>1 DEF Typed, TreeTypeOK, Arguments
  <1>3. lock' \in [KeyFrames -> Threads \cup {NULL}]
    BY <1>1, <1>2 DEF TreeTypeOK
  <1>4. "give" \in CallPcs /\ "rest" \in CallPcs
    BY DEF CallPcs, Erasing, Chosen, Holding
  <1>5. CASE \E c \in call[t].able : \E p \in call[t].cands \ {c} :
               call' = [call EXCEPT ![t].pc = "give", ![t].child = c, ![t].to = p]
    <2>1. PICK c \in call[t].able : \E p \in call[t].cands \ {c} :
               call' = [call EXCEPT ![t].pc = "give", ![t].child = c, ![t].to = p]
      BY <1>5
    <2>6. PICK p \in call[t].cands \ {c} :
               call' = [call EXCEPT ![t].pc = "give", ![t].child = c, ![t].to = p]
      BY <2>1
    <2>2. c \in KeyFrames /\ c \in NodesOrNull /\ p \in NodesOrNull /\ p # c /\ p \in call[t].cands
      BY <1>2 DEF CallRecord, NodesOrNull
    <2> DEFINE r == [call[t] EXCEPT !.pc = "give", !.child = c, !.to = p]
    <2>3. /\ r \in CallRecord /\ r.pc = "give" /\ r.child = c /\ r.kf = call[t].kf /\ r.to = p
          /\ r.cands = call[t].cands
      BY <1>2, <1>4, <2>2 DEF CallRecord
    <2>4. call' = [call EXCEPT ![t] = r]
      BY <2>6
    <2> HIDE DEF r
    <2>5. call' \in [Threads -> CallRecord] /\ OthersWait(t) /\ call'[t] = r
      BY <1>2, <2>3, <2>4, CallUpdate
    <2> QED BY <1>1, <1>2, <1>3, <2>2, <2>3, <2>5, SameTree
  <1>6. CASE call' = [call EXCEPT ![t].pc = "rest", ![t].scan = kf[call[t].kf].children]
    <2> DEFINE r == [call[t] EXCEPT !.pc = "rest", !.scan = kf[call[t].kf].children]
    <2>1. kf[call[t].kf].children \in SUBSET KeyFrames
      BY <1>2 DEF TreeTypeOK, KeyFrameRecord
    <2>2. /\ r \in CallRecord /\ r.pc = "rest" /\ r.kf = call[t].kf /\ r.cands = call[t].cands
          /\ r.scan = kf[call[t].kf].children
      BY <1>2, <1>4, <2>1 DEF CallRecord
    <2>3. call' = [call EXCEPT ![t] = r]
      BY <1>2, <1>6 DEF TreeTypeOK, CallRecord
    <2> HIDE DEF r
    <2>4. call' \in [Threads -> CallRecord] /\ OthersWait(t) /\ call'[t] = r
      BY <1>2, <2>2, <2>3, CallUpdate
    <2> QED BY <1>1, <1>2, <1>3, <2>2, <2>4, SameTree
  <1> QED BY <1>5, <1>6 DEF ChoosesParent

\* The child's parent is set; it stays in the list of its old one.
LEMMA ChangeParentEffect ==
    ASSUME Typed, NEW t \in Threads, NEW c \in KeyFrames, NEW p \in NodesOrNull, NEW next \in CallPcs,
           ChangeParent(t, c, p, next)
    PROVE  /\ TreeTypeOK' /\ OthersWait(t) /\ SameMarks
           /\ lock[c] = NULL /\ lock' = [lock EXCEPT ![c] = t] /\ astray' = astray
           /\ call'[t].pc = (IF p \in {NULL, c} THEN "crashed" ELSE next)
           /\ call'[t].child = c /\ call'[t].to = p /\ call'[t].kf = call[t].kf
           /\ call'[t].scan = call[t].scan /\ call'[t].cands = call[t].cands
           /\ stolen' = {} => stolen = {} /\ kf[c].parent = call[t].kf
           /\ \A x \in KeyFrames :
                /\ kf'[x].parent = (IF x = c /\ p # c THEN p ELSE kf[x].parent)
                /\ kf'[x].children = kf[x].children
                /\ kf'[x].bad = kf[x].bad /\ kf'[x].first = kf[x].first
  <1>1. TreeTypeOK /\ call[t] \in CallRecord
    BY DEF Typed, TreeTypeOK
  <1>2. /\ made' = made /\ database' = database /\ astray' = astray
        /\ lock[c] = NULL /\ lock' = [lock EXCEPT ![c] = t]
        /\ kf' = [kf EXCEPT ![c].parent = IF p = c THEN @ ELSE p]
        /\ stolen' = stolen \cup {x \in {c} : kf[x].parent # call[t].kf}
    BY DEF ChangeParent, Free, Take
  <1>3. kf' \in [KeyFrames -> KeyFrameRecord]
    BY <1>1, <1>2 DEF TreeTypeOK, KeyFrameRecord
  <1>4. \A x \in KeyFrames :
           /\ kf'[x].parent = (IF x = c /\ p # c THEN p ELSE kf[x].parent)
           /\ kf'[x].children = kf[x].children /\ kf'[x].bad = kf[x].bad
           /\ kf'[x].first = kf[x].first /\ kf'[x].notErase = kf[x].notErase
           /\ kf'[x].inMap = kf[x].inMap /\ kf'[x].loopEdges = kf[x].loopEdges
    BY <1>1, <1>2 DEF TreeTypeOK, KeyFrameRecord
  <1> DEFINE a == IF p \in {NULL, c} THEN "crashed" ELSE next
             r == [call[t] EXCEPT !.pc = a, !.child = c, !.to = p]
  <1>5. a \in CallPcs
    BY DEF CallPcs, Erasing
  <1>6. call' = [call EXCEPT ![t] = r]
    BY DEF ChangeParent
  <1>7. /\ r \in CallRecord /\ r.pc = a /\ r.child = c /\ r.to = p /\ r.kf = call[t].kf
        /\ r.scan = call[t].scan /\ r.cands = call[t].cands
    <2> HIDE DEF a
    <2> QED BY <1>1, <1>5 DEF CallRecord, NodesOrNull
  <1> HIDE DEF r
  <1>8. call' \in [Threads -> CallRecord] /\ OthersWait(t) /\ call'[t] = r
    BY <1>1, <1>6, <1>7, CallUpdate
  <1>9. TreeTypeOK' /\ SameMarks
    BY <1>1, <1>2, <1>3, <1>4, <1>8, LockTyped DEF TreeTypeOK, SameMarks
  <1>10. stolen' = {} => stolen = {} /\ kf[c].parent = call[t].kf
    BY <1>2
  <1> QED BY <1>2, <1>4, <1>7, <1>8, <1>9, <1>10

\* The new parent adds the child, the keyframe loses it.
LEMMA AdoptsEffect ==
    ASSUME Typed, NEW t \in Threads, AdoptsChild(t)
    PROVE  LET k == call[t].kf  c == call[t].child  p == call[t].to IN
           /\ TreeTypeOK' /\ OthersWait(t) /\ SameMarks
           /\ k \in KeyFrames /\ c \in KeyFrames /\ p \in KeyFrames /\ lock[p] = NULL
           /\ lock' = [lock EXCEPT ![c] = NULL] /\ stolen' = stolen
           /\ astray' = (IF Good(p) THEN astray \ {c} ELSE astray \cup {c})
           /\ call'[t].kf = k
           /\ \A x \in KeyFrames :
                /\ kf'[x].parent = kf[x].parent /\ kf'[x].bad = kf[x].bad /\ kf'[x].first = kf[x].first
                /\ x # p => kf'[x].children \in SUBSET kf[x].children
                /\ kf[x].children \ {c} \in SUBSET kf'[x].children
                /\ x # k => kf[x].children \in SUBSET kf'[x].children
                /\ x = p => kf'[x].children \in SUBSET (kf[x].children \cup {c})
                /\ x = p /\ x # k => c \in kf'[x].children
           /\ \/ /\ call[t].pc = "given" /\ call'[t].pc = "scan"
                 /\ call'[t].cands = call[t].cands \cup {c}
              \/ /\ call[t].pc = "restGiven" /\ call'[t].pc = "rest"
                 /\ call'[t].cands = call[t].cands /\ call'[t].scan = call[t].scan \ {c}
  <1> DEFINE k == call[t].kf  c == call[t].child  p == call[t].to
  <1>1. /\ TreeTypeOK /\ call[t] \in CallRecord /\ k \in KeyFrames /\ c \in KeyFrames /\ p \in KeyFrames
        /\ lock[p] = NULL
    BY DEF Typed, TreeTypeOK, AdoptsChild, Arguments, Free
  <1>2. /\ made' = made /\ database' = database /\ stolen' = stolen
        /\ astray' = (IF Good(p) THEN astray \ {c} ELSE astray \cup {c})
        /\ lock' = [lock EXCEPT ![c] = NULL]
    BY DEF AdoptsChild, Adopted, Release
  <1> DEFINE q == [kf[p] EXCEPT !.children = @ \cup {c}]
             g == [kf EXCEPT ![p] = q]
             s == [g[k] EXCEPT !.children = kf[k].children \ {c}]
  <1>3. kf[p] \in KeyFrameRecord /\ kf[p].children \cup {c} \in SUBSET KeyFrames
    BY <1>1 DEF TreeTypeOK, KeyFrameRecord
  <1>4. /\ q \in KeyFrameRecord /\ q.children = kf[p].children \cup {c}
        /\ q.parent = kf[p].parent /\ q.first = kf[p].first /\ q.bad = kf[p].bad
        /\ q.notErase = kf[p].notErase /\ q.loopEdges = kf[p].loopEdges /\ q.inMap = kf[p].inMap
    BY <1>3 DEF KeyFrameRecord
  <1>5. g \in [KeyFrames -> KeyFrameRecord] /\ g[p] = q /\ \A x \in KeyFrames \ {p} : g[x] = kf[x]
    <2> HIDE DEF q
    <2> QED BY <1>1, <1>4 DEF TreeTypeOK
  <1>6. \/ /\ call[t].pc = "given" /\ kf' = [g EXCEPT ![k] = s]
           /\ call' = [call EXCEPT ![t].pc = "scan", ![t].scan = kf[k].children \ {c},
                                  ![t].able = {}, ![t].cands = @ \cup {c},
                                  ![t].child = NULL, ![t].to = NULL]
        \/ /\ call[t].pc = "restGiven" /\ kf' = g
           /\ call' = [call EXCEPT ![t].pc = "rest", ![t].scan = @ \ {c},
                                  ![t].child = NULL, ![t].to = NULL]
    BY DEF AdoptsChild
  <1> HIDE DEF q, g
  <1>7. g[k] \in KeyFrameRecord
    BY <1>1, <1>5
  <1>fewer. kf[k].children \ {c} \in SUBSET KeyFrames
    BY <1>1 DEF TreeTypeOK, KeyFrameRecord
  <1>8. /\ s \in KeyFrameRecord /\ s.children = kf[k].children \ {c}
        /\ s.parent = g[k].parent /\ s.first = g[k].first /\ s.bad = g[k].bad
        /\ s.notErase = g[k].notErase /\ s.loopEdges = g[k].loopEdges /\ s.inMap = g[k].inMap
    BY <1>7, <1>fewer DEF KeyFrameRecord
  <1> HIDE DEF s, k, c, p
  <1>9. \A x \in KeyFrames :
           /\ g[x].parent = kf[x].parent /\ g[x].bad = kf[x].bad /\ g[x].first = kf[x].first
           /\ g[x].children = (IF x = p THEN kf[x].children \cup {c} ELSE kf[x].children)
           /\ g[x].notErase = kf[x].notErase
           /\ g[x].inMap = kf[x].inMap /\ g[x].loopEdges = kf[x].loopEdges
    BY <1>4, <1>5
  <1>10. CASE /\ call[t].pc = "given" /\ kf' = [g EXCEPT ![k] = s]
              /\ call' = [call EXCEPT ![t].pc = "scan", ![t].scan = kf[k].children \ {c},
                                     ![t].able = {}, ![t].cands = @ \cup {c},
                                     ![t].child = NULL, ![t].to = NULL]
    <2> DEFINE r == [call[t] EXCEPT !.pc = "scan", !.scan = kf[k].children \ {c}, !.able = {},
                                    !.cands = @ \cup {c}, !.child = NULL, !.to = NULL]
    <2>1. kf[k].children \ {c} \in SUBSET KeyFrames /\ "scan" \in CallPcs
      BY <1>1 DEF TreeTypeOK, KeyFrameRecord, CallPcs, Erasing, Chosen, Holding
    <2>2. r \in CallRecord /\ r.pc = "scan" /\ r.kf = call[t].kf /\ r.cands = call[t].cands \cup {c}
      BY <1>1, <2>1 DEF CallRecord, NodesOrNull
    <2>3. call' = [call EXCEPT ![t] = r]
      BY <1>10
    <2> HIDE DEF r
    <2>4. call' \in [Threads -> CallRecord] /\ OthersWait(t) /\ call'[t] = r
      BY <1>1, <2>2, <2>3, CallUpdate
    <2>5. /\ kf' \in [KeyFrames -> KeyFrameRecord] /\ kf'[k] = s
          /\ \A x \in KeyFrames \ {k} : kf'[x] = g[x]
      BY <1>1, <1>5, <1>8, <1>10
    <2>6. \A x \in KeyFrames :
           /\ kf'[x].parent = kf[x].parent /\ kf'[x].bad = kf[x].bad /\ kf'[x].first = kf[x].first
           /\ kf'[x].children = (IF x = k THEN kf[x].children \ {c} ELSE g[x].children)
           /\ kf'[x].notErase = kf[x].notErase
           /\ kf'[x].inMap = kf[x].inMap /\ kf'[x].loopEdges = kf[x].loopEdges
      <3>1. \A x \in KeyFrames \ {k} : kf'[x] = g[x]
        BY <2>5
      <3>2. kf'[k] = s
        BY <2>5
      <3>3. \A x \in KeyFrames \ {k} :
           /\ kf'[x].parent = kf[x].parent /\ kf'[x].bad = kf[x].bad /\ kf'[x].first = kf[x].first
           /\ kf'[x].children = g[x].children
           /\ kf'[x].notErase = kf[x].notErase
           /\ kf'[x].inMap = kf[x].inMap /\ kf'[x].loopEdges = kf[x].loopEdges
        BY <1>9, <3>1
      <3>4. /\ kf'[k].parent = kf[k].parent /\ kf'[k].bad = kf[k].bad /\ kf'[k].first = kf[k].first
            /\ kf'[k].children = kf[k].children \ {c}
            /\ kf'[k].notErase = kf[k].notErase
            /\ kf'[k].inMap = kf[k].inMap /\ kf'[k].loopEdges = kf[k].loopEdges
        BY <1>1, <1>8, <1>9, <3>2 DEF k
      <3> QED BY <3>3, <3>4
    <2>7. TreeTypeOK' /\ SameMarks
      BY <1>1, <1>2, <2>4, <2>5, <2>6, LockTyped DEF TreeTypeOK, SameMarks
    <2>8. call[t].pc = "given" /\ call'[t].pc = "scan" /\ call'[t].cands = call[t].cands \cup {c}
          /\ call'[t].kf = call[t].kf
      BY <1>10, <2>2, <2>4
    <2>9. \A x \in KeyFrames :
             /\ kf'[x].parent = kf[x].parent /\ kf'[x].bad = kf[x].bad /\ kf'[x].first = kf[x].first
             /\ x # p => kf'[x].children \in SUBSET kf[x].children
             /\ kf[x].children \ {c} \in SUBSET kf'[x].children
             /\ x # k => kf[x].children \in SUBSET kf'[x].children
             /\ x = p => kf'[x].children \in SUBSET (kf[x].children \cup {c})
             /\ x = p /\ x # k => c \in kf'[x].children
      BY <1>9, <2>6
    <2> QED BY <1>1, <1>2, <2>4, <2>7, <2>8, <2>9 DEF k, c, p
  <1>11. CASE /\ call[t].pc = "restGiven" /\ kf' = g
              /\ call' = [call EXCEPT ![t].pc = "rest", ![t].scan = @ \ {c},
                                     ![t].child = NULL, ![t].to = NULL]
    <2> DEFINE r == [call[t] EXCEPT !.pc = "rest", !.scan = @ \ {c}, !.child = NULL, !.to = NULL]
    <2>1. "rest" \in CallPcs
      BY DEF CallPcs, Erasing, Chosen, Holding
    <2>2. /\ r \in CallRecord /\ r.pc = "rest" /\ r.kf = call[t].kf /\ r.cands = call[t].cands
          /\ r.scan = call[t].scan \ {c}
      BY <1>1, <2>1 DEF CallRecord, NodesOrNull
    <2>3. call' = [call EXCEPT ![t] = r]
      BY <1>11
    <2> HIDE DEF r
    <2>4. call' \in [Threads -> CallRecord] /\ OthersWait(t) /\ call'[t] = r
      BY <1>1, <2>2, <2>3, CallUpdate
    <2>7. TreeTypeOK' /\ SameMarks
      BY <1>1, <1>2, <1>5, <1>9, <1>11, <2>4, LockTyped DEF TreeTypeOK, SameMarks
    <2>8. /\ call[t].pc = "restGiven" /\ call'[t].pc = "rest" /\ call'[t].cands = call[t].cands
          /\ call'[t].kf = call[t].kf /\ call'[t].scan = call[t].scan \ {c}
      BY <1>11, <2>2, <2>4
    <2>9. \A x \in KeyFrames :
             /\ kf'[x].parent = kf[x].parent /\ kf'[x].bad = kf[x].bad /\ kf'[x].first = kf[x].first
             /\ x # p => kf'[x].children \in SUBSET kf[x].children
             /\ kf[x].children \ {c} \in SUBSET kf'[x].children
             /\ x # k => kf[x].children \in SUBSET kf'[x].children
             /\ x = p => kf'[x].children \in SUBSET (kf[x].children \cup {c})
             /\ x = p /\ x # k => c \in kf'[x].children
      BY <1>9, <1>11
    <2> QED BY <1>1, <1>2, <2>4, <2>7, <2>8, <2>9 DEF k, c, p
  <1> QED BY <1>6, <1>10, <1>11

\* The keyframe turns bad and is taken from its parent's children.
LEMMA TurnsBadEffect ==
    ASSUME Typed, NEW t \in Threads, TurnsBad(t)
    PROVE  LET k == call[t].kf IN
           /\ TreeTypeOK' /\ OthersWait(t) /\ SameMarks /\ k \in KeyFrames
           /\ lock' = [lock EXCEPT ![k] = NULL] /\ astray' = astray /\ stolen' = stolen
           /\ call[t].pc = "rest" /\ call[t].scan = {} /\ call'[t].pc = "forget" /\ call'[t].kf = k
           /\ \A x \in KeyFrames :
                /\ kf'[x].parent = kf[x].parent /\ kf'[x].first = kf[x].first
                /\ (x = k => kf'[x].bad = TRUE) /\ (x # k => kf'[x].bad = kf[x].bad)
                /\ kf'[x].children \in SUBSET kf[x].children
                /\ kf[x].children \ {k} \in SUBSET kf'[x].children
  <1> DEFINE k == call[t].kf  p == kf[k].parent
             Erased(x) == [kf[x] EXCEPT !.bad = TRUE]
             Bereft(x) == [kf[x] EXCEPT !.children = @ \ {k}]
             g == [x \in KeyFrames |-> CASE x = k -> Erased(x) [] x = p -> Bereft(x) [] OTHER -> kf[x]]
  <1>1. TreeTypeOK /\ call[t] \in CallRecord /\ k \in KeyFrames
    BY DEF Typed, TreeTypeOK, TurnsBad, Arguments
  <1>2. /\ made' = made /\ database' = database /\ stolen' = stolen /\ astray' = astray
        /\ lock' = [lock EXCEPT ![k] = NULL] /\ kf' = g
        /\ call[t].pc = "rest" /\ call[t].scan = {} /\ Goto(t, "forget")
    BY DEF TurnsBad, Release
  <1>3. /\ call' \in [Threads -> CallRecord] /\ OthersWait(t)
        /\ call'[t].pc = "forget" /\ call'[t].kf = k
    <2>1. "forget" \in CallPcs
      BY DEF CallPcs, Erasing
    <2> QED BY <1>1, <1>2, <2>1, GotoLemma
  <1>other. p # k
    <2>1. lock[k] = t /\ (p # NULL => lock[p] = NULL)
      BY <1>2 DEF Typed, Locks, Holding, TurnsBad, Free
    <2> QED BY <1>1, <2>1, NullIsNoKeyFrame
  <1> HIDE DEF k, p
  <1>4. ASSUME NEW x \in KeyFrames
        PROVE  /\ g[x] \in KeyFrameRecord
               /\ g[x].parent = kf[x].parent /\ g[x].first = kf[x].first
               /\ (x = k => g[x].bad = TRUE) /\ (x # k => g[x].bad = kf[x].bad)
               /\ g[x].children \in SUBSET kf[x].children
               /\ kf[x].children \ {k} \in SUBSET g[x].children
               /\ g[x].notErase = kf[x].notErase
               /\ g[x].inMap = kf[x].inMap /\ g[x].loopEdges = kf[x].loopEdges
    <2>1. kf[x] \in KeyFrameRecord
      BY <1>1 DEF TreeTypeOK
    <2>2. /\ Erased(x) \in KeyFrameRecord
          /\ Erased(x).parent = kf[x].parent /\ Erased(x).first = kf[x].first
          /\ Erased(x).bad = TRUE /\ Erased(x).children = kf[x].children
          /\ Erased(x).notErase = kf[x].notErase
          /\ Erased(x).inMap = kf[x].inMap /\ Erased(x).loopEdges = kf[x].loopEdges
      BY <2>1 DEF KeyFrameRecord
    <2>3. /\ Bereft(x) \in KeyFrameRecord
          /\ Bereft(x).parent = kf[x].parent /\ Bereft(x).first = kf[x].first
          /\ Bereft(x).bad = kf[x].bad /\ Bereft(x).children = kf[x].children \ {k}
          /\ Bereft(x).notErase = kf[x].notErase
          /\ Bereft(x).inMap = kf[x].inMap /\ Bereft(x).loopEdges = kf[x].loopEdges
      BY <2>1 DEF KeyFrameRecord
    <2> HIDE DEF Erased, Bereft
    <2>4. \/ x = k /\ g[x] = Erased(x)
          \/ x # k /\ x = p /\ g[x] = Bereft(x)
          \/ x # k /\ g[x] = kf[x]
      <3>1. CASE x = k
        BY <1>other, <3>1
      <3>2. CASE x # k /\ x = p
        BY <3>2
      <3>3. CASE x # k /\ x # p
        BY <3>3
      <3> QED BY <3>1, <3>2, <3>3
    <2> HIDE DEF g
    <2> QED BY <2>1, <2>2, <2>3, <2>4
  <1>5. g \in [KeyFrames -> KeyFrameRecord]
    BY <1>4
  <1> HIDE DEF g
  <1>6. TreeTypeOK' /\ SameMarks
    BY <1>1, <1>2, <1>3, <1>4, <1>5, LockTyped DEF TreeTypeOK, SameMarks
  <1> QED BY <1>1, <1>2, <1>3, <1>4, <1>6 DEF k

\* The map and the database lose the keyframe.
LEMMA ForgetsEffect ==
    ASSUME Typed, NEW t \in Threads, ForgetsKeyFrame(t)
    PROVE  /\ TreeTypeOK' /\ OthersWait(t) /\ SameLinks /\ SameMarks /\ lock' = lock
           /\ call[t].pc = "forget" /\ call'[t].pc = "none"
  <1>1. /\ made' = made /\ stolen' = stolen /\ astray' = astray /\ kf' = kf /\ lock' = lock
        /\ database' = database \ {call[t].kf} /\ call[t].pc = "forget" /\ Return(t)
    BY DEF ForgetsKeyFrame
  <1>2. TreeTypeOK
    BY DEF Typed
  <1>3. call' \in [Threads -> CallRecord] /\ OthersWait(t) /\ call'[t].pc = "none"
    BY <1>1, <1>2, ReturnLemma
  <1> QED BY <1>1, <1>2, <1>3 DEF TreeTypeOK, SameLinks, SameMarks

\* AddConnection and EraseConnection, each in its method.
LEMMA ConnectionEffect ==
    ASSUME Typed, NEW t \in Threads, EraseConnection(t) \/ AddConnection(t)
    PROVE  /\ TreeTypeOK' /\ OthersWait(t) /\ SameLinks /\ SameMarks
           /\ call'[t].kf = call[t].kf /\ call'[t].to = call[t].to
           /\ \/ call[t].pc = "unlink" /\ call'[t].pc \in {"unlinkBest", "own"}
              \/ call[t].pc = "link" /\ call'[t].pc \in {"linkBest", "join"}
           /\ \/ call'[t].pc \in {"own", "join"} /\ lock' = lock
              \/ /\ call'[t].pc \in {"unlinkBest", "linkBest"} /\ call'[t].child \in KeyFrames
                 /\ lock[call'[t].child] = NULL
                 /\ lock' = [lock EXCEPT ![call'[t].child] = t]
  <1>1. /\ {"unlinkBest", "linkBest", "own", "join"} \subseteq CallPcs
    BY DEF CallPcs, Erasing, Chosen, Connecting
  <1>2. CASE EraseConnection(t)
    <2>1. call[t].pc = "unlink" /\ Links(t, made \ {call[t].kf}, "unlinkBest", "own")
      BY <1>2 DEF EraseConnection
    <2>2. made \ {call[t].kf} \subseteq KeyFrames
      BY DEF Typed, TreeTypeOK
    <2>3. /\ TreeTypeOK' /\ OthersWait(t) /\ SameLinks /\ SameMarks
          /\ call'[t].kf = call[t].kf /\ call'[t].to = call[t].to
          /\ \/ call'[t].pc = "own" /\ lock' = lock
             \/ /\ call'[t].pc = "unlinkBest" /\ call'[t].child \in KeyFrames
                /\ lock[call'[t].child] = NULL
                /\ lock' = [lock EXCEPT ![call'[t].child] = t]
      BY <1>1, <2>1, <2>2, LinksEffect
    <2> QED BY <2>1, <2>3
  <1>3. CASE AddConnection(t)
    <2>1. call[t].pc = "link" /\ Links(t, made \cup {call[t].kf}, "linkBest", "join")
      BY <1>3 DEF AddConnection
    <2>2. made \cup {call[t].kf} \subseteq KeyFrames
      BY <2>1 DEF Typed, TreeTypeOK, Arguments
    <2>3. /\ TreeTypeOK' /\ OthersWait(t) /\ SameLinks /\ SameMarks
          /\ call'[t].kf = call[t].kf /\ call'[t].to = call[t].to
          /\ \/ call'[t].pc = "join" /\ lock' = lock
             \/ /\ call'[t].pc = "linkBest" /\ call'[t].child \in KeyFrames
                /\ lock[call'[t].child] = NULL
                /\ lock' = [lock EXCEPT ![call'[t].child] = t]
      BY <1>1, <2>1, <2>2, LinksEffect
    <2> QED BY <2>1, <2>3
  <1> QED BY <1>2, <1>3

\* What ChangeParent does with one child, in whichever of the two ways it is called.
Moves(t, c, p) ==
    /\ lock[c] = NULL /\ lock' = [lock EXCEPT ![c] = t] /\ astray' = astray
    /\ call'[t].child = c /\ call'[t].to = p /\ call'[t].kf = call[t].kf
    /\ call'[t].scan = call[t].scan /\ call'[t].cands = call[t].cands
    /\ stolen' = {} => stolen = {} /\ kf[c].parent = call[t].kf
    /\ \A x \in KeyFrames :
         /\ kf'[x].parent = (IF x = c /\ p # c THEN p ELSE kf[x].parent)
         /\ kf'[x].children = kf[x].children
         /\ kf'[x].bad = kf[x].bad /\ kf'[x].first = kf[x].first
    /\ \/ /\ call[t].pc = "give" /\ call'[t].pc = "given" /\ p \in call[t].cands /\ p \in KeyFrames
          /\ p # c
       \/ /\ call[t].pc = "rest" /\ c \in call[t].scan /\ p = kf[call[t].kf].parent
          /\ call'[t].pc = (IF p \in {NULL, c} THEN "crashed" ELSE "restGiven")

\* GivesChild and GivesRest move a child of the locked keyframe.
LEMMA GivesEffect ==
    ASSUME Typed, NEW t \in Threads, GivesChild(t) \/ GivesRest(t)
    PROVE  /\ TreeTypeOK' /\ OthersWait(t) /\ SameMarks
           /\ call[t].kf \in KeyFrames /\ lock[call[t].kf] = t
           /\ \E c \in KeyFrames, p \in NodesOrNull : Moves(t, c, p)
  <1>1. /\ {"given", "restGiven"} \subseteq CallPcs
    BY DEF CallPcs, Erasing, Chosen, Holding
  <1>2. TreeTypeOK /\ call[t] \in CallRecord /\ call[t].pc \in {"give", "rest"}
    BY DEF Typed, TreeTypeOK, GivesChild, GivesRest
  <1>3. call[t].kf \in KeyFrames /\ lock[call[t].kf] = t
    BY <1>2 DEF Typed, Arguments, Locks, Holding
  <1>4. CASE GivesChild(t)
    <2> DEFINE c == call[t].child  p == call[t].to
    <2>1. call[t].pc = "give" /\ ChangeParent(t, c, p, "given")
      BY <1>4 DEF GivesChild
    <2>2. c \in KeyFrames /\ p \in call[t].cands /\ p # c
      BY <2>1 DEF Typed, Arguments
    <2>3. p \in KeyFrames /\ p # NULL /\ p \in NodesOrNull
      BY <1>2, <2>2, NullIsNoKeyFrame DEF CallRecord, NodesOrNull
    <2> HIDE DEF c, p
    <2> QED BY <1>1, <1>3, <2>1, <2>2, <2>3, ChangeParentEffect DEF Moves
  <1>5. CASE GivesRest(t)
    <2> DEFINE p == kf[call[t].kf].parent
    <2>1. PICK c \in call[t].scan : call[t].pc = "rest" /\ ChangeParent(t, c, p, "restGiven")
      BY <1>5 DEF GivesRest
    <2>2. c \in KeyFrames /\ p \in NodesOrNull
      BY <1>2, <1>3 DEF CallRecord, TreeTypeOK, KeyFrameRecord
    <2> HIDE DEF p
    <2>3. Moves(t, c, p)
      BY <1>1, <2>1, <2>2, ChangeParentEffect DEF Moves, p
    <2>4. TreeTypeOK' /\ OthersWait(t) /\ SameMarks
      BY <1>1, <2>1, <2>2, ChangeParentEffect
    <2> QED BY <1>3, <2>2, <2>3, <2>4
  <1> QED BY <1>4, <1>5

\* An operation stays what it is, about the keyframe it was called for, to its end.
KeepsOn(t) ==
    /\ call[t].pc \in Connecting \cup Sorting \cup Erasing
    /\ call[t].pc \in Connecting => call'[t].pc \in Connecting \cup {"none"}
    /\ call[t].pc \in Sorting => call'[t].pc \in Sorting \cup {"none"}
    /\ call[t].pc \in Erasing => call'[t].pc \in Erasing \cup {"none"}
    /\ call'[t].pc # "none" => call'[t].kf = call[t].kf

\* Every step of a method keeps the types, the marks and its method.
LEMMA KeyFrameStepEffect ==
    ASSUME Typed, NEW t \in Threads, KeyFrameStep(t)
    PROVE  TreeTypeOK' /\ OthersWait(t) /\ SameMarks /\ KeepsOn(t)
  <1> USE DEF KeepsOn, Connecting, Sorting, Erasing, Chosen, Holding
  <1>1. CASE SortsOwn(t)
    BY <1>1, SortsOwnEffect
  <1>2. CASE UpdateBestCovisibles(t)
    BY <1>2, UpdateBestEffect
  <1>3. CASE CountsPoints(t)
    BY <1>3, CountsEffect
  <1>4. CASE AddConnection(t) \/ EraseConnection(t)
    BY <1>4, ConnectionEffect
  <1>5. CASE SetsParent(t)
    BY <1>5, SetsParentEffect
  <1>6. CASE AddChild(t)
    BY <1>6, AddChildEffect
  <1>7. CASE AsksToErase(t)
    BY <1>7, AsksEffect
  <1>8. CASE TakesOwn(t)
    BY <1>8, TakesOwnEffect
  <1>9. CASE ScansChild(t)
    BY <1>9, ScansEffect
  <1>10. CASE ChoosesParent(t)
    BY <1>10, ChoosesEffect
  <1>11. CASE GivesChild(t) \/ GivesRest(t)
    BY <1>11, GivesEffect DEF Moves
  <1>12. CASE AdoptsChild(t)
    BY <1>12, AdoptsEffect
  <1>13. CASE TurnsBad(t)
    BY <1>13, TurnsBadEffect
  <1>14. CASE ForgetsKeyFrame(t)
    BY <1>14, ForgetsEffect
  <1> HIDE DEF KeepsOn, Connecting, Sorting, Erasing, Chosen, Holding
  <1> QED BY <1>1, <1>2, <1>3, <1>4, <1>5, <1>6, <1>7, <1>8, <1>9, <1>10, <1>11, <1>12, <1>13, <1>14
          DEF KeyFrameStep, UpdateConnections, SetBadFlag
-----------------------------------------------------------------------------
(* What each step of the two loops does.                                   *)

\* Local mapping leaves loop closing alone, and protection.
OtherLoop == UNCHANGED <<closing, search, leaked>>
SameGuards == \A x \in KeyFrames : kf'[x].notErase = kf[x].notErase /\ kf'[x].loopEdges = kf[x].loopEdges

\* What the invariant says of the types.
LEMMA InvTyped ==
    ASSUME Inv
    PROVE  /\ Typed /\ TreeTypeOK /\ TypeOK /\ mapping \in MappingRecord /\ closing \in ClosingRecord
           /\ tracking.id \in Nat /\ tracking.map \in Maps
           /\ made \in SUBSET KeyFrames /\ mapper \in Threads /\ closer \in Threads /\ mapper # closer
           /\ 0 \in KeyFrames /\ 1 \in KeyFrames /\ KeyFrames \subseteq Nat
           /\ \A t \in Threads : call[t] \in CallRecord
           /\ \A k \in KeyFrames : kf[k] \in KeyFrameRecord
  BY TreeAssumption, RecognitionAssumption
     DEF Inv, Typed, TypeOK, TreeTypeOK, TreeAssumption, RecognitionAssumption, KeyFrames

\* ProcessNewKeyFrame gives the next keyframe the current map and calls UpdateConnections.
LEMMA ProcessEffect ==
    ASSUME Inv, ProcessNewKeyFrame
    PROVE  LET k == tracking.id IN
           /\ TreeTypeOK' /\ OthersWait(mapper) /\ SameLinks /\ SameGuards /\ lock' = lock
           /\ made' = made /\ database' = database /\ OtherLoop
           /\ k \in KeyFrames /\ mapping.pc = "top" /\ ~Stopped
           /\ call'[mapper].pc = "count" /\ call'[mapper].kf = k
           /\ mapping' \in MappingRecord /\ mapping'.pc = "new" /\ mapping'.cur = k /\ mapping'.left = {}
           /\ tracking' \in [id : Nat, map : Maps] /\ tracking'.id = k + 1 /\ tracking'.map = tracking.map
           /\ \A x \in KeyFrames :
                kf'[x].inMap = (IF x = k THEN tracking.map ELSE kf[x].inMap)
  <1> DEFINE k == tracking.id
  <1>1. TreeTypeOK /\ tracking \in [id : Nat, map : Maps] /\ mapper \in Threads
    BY InvTyped DEF TypeOK
  <1>2. /\ mapping.pc = "top" /\ ~Stopped /\ Begin(mapper, "count", k) /\ k <= LastId
        /\ kf' = [kf EXCEPT ![k].inMap = tracking.map]
        /\ mapping' = [pc |-> "new", cur |-> k, left |-> {}]
        /\ tracking' = [tracking EXCEPT !.id = @ + 1]
        /\ UNCHANGED <<lock, made, database, astray, stolen, closing, search, leaked>>
    BY DEF ProcessNewKeyFrame
  <1>3. k \in KeyFrames /\ "count" \in CallPcs
    BY <1>1, <1>2, TreeAssumption DEF KeyFrames, TreeAssumption, CallPcs, Connecting
  <1>4. /\ call' \in [Threads -> CallRecord] /\ OthersWait(mapper)
        /\ call'[mapper].pc = "count" /\ call'[mapper].kf = k
    BY <1>1, <1>2, <1>3, BeginLemma
  <1>5. /\ mapping' \in MappingRecord /\ mapping'.pc = "new" /\ mapping'.cur = k /\ mapping'.left = {}
        /\ tracking' \in [id : Nat, map : Maps] /\ tracking'.id = k + 1 /\ tracking'.map = tracking.map
    BY <1>1, <1>2, <1>3 DEF MappingRecord, NodesOrNull
  <1>6. kf' \in [KeyFrames -> KeyFrameRecord]
    <2>1. tracking.map \in Maps
      BY InvTyped
    <2> HIDE DEF k
    <2> QED BY <1>1, <1>2, <1>3, <2>1 DEF TreeTypeOK, KeyFrameRecord
  <1>7. \A x \in KeyFrames :
           /\ kf'[x].parent = kf[x].parent /\ kf'[x].bad = kf[x].bad /\ kf'[x].first = kf[x].first
           /\ kf'[x].children = kf[x].children /\ kf'[x].notErase = kf[x].notErase
           /\ kf'[x].inMap = (IF x = k THEN tracking.map ELSE kf[x].inMap)
           /\ kf'[x].loopEdges = kf[x].loopEdges
    BY <1>1, <1>2, <1>3 DEF TreeTypeOK, KeyFrameRecord
  <1>8. TreeTypeOK'
    BY <1>1, <1>2, <1>4, <1>6 DEF TreeTypeOK
  <1> QED BY <1>2, <1>3, <1>4, <1>5, <1>7, <1>8 DEF SameLinks, SameGuards, OtherLoop

\* Steps of local mapping that leave the keyframes as they are.
KeyFramesStay == UNCHANGED <<kf, lock, database, astray, stolen, tracking>>

\* AddKeyFrame makes it a keyframe of the map.
LEMMA AddKeyFrameEffect ==
    ASSUME Inv, AddKeyFrame
    PROVE  /\ TreeTypeOK' /\ KeyFramesStay /\ OtherLoop /\ call' = call
           /\ made' = made \cup {mapping.cur} /\ mapping.cur \in KeyFrames
           /\ mapping.pc = "new" /\ call[mapper].pc = "none"
           /\ mapping' \in MappingRecord /\ mapping'.pc = "fuse" /\ mapping'.cur = mapping.cur
           /\ mapping'.left = mapping.left
  <1>1. TreeTypeOK /\ mapping \in MappingRecord
    BY InvTyped
  <1>2. /\ mapping.pc = "new" /\ call[mapper].pc = "none" /\ made' = made \cup {mapping.cur}
        /\ mapping' = [mapping EXCEPT !.pc = "fuse"]
        /\ UNCHANGED <<kf, lock, call, database, astray, stolen, tracking, closing, search, leaked>>
    BY DEF AddKeyFrame
  <1>3. mapping.cur \in KeyFrames
    BY <1>2 DEF Inv, MapperPhase
  <1>4. /\ mapping' \in MappingRecord /\ mapping'.pc = "fuse" /\ mapping'.cur = mapping.cur
        /\ mapping'.left = mapping.left
    BY <1>1, <1>2 DEF MappingRecord
  <1> QED BY <1>1, <1>2, <1>3, <1>4 DEF TreeTypeOK, KeyFramesStay, OtherLoop

\* SearchInNeighbors may connect it once more.
LEMMA SearchInNeighborsEffect ==
    ASSUME Inv, SearchInNeighbors
    PROVE  /\ TreeTypeOK' /\ KeyFramesStay /\ OtherLoop /\ made' = made /\ OthersWait(mapper)
           /\ mapping.pc = "fuse" /\ call[mapper].pc = "none"
           /\ \/ call' = call
              \/ call'[mapper].pc = "count" /\ call'[mapper].kf = mapping.cur
           /\ mapping' \in MappingRecord /\ mapping'.pc = "sort" /\ mapping'.cur = mapping.cur
           /\ mapping'.left = mapping.left
  <1>1. TreeTypeOK /\ mapping \in MappingRecord /\ mapper \in Threads
    BY InvTyped
  <1>2. /\ mapping.pc = "fuse" /\ mapping' = [mapping EXCEPT !.pc = "sort"]
        /\ Begin(mapper, "count", mapping.cur) \/ call' = call
        /\ UNCHANGED <<kf, lock, made, database, astray, stolen, tracking, closing, search, leaked>>
    BY DEF SearchInNeighbors
  <1>3. mapping.cur \in KeyFrames /\ call[mapper].pc = "none" /\ "count" \in CallPcs
    BY <1>2 DEF Inv, MapperPhase, CallPcs, Connecting
  <1>4. /\ mapping' \in MappingRecord /\ mapping'.pc = "sort" /\ mapping'.cur = mapping.cur
        /\ mapping'.left = mapping.left
    BY <1>1, <1>2 DEF MappingRecord
  <1>5. /\ call' \in [Threads -> CallRecord] /\ OthersWait(mapper)
        /\ call' = call \/ (call'[mapper].pc = "count" /\ call'[mapper].kf = mapping.cur)
    BY <1>1, <1>2, <1>3, BeginLemma DEF TreeTypeOK, OthersWait
  <1> QED BY <1>1, <1>2, <1>3, <1>4, <1>5 DEF TreeTypeOK, KeyFramesStay, OtherLoop

\* KeyFrameCulling lists the neighbours it will look at.
LEMMA ListsNeighboursEffect ==
    ASSUME Inv, ListsNeighbours
    PROVE  /\ TreeTypeOK' /\ KeyFramesStay /\ OtherLoop /\ made' = made /\ OthersWait(mapper)
           /\ mapping.pc = "sort" /\ call[mapper].pc = "none"
           /\ call'[mapper].pc = "sort" /\ call'[mapper].kf = mapping.cur
           /\ mapping' \in MappingRecord /\ mapping'.pc = "cull" /\ mapping'.cur = mapping.cur
           /\ mapping'.left \in SUBSET made
  <1>1. TreeTypeOK /\ mapping \in MappingRecord /\ mapper \in Threads /\ made \in SUBSET KeyFrames
    BY InvTyped
  <1>2. /\ mapping.pc = "sort" /\ call[mapper].pc = "none" /\ Begin(mapper, "sort", mapping.cur)
        /\ mapping' = [mapping EXCEPT !.pc = "cull", !.left = made \ {mapping.cur}]
        /\ UNCHANGED <<kf, lock, made, database, astray, stolen, tracking, closing, search, leaked>>
    BY DEF ListsNeighbours
  <1>3. mapping.cur \in KeyFrames /\ "sort" \in CallPcs
    BY <1>2 DEF Inv, MapperPhase, CallPcs, Sorting
  <1>4. /\ mapping' \in MappingRecord /\ mapping'.pc = "cull" /\ mapping'.cur = mapping.cur
        /\ mapping'.left \in SUBSET made
    BY <1>1, <1>2 DEF MappingRecord
  <1>5. /\ call' \in [Threads -> CallRecord] /\ OthersWait(mapper)
        /\ call'[mapper].pc = "sort" /\ call'[mapper].kf = mapping.cur
    BY <1>1, <1>2, <1>3, BeginLemma
  <1> QED BY <1>1, <1>2, <1>4, <1>5 DEF TreeTypeOK, KeyFramesStay, OtherLoop

\* KeyFrameCulling calls SetBadFlag on one of them.
LEMMA KeyFrameCullingEffect ==
    ASSUME Inv, KeyFrameCulling
    PROVE  /\ TreeTypeOK' /\ KeyFramesStay /\ OtherLoop /\ made' = made /\ OthersWait(mapper)
           /\ mapping.pc = "cull" /\ call[mapper].pc = "none"
           /\ call'[mapper].pc = "ask" /\ call'[mapper].kf \in made /\ ~IsOrigin(call'[mapper].kf)
           /\ mapping' \in MappingRecord /\ mapping'.pc = "cull" /\ mapping'.cur = mapping.cur
           /\ mapping'.left \in SUBSET mapping.left
  <1>1. TreeTypeOK /\ mapping \in MappingRecord /\ mapper \in Threads /\ made \in SUBSET KeyFrames
    BY InvTyped
  <1>2. /\ mapping.pc = "cull" /\ call[mapper].pc = "none"
        /\ UNCHANGED <<kf, lock, made, database, astray, stolen, tracking, closing, search, leaked>>
    BY DEF KeyFrameCulling
  <1>3. PICK k \in mapping.left : /\ ~IsOrigin(k) /\ Begin(mapper, "ask", k)
                                  /\ mapping' = [mapping EXCEPT !.left = @ \ {k}]
    BY DEF KeyFrameCulling
  <1>4. k \in made /\ k \in KeyFrames /\ "ask" \in CallPcs
    BY <1>1 DEF Inv, Known, CallPcs, Erasing
  <1>5. /\ mapping' \in MappingRecord /\ mapping'.pc = "cull" /\ mapping'.cur = mapping.cur
        /\ mapping'.left \in SUBSET mapping.left
    BY <1>1, <1>2, <1>3 DEF MappingRecord
  <1>6. /\ call' \in [Threads -> CallRecord] /\ OthersWait(mapper)
        /\ call'[mapper].pc = "ask" /\ call'[mapper].kf = k
    BY <1>1, <1>3, <1>4, BeginLemma
  <1> QED BY <1>1, <1>2, <1>3, <1>4, <1>5, <1>6 DEF TreeTypeOK, KeyFramesStay, OtherLoop

\* InsertKeyFrame hands the keyframe to loop closing.
LEMMA InsertKeyFrameEffect ==
    ASSUME Inv, InsertKeyFrame
    PROVE  /\ UNCHANGED <<treeVars, tracking, search, leaked>>
           /\ mapping.pc = "cull" /\ call[mapper].pc = "none" /\ mapping.cur \in KeyFrames
           /\ mapping' \in MappingRecord /\ mapping'.pc = "top" /\ mapping'.cur = NULL
           /\ mapping'.left = {}
           /\ closing' \in ClosingRecord /\ closing'.queue = Append(closing.queue, mapping.cur)
           /\ closing'.pc = closing.pc /\ closing'.cur = closing.cur /\ closing'.erase = closing.erase
           /\ closing'.next = closing.next /\ closing'.todo = closing.todo
           /\ closing'.cand = closing.cand /\ closing'.child = closing.child
           /\ closing'.parent = closing.parent
  <1>1. closing \in ClosingRecord
    BY InvTyped
  <1>2. /\ mapping.pc = "cull" /\ call[mapper].pc = "none"
        /\ mapping' = [pc |-> "top", cur |-> NULL, left |-> {}]
        /\ closing' = [closing EXCEPT !.queue = Append(@, mapping.cur)]
        /\ UNCHANGED <<treeVars, tracking, search, leaked>>
    BY DEF InsertKeyFrame
  <1>3. mapping.cur \in KeyFrames
    BY <1>2 DEF Inv, MapperPhase
  <1>4. closing.queue \in Seq(KeyFrames)
    BY <1>1 DEF ClosingRecord
  <1>5. Append(closing.queue, mapping.cur) \in Seq(KeyFrames)
    BY <1>3, <1>4, AppendProperties
  <1>6. /\ closing' \in ClosingRecord /\ closing'.queue = Append(closing.queue, mapping.cur)
        /\ closing'.pc = closing.pc /\ closing'.cur = closing.cur /\ closing'.erase = closing.erase
        /\ closing'.next = closing.next /\ closing'.todo = closing.todo
        /\ closing'.cand = closing.cand /\ closing'.child = closing.child
        /\ closing'.parent = closing.parent
    BY <1>1, <1>2, <1>5 DEF ClosingRecord
  <1>7. /\ mapping' \in MappingRecord /\ mapping'.pc = "top" /\ mapping'.cur = NULL
        /\ mapping'.left = {}
    BY <1>2 DEF MappingRecord, NodesOrNull
  <1> QED BY <1>2, <1>3, <1>6, <1>7

-----------------------------------------------------------------------------
(* What each step of loop closing does.                                    *)

\* Steps of loop closing that leave the tree, and local mapping.
TreeStays == UNCHANGED <<lock, call, made, astray, stolen, tracking, mapping>>

\* Nobody is in a method of KeyFrame.cc.
LEMMA NobodyIsInside ==
    ASSUME Inv, mapping.pc = "top", closing.pc # "erase"
    PROVE  \A t \in Threads : call[t].pc = "none"
  BY RecognitionAssumption DEF RecognitionAssumption, Inv, MapperPhase, CloserPhase

\* NewDetectCommonRegions takes a keyframe and protects it.
LEMMA TakesKeyFrameEffect ==
    ASSUME Inv, TakesKeyFrame
    PROVE  LET k == Head(closing.queue) IN
           /\ TreeTypeOK' /\ TreeStays /\ database' = database /\ search' = search /\ leaked' = leaked
           /\ SameLinks /\ closing.pc = "idle" /\ k \in made \ {0}
           /\ closing' \in ClosingRecord /\ closing'.cur = k /\ closing'.erase = << >>
           /\ \A i \in DOMAIN closing'.queue : closing'.queue[i] \in made \ {0}
           /\ closing'.pc = "decide" \/ (closing'.pc = "again" /\ SmallMap <= MapSize(kf[k].inMap))
           /\ closing'.todo = {s \in Searches : search[s].n > 0}
           /\ \A x \in KeyFrames :
                /\ kf'[x].inMap = kf[x].inMap /\ kf'[x].loopEdges = kf[x].loopEdges
                /\ x # k => kf'[x].notErase = kf[x].notErase
  <1> DEFINE k == Head(closing.queue)  small == MapSize(kf[k].inMap) < SmallMap
  <1>1. /\ TreeTypeOK /\ closing \in ClosingRecord /\ closing.queue \in Seq(KeyFrames)
        /\ closing.erase = << >>
    BY InvTyped DEF ClosingRecord, TakesKeyFrame, Inv, CloserPhase
  <1>2. /\ closing.pc = "idle" /\ closing.queue # << >>
        /\ kf' = [kf EXCEPT ![k].notErase = TRUE]
        /\ closing' = [closing EXCEPT !.cur = k, !.queue = Tail(@), !.anew = Searches,
                         !.pc = IF small THEN "decide" ELSE "again",
                         !.todo = {s \in Searches : search[s].n > 0}]
        /\ UNCHANGED <<lock, call, database, search, made, astray, stolen, tracking, mapping, leaked>>
    BY DEF TakesKeyFrame, rest
  <1>3. \A i \in DOMAIN closing.queue : closing.queue[i] \in made \ {0}
    BY DEF Inv, Known
  <1>4. /\ Tail(closing.queue) \in Seq(KeyFrames) /\ k \in made \ {0} /\ k \in KeyFrames
        /\ \A i \in DOMAIN Tail(closing.queue) : Tail(closing.queue)[i] \in made \ {0}
    BY <1>1, <1>2, <1>3
  <1>5. small \/ SmallMap <= MapSize(kf[k].inMap)
    <2>1. SmallMap \in Nat /\ MapSize(kf[k].inMap) \in Nat
      <3>1. IsFiniteSet(KeyFrames)
        BY TreeAssumption, FS_Interval DEF TreeAssumption, KeyFrames
      <3>2. IsFiniteSet({x \in made : Good(x) /\ kf[x].inMap = kf[k].inMap})
        BY <1>1, <3>1, FS_Subset DEF TreeTypeOK
      <3> QED BY <3>2, FS_CardinalityType, RecognitionAssumption DEF RecognitionAssumption, MapSize
    <2> QED BY <2>1
  <1> HIDE DEF k, small
  <1>6. /\ closing' \in ClosingRecord /\ closing'.cur = k /\ closing'.erase = << >>
        /\ closing'.queue = Tail(closing.queue)
        /\ closing'.pc = (IF small THEN "decide" ELSE "again")
        /\ closing'.todo = {s \in Searches : search[s].n > 0}
    BY <1>1, <1>2, <1>4 DEF ClosingRecord, NodesOrNull, ClosingPcs
  <1>7. kf' \in [KeyFrames -> KeyFrameRecord]
    BY <1>1, <1>2, <1>4 DEF TreeTypeOK, KeyFrameRecord
  <1>8. \A x \in KeyFrames :
           /\ kf'[x].parent = kf[x].parent /\ kf'[x].bad = kf[x].bad /\ kf'[x].first = kf[x].first
           /\ kf'[x].children = kf[x].children
           /\ kf'[x].inMap = kf[x].inMap /\ kf'[x].loopEdges = kf[x].loopEdges
           /\ x # k => kf'[x].notErase = kf[x].notErase
    <2>1. kf' = [kf EXCEPT ![k].notErase = TRUE]
      BY <1>2
    <2>2. k \in KeyFrames /\ kf \in [KeyFrames -> KeyFrameRecord]
      BY <1>1, <1>4 DEF TreeTypeOK
    <2>3. \A x \in KeyFrames \ {k} : kf'[x] = kf[x]
      BY <2>1, <2>2
    <2>4. /\ kf'[k].parent = kf[k].parent /\ kf'[k].bad = kf[k].bad /\ kf'[k].first = kf[k].first
          /\ kf'[k].children = kf[k].children
          /\ kf'[k].inMap = kf[k].inMap /\ kf'[k].loopEdges = kf[k].loopEdges
      BY <2>1, <2>2 DEF KeyFrameRecord
    <2> QED BY <2>3, <2>4
  <1>9. TreeTypeOK' /\ SameLinks /\ TreeStays
    BY <1>1, <1>2, <1>7, <1>8 DEF TreeTypeOK, SameLinks, TreeStays
  <1>10. /\ \A i \in DOMAIN closing'.queue : closing'.queue[i] \in made \ {0}
         /\ closing'.pc = "decide" \/ (closing'.pc = "again" /\ SmallMap <= MapSize(kf[k].inMap))
    BY <1>4, <1>5, <1>6
  <1> QED BY <1>2, <1>4, <1>6, <1>8, <1>9, <1>10 DEF k

\* Erase leaves all of loop closing but its place and its list.
LEMMA EraseEffect ==
    ASSUME closing \in ClosingRecord, NEW kfs \in Seq(KeyFrames), NEW pc \in {"idle", "again"}
    PROVE  LET e == Erase(kfs, pc) IN
           /\ e \in ClosingRecord /\ e.pc = "erase" /\ e.erase = kfs /\ e.next = pc
           /\ e.cur = closing.cur /\ e.queue = closing.queue /\ e.todo = closing.todo
           /\ e.anew = closing.anew /\ e.cand = closing.cand
           /\ e.child = closing.child /\ e.parent = closing.parent
  BY DEF Erase, ClosingRecord, ClosingPcs

\* A search that found a match before finds it again, or misses and may drop it.
LEMMA LooksAgainEffect ==
    ASSUME Inv, LooksAgain
    PROVE  /\ UNCHANGED <<treeVars, tracking, mapping, leaked>> /\ closing.pc = "again"
           /\ closing' \in ClosingRecord /\ closing'.cur = closing.cur
           /\ closing'.queue = closing.queue
           /\ search' \in [Searches -> SearchRecord]
           /\ \E s \in closing.todo :
                /\ s \in Searches /\ search[s].n > 0 /\ Last(s) \in made /\ Matched(s) \in made
                /\ closing'.todo = closing.todo \ {s}
                /\ \A x \in Searches \ {s} : search'[x] = search[x]
                /\ search'[s].matched = Matched(s)
                /\ \/ /\ closing'.pc = "erase" /\ closing'.next = "again"
                      /\ closing'.erase = <<Last(s)>>
                      /\ search'[s].last = closing.cur /\ search'[s].n > 0
                   \/ /\ closing'.pc = "erase" /\ closing'.next = "again"
                      /\ closing'.erase = <<Last(s), Matched(s)>>
                      /\ search'[s].n = 0
                   \/ /\ closing'.pc = "again" /\ closing'.erase = << >>
                      /\ search'[s].n = search[s].n /\ search'[s].last = Last(s)
  <1>1. /\ closing \in ClosingRecord /\ search \in [Searches -> SearchRecord]
        /\ closing.pc = "again" /\ UNCHANGED <<treeVars, tracking, mapping, leaked>>
        /\ closing.erase = << >>
    BY InvTyped DEF TypeOK, LooksAgain, Inv, CloserPhase
  <1>2. PICK s \in closing.todo : MeetsAgain(s) \/ MissesAgain(s)
    BY DEF LooksAgain
  <1>3. s \in Searches /\ search[s].n > 0 /\ Last(s) \in made /\ Matched(s) \in made /\ search[s] \in SearchRecord
    BY <1>1, <1>2 DEF Inv, Known, ClosingRecord
  <1>4. Last(s) \in KeyFrames /\ Matched(s) \in KeyFrames /\ closing.cur \in NodesOrNull
    BY <1>1, <1>3, InvTyped DEF ClosingRecord
  <1>5. CASE MeetsAgain(s)
    <2> DEFINE e == Erase(<<Last(s)>>, "again")
    <2>1. <<Last(s)>> \in Seq(KeyFrames)
      BY <1>3, <1>4
    <2>2. /\ e \in ClosingRecord /\ e.pc = "erase" /\ e.erase = <<Last(s)>> /\ e.next = "again"
          /\ e.cur = closing.cur /\ e.queue = closing.queue /\ e.todo = closing.todo
      BY <1>1, <2>1, EraseEffect
    <2>3. closing' = [e EXCEPT !.todo = @ \ {s}, !.anew = @ \ {s}]
      BY <1>5 DEF MeetsAgain
    <2> HIDE DEF e
    <2>4. /\ closing' \in ClosingRecord /\ closing'.pc = "erase" /\ closing'.erase = <<Last(s)>>
          /\ closing'.next = "again" /\ closing'.cur = closing.cur
          /\ closing'.queue = closing.queue /\ closing'.todo = closing.todo \ {s}
      BY <2>2, <2>3 DEF ClosingRecord
    <2>5. /\ search' \in [Searches -> SearchRecord]
          /\ \A x \in Searches \ {s} : search'[x] = search[x]
          /\ search'[s].matched = search[s].matched /\ search'[s].last = closing.cur
          /\ search'[s].n > 0
      <3>1. search' = [search EXCEPT ![s].last = closing.cur, ![s].n = @ + 1,
                                     ![s].miss = IF s = "loop" THEN 0 ELSE @]
        BY <1>5 DEF MeetsAgain
      <3> DEFINE m == IF s = "loop" THEN 0 ELSE search[s].miss
                 r == [search[s] EXCEPT !.last = closing.cur, !.n = @ + 1, !.miss = m]
      <3>2. m \in Nat /\ search[s].n + 1 \in Nat
        BY <1>3 DEF SearchRecord
      <3>3. search' = [search EXCEPT ![s] = r]
        BY <3>1
      <3> HIDE DEF m
      <3>4. r \in SearchRecord /\ r.matched = search[s].matched /\ r.last = closing.cur
            /\ r.n = search[s].n + 1
        BY <1>3, <1>4, <3>2 DEF SearchRecord
      <3> HIDE DEF r
      <3>5. r.n > 0
        BY <1>3, <3>4 DEF SearchRecord
      <3> QED BY <1>1, <1>3, <3>3, <3>4, <3>5
    <2> QED BY <1>1, <1>2, <1>3, <2>4, <2>5 DEF Matched
  <1>6. CASE MissesAgain(s)
    <2> DEFINE given == search[s].miss >= 1
               e == IF given THEN Erase(<<Last(s), Matched(s)>>, "again") ELSE closing
               miss == IF given THEN 0 ELSE search[s].miss + 1
               n == IF given THEN 0 ELSE search[s].n
               r == [search[s] EXCEPT !.miss = miss, !.n = n]
    <2>1. closing' = [e EXCEPT !.todo = @ \ {s}] /\ search' = [search EXCEPT ![s] = r]
      BY <1>6 DEF MissesAgain
    <2>2. <<Last(s), Matched(s)>> \in Seq(KeyFrames)
      BY <1>3, <1>4
    <2>3. /\ e \in ClosingRecord
          /\ e.cur = closing.cur /\ e.queue = closing.queue /\ e.todo = closing.todo
          /\ given => e.pc = "erase" /\ e.erase = <<Last(s), Matched(s)>> /\ e.next = "again"
          /\ ~given => e.pc = "again" /\ e.erase = << >>
      BY <1>1, <2>2, EraseEffect
    <2>4. /\ r \in SearchRecord /\ r.matched = search[s].matched /\ r.last = search[s].last
          /\ given => r.n = 0
          /\ ~given => r.n = search[s].n
      <3>1. miss \in Nat /\ n \in Nat
        BY <1>3 DEF SearchRecord
      <3>2. (given => n = 0) /\ (~given => n = search[s].n)
        OBVIOUS
      <3> HIDE DEF miss, n
      <3> QED BY <1>3, <3>1, <3>2 DEF SearchRecord
    <2> HIDE DEF e, r
    <2>5. /\ closing' \in ClosingRecord /\ closing'.pc = e.pc /\ closing'.erase = e.erase
          /\ closing'.next = e.next /\ closing'.cur = closing.cur
          /\ closing'.queue = closing.queue /\ closing'.todo = closing.todo \ {s}
      BY <2>1, <2>3 DEF ClosingRecord
    <2>6. /\ search' \in [Searches -> SearchRecord] /\ search'[s] = r
          /\ \A x \in Searches \ {s} : search'[x] = search[x]
      BY <1>1, <1>3, <2>1, <2>4
    <2>7. \/ /\ closing'.pc = "erase" /\ closing'.next = "again"
             /\ closing'.erase = <<Last(s), Matched(s)>> /\ search'[s].n = 0
          \/ /\ closing'.pc = "again" /\ closing'.erase = << >>
             /\ search'[s].n = search[s].n /\ search'[s].last = Last(s)
      BY <2>3, <2>4, <2>5, <2>6 DEF Last
    <2>8. search'[s].matched = Matched(s)
      BY <2>4, <2>6 DEF Matched
    <2> QED BY <1>1, <1>2, <1>3, <2>5, <2>6, <2>7, <2>8
  <1> QED BY <1>2, <1>5, <1>6

\* Candidates come from the database.
LEMMA ListsCandidatesEffect ==
    ASSUME Inv, ListsCandidates
    PROVE  /\ UNCHANGED <<treeVars, tracking, mapping, search, leaked>> /\ closing.pc = "again"
           /\ closing' \in ClosingRecord /\ closing'.cur = closing.cur /\ closing'.queue = closing.queue
           /\ closing'.erase = << >> /\ closing'.todo = {}
           /\ \/ closing'.pc = "decide"
              \/ /\ closing'.pc = "candidates" /\ Detected = {}
                 /\ \A s \in Searches : closing'.cand[s] # NULL => closing'.cand[s] \in database
  <1>1. closing \in ClosingRecord /\ closing.erase = << >> /\ database \in SUBSET KeyFrames
    BY InvTyped DEF TypeOK, TreeTypeOK, ListsCandidates, Inv, CloserPhase
  <1>2. UNCHANGED <<treeVars, tracking, mapping, search, leaked>> /\ closing.pc = "again" /\ closing.todo = {}
    BY DEF ListsCandidates
  <1>3. CASE Detected # {}
    <2>1. closing' = [closing EXCEPT !.pc = "decide"]
      BY <1>3 DEF ListsCandidates
    <2> QED BY <1>1, <1>2, <2>1 DEF ClosingRecord, ClosingPcs
  <1>4. CASE Detected = {}
    <2>1. PICK c \in [closing.anew -> (database \ {closing.cur}) \cup {NULL}] :
              closing' = [closing EXCEPT !.pc = "candidates",
                            !.cand = [s \in Searches |-> IF s \in closing.anew THEN c[s] ELSE NULL]]
      BY <1>4 DEF ListsCandidates
    <2> DEFINE d == [s \in Searches |-> IF s \in closing.anew THEN c[s] ELSE NULL]
    <2>2. d \in [Searches -> NodesOrNull]
      BY <1>1 DEF NodesOrNull
    <2>3. \A s \in Searches : d[s] # NULL => d[s] \in database
      OBVIOUS
    <2> HIDE DEF d
    <2>4. /\ closing' \in ClosingRecord /\ closing'.pc = "candidates" /\ closing'.cand = d
          /\ closing'.cur = closing.cur /\ closing'.queue = closing.queue
          /\ closing'.erase = closing.erase /\ closing'.todo = closing.todo
      BY <1>1, <2>1, <2>2 DEF ClosingRecord, ClosingPcs, d
    <2> QED BY <1>1, <1>2, <1>4, <2>3, <2>4
  <1> QED BY <1>3, <1>4

\* Those that are kept are good and of the right map.
LEMMA ChecksCandidatesEffect ==
    ASSUME Inv, ChecksCandidates
    PROVE  /\ UNCHANGED <<treeVars, tracking, mapping, search, leaked>> /\ closing.pc = "candidates"
           /\ closing' \in ClosingRecord /\ closing'.cur = closing.cur /\ closing'.queue = closing.queue
           /\ closing'.erase = << >> /\ closing'.todo = closing.todo /\ closing'.pc \in {"spins", "match"}
           /\ \A s \in Searches : closing'.cand[s] # NULL =>
                /\ closing'.cand[s] = closing.cand[s]
                /\ SameMap(closing.cand[s], closing.cur) <=> s = "loop"
                /\ closing'.pc = "match" => ~kf[closing.cand[s]].bad
  <1>1. closing \in ClosingRecord /\ closing.erase = << >>
    BY InvTyped DEF TypeOK, ChecksCandidates, Inv, CloserPhase
  <1> DEFINE p == IF \E s \in Candidates : kf[closing.cand[s]].bad THEN "spins" ELSE "match"
             d == [s \in Searches |->
                     IF s \in Candidates /\ (SameMap(closing.cand[s], closing.cur) <=> s = "loop")
                     THEN closing.cand[s] ELSE NULL]
  <1>2. /\ UNCHANGED <<treeVars, tracking, mapping, search, leaked>> /\ closing.pc = "candidates"
        /\ closing' = [closing EXCEPT !.pc = p, !.cand = d]
    BY DEF ChecksCandidates
  <1>3. d \in [Searches -> NodesOrNull] /\ p \in {"spins", "match"}
    <2>1. closing.cand \in [Searches -> NodesOrNull]
      BY <1>1 DEF ClosingRecord
    <2> QED BY <2>1 DEF NodesOrNull
  <1>4. \A s \in Searches : d[s] # NULL =>
                /\ d[s] = closing.cand[s]
                /\ SameMap(closing.cand[s], closing.cur) <=> s = "loop"
                /\ p = "match" => ~kf[closing.cand[s]].bad
    BY DEF SameMap, Candidates
  <1> HIDE DEF p, d
  <1>5. /\ closing' \in ClosingRecord /\ closing'.pc = p /\ closing'.cand = d
        /\ closing'.cur = closing.cur /\ closing'.queue = closing.queue
        /\ closing'.erase = closing.erase /\ closing'.todo = closing.todo
    BY <1>1, <1>2, <1>3 DEF ClosingRecord, ClosingPcs
  <1> QED BY <1>1, <1>2, <1>3, <1>4, <1>5

\* A match that is taken is protected.
LEMMA TakesMatchEffect ==
    ASSUME Inv, closing.pc = "match", NEW s \in Candidates, TakesMatch(s)
    PROVE  /\ kf' \in [KeyFrames -> KeyFrameRecord]
           /\ leaked' \in SUBSET NodesOrNull /\ leaked \subseteq leaked'
           /\ search' \in [Searches -> SearchRecord]
           /\ \A x \in Searches \ {s} : search'[x] = search[x]
           /\ closing.cand[s] # NULL /\ closing.cand[s] \in made
           /\ search'[s].last = closing.cur /\ search'[s].matched = closing.cand[s]
           /\ search'[s].n > 0 \/ closing.cand[s] \in leaked'
           /\ search[s].n > 0 => search[s].matched \in leaked'
           /\ \A x \in KeyFrames :
                /\ kf'[x].parent = kf[x].parent /\ kf'[x].children = kf[x].children
                /\ kf'[x].bad = kf[x].bad /\ kf'[x].first = kf[x].first
                /\ kf'[x].inMap = kf[x].inMap /\ kf'[x].loopEdges = kf[x].loopEdges
                /\ kf'[x].notErase => kf[x].notErase \/ x = closing.cand[s]
  <1>1. /\ TreeTypeOK /\ closing \in ClosingRecord /\ s \in Searches
        /\ search \in [Searches -> SearchRecord] /\ leaked \in SUBSET NodesOrNull
    BY InvTyped DEF TypeOK, Candidates
  <1>2. PICK k \in made : k = closing.cand[s] /\ k # NULL /\ k \in KeyFrames
    BY <1>1 DEF Inv, Known, Candidates, TreeTypeOK
  <1>3. kf' = [kf EXCEPT ![k].notErase = TRUE]
    BY <1>2 DEF TakesMatch
  <1>4. PICK n \in 0 .. Enough :
         /\ search' = [search EXCEPT ![s].last = closing.cur, ![s].matched = k, ![s].n = n]
         /\ leaked' = leaked \cup {x \in {Matched(s)} : search[s].n > 0} \cup {x \in {k} : n = 0}
    BY <1>2 DEF TakesMatch
  <1>5. /\ n \in Nat /\ (n # 0 => n > 0) /\ search[s] \in SearchRecord
        /\ closing.cur \in NodesOrNull /\ k \in NodesOrNull
    BY <1>1, <1>2, RecognitionAssumption DEF RecognitionAssumption, ClosingRecord, NodesOrNull
  <1>6. /\ search' \in [Searches -> SearchRecord]
        /\ search'[s].last = closing.cur /\ search'[s].matched = k /\ search'[s].n = n
        /\ \A x \in Searches \ {s} : search'[x] = search[x]
    <2> DEFINE r == [search[s] EXCEPT !.last = closing.cur, !.matched = k, !.n = n]
    <2>1. r \in SearchRecord /\ r.last = closing.cur /\ r.matched = k /\ r.n = n
      BY <1>5 DEF SearchRecord
    <2>2. search' = [search EXCEPT ![s] = r]
      BY <1>4
    <2> HIDE DEF r
    <2> QED BY <1>1, <2>1, <2>2
  <1>7. /\ leaked' \in SUBSET NodesOrNull /\ leaked \subseteq leaked'
        /\ search[s].n > 0 => search[s].matched \in leaked'
        /\ n = 0 => k \in leaked'
    <2>1. Matched(s) = search[s].matched /\ Matched(s) \in NodesOrNull
      BY <1>5 DEF Matched, SearchRecord
    <2> QED BY <1>1, <1>4, <1>5, <2>1
  <1>8. /\ kf' \in [KeyFrames -> KeyFrameRecord]
        /\ \A x \in KeyFrames :
             /\ kf'[x].parent = kf[x].parent /\ kf'[x].children = kf[x].children
             /\ kf'[x].bad = kf[x].bad /\ kf'[x].first = kf[x].first
             /\ kf'[x].inMap = kf[x].inMap /\ kf'[x].loopEdges = kf[x].loopEdges
             /\ kf'[x].notErase => kf[x].notErase \/ x = k
    <2> DEFINE r == [kf[k] EXCEPT !.notErase = TRUE]
    <2>1. kf[k] \in KeyFrameRecord
      BY <1>1, <1>2 DEF TreeTypeOK
    <2>2. /\ r \in KeyFrameRecord /\ r.parent = kf[k].parent /\ r.children = kf[k].children
          /\ r.bad = kf[k].bad /\ r.first = kf[k].first /\ r.inMap = kf[k].inMap
          /\ r.loopEdges = kf[k].loopEdges
      BY <2>1 DEF KeyFrameRecord
    <2>3. kf' = [kf EXCEPT ![k] = r]
      BY <1>3
    <2> HIDE DEF r
    <2> QED BY <1>1, <1>2, <2>2, <2>3 DEF TreeTypeOK
  <1>9. search'[s].n > 0 \/ k \in leaked'
    BY <1>5, <1>6, <1>7
  <1> QED BY <1>2, <1>6, <1>7, <1>8, <1>9

\* One candidate after the other becomes a match or is dropped.
Matching == MatchesCandidate \/ Decides

LEMMA MatchingEffect ==
    ASSUME Inv, Matching
    PROVE  /\ TreeTypeOK' /\ SameLinks /\ database' = database /\ closing.pc = "match"
           /\ UNCHANGED <<lock, call, made, astray, stolen, tracking, mapping>>
           /\ closing' \in ClosingRecord /\ closing'.cur = closing.cur /\ closing'.queue = closing.queue
           /\ closing'.erase = << >> /\ closing'.todo = closing.todo /\ closing'.pc \in {"match", "decide"}
           /\ \A x \in Searches : closing'.cand[x] \in {closing.cand[x], NULL}
           /\ leaked' \in SUBSET NodesOrNull /\ leaked \subseteq leaked'
           /\ search' \in [Searches -> SearchRecord]
           /\ \A s \in Searches :
                \/ search'[s] = search[s]
                \/ /\ closing.cand[s] # NULL /\ closing.cand[s] \in made
                   /\ search'[s].last = closing.cur /\ search'[s].matched = closing.cand[s]
                   /\ search'[s].n > 0 \/ closing.cand[s] \in leaked'
                   /\ search[s].n > 0 => search[s].matched \in leaked'
           /\ \A x \in KeyFrames :
                /\ kf'[x].inMap = kf[x].inMap /\ kf'[x].loopEdges = kf[x].loopEdges
                /\ kf'[x].notErase => kf[x].notErase
                                      \/ \E s \in Searches : search'[s].matched = x
                                            /\ (search'[s].n > 0 \/ x \in leaked')
  <1>1. /\ TypeOK /\ TreeTypeOK /\ closing \in ClosingRecord /\ closing.pc = "match"
        /\ search \in [Searches -> SearchRecord] /\ leaked \in SUBSET NodesOrNull
    BY InvTyped DEF TypeOK, Matching, MatchesCandidate, Decides
  <1>2. closing.erase = << >>
    BY <1>1 DEF Inv, CloserPhase
  <1>3. CASE Decides
    <2>1. /\ UNCHANGED <<treeVars, tracking, mapping, search, leaked>>
          /\ closing' = [closing EXCEPT !.pc = "decide"]
      BY <1>3 DEF Decides
    <2>2. /\ closing' \in ClosingRecord /\ closing'.cur = closing.cur /\ closing'.queue = closing.queue
          /\ closing'.erase = << >> /\ closing'.todo = closing.todo /\ closing'.pc = "decide"
          /\ closing'.cand = closing.cand
      BY <1>1, <1>2, <2>1 DEF ClosingRecord, ClosingPcs
    <2> QED BY <1>1, <2>1, <2>2 DEF treeVars, TreeTypeOK, SameLinks
  <1>4. CASE MatchesCandidate
    <2>1. PICK s \in Candidates : /\ TakesMatch(s) \/ UNCHANGED <<kf, search, leaked>>
                                  /\ closing' = [closing EXCEPT !.cand[s] = NULL]
      BY <1>4 DEF MatchesCandidate
    <2>2. s \in Searches
      BY DEF Candidates
    <2>3. UNCHANGED <<lock, call, made, database, astray, stolen, tracking, mapping>>
      BY <1>4 DEF MatchesCandidate
    <2>4. /\ closing' \in ClosingRecord /\ closing'.cur = closing.cur /\ closing'.queue = closing.queue
          /\ closing'.erase = << >> /\ closing'.todo = closing.todo /\ closing'.pc = "match"
          /\ \A x \in Searches : closing'.cand[x] \in {closing.cand[x], NULL}
      <3> DEFINE d == [closing.cand EXCEPT ![s] = NULL]
      <3>1. /\ d \in [Searches -> NodesOrNull]
            /\ \A x \in Searches : d[x] \in {closing.cand[x], NULL}
        BY <1>1, <2>2 DEF ClosingRecord, NodesOrNull
      <3>2. closing' = [closing EXCEPT !.cand = d]
        BY <2>1
      <3> HIDE DEF d
      <3> QED BY <1>1, <1>2, <3>1, <3>2 DEF ClosingRecord
    <2>5. CASE UNCHANGED <<kf, search, leaked>>
      BY <1>1, <2>3, <2>4, <2>5 DEF TreeTypeOK, SameLinks
    <2>6. CASE TakesMatch(s)
      <3>1. TreeTypeOK' /\ SameLinks
        BY <1>1, <2>3, <2>6, TakesMatchEffect DEF TreeTypeOK, SameLinks
      <3> QED BY <1>1, <2>2, <2>3, <2>4, <2>6, <3>1, TakesMatchEffect
    <2> QED BY <2>1, <2>5, <2>6
  <1> QED BY <1>3, <1>4 DEF Matching

\* The keyframe is added to the database; with nothing found it is let go.
LEMMA AddsToDatabaseEffect ==
    ASSUME Inv, AddsToDatabase
    PROVE  /\ UNCHANGED <<kf, lock, call, search, made, astray, stolen, tracking, mapping, leaked>>
           /\ TreeTypeOK' /\ closing.pc = "decide" /\ closing.cur \in made \ {0}
           /\ database' = database \cup {closing.cur}
           /\ closing' \in ClosingRecord /\ closing'.cur = closing.cur /\ closing'.queue = closing.queue
           /\ closing'.todo = closing.todo
           /\ \/ closing'.pc = "found" /\ Detected # {} /\ closing'.erase = << >>
              \/ /\ closing'.pc = "erase" /\ closing'.next = "idle" /\ Detected = {}
                 /\ closing'.erase = <<closing.cur>>
  <1>1. TreeTypeOK /\ closing \in ClosingRecord
    BY InvTyped
  <1>2. /\ UNCHANGED <<kf, lock, call, search, made, astray, stolen, tracking, mapping, leaked>>
        /\ closing.pc = "decide" /\ database' = database \cup {closing.cur}
        /\ closing' = IF Detected # {} THEN [closing EXCEPT !.pc = "found"]
                      ELSE Erase(<<closing.cur>>, "idle")
    BY DEF AddsToDatabase, rest
  <1>3. closing.cur \in made \ {0} /\ closing.cur \in KeyFrames /\ closing.erase = << >>
    BY <1>1, <1>2 DEF Inv, Known, CloserPhase, TreeTypeOK
  <1>4. <<closing.cur>> \in Seq(KeyFrames)
    BY <1>3
  <1>5. CASE Detected # {}
    <2>1. closing' = [closing EXCEPT !.pc = "found"]
      BY <1>2, <1>5
    <2>2. /\ closing' \in ClosingRecord /\ closing'.cur = closing.cur /\ closing'.queue = closing.queue
          /\ closing'.todo = closing.todo /\ closing'.pc = "found" /\ closing'.erase = closing.erase
      BY <1>1, <2>1 DEF ClosingRecord, ClosingPcs
    <2> QED BY <1>1, <1>2, <1>3, <1>5, <2>2 DEF TreeTypeOK
  <1>6. CASE Detected = {}
    <2>1. closing' = Erase(<<closing.cur>>, "idle")
      BY <1>2, <1>6
    <2>2. /\ closing' \in ClosingRecord /\ closing'.cur = closing.cur /\ closing'.queue = closing.queue
          /\ closing'.todo = closing.todo /\ closing'.pc = "erase" /\ closing'.next = "idle"
          /\ closing'.erase = <<closing.cur>>
      BY <1>1, <1>4, <2>1, EraseEffect
    <2> QED BY <1>1, <1>2, <1>3, <1>6, <2>2 DEF TreeTypeOK
  <1> QED BY <1>5, <1>6

\* SetErase lets a keyframe go, unless it closes a loop.
LEMMA SetEraseEffect ==
    ASSUME Inv, SetErase
    PROVE  LET k == Head(closing.erase) IN
           /\ TreeTypeOK' /\ SameLinks /\ OthersWait(closer) /\ database' = database /\ made' = made
           /\ UNCHANGED <<search, lock, tracking, mapping, leaked>>
           /\ closing.pc = "erase" /\ call[closer].pc = "none" /\ k \in made
           /\ call' = call \/ (call'[closer].pc = "ask" /\ call'[closer].kf = k)
           /\ closing' \in ClosingRecord /\ closing'.cur = closing.cur /\ closing'.queue = closing.queue
           /\ closing'.todo = closing.todo /\ closing'.pc = "erase" /\ closing'.next = closing.next
           /\ closing'.erase = Tail(closing.erase) /\ closing.erase # << >>
           /\ \A x \in KeyFrames :
                /\ kf'[x].inMap = kf[x].inMap /\ kf'[x].loopEdges = kf[x].loopEdges
                /\ x # k => kf'[x].notErase = kf[x].notErase
           /\ kf'[k].notErase => kf[k].loopEdges
  <1> DEFINE k == Head(closing.erase)  m == kf[k].notErase /\ kf[k].loopEdges
  <1>1. /\ TreeTypeOK /\ closing \in ClosingRecord /\ closing.erase \in Seq(KeyFrames) /\ closer \in Threads
    BY InvTyped DEF ClosingRecord
  <1>2. /\ UNCHANGED <<search, lock, database, made, astray, stolen, tracking, mapping, leaked>>
        /\ closing.pc = "erase" /\ call[closer].pc = "none" /\ closing.erase # << >>
        /\ Begin(closer, "ask", k) \/ call' = call
        /\ closing' = [closing EXCEPT !.erase = Tail(@)]
    BY DEF SetErase, rest
  <1>3. kf' = [kf EXCEPT ![k].notErase = m]
    BY DEF SetErase
  <1>4. \A i \in DOMAIN closing.erase : closing.erase[i] \in made
    BY DEF Inv, Known
  <1>5. Tail(closing.erase) \in Seq(KeyFrames) /\ k \in made /\ k \in KeyFrames
    BY <1>1, <1>2, <1>4
  <1>6. m \in BOOLEAN /\ (m => kf[k].loopEdges) /\ "ask" \in CallPcs
    BY DEF CallPcs, Erasing
  <1> HIDE DEF k, m
  <1>7. /\ call' \in [Threads -> CallRecord] /\ OthersWait(closer)
        /\ call' = call \/ (call'[closer].pc = "ask" /\ call'[closer].kf = k)
    BY <1>1, <1>2, <1>5, <1>6, BeginLemma DEF TreeTypeOK, OthersWait
  <1>8. /\ closing' \in ClosingRecord /\ closing'.cur = closing.cur /\ closing'.queue = closing.queue
        /\ closing'.todo = closing.todo /\ closing'.pc = "erase" /\ closing'.next = closing.next
        /\ closing'.erase = Tail(closing.erase)
    BY <1>1, <1>2, <1>5 DEF ClosingRecord
  <1>9. /\ kf' \in [KeyFrames -> KeyFrameRecord] /\ kf'[k].notErase = m
        /\ \A x \in KeyFrames \ {k} : kf'[x] = kf[x]
        /\ kf'[k].parent = kf[k].parent /\ kf'[k].bad = kf[k].bad /\ kf'[k].first = kf[k].first
        /\ kf'[k].children = kf[k].children
        /\ kf'[k].inMap = kf[k].inMap /\ kf'[k].loopEdges = kf[k].loopEdges
    <2>1. kf[k] \in KeyFrameRecord /\ kf \in [KeyFrames -> KeyFrameRecord]
      BY <1>1, <1>5 DEF TreeTypeOK
    <2> DEFINE r == [kf[k] EXCEPT !.notErase = m]
    <2>2. /\ r \in KeyFrameRecord /\ r.notErase = m
          /\ r.parent = kf[k].parent /\ r.bad = kf[k].bad /\ r.first = kf[k].first
          /\ r.children = kf[k].children /\ r.inMap = kf[k].inMap /\ r.loopEdges = kf[k].loopEdges
      BY <1>6, <2>1 DEF KeyFrameRecord
    <2>3. kf' = [kf EXCEPT ![k] = r]
      BY <1>3
    <2> HIDE DEF r
    <2> QED BY <1>5, <2>1, <2>2, <2>3
  <1>10. TreeTypeOK' /\ SameLinks
    BY <1>1, <1>2, <1>7, <1>9 DEF TreeTypeOK, SameLinks
  <1>11. kf'[k].notErase => kf[k].loopEdges
    BY <1>6, <1>9
  <1> QED BY <1>2, <1>5, <1>7, <1>8, <1>9, <1>10, <1>11 DEF k

\* With everything let go, loop closing goes on or takes the next keyframe.
LEMMA GoesOnEffect ==
    ASSUME Inv, GoesOn
    PROVE  /\ UNCHANGED <<treeVars, tracking, mapping, search, leaked>>
           /\ closing.pc = "erase" /\ call[closer].pc = "none" /\ closing.erase = << >>
           /\ closing' \in ClosingRecord /\ closing'.erase = << >> /\ closing'.queue = closing.queue
           /\ closing'.todo = closing.todo
           /\ \/ closing.next = "idle" /\ closing'.pc = "idle" /\ closing'.cur = NULL
              \/ closing.next = "again" /\ closing'.pc = "again" /\ closing'.cur = closing.cur
  <1>1. closing \in ClosingRecord
    BY InvTyped
  <1> DEFINE c == IF closing.next = "idle" THEN NULL ELSE closing.cur
  <1>2. /\ UNCHANGED <<treeVars, tracking, mapping, search, leaked>>
        /\ closing.pc = "erase" /\ call[closer].pc = "none" /\ closing.erase = << >>
        /\ closing' = [closing EXCEPT !.pc = closing.next, !.cur = c]
    BY DEF GoesOn
  <1>3. c \in NodesOrNull /\ closing.next \in {"idle", "again"}
    BY <1>1 DEF ClosingRecord, NodesOrNull
  <1>4. (closing.next = "idle" => c = NULL) /\ (closing.next # "idle" => c = closing.cur)
    OBVIOUS
  <1> HIDE DEF c
  <1>5. /\ closing' \in ClosingRecord /\ closing'.erase = closing.erase /\ closing'.queue = closing.queue
        /\ closing'.todo = closing.todo /\ closing'.pc = closing.next /\ closing'.cur = c
    BY <1>1, <1>2, <1>3 DEF ClosingRecord, ClosingPcs
  <1> QED BY <1>2, <1>3, <1>4, <1>5
\* The searches that are over have their keyframes let go, each of them.
LEMMA FinishEffect ==
    ASSUME Inv, NEW over, \A s \in over : s \in Searches /\ search[s].n > 0, Finish(over)
    PROVE  /\ closing' \in ClosingRecord /\ closing'.pc = "erase" /\ closing'.next = "idle"
           /\ closing'.cur = closing.cur /\ closing'.queue = closing.queue
           /\ closing'.todo = closing.todo
           /\ \A i \in DOMAIN closing'.erase : closing'.erase[i] \in made
           /\ \A s \in over : /\ \E i \in DOMAIN closing'.erase : closing'.erase[i] = Matched(s)
                              /\ \E i \in DOMAIN closing'.erase : closing'.erase[i] = Last(s)
           /\ search' \in [Searches -> SearchRecord]
           /\ \A s \in over : search'[s].n = 0
           /\ \A s \in Searches \ over : search'[s] = search[s]
  <1> DEFINE e1 == IF "merge" \in over THEN <<Last("merge"), Matched("merge")>> ELSE << >>
             e2 == IF "loop" \in over THEN <<Last("loop"), Matched("loop")>> ELSE << >>
             r(s) == [search[s] EXCEPT !.n = 0, !.miss = 0]
  <1>1. /\ closing \in ClosingRecord /\ search \in [Searches -> SearchRecord]
        /\ made \in SUBSET KeyFrames /\ Searches \subseteq {"loop", "merge"}
    BY InvTyped, RecognitionAssumption DEF TypeOK, RecognitionAssumption
  <1>2. \A s \in over : s \in {"loop", "merge"} /\ Last(s) \in made /\ Matched(s) \in made
    BY <1>1 DEF Inv, Known
  <1>3. /\ e1 \in Seq(KeyFrames) /\ e2 \in Seq(KeyFrames)
        /\ \A i \in 1 .. Len(e1) : e1[i] \in made
        /\ \A i \in 1 .. Len(e2) : e2[i] \in made
        /\ "merge" \in over => Len(e1) = 2 /\ e1[1] = Last("merge") /\ e1[2] = Matched("merge")
        /\ "loop" \in over => Len(e2) = 2 /\ e2[1] = Last("loop") /\ e2[2] = Matched("loop")
    <2>1. ASSUME NEW a \in made, NEW b \in made
          PROVE  <<a, b>> \in Seq(KeyFrames) /\ Len(<<a, b>>) = 2
                 /\ \A i \in 1 .. 2 : <<a, b>>[i] \in made
      BY <1>1
    <2>2. /\ e1 \in Seq(KeyFrames) /\ \A i \in 1 .. Len(e1) : e1[i] \in made
          /\ "merge" \in over => Len(e1) = 2 /\ e1[1] = Last("merge") /\ e1[2] = Matched("merge")
      <3>1. CASE "merge" \in over
        BY <1>2, <2>1, <3>1
      <3>2. CASE "merge" \notin over
        BY <3>2
      <3> QED BY <3>1, <3>2
    <2>3. /\ e2 \in Seq(KeyFrames) /\ \A i \in 1 .. Len(e2) : e2[i] \in made
          /\ "loop" \in over => Len(e2) = 2 /\ e2[1] = Last("loop") /\ e2[2] = Matched("loop")
      <3>1. CASE "loop" \in over
        BY <1>2, <2>1, <3>1
      <3>2. CASE "loop" \notin over
        BY <3>2
      <3> QED BY <3>1, <3>2
    <2> QED BY <2>2, <2>3
  <1>4. /\ closing' = Erase(e1 \o e2, "idle")
        /\ search' = [s \in Searches |-> IF s \in over THEN r(s) ELSE search[s]]
    BY DEF Finish
  <1> HIDE DEF e1, e2
  <1>5. /\ e1 \o e2 \in Seq(KeyFrames) /\ Len(e1) \in Nat /\ Len(e2) \in Nat
        /\ DOMAIN (e1 \o e2) = 1 .. Len(e1) + Len(e2)
        /\ \A i \in 1 .. Len(e1) + Len(e2) : (e1 \o e2)[i] = IF i <= Len(e1) THEN e1[i] ELSE e2[i - Len(e1)]
    BY <1>3, ConcatProperties, LenProperties
  <1>6. /\ closing' \in ClosingRecord /\ closing'.pc = "erase" /\ closing'.next = "idle"
        /\ closing'.cur = closing.cur /\ closing'.queue = closing.queue
        /\ closing'.todo = closing.todo /\ closing'.erase = e1 \o e2
    BY <1>1, <1>4, <1>5, EraseEffect
  <1>7. \A i \in DOMAIN (e1 \o e2) : (e1 \o e2)[i] \in made
    <2> SUFFICES ASSUME NEW i \in 1 .. Len(e1) + Len(e2) PROVE (e1 \o e2)[i] \in made
      BY <1>5
    <2>1. CASE i <= Len(e1)
      <3>1. (e1 \o e2)[i] = e1[i] /\ i \in 1 .. Len(e1)
        BY <1>5, <2>1
      <3> QED BY <1>3, <3>1
    <2>2. CASE ~(i <= Len(e1))
      <3>1. (e1 \o e2)[i] = e2[i - Len(e1)] /\ i - Len(e1) \in 1 .. Len(e2)
        BY <1>5, <2>2
      <3> QED BY <1>3, <3>1
    <2> QED BY <2>1, <2>2
  <1>8. "merge" \in over => /\ \E i \in DOMAIN (e1 \o e2) : (e1 \o e2)[i] = Matched("merge")
                            /\ \E i \in DOMAIN (e1 \o e2) : (e1 \o e2)[i] = Last("merge")
    <2> SUFFICES ASSUME "merge" \in over
                 PROVE  /\ \E i \in DOMAIN (e1 \o e2) : (e1 \o e2)[i] = Matched("merge")
                        /\ \E i \in DOMAIN (e1 \o e2) : (e1 \o e2)[i] = Last("merge")
      OBVIOUS
    <2> DEFINE n == Len(e2)
    <2>1. n \in Nat /\ Len(e1) = 2 /\ e1[1] = Last("merge") /\ e1[2] = Matched("merge")
      BY <1>3, <1>5
    <2>2. DOMAIN (e1 \o e2) = 1 .. 2 + n
      BY <1>5, <2>1
    <2>3. \A i \in 1 .. 2 + n : (e1 \o e2)[i] = IF i <= 2 THEN e1[i] ELSE e2[i - 2]
      BY <1>5, <2>1
    <2> HIDE DEF n
    <2>4. 1 \in 1 .. 2 + n /\ 2 \in 1 .. 2 + n
      BY <2>1
    <2>5. (e1 \o e2)[1] = (IF 1 <= 2 THEN e1[1] ELSE e2[1 - 2])
      BY <2>3, <2>4
    <2>6. (e1 \o e2)[2] = (IF 2 <= 2 THEN e1[2] ELSE e2[2 - 2])
      BY <2>3, <2>4
    <2> QED BY <2>1, <2>2, <2>4, <2>5, <2>6
  <1>9. "loop" \in over => /\ \E i \in DOMAIN (e1 \o e2) : (e1 \o e2)[i] = Matched("loop")
                           /\ \E i \in DOMAIN (e1 \o e2) : (e1 \o e2)[i] = Last("loop")
    <2> SUFFICES ASSUME "loop" \in over
                 PROVE  /\ \E i \in DOMAIN (e1 \o e2) : (e1 \o e2)[i] = Matched("loop")
                        /\ \E i \in DOMAIN (e1 \o e2) : (e1 \o e2)[i] = Last("loop")
      OBVIOUS
    <2> DEFINE n == Len(e1)
    <2>1. n \in Nat /\ Len(e2) = 2 /\ e2[1] = Last("loop") /\ e2[2] = Matched("loop")
      BY <1>3, <1>5
    <2>2. DOMAIN (e1 \o e2) = 1 .. n + 2
      BY <1>5, <2>1
    <2>3. \A i \in 1 .. n + 2 : (e1 \o e2)[i] = IF i <= n THEN e1[i] ELSE e2[i - n]
      BY <1>5, <2>1
    <2> HIDE DEF n
    <2>4. n + 1 \in 1 .. n + 2 /\ n + 2 \in 1 .. n + 2 /\ ~(n + 1 <= n) /\ ~(n + 2 <= n)
          /\ (n + 1) - n = 1 /\ (n + 2) - n = 2
      BY <2>1
    <2>5. (e1 \o e2)[n + 1] = e2[1] /\ (e1 \o e2)[n + 2] = e2[2]
      BY <2>3, <2>4
    <2> QED BY <2>1, <2>2, <2>4, <2>5
  <1>10. \A s \in over : r(s) \in SearchRecord /\ r(s).n = 0
    BY <1>1 DEF SearchRecord
  <1> HIDE DEF r
  <1>11. /\ search' \in [Searches -> SearchRecord]
         /\ \A s \in over : search'[s].n = 0
         /\ \A s \in Searches \ over : search'[s] = search[s]
    BY <1>1, <1>4, <1>10
  <1> QED BY <1>2, <1>6, <1>7, <1>8, <1>9, <1>11

\* A search that has found something has a keyframe and its match.
LEMMA DetectedSearches ==
    ASSUME Inv
    PROVE  /\ Detected \subseteq Searches /\ Searches \subseteq {"loop", "merge"}
           /\ \A s \in Searches : search[s].n \in Nat
           /\ \A s \in Detected : search[s].n > 0 /\ Last(s) \in made /\ Matched(s) \in made
  <1>1. Enough \in Nat \ {0} /\ Searches \subseteq {"loop", "merge"} /\ search \in [Searches -> SearchRecord]
    BY InvTyped, RecognitionAssumption DEF RecognitionAssumption, TypeOK
  <1>2. \A s \in Searches : search[s].n \in Nat
    BY <1>1 DEF SearchRecord
  <1>3. \A s \in Detected : s \in Searches /\ search[s].n > 0
    BY <1>1, <1>2 DEF Detected
  <1> QED BY <1>1, <1>2, <1>3 DEF Inv, Known

\* CorrectLoop marks both ends of the loop and lets both go.
LEMMA CorrectLoopEffect ==
    ASSUME Inv, CorrectLoop
    PROVE  /\ TreeTypeOK' /\ SameLinks /\ TreeStays /\ database' = database /\ leaked' = leaked
           /\ closing.pc = "found" /\ mapping.pc = "top" /\ "merge" \notin Detected
           /\ "loop" \in Detected /\ Finish({"loop"})
           /\ \A x \in KeyFrames :
                /\ kf'[x].inMap = kf[x].inMap
                /\ kf[x].loopEdges => kf'[x].loopEdges
                /\ kf'[x].notErase => kf[x].notErase \/ kf'[x].loopEdges
                /\ x \in {closing.cur, Matched("loop")} => kf'[x].loopEdges
  <1> DEFINE r(k) == [kf[k] EXCEPT !.notErase = TRUE, !.loopEdges = TRUE]
             both == {closing.cur, Matched("loop")}
             g == [k \in KeyFrames |-> IF k \in both THEN r(k) ELSE kf[k]]
  <1>1. /\ kf' = g /\ Finish({"loop"}) /\ closing.pc = "found" /\ mapping.pc = "top" /\ "merge" \notin Detected
        /\ UNCHANGED <<lock, call, database, made, astray, stolen, tracking, mapping, leaked>>
    BY DEF CorrectLoop, rest
  <1>2. TreeTypeOK /\ "loop" \in Detected
    BY <1>1, InvTyped, DetectedSearches DEF Inv, Protection
  <1>3. \A k \in KeyFrames : /\ kf[k] \in KeyFrameRecord /\ r(k) \in KeyFrameRecord
                             /\ r(k).parent = kf[k].parent /\ r(k).children = kf[k].children
                             /\ r(k).bad = kf[k].bad /\ r(k).first = kf[k].first
                             /\ r(k).inMap = kf[k].inMap /\ r(k).loopEdges = TRUE /\ r(k).notErase = TRUE
    <2> SUFFICES ASSUME NEW k \in KeyFrames
                 PROVE  /\ kf[k] \in KeyFrameRecord /\ r(k) \in KeyFrameRecord
                        /\ r(k).parent = kf[k].parent /\ r(k).children = kf[k].children
                        /\ r(k).bad = kf[k].bad /\ r(k).first = kf[k].first
                        /\ r(k).inMap = kf[k].inMap /\ r(k).loopEdges = TRUE /\ r(k).notErase = TRUE
      OBVIOUS
    <2>1. kf[k] \in KeyFrameRecord
      BY <1>2 DEF TreeTypeOK
    <2> QED BY <2>1 DEF KeyFrameRecord
  <1> HIDE DEF r, both
  <1>4. \A x \in KeyFrames : IF x \in both THEN g[x] = r(x) ELSE g[x] = kf[x]
    OBVIOUS
  <1>5. g \in [KeyFrames -> KeyFrameRecord]
    BY <1>3
  <1> HIDE DEF g
  <1>6. TreeTypeOK' /\ SameLinks /\ TreeStays
    BY <1>1, <1>2, <1>3, <1>4, <1>5 DEF TreeTypeOK, SameLinks, TreeStays
  <1>7. \A x \in KeyFrames :
                /\ kf'[x].inMap = kf[x].inMap
                /\ kf[x].loopEdges => kf'[x].loopEdges
                /\ kf'[x].notErase => kf[x].notErase \/ kf'[x].loopEdges
                /\ x \in both => kf'[x].loopEdges
    BY <1>1, <1>3, <1>4
  <1> QED BY <1>1, <1>2, <1>6, <1>7 DEF both

\* The end of MergeLocal: all good keyframes are in the old map.
LEMMA MovesRestEffect ==
    ASSUME Inv, MovesRest
    PROVE  /\ TreeTypeOK' /\ SameLinks /\ TreeStays /\ database' = database /\ leaked' = leaked
           /\ closing.pc = "move" /\ mapping.pc = "top" /\ Finish(Detected) /\ "merge" \in Detected
           /\ \A x \in KeyFrames :
                /\ kf'[x].inMap = (IF x \in made /\ Good(x) THEN "old" ELSE kf[x].inMap)
                /\ kf'[x].loopEdges = kf[x].loopEdges
                /\ kf'[x].notErase => kf[x].notErase \/ x \in {closing.cur, Matched("merge")}
  <1> DEFINE both == {closing.cur, Matched("merge")}
             map(k) == IF k \in made /\ Good(k) THEN "old" ELSE kf[k].inMap
             mark(k) == kf[k].notErase \/ k \in both
             r(k) == [kf[k] EXCEPT !.inMap = map(k), !.notErase = mark(k)]
             g == [k \in KeyFrames |-> r(k)]
  <1>1. /\ kf' = g /\ Finish({"merge"} \cup Detected) /\ closing.pc = "move" /\ mapping.pc = "top"
        /\ UNCHANGED <<lock, call, database, made, astray, stolen, tracking, mapping, leaked>>
    BY DEF MovesRest, rest
  <1>2. TreeTypeOK /\ "merge" \in Detected
    BY <1>1, InvTyped DEF Inv, Protection, Welding
  <1>3. Finish(Detected)
    <2>1. {"merge"} \cup Detected = Detected
      BY <1>2
    <2> QED BY <1>1, <2>1
  <1>4. ASSUME NEW k \in KeyFrames
        PROVE  /\ r(k) \in KeyFrameRecord
               /\ r(k).parent = kf[k].parent /\ r(k).children = kf[k].children
               /\ r(k).bad = kf[k].bad /\ r(k).first = kf[k].first
               /\ r(k).inMap = map(k) /\ r(k).loopEdges = kf[k].loopEdges /\ r(k).notErase = mark(k)
    <2>1. kf[k] \in KeyFrameRecord
      BY <1>2 DEF TreeTypeOK
    <2>2. map(k) \in Maps /\ mark(k) \in BOOLEAN
      BY <2>1 DEF KeyFrameRecord, Maps
    <2> HIDE DEF map, mark
    <2> QED BY <2>1, <2>2 DEF KeyFrameRecord
  <1> HIDE DEF r, both
  <1>5. g \in [KeyFrames -> KeyFrameRecord] /\ \A x \in KeyFrames : g[x] = r(x)
    BY <1>4
  <1> HIDE DEF g
  <1>6. TreeTypeOK' /\ SameLinks /\ TreeStays
    BY <1>1, <1>2, <1>4, <1>5 DEF TreeTypeOK, SameLinks, TreeStays
  <1>7. \A x \in KeyFrames :
                /\ kf'[x].inMap = map(x) /\ kf'[x].loopEdges = kf[x].loopEdges
                /\ kf'[x].notErase => kf[x].notErase \/ x \in both
    BY <1>1, <1>4, <1>5
  <1> QED BY <1>1, <1>2, <1>3, <1>6, <1>7 DEF both

\* With the links turned, MergeLocal updates connections.
LEMMA ReconnectsEffect ==
    ASSUME Inv, Reconnects
    PROVE  /\ UNCHANGED <<treeVars, search, tracking, mapping, leaked>>
           /\ closing.pc = "reverse" /\ closing.child = NULL
           /\ closing' \in ClosingRecord /\ closing'.cur = closing.cur /\ closing'.queue = closing.queue
           /\ closing'.todo = closing.todo /\ closing'.pc = "move" /\ closing'.erase = << >>
  <1> DEFINE fresh == {k \in made : Good(k) /\ kf[k].first /\ ~IsOrigin(k)}
  <1>1. /\ closing.pc = "reverse" /\ closing.child = NULL
        /\ closing' = [closing EXCEPT !.pc = "move", !.parent = NULL]
        /\ UNCHANGED <<lock, call, database, search, made, astray, stolen, tracking, mapping, leaked>>
    BY DEF Reconnects, rest
  <1>2. TreeTypeOK /\ closing \in ClosingRecord /\ closing.erase = << >>
    BY <1>1, InvTyped DEF Inv, CloserPhase
  <1>3. fresh = {}
    BY <1>1 DEF Inv, FirstOnce, MapsMergeOnce, Welding, IsOrigin, Origin
  <1>4. PICK p \in made :
         kf' = [k \in KeyFrames |->
              CASE k \in fresh -> [kf[k] EXCEPT !.parent = p, !.first = FALSE]
                [] k = p -> [kf[k] EXCEPT !.children = @ \cup fresh]
                [] OTHER -> kf[k]]
    BY DEF Reconnects
  <1> DEFINE a(k) == [kf[k] EXCEPT !.parent = p, !.first = FALSE]
             b(k) == [kf[k] EXCEPT !.children = @ \cup fresh]
  <1>5. \A k \in KeyFrames : b(k) = kf[k]
    <2>1. \A k \in KeyFrames : kf[k] \in KeyFrameRecord /\ kf[k].children \cup fresh = kf[k].children
      BY <1>2, <1>3 DEF TreeTypeOK
    <2> QED BY <2>1 DEF KeyFrameRecord
  <1>6. kf' = [k \in KeyFrames |-> CASE k \in fresh -> a(k) [] k = p -> b(k) [] OTHER -> kf[k]]
    BY <1>4
  <1> HIDE DEF a, b, fresh
  <1>7. kf' = [k \in KeyFrames |-> kf[k]]
    <2>1. \A k \in KeyFrames : (CASE k \in fresh -> a(k) [] k = p -> b(k) [] OTHER -> kf[k]) = kf[k]
      BY <1>3, <1>5
    <2> QED BY <1>6, <2>1
  <1>8. kf' = kf
    BY <1>2, <1>7 DEF TreeTypeOK
  <1>9. /\ closing' \in ClosingRecord /\ closing'.cur = closing.cur /\ closing'.queue = closing.queue
        /\ closing'.todo = closing.todo /\ closing'.pc = "move" /\ closing'.erase = closing.erase
    BY <1>1, <1>2 DEF ClosingRecord, ClosingPcs, NodesOrNull
  <1> QED BY <1>1, <1>2, <1>8, <1>9 DEF treeVars

\* The start of MergeLocal: the window is in the old map, the keyframe hangs from its
\* match.
LEMMA WeldsMapsEffect ==
    ASSUME Inv, WeldsMaps
    PROVE  LET cur == closing.cur  m == Matched("merge") IN
           /\ TreeTypeOK' /\ UNCHANGED <<lock, call, made, database, stolen, mapping, search, leaked>>
           /\ closing.pc = "found" /\ mapping.pc = "top" /\ "merge" \in Detected
           /\ cur \in made \ {0} /\ cur \in KeyFrames /\ m \in made /\ m \in KeyFrames
           /\ tracking' \in [id : Nat, map : Maps] /\ tracking'.id = tracking.id /\ tracking'.map = "old"
           /\ closing' \in ClosingRecord /\ closing'.pc = "reverse"
           /\ closing'.child = kf[cur].parent /\ closing'.parent = cur
           /\ closing'.cur = cur /\ closing'.queue = closing.queue /\ closing'.todo = closing.todo
           /\ closing'.erase = << >>
           /\ astray' = (IF Good(m) THEN astray \ {cur} ELSE astray \cup {cur})
           /\ \A x \in KeyFrames :
                /\ kf'[x].parent = (IF x = cur THEN m ELSE kf[x].parent)
                /\ kf'[x].children = (IF x = m THEN kf[x].children \cup {cur} ELSE kf[x].children)
                /\ kf'[x].bad = kf[x].bad
                /\ kf'[x].first => kf[x].first /\ x # 1
                /\ x # 1 => (kf[x].first => kf'[x].first)
                /\ kf'[x].inMap \in {"old", kf[x].inMap}
                /\ kf'[x].notErase = kf[x].notErase /\ kf'[x].loopEdges = kf[x].loopEdges
  <1> DEFINE cur == closing.cur  m == Matched("merge")
  <1>1. /\ UNCHANGED <<lock, call, made, database, stolen, mapping, search, leaked>>
        /\ closing.pc = "found" /\ mapping.pc = "top" /\ "merge" \in Detected
        /\ tracking' = [tracking EXCEPT !.map = "old"]
        /\ closing' = [closing EXCEPT !.pc = "reverse", !.child = kf[cur].parent, !.parent = cur]
        /\ astray' = (IF Good(m) THEN astray \ {cur} ELSE astray \cup {cur})
    BY DEF WeldsMaps, Adopted
  <1>2. PICK window \in SUBSET made :
             kf' = [k \in KeyFrames |->
                  [kf[k] EXCEPT !.inMap = IF k \in window THEN "old" ELSE @,
                                !.first = @ /\ k # Origin["new"],
                                !.parent = IF k = cur THEN m ELSE @,
                                !.children = @ \cup {x \in {cur} : k = m}]]
    BY DEF WeldsMaps
  <1>3. /\ TreeTypeOK /\ closing \in ClosingRecord /\ closing.erase = << >>
        /\ tracking \in [id : Nat, map : Maps] /\ made \in SUBSET KeyFrames
    BY <1>1, InvTyped DEF Inv, CloserPhase, TypeOK
  <1>4. cur \in made \ {0} /\ m \in made /\ cur \in KeyFrames /\ m \in KeyFrames
    BY <1>1, <1>3, DetectedSearches DEF Inv, Known, CloserPhase
  <1>5. kf[cur].parent \in NodesOrNull
    BY <1>3, <1>4 DEF TreeTypeOK, KeyFrameRecord
  <1>6. /\ closing' \in ClosingRecord /\ closing'.pc = "reverse"
        /\ closing'.child = kf[cur].parent /\ closing'.parent = cur
        /\ closing'.cur = closing.cur /\ closing'.queue = closing.queue /\ closing'.todo = closing.todo
        /\ closing'.erase = closing.erase
    <2>1. cur \in NodesOrNull /\ "reverse" \in ClosingPcs
      BY <1>4 DEF NodesOrNull, ClosingPcs
    <2> QED BY <1>1, <1>3, <1>5, <2>1 DEF ClosingRecord
  <1>7. tracking' \in [id : Nat, map : Maps] /\ tracking'.id = tracking.id /\ tracking'.map = "old"
    BY <1>1, <1>3 DEF Maps
  <1> DEFINE map(k) == IF k \in window THEN "old" ELSE kf[k].inMap
             first(k) == kf[k].first /\ k # Origin["new"]
             up(k) == IF k = cur THEN m ELSE kf[k].parent
             down(k) == kf[k].children \cup {x \in {cur} : k = m}
             r(k) == [kf[k] EXCEPT !.inMap = map(k), !.first = first(k), !.parent = up(k),
                                   !.children = down(k)]
  <1>8. kf' = [k \in KeyFrames |-> r(k)]
    BY <1>2
  <1> HIDE DEF cur, m
  <1>9. ASSUME NEW k \in KeyFrames
        PROVE  /\ r(k) \in KeyFrameRecord
               /\ r(k).parent = up(k) /\ r(k).children = down(k) /\ r(k).bad = kf[k].bad
               /\ r(k).first <=> kf[k].first /\ k # 1
               /\ r(k).inMap = map(k)
               /\ r(k).notErase = kf[k].notErase /\ r(k).loopEdges = kf[k].loopEdges
    <2>1. kf[k] \in KeyFrameRecord
      BY <1>3 DEF TreeTypeOK
    <2>2. /\ map(k) \in Maps /\ first(k) \in BOOLEAN /\ up(k) \in NodesOrNull
          /\ down(k) \in SUBSET KeyFrames
      BY <1>4, <2>1 DEF KeyFrameRecord, Maps, NodesOrNull
    <2>3. first(k) <=> kf[k].first /\ k # 1
      BY DEF Origin
    <2> HIDE DEF map, first, up, down
    <2> QED BY <2>1, <2>2, <2>3 DEF KeyFrameRecord
  <1>10. \A x \in KeyFrames :
           /\ up(x) = (IF x = cur THEN m ELSE kf[x].parent)
           /\ down(x) = (IF x = m THEN kf[x].children \cup {cur} ELSE kf[x].children)
           /\ map(x) \in {"old", kf[x].inMap}
    OBVIOUS
  <1> HIDE DEF r, up, down, map, first
  <1>11. kf' \in [KeyFrames -> KeyFrameRecord] /\ \A x \in KeyFrames : kf'[x] = r(x)
    BY <1>8, <1>9
  <1>12. \A x \in KeyFrames :
                /\ kf'[x].parent = (IF x = cur THEN m ELSE kf[x].parent)
                /\ kf'[x].children = (IF x = m THEN kf[x].children \cup {cur} ELSE kf[x].children)
                /\ kf'[x].bad = kf[x].bad
                /\ kf'[x].first => kf[x].first /\ x # 1
                /\ x # 1 => (kf[x].first => kf'[x].first)
                /\ kf'[x].inMap \in {"old", kf[x].inMap}
                /\ kf'[x].notErase = kf[x].notErase /\ kf'[x].loopEdges = kf[x].loopEdges
    <2> SUFFICES ASSUME NEW x \in KeyFrames
                 PROVE  /\ kf'[x].parent = (IF x = cur THEN m ELSE kf[x].parent)
                        /\ kf'[x].children = (IF x = m THEN kf[x].children \cup {cur} ELSE kf[x].children)
                        /\ kf'[x].bad = kf[x].bad
                        /\ kf'[x].first => kf[x].first /\ x # 1
                        /\ x # 1 => (kf[x].first => kf'[x].first)
                        /\ kf'[x].inMap \in {"old", kf[x].inMap}
                        /\ kf'[x].notErase = kf[x].notErase /\ kf'[x].loopEdges = kf[x].loopEdges
      OBVIOUS
    <2>1. kf'[x] = r(x)
      BY <1>11
    <2>2. /\ r(x).parent = up(x) /\ r(x).children = down(x) /\ r(x).bad = kf[x].bad
          /\ r(x).first <=> kf[x].first /\ x # 1
          /\ r(x).inMap = map(x)
          /\ r(x).notErase = kf[x].notErase /\ r(x).loopEdges = kf[x].loopEdges
      BY <1>9
    <2>3. /\ up(x) = (IF x = cur THEN m ELSE kf[x].parent)
          /\ down(x) = (IF x = m THEN kf[x].children \cup {cur} ELSE kf[x].children)
          /\ map(x) \in {"old", kf[x].inMap}
      BY <1>10
    <2> QED BY <2>1, <2>2, <2>3
  <1>13. TreeTypeOK'
    BY <1>1, <1>3, <1>4, <1>11 DEF TreeTypeOK
  <1> QED BY <1>1, <1>3, <1>4, <1>6, <1>7, <1>12, <1>13 DEF cur, m

\* One link is turned round, and the next is taken up.
LEMMA ReversesLinkEffect ==
    ASSUME Inv, ReversesLink
    PROVE  LET c == closing.child  p == closing.parent IN
           /\ TreeTypeOK' /\ UNCHANGED <<lock, call, made, database, stolen, tracking, mapping, search, leaked>>
           /\ closing.pc = "reverse" /\ c \in KeyFrames /\ p \in KeyFrames
           /\ closing' \in ClosingRecord /\ closing'.pc = "reverse"
           /\ closing'.child = kf[c].parent /\ closing'.parent = c
           /\ closing'.cur = closing.cur /\ closing'.queue = closing.queue /\ closing'.todo = closing.todo
           /\ closing'.erase = << >>
           /\ astray' = (IF Good(p) THEN astray \ {c} ELSE astray \cup {c})
           /\ \A x \in KeyFrames :
                /\ kf'[x].parent = (IF x = c THEN p ELSE kf[x].parent)
                /\ kf[x].children \ (IF x = c THEN {p} ELSE {}) \subseteq kf'[x].children
                /\ x = p => c \in kf'[x].children
                /\ kf'[x].bad = kf[x].bad /\ kf'[x].first = kf[x].first
                /\ kf'[x].inMap = kf[x].inMap
                /\ kf'[x].notErase = kf[x].notErase /\ kf'[x].loopEdges = kf[x].loopEdges
  <1> DEFINE c == closing.child  p == closing.parent
             q == [kf[c] EXCEPT !.children = @ \ {p}, !.parent = p]
             g == [kf EXCEPT ![c] = q]
             r == [g[p] EXCEPT !.children = @ \cup {c}]
  <1>1. /\ UNCHANGED <<lock, call, made, database, stolen, tracking, mapping, search, leaked>>
        /\ closing.pc = "reverse" /\ c # NULL
        /\ closing' = [closing EXCEPT !.parent = c, !.child = kf[c].parent]
        /\ astray' = (IF Good(p) THEN astray \ {c} ELSE astray \cup {c})
        /\ kf' = [g EXCEPT ![p] = r]
    BY DEF ReversesLink, Adopted
  <1>2. /\ TreeTypeOK /\ closing \in ClosingRecord /\ closing.erase = << >> /\ p \in KeyFrames
        /\ c \in KeyFrames
    BY <1>1, InvTyped DEF Inv, CloserPhase, ClosingRecord, NodesOrNull
  <1>3. kf[c] \in KeyFrameRecord /\ kf[c].parent \in NodesOrNull /\ kf \in [KeyFrames -> KeyFrameRecord]
    BY <1>2 DEF TreeTypeOK, KeyFrameRecord
  <1>4. /\ closing' \in ClosingRecord /\ closing'.pc = "reverse"
        /\ closing'.child = kf[c].parent /\ closing'.parent = c
        /\ closing'.cur = closing.cur /\ closing'.queue = closing.queue /\ closing'.todo = closing.todo
        /\ closing'.erase = closing.erase
    <2>1. c \in NodesOrNull
      BY <1>2 DEF NodesOrNull
    <2> HIDE DEF c, p
    <2> QED BY <1>1, <1>2, <1>3, <2>1 DEF ClosingRecord
  <1> HIDE DEF c, p
  <1>5. /\ q \in KeyFrameRecord /\ q.children = kf[c].children \ {p} /\ q.parent = p
        /\ q.bad = kf[c].bad /\ q.first = kf[c].first /\ q.inMap = kf[c].inMap
        /\ q.notErase = kf[c].notErase /\ q.loopEdges = kf[c].loopEdges
    <2>1. p \in NodesOrNull /\ kf[c].children \ {p} \in SUBSET KeyFrames
      BY <1>2, <1>3 DEF NodesOrNull, KeyFrameRecord
    <2> QED BY <1>3, <2>1 DEF KeyFrameRecord
  <1> HIDE DEF q
  <1>6. g \in [KeyFrames -> KeyFrameRecord] /\ g[c] = q /\ \A x \in KeyFrames \ {c} : g[x] = kf[x]
    BY <1>2, <1>3, <1>5
  <1> HIDE DEF g
  <1>7. g[p] \in KeyFrameRecord
    BY <1>2, <1>6
  <1>8. /\ r \in KeyFrameRecord /\ r.children = g[p].children \cup {c} /\ r.parent = g[p].parent
        /\ r.bad = g[p].bad /\ r.first = g[p].first /\ r.inMap = g[p].inMap
        /\ r.notErase = g[p].notErase /\ r.loopEdges = g[p].loopEdges
    <2>1. g[p].children \cup {c} \in SUBSET KeyFrames
      BY <1>2, <1>7 DEF KeyFrameRecord
    <2> QED BY <1>7, <2>1 DEF KeyFrameRecord
  <1> HIDE DEF r
  <1>9. kf' \in [KeyFrames -> KeyFrameRecord] /\ kf'[p] = r /\ \A x \in KeyFrames \ {p} : kf'[x] = g[x]
    BY <1>1, <1>2, <1>6, <1>8
  <1>10. \A x \in KeyFrames :
           /\ g[x].parent = (IF x = c THEN p ELSE kf[x].parent)
           /\ g[x].children = kf[x].children \ (IF x = c THEN {p} ELSE {})
           /\ g[x].bad = kf[x].bad /\ g[x].first = kf[x].first
           /\ g[x].inMap = kf[x].inMap
           /\ g[x].notErase = kf[x].notErase /\ g[x].loopEdges = kf[x].loopEdges
    BY <1>5, <1>6
  <1>11. \A x \in KeyFrames :
           /\ kf'[x].parent = g[x].parent
           /\ kf'[x].children = g[x].children \cup (IF x = p THEN {c} ELSE {})
           /\ kf'[x].bad = g[x].bad /\ kf'[x].first = g[x].first
           /\ kf'[x].inMap = g[x].inMap
           /\ kf'[x].notErase = g[x].notErase /\ kf'[x].loopEdges = g[x].loopEdges
    BY <1>8, <1>9
  <1>12. \A x \in KeyFrames :
                /\ kf'[x].parent = (IF x = c THEN p ELSE kf[x].parent)
                /\ kf[x].children \ (IF x = c THEN {p} ELSE {}) \subseteq kf'[x].children
                /\ x = p => c \in kf'[x].children
                /\ kf'[x].bad = kf[x].bad /\ kf'[x].first = kf[x].first
                /\ kf'[x].inMap = kf[x].inMap
                /\ kf'[x].notErase = kf[x].notErase /\ kf'[x].loopEdges = kf[x].loopEdges
    BY <1>10, <1>11
  <1>13. TreeTypeOK'
    BY <1>1, <1>2, <1>9 DEF TreeTypeOK
  <1> QED BY <1>1, <1>2, <1>4, <1>12, <1>13 DEF c, p
\* A set of keyframes has one that was made first.
LEMMA FirstMade ==
    ASSUME NEW S \in SUBSET KeyFrames, S # {}
    PROVE  \E x \in S : \A y \in S : ~(y < x)
  <1> DEFINE R == StrictSubsetOrdering(KeyFrames)
             Upto(x) == 0 .. x
             T == {Upto(x) : x \in S}
  <1>1. LastId \in Nat /\ IsFiniteSet(KeyFrames)
    BY TreeAssumption, FS_Interval DEF TreeAssumption, KeyFrames
  <1>2. IsWellFoundedOn(R, SUBSET KeyFrames)
    BY <1>1, FS_StrictSubsetOrderingWellFounded, FS_FiniteSubsetsOfFinite
  <1>3. \A x \in S : Upto(x) \in SUBSET KeyFrames
    BY <1>1 DEF KeyFrames
  <1>4. ASSUME NEW x \in S, NEW y \in S, y < x PROVE Upto(y) \subseteq Upto(x) /\ Upto(y) # Upto(x)
    <2>1. x \in Upto(x) /\ x \notin Upto(y) /\ Upto(y) \subseteq Upto(x)
      BY <1>1, <1>4 DEF KeyFrames
    <2> QED BY <2>1
  <1> HIDE DEF Upto
  <1>5. T \subseteq SUBSET KeyFrames /\ T # {}
    BY <1>3
  <1>6. \E U \in T : \A W \in T : ~(<<W, U>> \in R)
    <2> HIDE DEF R, T
    <2> QED BY <1>2, <1>5, WFMin
  <1>7. PICK x \in S : \A y \in S : ~(<<Upto(y), Upto(x)>> \in R)
    BY <1>6
  <1>8. ASSUME NEW y \in S, y < x PROVE <<Upto(y), Upto(x)>> \in R
    BY <1>3, <1>4, <1>8 DEF StrictSubsetOrdering
  <1> QED BY <1>7, <1>8
-----------------------------------------------------------------------------
(* Each part of the invariant is kept.                                     *)

\* A step inside a method.
LoopsStay == UNCHANGED <<tracking, mapping, closing, search, leaked>>

\* A step of the program is one of a loop, or of the method a thread is in.
LEMMA NextSteps ==
    ASSUME Next
    PROVE  \/ ProcessNewKeyFrame \/ AddKeyFrame \/ SearchInNeighbors \/ ListsNeighbours
           \/ KeyFrameCulling \/ InsertKeyFrame
           \/ TakesKeyFrame \/ LooksAgain \/ ListsCandidates \/ ChecksCandidates \/ Matching
           \/ AddsToDatabase \/ SetErase \/ GoesOn
           \/ CorrectLoop \/ WeldsMaps \/ ReversesLink \/ Reconnects \/ MovesRest
           \/ \E t \in Threads : KeyFrameStep(t) /\ LoopsStay
  <1>1. mapper \in Threads /\ closer \in Threads
    BY RecognitionAssumption DEF RecognitionAssumption
  <1> QED BY <1>1 DEF Next, Mapping, Closing, KeyFrameStep, LoopsStay, Matching

\* Every step keeps the types.
LEMMA TypeStep ==
    ASSUME Inv, Next
    PROVE  TypeOK'
  <1>1. Typed /\ TypeOK /\ TreeTypeOK
    BY InvTyped
  <1> USE DEF TypeOK, OtherLoop, KeyFramesStay, TreeStays, LoopsStay
  <1>2. CASE ProcessNewKeyFrame
    BY <1>1, <1>2, ProcessEffect
  <1>3. CASE AddKeyFrame
    BY <1>1, <1>3, AddKeyFrameEffect
  <1>4. CASE SearchInNeighbors
    BY <1>1, <1>4, SearchInNeighborsEffect
  <1>5. CASE ListsNeighbours
    BY <1>1, <1>5, ListsNeighboursEffect
  <1>6. CASE KeyFrameCulling
    BY <1>1, <1>6, KeyFrameCullingEffect
  <1>7. CASE InsertKeyFrame
    BY <1>1, <1>7, InsertKeyFrameEffect DEF TreeTypeOK, treeVars
  <1>8. CASE TakesKeyFrame
    BY <1>1, <1>8, TakesKeyFrameEffect
  <1>9. CASE LooksAgain
    BY <1>1, <1>9, LooksAgainEffect DEF TreeTypeOK, treeVars
  <1>10. CASE ListsCandidates
    BY <1>1, <1>10, ListsCandidatesEffect DEF TreeTypeOK, treeVars
  <1>11. CASE ChecksCandidates
    BY <1>1, <1>11, ChecksCandidatesEffect DEF TreeTypeOK, treeVars
  <1>12. CASE Matching
    BY <1>1, <1>12, MatchingEffect
  <1>13. CASE AddsToDatabase
    BY <1>1, <1>13, AddsToDatabaseEffect
  <1>14. CASE SetErase
    BY <1>1, <1>14, SetEraseEffect
  <1>15. CASE GoesOn
    BY <1>1, <1>15, GoesOnEffect DEF TreeTypeOK, treeVars
  <1>16. CASE CorrectLoop
    <2>1. /\ TreeTypeOK' /\ TreeStays /\ leaked' = leaked /\ Finish({"loop"}) /\ "loop" \in Detected
      BY <1>16, CorrectLoopEffect
    <2>2. \A s \in {"loop"} : s \in Searches /\ search[s].n > 0
      BY <2>1, DetectedSearches
    <2>3. closing' \in ClosingRecord /\ search' \in [Searches -> SearchRecord]
      BY <2>1, <2>2, FinishEffect
    <2> QED BY <1>1, <2>1, <2>3
  <1>17. CASE WeldsMaps
    BY <1>1, <1>17, WeldsMapsEffect
  <1>18. CASE ReversesLink
    BY <1>1, <1>18, ReversesLinkEffect
  <1>19. CASE Reconnects
    BY <1>1, <1>19, ReconnectsEffect DEF TreeTypeOK, treeVars
  <1>20. CASE MovesRest
    <2>1. /\ TreeTypeOK' /\ TreeStays /\ leaked' = leaked /\ Finish(Detected)
      BY <1>20, MovesRestEffect
    <2>2. \A s \in Detected : s \in Searches /\ search[s].n > 0
      BY DetectedSearches
    <2>3. closing' \in ClosingRecord /\ search' \in [Searches -> SearchRecord]
      BY <2>1, <2>2, FinishEffect
    <2> QED BY <1>1, <2>1, <2>3
  <1>21. CASE \E t \in Threads : KeyFrameStep(t) /\ LoopsStay
    BY <1>1, <1>21, KeyFrameStepEffect
  <1> QED BY <1>2, <1>3, <1>4, <1>5, <1>6, <1>7, <1>8, <1>9, <1>10, <1>11, <1>12, <1>13, <1>14,
             <1>15, <1>16, <1>17, <1>18, <1>19, <1>20, <1>21, NextSteps

\* Every step keeps each loop in step with its calls.
LEMMA PhaseStep ==
    ASSUME Inv, Next
    PROVE  MapperPhase' /\ CloserPhase'
  <1>1. /\ Typed /\ TypeOK /\ TreeTypeOK /\ MapperPhase /\ CloserPhase /\ tracking.id \in 2 .. LastId + 1
        /\ mapper \in Threads /\ closer \in Threads /\ mapper # closer
        /\ Threads = {mapper, closer} /\ NULL \notin KeyFrames
    BY InvTyped, NullIsNoKeyFrame, RecognitionAssumption DEF Inv, Known, RecognitionAssumption
  <1>2. \A t \in Threads : call[t] \in CallRecord
    BY InvTyped
  <1> USE DEF MapperPhase, CloserPhase, OtherLoop, KeyFramesStay, TreeStays, LoopsStay, OthersWait, treeVars
  <1>3. CASE ProcessNewKeyFrame
    <2>1. tracking.id \in KeyFrames \ {0, 1} /\ closing.pc # "reverse"
      BY <1>1, <1>3, ProcessEffect DEF Stopped
    <2> QED BY <1>1, <1>3, <2>1, ProcessEffect DEF Connecting
  <1>4. CASE AddKeyFrame
    BY <1>1, <1>4, AddKeyFrameEffect
  <1>5. CASE SearchInNeighbors
    BY <1>1, <1>5, SearchInNeighborsEffect DEF Connecting
  <1>6. CASE ListsNeighbours
    BY <1>1, <1>6, ListsNeighboursEffect DEF Connecting, Sorting
  <1>7. CASE KeyFrameCulling
    BY <1>1, <1>7, KeyFrameCullingEffect DEF Connecting, Erasing
  <1>8. CASE InsertKeyFrame
    BY <1>1, <1>8, InsertKeyFrameEffect DEF Connecting
  <1>9. CASE TakesKeyFrame
    <2>1. Head(closing.queue) \in KeyFrames
      BY <1>9, TakesKeyFrameEffect, InvTyped
    <2> QED BY <1>1, <1>9, <2>1, TakesKeyFrameEffect
  <1>10. CASE LooksAgain
    BY <1>1, <1>10, LooksAgainEffect
  <1>11. CASE ListsCandidates
    BY <1>1, <1>11, ListsCandidatesEffect
  <1>12. CASE ChecksCandidates
    BY <1>1, <1>12, ChecksCandidatesEffect
  <1>13. CASE Matching
    BY <1>1, <1>13, MatchingEffect
  <1>14. CASE AddsToDatabase
    BY <1>1, <1>14, AddsToDatabaseEffect
  <1>15. CASE SetErase
    BY <1>1, <1>15, SetEraseEffect DEF Erasing
  <1>16. CASE GoesOn
    BY <1>1, <1>16, GoesOnEffect
  <1>17. CASE CorrectLoop
    <2>1. /\ TreeStays /\ Finish({"loop"}) /\ "loop" \in Detected
          /\ closing.pc = "found" /\ mapping.pc = "top"
      BY <1>17, CorrectLoopEffect
    <2>2. \A s \in {"loop"} : s \in Searches /\ search[s].n > 0
      BY <2>1, DetectedSearches
    <2>3. closing'.pc = "erase" /\ closing'.cur = closing.cur
      BY <2>1, <2>2, FinishEffect
    <2> QED BY <1>1, <2>1, <2>3
  <1>18. CASE WeldsMaps
    BY <1>1, <1>18, WeldsMapsEffect
  <1>19. CASE ReversesLink
    BY <1>1, <1>19, ReversesLinkEffect
  <1>20. CASE Reconnects
    BY <1>1, <1>20, ReconnectsEffect
  <1>21. CASE MovesRest
    <2>1. /\ TreeStays /\ Finish(Detected) /\ closing.pc = "move" /\ mapping.pc = "top"
      BY <1>21, MovesRestEffect
    <2>2. \A s \in Detected : s \in Searches /\ search[s].n > 0
      BY DetectedSearches
    <2>3. closing'.pc = "erase" /\ closing'.cur = closing.cur
      BY <2>1, <2>2, FinishEffect
    <2> QED BY <1>1, <2>1, <2>3
  <1>22. CASE \E t \in Threads : KeyFrameStep(t) /\ LoopsStay
    <2>1. PICK t \in Threads : KeyFrameStep(t) /\ LoopsStay
      BY <1>22
    <2>2. KeepsOn(t) /\ OthersWait(t)
      BY <1>1, <2>1, KeyFrameStepEffect
    <2>3. t = mapper /\ call'[t].pc = "addChild" => mapping.pc = "new"
      <3>1. SUFFICES ASSUME t = mapper, call'[t].pc = "addChild" PROVE mapping.pc = "new"
        OBVIOUS
      <3>2. call[t].pc \in Connecting /\ call[t].kf = mapping.cur /\ call[t].kf \in KeyFrames
        BY <1>1, <2>2, <3>1 DEF KeepsOn, Connecting, Sorting, Erasing, Chosen, Holding, Typed, Arguments
      <3>3. SetsParent(t)
        BY <1>1, <2>1, <3>1, <3>2, UpdateBestEffect, CountsEffect, ConnectionEffect, AddChildEffect,
           SortsOwnEffect
           DEF KeyFrameStep, UpdateConnections, SetBadFlag, AsksToErase, EraseConnection, TakesOwn,
               ScansChild, ChoosesParent, GivesChild, GivesRest, AdoptsChild, TurnsBad,
               ForgetsKeyFrame, Connecting
      <3>4. kf[mapping.cur].first
        BY <1>1, <3>1, <3>2, <3>3, SetsParentEffect
      <3>5. mapping.cur \notin made
        BY <1>1, <3>2, <3>4 DEF Inv, FirstOnce, Connecting
      <3>6. mapping.pc # "top"
        BY <1>1, <3>1, <3>2 DEF Connecting
      <3> QED BY <1>1, <3>1, <3>2, <3>5, <3>6 DEF Inv, Known
    <2> QED BY <1>1, <2>1, <2>2, <2>3 DEF KeepsOn, Connecting, Sorting, Erasing, Chosen, Holding
  <1> QED BY <1>3, <1>4, <1>5, <1>6, <1>7, <1>8, <1>9, <1>10, <1>11, <1>12, <1>13, <1>14,
             <1>15, <1>16, <1>17, <1>18, <1>19, <1>20, <1>21, <1>22, NextSteps
\* The two corrections end with every detection being over.
LEMMA FinishingSteps ==
    ASSUME Inv, CorrectLoop \/ MovesRest
    PROVE  /\ TreeTypeOK' /\ SameLinks /\ TreeStays /\ database' = database /\ leaked' = leaked
           /\ mapping.pc = "top" /\ closing.pc \in {"found", "move"}
           /\ closing' \in ClosingRecord /\ closing'.pc = "erase" /\ closing'.next = "idle"
           /\ closing'.cur = closing.cur /\ closing'.queue = closing.queue
           /\ \A i \in DOMAIN closing'.erase : closing'.erase[i] \in made
           /\ \A s \in Detected : /\ \E i \in DOMAIN closing'.erase : closing'.erase[i] = Matched(s)
                                  /\ \E i \in DOMAIN closing'.erase : closing'.erase[i] = Last(s)
           /\ search' \in [Searches -> SearchRecord]
           /\ \A s \in Detected : search'[s].n = 0
           /\ \A s \in Searches \ Detected : search'[s] = search[s]
  <1>1. /\ TreeTypeOK' /\ SameLinks /\ TreeStays /\ database' = database /\ leaked' = leaked
        /\ mapping.pc = "top" /\ closing.pc \in {"found", "move"}
    BY CorrectLoopEffect, MovesRestEffect
  <1>2. Detected \subseteq Searches /\ Searches \subseteq {"loop", "merge"}
    BY DetectedSearches
  <1>3. CASE CorrectLoop
    <2>1. Detected = {"loop"} /\ Finish({"loop"})
      BY <1>2, <1>3, CorrectLoopEffect
    <2> QED BY <1>1, <2>1, DetectedSearches, FinishEffect
  <1>4. CASE MovesRest
    <2>1. Finish(Detected)
      BY <1>4, MovesRestEffect
    <2> QED BY <1>1, <2>1, DetectedSearches, FinishEffect
  <1> QED BY <1>3, <1>4

\* Every step keeps who has heard of which keyframes.
LEMMA KnownStep ==
    ASSUME Inv, Next
    PROVE  Known'
  <1>1. /\ Typed /\ TypeOK /\ TreeTypeOK /\ MapperPhase /\ CloserPhase /\ Known
        /\ mapper \in Threads /\ closer \in Threads /\ NULL \notin KeyFrames
        /\ LastId \in Nat /\ made \in SUBSET KeyFrames
        /\ \A s \in Detected : s \in Searches
    BY InvTyped, NullIsNoKeyFrame, TreeAssumption DEF Inv, TreeAssumption, Detected
  <1> USE DEF Known, OtherLoop, KeyFramesStay, TreeStays, LoopsStay, treeVars, Last, Matched
  <1>2. CASE ProcessNewKeyFrame
    <2>1. tracking.id \in KeyFrames /\ tracking'.id = tracking.id + 1 /\ mapping'.cur = tracking.id
          /\ mapping'.pc = "new" /\ mapping'.left = {} /\ mapping.pc = "top" /\ made' = made
          /\ database' = database
      BY <1>2, ProcessEffect
    <2>2. made = {k \in KeyFrames : k < tracking.id + 1 /\ k # tracking.id}
      BY <1>1, <2>1 DEF KeyFrames
    <2>3. tracking'.id \in 2 .. LastId + 1
      BY <1>1, <2>1 DEF KeyFrames
    <2> QED BY <1>1, <1>2, <2>1, <2>2, <2>3, ProcessEffect DEF KeyFrames
  <1>3. CASE AddKeyFrame
    <2>1. made' = {k \in KeyFrames : k < tracking.id}
      BY <1>1, <1>3, AddKeyFrameEffect
    <2> QED BY <1>1, <1>3, <2>1, AddKeyFrameEffect
  <1>4. CASE SearchInNeighbors
    BY <1>1, <1>4, SearchInNeighborsEffect
  <1>5. CASE ListsNeighbours
    BY <1>1, <1>5, ListsNeighboursEffect
  <1>6. CASE KeyFrameCulling
    BY <1>1, <1>6, KeyFrameCullingEffect
  <1>7. CASE InsertKeyFrame
    <2>1. mapping.cur \in made \ {0} /\ closing.queue \in Seq(KeyFrames) /\ mapping.cur \in KeyFrames
      BY <1>1, <1>7, InsertKeyFrameEffect, InvTyped DEF MapperPhase, ClosingRecord
    <2>2. closing'.queue = Append(closing.queue, mapping.cur)
      BY <1>7, InsertKeyFrameEffect
    <2>3. \A i \in DOMAIN closing'.queue :
             (i \in DOMAIN closing.queue /\ closing'.queue[i] = closing.queue[i])
             \/ closing'.queue[i] = mapping.cur
      BY <2>1, <2>2
    <2>4. \A i \in DOMAIN closing'.queue : closing'.queue[i] \in made \ {0}
      BY <1>1, <2>1, <2>3
    <2> QED BY <1>1, <1>7, <2>4, InsertKeyFrameEffect
  <1>8. CASE TakesKeyFrame
    BY <1>1, <1>8, TakesKeyFrameEffect
  <1>9. CASE LooksAgain
    <2>1. \A i \in DOMAIN closing'.erase : closing'.erase[i] \in made
      BY <1>1, <1>9, LooksAgainEffect
    <2>2. closing.cur # NULL /\ closing.cur \in made
      BY <1>1, <1>9, LooksAgainEffect DEF CloserPhase
    <2>3. \A s \in Searches : search'[s].n > 0 => search'[s].last \in made /\ search'[s].matched \in made
      BY <1>1, <1>9, <2>2, LooksAgainEffect
    <2>4. closing'.pc \in {"again", "erase"} /\ \A s \in closing'.todo : search'[s].n > 0
      <3>1. PICK s \in closing.todo :
               /\ closing'.todo = closing.todo \ {s} /\ closing'.pc \in {"again", "erase"}
               /\ \A x \in Searches \ {s} : search'[x] = search[x]
        BY <1>9, LooksAgainEffect
      <3>2. closing.todo \subseteq Searches /\ closing.pc = "again"
        BY <1>9, LooksAgainEffect, InvTyped DEF ClosingRecord
      <3>3. \A x \in closing.todo : search[x].n > 0
        BY <1>1, <3>2
      <3> QED BY <3>1, <3>2, <3>3
    <2> QED BY <1>1, <1>9, <2>1, <2>3, <2>4, LooksAgainEffect
  <1>10. CASE ListsCandidates
    BY <1>1, <1>10, ListsCandidatesEffect
  <1>11. CASE ChecksCandidates
    BY <1>1, <1>11, ChecksCandidatesEffect
  <1>12. CASE Matching
    <2>1. closing.cur # NULL /\ closing.cur \in made
      BY <1>1, <1>12, MatchingEffect DEF CloserPhase
    <2>2. \A s \in Searches : search'[s].n > 0 => search'[s].last \in made /\ search'[s].matched \in made
      BY <1>1, <1>12, <2>1, MatchingEffect
    <2> QED BY <1>1, <1>12, <2>2, MatchingEffect
  <1>13. CASE AddsToDatabase
    <2>1. \A i \in DOMAIN closing'.erase : closing'.erase[i] \in made
      BY <1>1, <1>13, AddsToDatabaseEffect
    <2> QED BY <1>1, <1>13, <2>1, AddsToDatabaseEffect
  <1>14. CASE SetErase
    <2>1. closing.erase \in Seq(KeyFrames) /\ closing.erase # << >> /\ closing'.erase = Tail(closing.erase)
      BY <1>14, SetEraseEffect, InvTyped DEF ClosingRecord
    <2>2. \A i \in DOMAIN closing'.erase : closing'.erase[i] \in made
      <3>1. \A i \in DOMAIN closing'.erase : i + 1 \in DOMAIN closing.erase
                                             /\ closing'.erase[i] = closing.erase[i + 1]
        BY <2>1
      <3> QED BY <1>1, <3>1
    <2> QED BY <1>1, <1>14, <2>2, SetEraseEffect
  <1>15. CASE GoesOn
    BY <1>1, <1>15, GoesOnEffect
  <1>16. CASE CorrectLoop \/ MovesRest
    <2>1. \A s \in Searches : search'[s].n > 0 => search'[s] = search[s]
      BY <1>16, FinishingSteps
    <2> QED BY <1>1, <1>16, <2>1, FinishingSteps
  <1>17. CASE WeldsMaps
    BY <1>1, <1>17, WeldsMapsEffect
  <1>18. CASE ReversesLink
    BY <1>1, <1>18, ReversesLinkEffect
  <1>19. CASE Reconnects
    BY <1>1, <1>19, ReconnectsEffect
  <1>20. CASE \E t \in Threads : KeyFrameStep(t) /\ LoopsStay
    BY <1>1, <1>20, KeyFrameStepEffect DEF SameMarks
  <1> QED BY <1>2, <1>3, <1>4, <1>5, <1>6, <1>7, <1>8, <1>9, <1>10, <1>11, <1>12, <1>13, <1>14,
             <1>15, <1>16, <1>17, <1>18, <1>19, <1>20, NextSteps
\* An erased keyframe stays erased, and none is connected for the first time twice.
LEMMA BadStays ==
    ASSUME Typed, NEW t \in Threads, KeyFrameStep(t)
    PROVE  /\ \A x \in KeyFrames : kf[x].bad => kf'[x].bad
           /\ ~AddChild(t) => \A x \in KeyFrames : kf'[x].first = kf[x].first
  <1>1. CASE SortsOwn(t)
    BY <1>1, SortsOwnEffect DEF SameLinks
  <1>2. CASE UpdateBestCovisibles(t)
    BY <1>2, UpdateBestEffect DEF SameLinks
  <1>3. CASE CountsPoints(t)
    BY <1>3, CountsEffect DEF SameLinks
  <1>4. CASE AddConnection(t) \/ EraseConnection(t)
    BY <1>4, ConnectionEffect DEF SameLinks
  <1>5. CASE SetsParent(t)
    BY <1>5, SetsParentEffect DEF SameLinks
  <1>6. CASE AddChild(t)
    BY <1>6, AddChildEffect
  <1>7. CASE AsksToErase(t)
    BY <1>7, AsksEffect DEF SameLinks
  <1>8. CASE TakesOwn(t)
    BY <1>8, TakesOwnEffect DEF SameLinks
  <1>9. CASE ScansChild(t)
    BY <1>9, ScansEffect DEF SameLinks
  <1>10. CASE ChoosesParent(t)
    BY <1>10, ChoosesEffect DEF SameLinks
  <1>11. CASE GivesChild(t) \/ GivesRest(t)
    BY <1>11, GivesEffect DEF Moves
  <1>12. CASE AdoptsChild(t)
    BY <1>12, AdoptsEffect
  <1>13. CASE TurnsBad(t)
    BY <1>13, TurnsBadEffect
  <1>14. CASE ForgetsKeyFrame(t)
    BY <1>14, ForgetsEffect DEF SameLinks

  <1> QED BY <1>1, <1>2, <1>3, <1>4, <1>5, <1>6, <1>7, <1>8, <1>9, <1>10, <1>11, <1>12, <1>13, <1>14
          DEF KeyFrameStep, UpdateConnections, SetBadFlag

\* Once the maps are one, the other of them has no good keyframe.
LEMMA EmptyMap ==
    ASSUME Inv, ~Split, ~Welding, NEW m \in Maps, SmallMap <= MapSize(m)
    PROVE  m = "old"
  <1> SUFFICES ASSUME m = "new" PROVE FALSE
    BY DEF Maps
  <1> DEFINE S == {k \in made : Good(k) /\ kf[k].inMap = m}
  <1>1. S = {}
    BY DEF Inv, MapsMergeOnce
  <1>2. Cardinality(S) = 0
    BY <1>1, FS_EmptySet
  <1>3. MapSize(m) = 0
    BY <1>2 DEF MapSize
  <1> QED BY <1>3, RecognitionAssumption DEF RecognitionAssumption

\* A search that is to be looked at again is of keyframes of the old map, if there is one.
LooksOn ==
    \/ closing.pc \in {"again", "candidates", "match"}
    \/ closing.pc = "erase" /\ closing.next = "again"

\* Most steps leave the maps, and what the searches know of them.
LEMMA SameMaps ==
    ASSUME MapsMergeOnce, 0 \in KeyFrames, made \in SUBSET KeyFrames, mapping.cur \in NodesOrNull,
           made' = made, tracking'.map = tracking.map, Welding' <=> Welding,
           \A x \in KeyFrames : kf'[x].inMap = kf[x].inMap /\ (kf[x].bad => kf'[x].bad),
           mapping'.pc = "new" => mapping.pc = "new" /\ mapping'.cur = mapping.cur /\ mapping.cur \in KeyFrames,
           LooksOn' => LooksOn /\ closing'.cur = closing.cur /\ closing.cur \in KeyFrames,
           closing'.pc = "match" => closing.pc = "match" /\ closing'.cand = closing.cand,
           \A s \in Searches : /\ search[s].n = 0 => search'[s].n = 0
                               /\ search'[s].n > 0 => search[s].n > 0 /\ search'[s].matched = search[s].matched
    PROVE  MapsMergeOnce'
  BY DEF MapsMergeOnce, Split, Matched, Good, LooksOn

\* Every step keeps the maps: there is one merge at most.
LEMMA MapsStep ==
    ASSUME Inv, Next
    PROVE  MapsMergeOnce'
  <1>1. /\ Typed /\ MapsMergeOnce /\ 0 \in KeyFrames /\ made \in SUBSET KeyFrames
        /\ mapping.cur \in NodesOrNull
    BY InvTyped DEF Inv, MappingRecord
  <1>2. mapping.pc = "new" => mapping.cur \in KeyFrames
    BY DEF Inv, MapperPhase
  <1>3. closing.pc # "idle" => closing.cur \in KeyFrames /\ closing.cur \in made \ {0}
    BY <1>1 DEF Inv, Known, CloserPhase
  <1> USE DEF OtherLoop, KeyFramesStay, TreeStays, LoopsStay, treeVars, LooksOn, Welding
  <1>4. CASE ProcessNewKeyFrame
    <2>1. tracking.id \notin made /\ tracking.id # 0 /\ tracking.id \in KeyFrames
      BY <1>1, <1>4, ProcessEffect DEF Inv, Known
    <2>2. /\ made' = made /\ tracking'.map = tracking.map /\ mapping'.cur = tracking.id
          /\ UNCHANGED <<closing, search>>
          /\ \A x \in KeyFrames : /\ kf'[x].inMap = (IF x = tracking.id THEN tracking.map ELSE kf[x].inMap)
                                  /\ kf'[x].bad = kf[x].bad
      BY <1>4, ProcessEffect DEF SameLinks
    <2>3. closing.pc # "idle" => closing.cur # tracking.id
      BY <1>3, <2>1
    <2> QED BY <1>1, <1>3, <2>1, <2>2, <2>3 DEF MapsMergeOnce, Split, Matched, Good
  <1>5. CASE AddKeyFrame
    <2>1. /\ UNCHANGED <<kf, tracking, closing, search>> /\ made' = made \cup {mapping.cur}
          /\ mapping.pc = "new" /\ mapping'.pc = "fuse"
      BY <1>5, AddKeyFrameEffect
    <2>2. tracking.map \in Maps
      BY InvTyped
    <2> QED BY <1>1, <1>2, <2>1, <2>2 DEF MapsMergeOnce, Split, Matched, Good, Maps
  <1>6. CASE SearchInNeighbors
    BY <1>1, <1>2, <1>3, <1>6, SearchInNeighborsEffect, SameMaps
  <1>7. CASE ListsNeighbours
    BY <1>1, <1>2, <1>3, <1>7, ListsNeighboursEffect, SameMaps
  <1>8. CASE KeyFrameCulling
    BY <1>1, <1>2, <1>3, <1>8, KeyFrameCullingEffect, SameMaps
  <1>9. CASE InsertKeyFrame
    BY <1>1, <1>2, <1>3, <1>9, InsertKeyFrameEffect, SameMaps
  <1>10. CASE TakesKeyFrame
    <2> DEFINE k == Head(closing.queue)
    <2>1. /\ k \in KeyFrames /\ closing'.cur = k /\ TreeStays /\ search' = search
          /\ closing.pc = "idle" /\ \A x \in KeyFrames : kf'[x].inMap = kf[x].inMap /\ kf'[x].bad = kf[x].bad
          /\ closing'.pc = "decide" \/ (closing'.pc = "again" /\ SmallMap <= MapSize(kf[k].inMap))
      BY <1>1, <1>10, TakesKeyFrameEffect DEF SameLinks
    <2>2. kf[k].inMap \in Maps
      BY <2>1, InvTyped DEF KeyFrameRecord
    <2> HIDE DEF k
    <2>3. ~Split /\ ~Welding /\ closing'.pc = "again" => kf[k].inMap = "old"
      BY <2>1, <2>2, EmptyMap
    <2> QED BY <1>1, <1>2, <2>1, <2>3 DEF MapsMergeOnce, Split, Matched, Good
  <1>11. CASE LooksAgain
    <2>1. PICK s \in closing.todo :
             /\ s \in Searches /\ search[s].n > 0
             /\ \A x \in Searches \ {s} : search'[x] = search[x]
             /\ search'[s].matched = search[s].matched
      BY <1>11, LooksAgainEffect DEF Matched
    <2>2. search[s].n # 0
      BY <2>1
    <2>3. \A x \in Searches : /\ search[x].n = 0 => search'[x].n = 0
                              /\ search'[x].n > 0 => search[x].n > 0 /\ search'[x].matched = search[x].matched
      BY <2>1, <2>2
    <2>4. /\ UNCHANGED <<treeVars, tracking, mapping>> /\ closing.pc = "again"
          /\ closing'.cur = closing.cur /\ closing'.pc \in {"again", "erase"}
      BY <1>11, LooksAgainEffect
    <2> QED BY <1>1, <1>2, <1>3, <2>3, <2>4, SameMaps
  <1>12. CASE ListsCandidates
    BY <1>1, <1>2, <1>3, <1>12, ListsCandidatesEffect, SameMaps
  <1>13. CASE ChecksCandidates
    <2>1. \A s \in Searches : closing'.cand[s] # NULL =>
             /\ closing'.cand[s] \in made /\ closing'.cand[s] = closing.cand[s]
             /\ s = "merge" => kf[closing'.cand[s]].inMap # kf[closing.cur].inMap
             /\ closing'.pc = "match" => ~kf[closing'.cand[s]].bad
      BY <1>1, <1>13, ChecksCandidatesEffect DEF Inv, Known, SameMap
    <2>2. UNCHANGED <<treeVars, tracking, mapping, search>> /\ closing.pc = "candidates"
          /\ closing'.cur = closing.cur /\ closing'.pc \in {"spins", "match"}
      BY <1>13, ChecksCandidatesEffect
    <2> QED BY <1>1, <1>2, <1>3, <2>1, <2>2 DEF MapsMergeOnce, Split, Matched, Good
  <1>14. CASE Matching
    <2>1. /\ UNCHANGED <<made, tracking, mapping>> /\ closing.pc = "match" /\ closing'.pc \in {"match", "decide"}
          /\ \A x \in KeyFrames : kf'[x].inMap = kf[x].inMap /\ kf'[x].bad = kf[x].bad
          /\ \A s \in Searches : search'[s] = search[s]
                 \/ (closing.cand[s] # NULL /\ search'[s].matched = closing.cand[s])
          /\ closing'.cur = closing.cur /\ \A s \in Searches : closing'.cand[s] \in {closing.cand[s], NULL}
      BY <1>14, MatchingEffect DEF SameLinks
    <2> QED BY <1>1, <1>2, <1>3, <2>1 DEF MapsMergeOnce, Split, Matched, Good
  <1>15. CASE AddsToDatabase
    BY <1>1, <1>2, <1>3, <1>15, AddsToDatabaseEffect, SameMaps
  <1>16. CASE SetErase
    <2>1. \A x \in KeyFrames : kf'[x].inMap = kf[x].inMap /\ kf'[x].bad = kf[x].bad
      BY <1>16, SetEraseEffect DEF SameLinks
    <2> QED BY <1>1, <1>2, <1>3, <1>16, <2>1, SetEraseEffect, SameMaps
  <1>17. CASE GoesOn
    BY <1>1, <1>2, <1>3, <1>17, GoesOnEffect, SameMaps
  <1>18. CASE CorrectLoop
    <2>1. \A x \in KeyFrames : kf'[x].inMap = kf[x].inMap /\ kf'[x].bad = kf[x].bad
      BY <1>18, CorrectLoopEffect DEF SameLinks
    <2>2. \A s \in Searches : search'[s].n = 0 \/ search'[s] = search[s]
      BY <1>18, FinishingSteps
    <2>3. \A s \in Searches : /\ search[s].n = 0 => search'[s].n = 0
                              /\ search'[s].n > 0 => search[s].n > 0 /\ search'[s].matched = search[s].matched
      BY <2>2
    <2>4. TreeStays /\ closing.pc = "found" /\ closing'.pc = "erase" /\ closing'.next = "idle"
      BY <1>18, CorrectLoopEffect, FinishingSteps
    <2> QED BY <1>1, <1>2, <1>3, <2>1, <2>3, <2>4, SameMaps
  <1>19. CASE MovesRest
    <2>1. \A x \in KeyFrames : /\ kf'[x].inMap = (IF x \in made /\ ~kf[x].bad THEN "old" ELSE kf[x].inMap)
                               /\ kf'[x].bad = kf[x].bad
      BY <1>19, MovesRestEffect DEF SameLinks, Good
    <2>2. TreeStays /\ closing.pc = "move" /\ closing'.pc = "erase" /\ closing'.next = "idle" /\ mapping.pc = "top"
      BY <1>19, MovesRestEffect, FinishingSteps
    <2>3. "merge" \in Detected /\ search'["merge"].n = 0
      BY <1>19, MovesRestEffect, FinishingSteps
    <2> QED BY <1>1, <2>1, <2>2, <2>3 DEF MapsMergeOnce, Split, Matched, Good
  <1>20. CASE WeldsMaps
    <2>1. /\ mapping' = mapping /\ mapping.pc = "top" /\ tracking'.map = "old" /\ closing'.pc = "reverse"
          /\ \A x \in KeyFrames : kf'[x].inMap \in {"old", kf[x].inMap}
      BY <1>20, WeldsMapsEffect
    <2> QED BY <1>1, <2>1 DEF MapsMergeOnce, Split
  <1>21. CASE ReversesLink
    BY <1>1, <1>2, <1>3, <1>21, ReversesLinkEffect, SameMaps
  <1>22. CASE Reconnects
    BY <1>1, <1>2, <1>3, <1>22, ReconnectsEffect, SameMaps
  <1>23. CASE \E t \in Threads : KeyFrameStep(t) /\ LoopsStay
    <2>1. SameMarks /\ LoopsStay
      BY <1>1, <1>23, KeyFrameStepEffect
    <2>2. \A x \in KeyFrames : kf[x].bad => kf'[x].bad
      BY <1>1, <1>23, BadStays
    <2> QED BY <1>1, <1>2, <1>3, <2>1, <2>2, SameMaps DEF SameMarks
  <1> QED BY <1>4, <1>5, <1>6, <1>7, <1>8, <1>9, <1>10, <1>11, <1>12, <1>13, <1>14,
             <1>15, <1>16, <1>17, <1>18, <1>19, <1>20, <1>21, <1>22, <1>23, NextSteps
\* The method a keyframe that is new is in is over when it has been connected, not before.
LEMMA ConnectedAtLast ==
    ASSUME Inv, NEW t \in Threads, KeyFrameStep(t)
    PROVE  \/ /\ \A x \in KeyFrames : kf'[x].first = kf[x].first
              /\ t = mapper /\ mapping.pc = "new" => call[t].pc # "none" /\ call'[t].pc # "none"
           \/ /\ t = mapper /\ mapping.pc = "new" /\ call'[t].pc = "none"
              /\ \A x \in KeyFrames : x # mapping.cur => kf'[x].first = kf[x].first
              /\ kf'[mapping.cur].first = FALSE
  <1>1. Typed /\ MapperPhase /\ CloserPhase /\ FirstOnce /\ mapper # closer /\ Threads = {mapper, closer}
    BY InvTyped, RecognitionAssumption DEF Inv, RecognitionAssumption
  <1>2. call[t].pc # "none"
    BY <1>1, KeyFrameStepEffect DEF KeepsOn, Connecting, Sorting, Erasing, Chosen, Holding
  <1>3. CASE AddChild(t)
    <2>1. call[t].pc = "addChild" /\ call'[t].pc = "none"
      BY <1>1, <1>3, AddChildEffect
    <2>2. t = mapper /\ mapping.pc = "new" /\ call[t].kf = mapping.cur
      BY <1>1, <2>1 DEF MapperPhase, CloserPhase, Erasing, Chosen, Holding, Connecting
    <2> QED BY <1>1, <1>3, <2>1, <2>2, AddChildEffect
  <1>4. CASE ~AddChild(t)
    <2>1. \A x \in KeyFrames : kf'[x].first = kf[x].first
      BY <1>1, <1>4, BadStays
    <2>2. ASSUME t = mapper, mapping.pc = "new" PROVE call'[t].pc # "none"
      <3>1. call[t].pc \in Connecting /\ call[t].kf = mapping.cur /\ mapping.cur \in KeyFrames \ {0, 1}
        BY <1>1, <1>2, <2>2 DEF MapperPhase
      <3>2. kf[mapping.cur].first /\ kf[mapping.cur].inMap \in Maps
        BY <1>1, <1>2, <2>2, <3>1, InvTyped DEF FirstOnce, KeyFrameRecord
      <3>3. ~IsOrigin(mapping.cur)
        BY <3>1, <3>2 DEF IsOrigin, Origin, Maps
      <3>4. CASE SetsParent(t)
        BY <1>1, <3>1, <3>2, <3>3, <3>4, SetsParentEffect
      <3>5. CASE ~SetsParent(t)
        <4>1. UpdateBestCovisibles(t) \/ CountsPoints(t) \/ AddConnection(t)
          BY <1>4, <3>1, <3>5
             DEF KeyFrameStep, SortsOwn, UpdateConnections, SetBadFlag, AsksToErase, EraseConnection,
                 TakesOwn, ScansChild, ChoosesParent, GivesChild, GivesRest, AdoptsChild, TurnsBad,
                 ForgetsKeyFrame, Connecting
        <4> QED BY <1>1, <3>1, <4>1, UpdateBestEffect, CountsEffect, ConnectionEffect DEF Connecting
      <3> QED BY <3>4, <3>5
    <2> QED BY <1>2, <2>1, <2>2
  <1> QED BY <1>3, <1>4

\* Every step keeps first connections first.
LEMMA FirstStep ==
    ASSUME Inv, Next
    PROVE  FirstOnce'
  <1>1. /\ Typed /\ FirstOnce /\ made \in SUBSET KeyFrames /\ mapper # closer /\ mapper \in Threads
        /\ closer \in Threads
    BY InvTyped DEF Inv
  <1>2. mapping.pc # "top" => mapping.cur \in KeyFrames
    BY DEF Inv, MapperPhase
  <1> USE DEF OtherLoop, KeyFramesStay, TreeStays, LoopsStay, treeVars, SameLinks, FirstOnce, Split, OthersWait
  <1>3. CASE ProcessNewKeyFrame
    <2>1. tracking.id \notin made /\ tracking.id \in KeyFrames
      BY <1>1, <1>3, ProcessEffect DEF Inv, Known
    <2> QED BY <1>1, <1>3, <2>1, ProcessEffect
  <1>4. CASE AddKeyFrame
    BY <1>1, <1>2, <1>4, AddKeyFrameEffect
  <1>5. CASE SearchInNeighbors
    BY <1>1, <1>5, SearchInNeighborsEffect
  <1>6. CASE ListsNeighbours
    BY <1>1, <1>6, ListsNeighboursEffect
  <1>7. CASE KeyFrameCulling
    BY <1>1, <1>7, KeyFrameCullingEffect
  <1>8. CASE InsertKeyFrame
    BY <1>1, <1>8, InsertKeyFrameEffect
  <1>9. CASE TakesKeyFrame
    BY <1>1, <1>2, <1>9, TakesKeyFrameEffect
  <1>10. CASE LooksAgain
    BY <1>1, <1>10, LooksAgainEffect
  <1>11. CASE ListsCandidates
    BY <1>1, <1>11, ListsCandidatesEffect
  <1>12. CASE ChecksCandidates
    BY <1>1, <1>12, ChecksCandidatesEffect
  <1>13. CASE Matching
    BY <1>1, <1>2, <1>13, MatchingEffect
  <1>14. CASE AddsToDatabase
    BY <1>1, <1>14, AddsToDatabaseEffect
  <1>15. CASE SetErase
    BY <1>1, <1>2, <1>15, SetEraseEffect
  <1>16. CASE GoesOn
    BY <1>1, <1>16, GoesOnEffect
  <1>17. CASE CorrectLoop \/ MovesRest
    BY <1>1, <1>2, <1>17, FinishingSteps
  <1>18. CASE WeldsMaps
    <2>1. /\ UNCHANGED <<call, made, mapping>> /\ mapping.pc = "top"
          /\ \A x \in KeyFrames : /\ kf'[x].first => kf[x].first /\ x # 1
                                  /\ x # 1 => (kf[x].first => kf'[x].first)
      BY <1>18, WeldsMapsEffect
    <2>2. 1 \in made
      BY <1>1, <2>1, InvTyped, TreeAssumption DEF Inv, Known, TreeAssumption
    <2> QED BY <1>1, <2>1, <2>2
  <1>19. CASE ReversesLink
    BY <1>1, <1>2, <1>19, ReversesLinkEffect
  <1>20. CASE Reconnects
    BY <1>1, <1>20, ReconnectsEffect
  <1>21. CASE \E t \in Threads : KeyFrameStep(t) /\ LoopsStay
    <2>1. PICK t \in Threads : KeyFrameStep(t) /\ LoopsStay
      BY <1>21
    <2>2. OthersWait(t) /\ made' = made
      BY <1>1, <2>1, KeyFrameStepEffect DEF SameMarks
    <2> QED BY <1>1, <1>2, <2>1, <2>2, ConnectedAtLast
  <1> QED BY <1>3, <1>4, <1>5, <1>6, <1>7, <1>8, <1>9, <1>10, <1>11, <1>12, <1>13, <1>14,
             <1>15, <1>16, <1>17, <1>18, <1>19, <1>20, <1>21, NextSteps

\* A thread that is in no method has one called, or goes on as it was.
Begun(u) ==
    /\ call[u].pc = "none" /\ call'[u].kf \in KeyFrames
    /\ call'[u].pc \in {"count", "sort"} \/ (call'[u].pc = "ask" /\ call'[u].kf \in made)

\* A merge is turning links round.
TurnsOn == closing.pc = "reverse" /\ closing.child # NULL

\* A step of a loop that leaves the tree as it is.
LoopStep ==
    /\ lock' = lock /\ SameLinks /\ tracking'.map = tracking.map /\ TreeTypeOK'
    /\ made' = made \/ (made' = made \cup {mapping.cur} /\ mapping.pc = "new" /\ call[mapper].pc = "none")
    /\ \A u \in Threads : call'[u] = call[u] \/ Begun(u)
    /\ TurnsOn' <=> TurnsOn
    /\ TurnsOn' => closing'.child = closing.child /\ closing'.parent = closing.parent

\* A step is one of a merge, a loop's that leaves the tree alone, or one in a method.
LEMMA LoopSteps ==
    ASSUME Inv, Next
    PROVE  \/ WeldsMaps \/ ReversesLink \/ LoopStep
           \/ \E t \in Threads : KeyFrameStep(t) /\ LoopsStay
  <1>1. /\ TreeTypeOK /\ mapper \in Threads /\ closer \in Threads /\ Threads = {mapper, closer}
        /\ mapper # closer
    BY InvTyped, RecognitionAssumption DEF RecognitionAssumption
  <1>2. mapping.pc # "top" => mapping.cur \in KeyFrames
    BY DEF Inv, MapperPhase
  <1>3. made \subseteq KeyFrames
    BY InvTyped
  <1> USE DEF OtherLoop, KeyFramesStay, TreeStays, treeVars, LoopStep, Begun, OthersWait, TurnsOn
  <1>4. CASE ProcessNewKeyFrame
    <2>1. call[mapper].pc = "none"
      BY <1>4, ProcessEffect DEF Inv, MapperPhase
    <2> QED BY <1>1, <1>4, <2>1, ProcessEffect
  <1>5. CASE AddKeyFrame
    BY <1>1, <1>5, AddKeyFrameEffect DEF SameLinks
  <1>6. CASE SearchInNeighbors
    BY <1>1, <1>2, <1>6, SearchInNeighborsEffect DEF SameLinks
  <1>7. CASE ListsNeighbours
    BY <1>1, <1>2, <1>7, ListsNeighboursEffect DEF SameLinks
  <1>8. CASE KeyFrameCulling
    BY <1>1, <1>3, <1>8, KeyFrameCullingEffect DEF SameLinks
  <1>9. CASE InsertKeyFrame
    BY <1>1, <1>9, InsertKeyFrameEffect DEF SameLinks, TreeTypeOK
  <1>10. CASE TakesKeyFrame
    BY <1>1, <1>10, TakesKeyFrameEffect
  <1>11. CASE LooksAgain
    <2>1. UNCHANGED <<treeVars, tracking>> /\ closing.pc = "again" /\ closing'.pc \in {"again", "erase"}
      BY <1>11, LooksAgainEffect
    <2> QED BY <1>1, <2>1 DEF SameLinks, TreeTypeOK
  <1>12. CASE ListsCandidates
    BY <1>1, <1>12, ListsCandidatesEffect DEF SameLinks, TreeTypeOK
  <1>13. CASE ChecksCandidates
    BY <1>1, <1>13, ChecksCandidatesEffect DEF SameLinks, TreeTypeOK
  <1>14. CASE Matching
    BY <1>1, <1>14, MatchingEffect
  <1>15. CASE AddsToDatabase
    BY <1>1, <1>15, AddsToDatabaseEffect DEF SameLinks
  <1>16. CASE SetErase
    BY <1>1, <1>3, <1>16, SetEraseEffect
  <1>17. CASE GoesOn
    BY <1>1, <1>17, GoesOnEffect DEF SameLinks, TreeTypeOK
  <1>18. CASE CorrectLoop \/ MovesRest
    BY <1>1, <1>18, FinishingSteps
  <1>19. CASE Reconnects
    BY <1>1, <1>19, ReconnectsEffect DEF SameLinks, TreeTypeOK
  <1> HIDE DEF LoopStep
  <1> QED BY <1>4, <1>5, <1>6, <1>7, <1>8, <1>9, <1>10, <1>11, <1>12, <1>13, <1>14,
             <1>15, <1>16, <1>17, <1>18, <1>19, NextSteps

\* A step of one thread keeps what another has locked.
LEMMA LockedStays ==
    ASSUME Typed, NEW t \in Threads, KeyFrameStep(t), NEW x \in KeyFrames, lock[x] # NULL, lock[x] # t
    PROVE  lock'[x] = lock[x] /\ kf'[x].parent = kf[x].parent
  <1>1. TreeTypeOK /\ \A u \in Threads : u # NULL
    BY NullIsNoKeyFrame DEF Typed
  <1> USE DEF TreeTypeOK
  <1>2. CASE SortsOwn(t)
    BY <1>1, <1>2, SortsOwnEffect DEF SameLinks
  <1>3. CASE UpdateBestCovisibles(t)
    <2>1. lock[call[t].child] = t /\ call[t].child \in KeyFrames
      BY <1>3, UpdateBestEffect DEF Typed, Locks
    <2> QED BY <1>1, <1>3, <2>1, UpdateBestEffect DEF SameLinks
  <1>4. CASE CountsPoints(t)
    BY <1>4, CountsEffect DEF SameLinks
  <1>5. CASE AddConnection(t) \/ EraseConnection(t)
    BY <1>1, <1>5, ConnectionEffect DEF SameLinks
  <1>6. CASE SetsParent(t)
    BY <1>1, <1>6, SetsParentEffect DEF SameLinks
  <1>7. CASE AddChild(t)
    <2>1. lock[call[t].kf] = t /\ call[t].kf \in KeyFrames
      BY <1>7, AddChildEffect DEF Typed, Locks
    <2>2. lock' = [lock EXCEPT ![call[t].kf] = NULL] /\ kf'[x].parent = kf[x].parent
      BY <1>7, AddChildEffect
    <2> QED BY <1>1, <2>1, <2>2
  <1>8. CASE AsksToErase(t)
    BY <1>8, AsksEffect DEF SameLinks
  <1>9. CASE TakesOwn(t)
    BY <1>1, <1>9, TakesOwnEffect DEF SameLinks
  <1>10. CASE ScansChild(t)
    BY <1>10, ScansEffect DEF SameLinks
  <1>11. CASE ChoosesParent(t)
    BY <1>11, ChoosesEffect DEF SameLinks
  <1>12. CASE GivesChild(t) \/ GivesRest(t)
    <2>1. PICK c \in KeyFrames, p \in NodesOrNull : Moves(t, c, p)
      BY <1>12, GivesEffect
    <2> QED BY <1>1, <2>1 DEF Moves
  <1>13. CASE AdoptsChild(t)
    <2>1. lock[call[t].child] = t /\ call[t].child \in KeyFrames
      BY <1>13, AdoptsEffect DEF Typed, Locks
    <2>2. lock' = [lock EXCEPT ![call[t].child] = NULL] /\ kf'[x].parent = kf[x].parent
      BY <1>13, AdoptsEffect
    <2> QED BY <1>1, <2>1, <2>2
  <1>14. CASE TurnsBad(t)
    <2>1. lock[call[t].kf] = t /\ call[t].kf \in KeyFrames
      BY <1>14, TurnsBadEffect DEF Typed, Locks, Holding
    <2>2. lock' = [lock EXCEPT ![call[t].kf] = NULL] /\ kf'[x].parent = kf[x].parent
      BY <1>14, TurnsBadEffect
    <2> QED BY <1>1, <2>1, <2>2
  <1>15. CASE ForgetsKeyFrame(t)
    BY <1>15, ForgetsEffect DEF SameLinks
  <1> QED BY <1>2, <1>3, <1>4, <1>5, <1>6, <1>7, <1>8, <1>9, <1>10, <1>11, <1>12, <1>13, <1>14, <1>15
          DEF KeyFrameStep, UpdateConnections, SetBadFlag
\* What the step of one thread does to its own arguments and mutexes.
LEMMA OwnArguments ==
    ASSUME Inv, NEW t \in Threads, KeyFrameStep(t)
    PROVE  LET c == call'[t] IN
           /\ c.pc # "none" => c.kf = call[t].kf /\ c.kf \in KeyFrames
           /\ c.pc \in Erasing => c.kf \in made
           /\ c.pc \in Chosen => c.kf # 0
  <1>1. Typed /\ call[t].pc # "none" /\ KeepsOn(t)
    BY InvTyped, KeyFrameStepEffect DEF KeepsOn, Connecting, Sorting, Erasing, Chosen, Holding
  <1>2. /\ call[t].kf \in KeyFrames
        /\ call[t].pc \in Erasing => call[t].kf \in made
        /\ call[t].pc \in Chosen => call[t].kf # 0
    BY <1>1 DEF Typed, Arguments
  <1>3. call'[t].pc # "none" => call'[t].kf = call[t].kf
    BY <1>1 DEF KeepsOn
  <1>4. call'[t].pc \in Erasing => call[t].pc \in Erasing
    BY <1>1 DEF KeepsOn, Connecting, Sorting, Erasing, Chosen, Holding
  <1>5. ASSUME call'[t].pc \in Chosen PROVE call'[t].kf # 0
    <2>1. CASE AsksToErase(t)
      <3>1. ~IsOrigin(call[t].kf) /\ call'[t].kf = call[t].kf
        BY <1>1, <1>5, <2>1, AsksEffect DEF Chosen, Holding
      <3>2. kf[0].inMap = "old"
        BY DEF Inv, MapsMergeOnce
      <3> QED BY <3>1, <3>2 DEF IsOrigin, Origin
    <2>2. CASE ForgetsKeyFrame(t)
      BY <1>1, <1>5, <2>2, ForgetsEffect DEF Chosen, Holding
    <2>3. CASE ~AsksToErase(t) /\ ~ForgetsKeyFrame(t)
      <3>1. call[t].pc \in Erasing /\ call[t].pc \notin {"ask", "forget", "crashed"}
        BY <1>4, <1>5, <2>3
           DEF KeyFrameStep, SortsOwn, UpdateConnections, SetBadFlag, EraseConnection,
               TakesOwn, ScansChild, ChoosesParent, GivesChild, GivesRest, AdoptsChild, TurnsBad,
               UpdateBestCovisibles, CountsPoints, AddConnection, SetsParent, AddChild,
               Erasing, Chosen, Holding
      <3> QED BY <1>2, <1>3, <1>5, <3>1 DEF Erasing, Chosen, Holding
    <2> QED BY <2>1, <2>2, <2>3
  <1>6. call'[t].pc \in Erasing => call'[t].pc # "none"
    BY DEF Erasing, Chosen, Holding
  <1> QED BY <1>2, <1>3, <1>4, <1>5, <1>6

\* What a thread has at hand, and the mutexes it holds, after a step of its own.
LEMMA OwnHolds ==
    ASSUME Inv, NEW t \in Threads, KeyFrameStep(t)
    PROVE  LET c == call'[t] IN
           /\ c.pc \in {"link", "linkBest", "join", "addChild"} => c.to \in made /\ (Split => c.to # 0)
           /\ c.pc \in {"give", "given", "restGiven"} => c.child \in KeyFrames
           /\ c.pc \in {"given", "restGiven"} => c.to \in KeyFrames
           /\ c.pc = "give" => c.to \in c.cands /\ c.to # c.child
           /\ c.pc \in Holding \cup {"addChild"} => lock'[c.kf] = t
           /\ c.pc \in {"unlinkBest", "linkBest", "sortBest"} => c.child \in KeyFrames /\ lock'[c.child] = t
           /\ c.pc \in {"given", "restGiven"} =>
                lock'[c.child] = t /\ c.child # c.kf /\ kf'[c.child].parent = c.to
           /\ c.pc = "addChild" => kf'[c.kf].parent = c.to
  <1>1. Typed /\ TreeTypeOK /\ t # NULL /\ lock \in [KeyFrames -> Threads \cup {NULL}] /\ call[t].kf \in NodesOrNull
    BY InvTyped, NullIsNoKeyFrame DEF TreeTypeOK, CallRecord
  <1>2. LET c == call[t] IN
        /\ c.pc \in {"link", "linkBest", "join", "addChild"} => c.to \in made /\ (Split => c.to # 0)
        /\ c.pc \in {"give", "given", "restGiven"} => c.child \in KeyFrames
        /\ c.pc = "give" => c.to \in c.cands /\ c.to # c.child
        /\ c.pc \in Holding \cup {"addChild"} => lock[c.kf] = t
        /\ c.pc # "none" => c.kf \in KeyFrames
        /\ c.pc \in {"given", "restGiven"} => c.child # c.kf
        /\ c.pc = "addChild" => kf[c.kf].parent = c.to
    BY <1>1 DEF Typed, Arguments, Locks
  <1>3. call'[t].kf = call[t].kf \/ call'[t].pc = "none"
    BY <1>1, KeyFrameStepEffect DEF KeepsOn
  <1> USE DEF Holding
  <1>4. CASE SortsOwn(t)
    BY <1>1, <1>2, <1>4, SortsOwnEffect
  <1>5. CASE UpdateBestCovisibles(t)
    BY <1>1, <1>2, <1>5, UpdateBestEffect
  <1>6. CASE CountsPoints(t)
    <2>1. /\ call[t].pc = "count" /\ call'[t].pc = "link" /\ call'[t].to \in made
          /\ SameMap(call'[t].to, call[t].kf)
      BY <1>1, <1>6, CountsEffect
    <2>2. t = mapper /\ call[t].kf = mapping.cur /\ mapping.cur \in KeyFrames \ {0, 1}
          /\ (mapping.pc # "new" => mapping.cur \in made)
      BY <2>1, <1>2, RecognitionAssumption
         DEF Inv, CloserPhase, MapperPhase, Erasing, Chosen, Connecting, Known, RecognitionAssumption
    <2>3. Split => kf[mapping.cur].inMap = "new" /\ kf[0].inMap = "old"
      BY <2>2 DEF Inv, MapsMergeOnce, Split
    <2> QED BY <2>1, <2>2, <2>3 DEF SameMap
  <1>7. CASE AddConnection(t) \/ EraseConnection(t)
    <2>1. /\ (call'[t].to = call[t].to /\ call[t].pc = "link") \/ call'[t].pc \in {"unlinkBest", "own"}
          /\ call'[t].pc \in {"unlinkBest", "linkBest", "own", "join"}
          /\ \/ call'[t].pc \in {"own", "join"} /\ lock' = lock
             \/ /\ call'[t].child \in KeyFrames /\ lock' = [lock EXCEPT ![call'[t].child] = t]
      BY <1>1, <1>7, ConnectionEffect
    <2>2. call'[t].pc \in {"unlinkBest", "linkBest"} => call'[t].child \in KeyFrames /\ lock'[call'[t].child] = t
      BY <1>1, <2>1
    <2> QED BY <1>2, <2>1, <2>2
  <1>8. CASE SetsParent(t)
    <2>1. call[t].kf \in KeyFrames /\ call[t].pc = "join"
      BY <1>1, <1>2, <1>8, SetsParentEffect
    <2>2. \/ call'[t].pc = "none"
          \/ /\ call'[t].pc = "addChild" /\ call'[t].kf = call[t].kf /\ call'[t].to = call[t].to
             /\ lock' = [lock EXCEPT ![call[t].kf] = t]
             /\ kf'[call[t].kf].parent = call[t].to
      BY <1>1, <1>8, <2>1, SetsParentEffect
    <2> QED BY <1>1, <1>2, <2>1, <2>2
  <1>9. CASE AddChild(t)
    BY <1>1, <1>9, AddChildEffect
  <1>10. CASE AsksToErase(t)
    BY <1>1, <1>10, AsksEffect
  <1>11. CASE TakesOwn(t)
    BY <1>1, <1>2, <1>11, TakesOwnEffect
  <1>12. CASE ScansChild(t)
    BY <1>1, <1>2, <1>12, ScansEffect
  <1>13. CASE ChoosesParent(t)
    BY <1>1, <1>2, <1>13, ChoosesEffect
  <1>14. CASE GivesChild(t) \/ GivesRest(t)
    <2>1. PICK c \in KeyFrames, p \in NodesOrNull : Moves(t, c, p)
      BY <1>1, <1>14, GivesEffect
    <2>2. call[t].kf \in KeyFrames /\ lock[call[t].kf] = t
      BY <1>1, <1>14, GivesEffect
    <2>3. /\ lock[c] = NULL /\ lock' = [lock EXCEPT ![c] = t] /\ call'[t].child = c /\ call'[t].to = p
          /\ call'[t].kf = call[t].kf /\ (p # c => kf'[c].parent = p)
      BY <2>1 DEF Moves
    <2>4. /\ call'[t].pc \in {"given", "restGiven", "crashed"}
          /\ call'[t].pc \in {"given", "restGiven"} => p \in KeyFrames /\ p # c
      BY <2>1 DEF Moves, NodesOrNull
    <2> QED BY <1>1, <2>2, <2>3, <2>4
  <1>15. CASE AdoptsChild(t)
    <2>1. /\ call'[t].pc \in {"scan", "rest"} /\ call[t].pc \in {"given", "restGiven"}
          /\ call'[t].kf = call[t].kf /\ lock' = [lock EXCEPT ![call[t].child] = NULL]
      BY <1>1, <1>15, AdoptsEffect
    <2> QED BY <1>1, <1>2, <2>1
  <1>16. CASE TurnsBad(t)
    BY <1>1, <1>16, TurnsBadEffect
  <1>17. CASE ForgetsKeyFrame(t)
    BY <1>1, <1>17, ForgetsEffect
  <1> HIDE DEF Holding
  <1> QED BY <1>4, <1>5, <1>6, <1>7, <1>8, <1>9, <1>10, <1>11, <1>12, <1>13, <1>14, <1>15, <1>16, <1>17
          DEF KeyFrameStep, UpdateConnections, SetBadFlag

\* Every step keeps what threads have at hand and the mutexes they hold.
LEMMA ArgumentsStep ==
    ASSUME Inv, Next
    PROVE  Arguments' /\ Locks'
  <1>1. Typed /\ Arguments /\ Locks /\ \A u \in Threads : u # NULL
    BY InvTyped, NullIsNoKeyFrame DEF Inv
  <1>2. ASSUME WeldsMaps \/ ReversesLink PROVE Arguments' /\ Locks'
    <2>1. mapping.pc = "top" /\ closing.pc # "erase" /\ call' = call
      BY <1>2, WeldsMapsEffect, ReversesLinkEffect DEF Inv, MapperPhase
    <2>2. \A u \in Threads : call'[u].pc = "none"
      BY <2>1, NobodyIsInside
    <2> QED BY <2>2 DEF Arguments, Locks, Erasing, Chosen, Holding
  <1>3. ASSUME LoopStep PROVE Arguments' /\ Locks'
    <2>1. /\ made \subseteq made' /\ lock' = lock /\ (Split' => Split)
          /\ \A x \in KeyFrames : kf'[x].parent = kf[x].parent
          /\ \A u \in Threads : call'[u] = call[u] \/ Begun(u)
      BY <1>3 DEF LoopStep, SameLinks, Split
    <2>2. \A u \in Threads : call'[u] # call[u] =>
             /\ call'[u].kf \in KeyFrames
             /\ call'[u].pc \in {"count", "sort"} \/ (call'[u].pc = "ask" /\ call'[u].kf \in made)
      BY <2>1 DEF Begun
    <2>3. Arguments'
      <3> SUFFICES ASSUME NEW u \in Threads
                   PROVE  (LET c == call[u] IN
                            /\ c.pc # "none" => c.kf \in KeyFrames
                            /\ c.pc \in Erasing => c.kf \in made
                            /\ c.pc \in Chosen => c.kf # 0
                            /\ c.pc \in {"link", "linkBest", "join", "addChild"} => c.to \in made /\ (Split => c.to # 0)
                            /\ c.pc \in {"give", "given", "restGiven"} => c.child \in KeyFrames
                            /\ c.pc \in {"given", "restGiven"} => c.to \in KeyFrames
                            /\ c.pc = "give" => c.to \in c.cands /\ c.to # c.child)'
        BY DEF Arguments
      <3>1. CASE call'[u] = call[u]
        BY <1>1, <2>1, <3>1 DEF Arguments
      <3>2. CASE call'[u] # call[u]
        BY <2>1, <2>2, <3>2 DEF Erasing, Chosen, Holding
      <3> QED BY <3>1, <3>2
    <2>4. Locks'
      <3> SUFFICES ASSUME NEW u \in Threads
                   PROVE  (LET c == call[u] IN
                            /\ c.pc \in Holding \cup {"addChild"} => lock[c.kf] = u
                            /\ c.pc \in {"unlinkBest", "linkBest", "sortBest"} => c.child \in KeyFrames /\ lock[c.child] = u
                            /\ c.pc \in {"given", "restGiven"} =>
                                 lock[c.child] = u /\ c.child # c.kf /\ kf[c.child].parent = c.to
                            /\ c.pc = "addChild" => kf[c.kf].parent = c.to)'
        BY DEF Locks
      <3>1. CASE call'[u] = call[u]
        <4>1. /\ call[u].pc \in {"given", "restGiven"} => call[u].child \in KeyFrames
              /\ call[u].pc = "addChild" => call[u].kf \in KeyFrames
          BY <1>1 DEF Arguments
        <4> QED BY <1>1, <2>1, <3>1, <4>1 DEF Locks
      <3>2. CASE call'[u] # call[u]
        BY <2>2, <3>2 DEF Holding
      <3> QED BY <3>1, <3>2
    <2> QED BY <2>3, <2>4
  <1>4. ASSUME NEW t \in Threads, KeyFrameStep(t), LoopsStay PROVE Arguments' /\ Locks'
    <2>1. OthersWait(t) /\ made' = made /\ (Split' => Split) /\ t # NULL
      BY <1>1, <1>4, KeyFrameStepEffect DEF SameMarks, LoopsStay, Split
    <2>2. Arguments'
      <3> SUFFICES ASSUME NEW u \in Threads
                   PROVE  (LET c == call[u] IN
                            /\ c.pc # "none" => c.kf \in KeyFrames
                            /\ c.pc \in Erasing => c.kf \in made
                            /\ c.pc \in Chosen => c.kf # 0
                            /\ c.pc \in {"link", "linkBest", "join", "addChild"} => c.to \in made /\ (Split => c.to # 0)
                            /\ c.pc \in {"give", "given", "restGiven"} => c.child \in KeyFrames
                            /\ c.pc \in {"given", "restGiven"} => c.to \in KeyFrames
                            /\ c.pc = "give" => c.to \in c.cands /\ c.to # c.child)'
        BY DEF Arguments
      <3>1. CASE u = t
        BY <1>4, <2>1, <3>1, OwnArguments, OwnHolds
      <3>2. CASE u # t
        <4>1. call'[u] = call[u]
          BY <2>1, <3>2 DEF OthersWait
        <4> QED BY <1>1, <2>1, <4>1 DEF Arguments
      <3> QED BY <3>1, <3>2
    <2>3. Locks'
      <3> SUFFICES ASSUME NEW u \in Threads
                   PROVE  (LET c == call[u] IN
                            /\ c.pc \in Holding \cup {"addChild"} => lock[c.kf] = u
                            /\ c.pc \in {"unlinkBest", "linkBest", "sortBest"} => c.child \in KeyFrames /\ lock[c.child] = u
                            /\ c.pc \in {"given", "restGiven"} =>
                                 lock[c.child] = u /\ c.child # c.kf /\ kf[c.child].parent = c.to
                            /\ c.pc = "addChild" => kf[c.kf].parent = c.to)'
        BY DEF Locks
      <3>1. CASE u = t
        BY <1>4, <2>1, <3>1, OwnHolds
      <3>2. CASE u # t
        <4>1. call'[u] = call[u]
          BY <2>1, <3>2 DEF OthersWait
        <4>2. \A x \in KeyFrames : lock[x] = u => lock'[x] = u /\ kf'[x].parent = kf[x].parent
          BY <1>1, <1>4, <3>2, LockedStays
        <4>3. /\ call[u].pc # "none" => call[u].kf \in KeyFrames
              /\ call[u].pc \in {"given", "restGiven"} => call[u].child \in KeyFrames
              /\ "none" \notin Holding \cup {"addChild"}
          BY <1>1 DEF Arguments, Holding
        <4>4. LET c == call[u] IN
              /\ c.pc \in Holding \cup {"addChild"} => lock[c.kf] = u
              /\ c.pc \in {"unlinkBest", "linkBest", "sortBest"} => c.child \in KeyFrames /\ lock[c.child] = u
              /\ c.pc \in {"given", "restGiven"} =>
                   lock[c.child] = u /\ c.child # c.kf /\ kf[c.child].parent = c.to
              /\ c.pc = "addChild" => kf[c.kf].parent = c.to
          BY <1>1 DEF Locks
        <4> QED BY <4>1, <4>2, <4>3, <4>4
      <3> QED BY <3>1, <3>2
    <2> QED BY <2>2, <2>3
  <1> QED BY <1>2, <1>3, <1>4, LoopSteps
\* A step that lets nobody go, and leaves what the searches have detected.
LEMMA SameProtection ==
    ASSUME Protection, closing.erase \in Seq(KeyFrames), search' = search, leaked \subseteq leaked',
           closing'.cur = closing.cur, Done' => Done, closing'.pc = "idle" => closing.pc = "idle",
           closing.erase = << >> \/ closing'.erase = closing.erase,
           closing'.pc = "found" => Detected # {}, Welding' => "merge" \in Detected,
           \A x \in KeyFrames : /\ kf'[x].notErase => kf[x].notErase
                                /\ kf[x].loopEdges => kf'[x].loopEdges
    PROVE  Protection'
  <1>1. Detected' = Detected /\ \A s \in Searches : Last(s)' = Last(s) /\ Matched(s)' = Matched(s)
    BY DEF Detected, Last, Matched
  <1>2. ASSUME NEW x \in KeyFrames, kf'[x].notErase PROVE Kept(x)'
    <2>1. Kept(x)
      BY <1>2 DEF Protection
    <2> QED BY <1>1, <2>1 DEF Kept
  <1>3. Detected \subseteq Searches
    BY DEF Detected
  <1> QED BY <1>1, <1>2, <1>3 DEF Protection

\* Every step keeps each protected keyframe on a list.
LEMMA ProtectionStep ==
    ASSUME Inv, Next
    PROVE  Protection'
  <1>1. /\ Typed /\ Protection /\ CloserPhase /\ made \in SUBSET KeyFrames
        /\ closing.erase \in Seq(KeyFrames)
        /\ closing.pc # "erase" => closing.erase = << >>
    BY InvTyped DEF Inv, CloserPhase, ClosingRecord
  <1>2. Detected \subseteq Searches /\ Enough \in Nat \ {0} /\ \A s \in Searches : search[s].n \in Nat
    BY DetectedSearches, RecognitionAssumption DEF RecognitionAssumption
  <1>3. /\ closing.pc = "idle" \/ Done => Detected = {}
        /\ \A s \in Detected : Last(s) = closing.cur
        /\ closing.pc = "found" => Detected # {}
        /\ Welding => "merge" \in Detected
    BY <1>1 DEF Protection
  <1> USE DEF OtherLoop, KeyFramesStay, TreeStays, LoopsStay, treeVars, Welding, Done
  <1>4. CASE ProcessNewKeyFrame
    BY <1>1, <1>3, <1>4, ProcessEffect, SameProtection DEF SameGuards
  <1>5. CASE AddKeyFrame
    BY <1>1, <1>3, <1>5, AddKeyFrameEffect, SameProtection
  <1>6. CASE SearchInNeighbors
    BY <1>1, <1>3, <1>6, SearchInNeighborsEffect, SameProtection
  <1>7. CASE ListsNeighbours
    BY <1>1, <1>3, <1>7, ListsNeighboursEffect, SameProtection
  <1>8. CASE KeyFrameCulling
    BY <1>1, <1>3, <1>8, KeyFrameCullingEffect, SameProtection
  <1>9. CASE InsertKeyFrame
    BY <1>1, <1>3, <1>9, InsertKeyFrameEffect, SameProtection
  <1>10. CASE TakesKeyFrame
    <2> DEFINE k == Head(closing.queue)
    <2>1. /\ closing.pc = "idle" /\ search' = search /\ leaked' = leaked
          /\ closing'.cur = k /\ closing'.pc \in {"decide", "again"}
          /\ \A x \in KeyFrames : /\ kf'[x].loopEdges = kf[x].loopEdges
                                  /\ x # k => kf'[x].notErase = kf[x].notErase
      BY <1>10, TakesKeyFrameEffect
    <2>2. closing.cur = NULL /\ closing.erase = << >> /\ NULL \notin KeyFrames
      BY <1>1, <2>1, NullIsNoKeyFrame DEF CloserPhase
    <2> HIDE DEF k
    <2>3. Detected' = {}
      BY <1>3, <2>1 DEF Detected
    <2>4. ASSUME NEW x \in KeyFrames, kf'[x].notErase PROVE Kept(x)'
      <3>1. CASE x = k
        BY <2>1, <3>1 DEF Kept
      <3>2. CASE x # k
        <4>1. Kept(x)
          BY <1>1, <2>1, <2>4, <3>2 DEF Protection
        <4> QED BY <2>1, <2>2, <4>1 DEF Kept, Matched
      <3> QED BY <3>1, <3>2
    <2> QED BY <2>1, <2>3, <2>4 DEF Protection
  <1>11. CASE LooksAgain
    <2>1. PICK s \in closing.todo :
                /\ s \in Searches /\ search[s].n > 0
                /\ \A x \in Searches \ {s} : search'[x] = search[x]
                /\ search'[s].matched = Matched(s)
                /\ \/ /\ closing'.pc = "erase" /\ closing'.next = "again"
                      /\ closing'.erase = <<Last(s)>>
                      /\ search'[s].last = closing.cur /\ search'[s].n > 0
                   \/ /\ closing'.pc = "erase" /\ closing'.next = "again"
                      /\ closing'.erase = <<Last(s), Matched(s)>>
                      /\ search'[s].n = 0
                   \/ /\ closing'.pc = "again" /\ closing'.erase = << >>
                      /\ search'[s].n = search[s].n /\ search'[s].last = Last(s)
      BY <1>11, LooksAgainEffect
    <2>2. /\ closing.pc = "again" /\ closing'.cur = closing.cur /\ UNCHANGED <<kf, leaked>>
          /\ search' \in [Searches -> SearchRecord] /\ closing.erase = << >>
      BY <1>1, <1>11, LooksAgainEffect
    <2>3. \A x \in Detected' : Last(x)' = closing.cur
      <3> SUFFICES ASSUME NEW x \in Searches, search'[x].n >= Enough PROVE search'[x].last = closing.cur
        BY DEF Detected, Last
      <3>1. CASE x # s
        BY <1>3, <2>1, <3>1 DEF Detected, Last
      <3>2. CASE x = s
        BY <1>2, <1>3, <2>1, <3>2 DEF Detected, Last
      <3> QED BY <3>1, <3>2
    <2>4. ASSUME NEW x \in KeyFrames, kf'[x].notErase PROVE Kept(x)'
      <3>1. Kept(x)
        BY <1>1, <2>2, <2>4 DEF Protection
      <3>2. CASE kf[x].loopEdges \/ x \in leaked \/ x = closing.cur
        BY <2>1, <2>2, <3>2 DEF Kept
      <3>3. CASE \E y \in Searches : search[y].n > 0 /\ x = Matched(y)
        <4>1. PICK y \in Searches : search[y].n > 0 /\ x = Matched(y)
          BY <3>3
        <4>2. CASE y # s
          BY <2>1, <4>1, <4>2 DEF Kept, Matched
        <4>3. CASE y = s /\ search'[s].n = 0
          <5>1. closing'.erase = <<Last(s), Matched(s)>>
            BY <2>1, <4>3
          <5>2. 2 \in DOMAIN closing'.erase /\ closing'.erase[2] = x
            BY <4>1, <4>3, <5>1
          <5> QED BY <5>2 DEF Kept
        <4>4. CASE y = s /\ search'[s].n # 0
          <5>1. search'[s].n > 0
            BY <2>2, <4>4 DEF SearchRecord
          <5> QED BY <2>1, <4>1, <4>4, <5>1 DEF Kept, Matched
        <4> QED BY <4>2, <4>3, <4>4
      <3> QED BY <2>2, <3>1, <3>2, <3>3 DEF Kept
    <2> QED BY <2>1, <2>2, <2>3, <2>4 DEF Protection
  <1>12. CASE ListsCandidates
    <2>1. /\ UNCHANGED <<kf, search, leaked>> /\ closing'.cur = closing.cur
          /\ closing.pc = "again" /\ closing'.pc \in {"decide", "candidates"}
      BY <1>12, ListsCandidatesEffect
    <2> QED BY <1>1, <1>3, <2>1, SameProtection
  <1>13. CASE ChecksCandidates
    <2>1. /\ UNCHANGED <<kf, search, leaked>> /\ closing'.cur = closing.cur
          /\ closing.pc = "candidates" /\ closing'.pc \in {"spins", "match"}
      BY <1>13, ChecksCandidatesEffect
    <2> QED BY <1>1, <1>3, <2>1, SameProtection
  <1>14. CASE Matching
    <2>1. /\ closing.pc = "match" /\ closing'.pc \in {"match", "decide"} /\ closing'.cur = closing.cur
          /\ leaked \subseteq leaked' /\ closing.erase = << >>
          /\ search' \in [Searches -> SearchRecord]
      BY <1>1, <1>14, MatchingEffect
    <2>2. \A s \in Searches :
                \/ search'[s] = search[s]
                \/ /\ search'[s].last = closing.cur
                   /\ search[s].n > 0 => search[s].matched \in leaked'
      BY <1>14, MatchingEffect
    <2>3. \A x \in KeyFrames :
                /\ kf'[x].loopEdges = kf[x].loopEdges
                /\ kf'[x].notErase => kf[x].notErase
                                      \/ \E s \in Searches : search'[s].matched = x
                                            /\ (search'[s].n > 0 \/ x \in leaked')
      BY <1>14, MatchingEffect
    <2>4. \A s \in Detected' : Last(s)' = closing.cur
      BY <1>3, <2>2 DEF Detected, Last
    <2>5. ASSUME NEW x \in KeyFrames, kf'[x].notErase PROVE Kept(x)'
      <3>1. CASE kf[x].notErase
        <4>1. Kept(x)
          BY <1>1, <3>1 DEF Protection
        <4>2. CASE \E s \in Searches : search[s].n > 0 /\ x = search[s].matched
          BY <2>2, <4>2 DEF Kept, Matched
        <4>3. CASE ~\E s \in Searches : search[s].n > 0 /\ x = search[s].matched
          BY <2>1, <2>3, <4>1, <4>3 DEF Kept, Matched
        <4> QED BY <4>2, <4>3
      <3>2. CASE ~kf[x].notErase
        BY <2>3, <2>5, <3>2 DEF Kept, Matched
      <3> QED BY <3>1, <3>2
    <2> QED BY <2>1, <2>4, <2>5 DEF Protection
  <1>15. CASE AddsToDatabase
    <2>1. /\ UNCHANGED <<kf, search, leaked>> /\ closing'.cur = closing.cur /\ closing.pc = "decide"
          /\ closing.erase = << >>
          /\ \/ closing'.pc = "found" /\ Detected # {}
             \/ /\ closing'.pc = "erase" /\ closing'.next = "idle" /\ Detected = {}
                /\ closing'.erase = <<closing.cur>>
      BY <1>1, <1>15, AddsToDatabaseEffect
    <2>2. CASE closing'.pc = "found"
      BY <1>1, <1>3, <2>1, <2>2, SameProtection
    <2>3. CASE closing'.pc # "found"
      <3>1. closing'.erase = <<closing.cur>> /\ Detected' = {} /\ closing'.pc = "erase"
        BY <2>1, <2>3 DEF Detected
      <3>2. 1 \in DOMAIN closing'.erase /\ closing'.erase[1] = closing.cur
        BY <3>1
      <3>3. ASSUME NEW x \in KeyFrames, kf'[x].notErase PROVE Kept(x)'
        <4>1. Kept(x)
          BY <1>1, <2>1, <3>3 DEF Protection
        <4> QED BY <2>1, <3>2, <4>1 DEF Kept, Matched
      <3> QED BY <3>1, <3>3 DEF Protection
    <2> QED BY <2>2, <2>3
  <1>16. CASE SetErase
    <2> DEFINE k == Head(closing.erase)
    <2>1. /\ UNCHANGED <<search, leaked>> /\ closing.pc = "erase" /\ closing'.cur = closing.cur
          /\ closing'.pc = "erase" /\ closing'.next = closing.next
          /\ closing'.erase = Tail(closing.erase) /\ closing.erase # << >>
          /\ \A x \in KeyFrames : /\ kf'[x].loopEdges = kf[x].loopEdges
                                  /\ x # k => kf'[x].notErase = kf[x].notErase
          /\ kf'[k].notErase => kf[k].loopEdges
      BY <1>16, SetEraseEffect
    <2>2. \A i \in DOMAIN closing.erase : closing.erase[i] # k =>
             i - 1 \in DOMAIN closing'.erase /\ closing'.erase[i - 1] = closing.erase[i]
      BY <1>1, <2>1
    <2> HIDE DEF k
    <2>3. ASSUME NEW x \in KeyFrames, kf'[x].notErase PROVE Kept(x)'
      <3>1. CASE x = k
        BY <2>1, <2>3, <3>1 DEF Kept
      <3>2. CASE x # k
        <4>1. Kept(x)
          BY <1>1, <2>1, <2>3, <3>2 DEF Protection
        <4>2. CASE \E i \in DOMAIN closing.erase : closing.erase[i] = x
          BY <2>2, <3>2, <4>2 DEF Kept
        <4>3. CASE ~\E i \in DOMAIN closing.erase : closing.erase[i] = x
          BY <2>1, <4>1, <4>3 DEF Kept, Matched
        <4> QED BY <4>2, <4>3
      <3> QED BY <3>1, <3>2
    <2>4. Detected' = Detected /\ \A s \in Detected : Last(s)' = Last(s)
      BY <2>1 DEF Detected, Last
    <2> QED BY <1>3, <2>1, <2>3, <2>4 DEF Protection
  <1>17. CASE GoesOn
    <2>1. /\ UNCHANGED <<kf, search, leaked>> /\ closing.pc = "erase" /\ closing.erase = << >>
          /\ \/ closing.next = "idle" /\ closing'.pc = "idle" /\ closing'.cur = NULL
             \/ closing.next = "again" /\ closing'.pc = "again" /\ closing'.cur = closing.cur
      BY <1>17, GoesOnEffect
    <2>2. ASSUME NEW x \in KeyFrames, kf'[x].notErase PROVE Kept(x)'
      <3>1. Kept(x)
        BY <1>1, <2>1, <2>2 DEF Protection
      <3> QED BY <2>1, <3>1 DEF Kept, Matched
    <2>3. Detected' = Detected /\ \A s \in Detected : Last(s)' = Last(s)
      BY <2>1 DEF Detected, Last
    <2> QED BY <1>3, <2>1, <2>2, <2>3 DEF Protection
  <1>18. CASE CorrectLoop \/ MovesRest
    <2>1. /\ leaked' = leaked /\ closing.pc \in {"found", "move"} /\ closing'.pc = "erase"
          /\ closing'.next = "idle" /\ closing'.cur = closing.cur /\ closing.erase = << >>
          /\ \A s \in Detected : /\ \E i \in DOMAIN closing'.erase : closing'.erase[i] = Matched(s)
                                 /\ \E i \in DOMAIN closing'.erase : closing'.erase[i] = Last(s)
          /\ \A s \in Detected : search'[s].n = 0
          /\ \A s \in Searches \ Detected : search'[s] = search[s]
      BY <1>1, <1>18, FinishingSteps
    <2>2. \A x \in KeyFrames : /\ kf[x].loopEdges => kf'[x].loopEdges
                               /\ kf'[x].notErase => \/ kf[x].notErase \/ kf'[x].loopEdges
                                                     \/ x \in {closing.cur, Matched("merge")} /\ "merge" \in Detected
      BY <1>18, CorrectLoopEffect, MovesRestEffect
    <2>3. closing.cur \in KeyFrames => kf'[closing.cur].loopEdges \/ \E s \in Detected : Last(s) = closing.cur
      BY <1>3, <2>1
    <2>4. Detected' = {}
      BY <1>2, <2>1 DEF Detected
    <2>5. ASSUME NEW x \in KeyFrames, kf'[x].notErase PROVE Kept(x)'
      <3>1. CASE kf'[x].loopEdges
        BY <3>1 DEF Kept
      <3>2. CASE x \in {closing.cur, Matched("merge")} /\ "merge" \in Detected
        <4>1. \E i \in DOMAIN closing'.erase : closing'.erase[i] = x
          BY <1>3, <2>1, <3>2
        <4> QED BY <4>1 DEF Kept
      <3>3. CASE kf[x].notErase
        <4>1. Kept(x)
          BY <1>1, <3>3 DEF Protection
        <4>2. CASE \E s \in Searches : search[s].n > 0 /\ x = Matched(s)
          <5>1. PICK s \in Searches : search[s].n > 0 /\ x = Matched(s)
            BY <4>2
          <5>2. CASE s \in Detected
            BY <2>1, <5>1, <5>2 DEF Kept
          <5>3. CASE s \notin Detected
            BY <2>1, <5>1, <5>3 DEF Kept, Matched
          <5> QED BY <5>2, <5>3
        <4>3. CASE x = closing.cur
          <5>1. \E i \in DOMAIN closing'.erase : closing'.erase[i] = x
            BY <1>3, <2>1, <4>3
          <5> QED BY <5>1 DEF Kept
        <4>4. CASE kf[x].loopEdges \/ x \in leaked
          BY <2>1, <2>2, <4>4 DEF Kept
        <4> QED BY <2>1, <4>1, <4>2, <4>3, <4>4 DEF Kept
      <3> QED BY <2>2, <2>5, <3>1, <3>2, <3>3
    <2> QED BY <2>1, <2>4, <2>5 DEF Protection
  <1>19. CASE WeldsMaps
    BY <1>1, <1>3, <1>19, WeldsMapsEffect, SameProtection
  <1>20. CASE ReversesLink
    BY <1>1, <1>3, <1>20, ReversesLinkEffect, SameProtection
  <1>21. CASE Reconnects
    BY <1>1, <1>3, <1>21, ReconnectsEffect, SameProtection
  <1>22. CASE \E t \in Threads : KeyFrameStep(t) /\ LoopsStay
    <2>1. SameMarks /\ LoopsStay
      BY <1>1, <1>22, KeyFrameStepEffect
    <2> QED BY <1>1, <1>3, <2>1, SameProtection DEF SameMarks
  <1> QED BY <1>4, <1>5, <1>6, <1>7, <1>8, <1>9, <1>10, <1>11, <1>12, <1>13, <1>14,
             <1>15, <1>16, <1>17, <1>18, <1>19, <1>20, <1>21, <1>22, NextSteps
-----------------------------------------------------------------------------
(* The tree is kept sound.                                                 *)

\* What the invariant says of the tree.
LEMMA TreeKnown ==
    ASSUME Inv
    PROVE  /\ Parents \in ParentFunctions /\ \A x \in KeyFrames : Parents[x] = kf[x].parent
           /\ BadOnes \in SUBSET KeyFrames /\ NULL \notin KeyFrames /\ NULL \notin Threads
           /\ \A x \in KeyFrames : /\ kf[x].parent \in NodesOrNull /\ kf[x].children \in SUBSET KeyFrames
                                   /\ kf[x].bad \in BOOLEAN
           /\ stolen = {} => Sound /\ Unborn
  <1>1. \A k \in KeyFrames : kf[k] \in KeyFrameRecord
    BY InvTyped
  <1> QED BY <1>1, NullIsNoKeyFrame DEF Parents, ParentFunctions, BadOnes, KeyFrameRecord, Inv, Tree

\* The maps, and a merge that turns the tree round, are left as they are.
CalmMaps ==
    /\ tracking'.map = tracking.map
    /\ made \subseteq made' /\ \A k \in made' \ made : k \in KeyFrames /\ kf[k].parent # NULL
    /\ TurnsOn' <=> TurnsOn
    /\ TurnsOn' => closing'.child = closing.child /\ closing'.parent = closing.parent

\* So are the parents.
CalmParents == CalmMaps /\ \A x \in KeyFrames : kf'[x].parent = kf[x].parent

\* A thread erases a keyframe that has a parent.
CalmChosen(u) ==
    /\ call'[u].pc \in Chosen => call'[u].kf \in KeyFrames /\ kf[call'[u].kf].parent # NULL
    /\ call'[u].pc # "crashed"

\* The children a thread has in hand are left to it, and those it has yet to give away.
CalmHand(u) ==
    /\ \A x \in KeyFrames : InHandOf(u, x) => InHandOf(u, x)'
    /\ call'[u].pc \in {"rest", "restGiven"} =>
         \/ /\ call[u].pc \in {"rest", "restGiven"}
            /\ call'[u].kf = call[u].kf /\ call'[u].scan = call[u].scan
         \/ call'[u].scan = kf[call'[u].kf].children /\ call'[u].kf \in KeyFrames

\* A thread goes on erasing; a child it has given away is a candidate.
CalmErasing(u) ==
    Erases(u)' => /\ Erases(u) /\ call'[u].kf = call[u].kf
                  /\ \A y \in call'[u].cands :
                       y \in call[u].cands \/ (call[u].pc = "given" /\ y = call[u].child)
                  /\ call'[u].pc = "given" => call[u].pc = "given" /\ call'[u].child = call[u].child

\* The function from keyframes to parents depends on mpParent only.
LEMMA SameParents ==
    ASSUME \A x \in KeyFrames : kf'[x].parent = kf[x].parent
    PROVE  Parents' = Parents
  BY DEF Parents

\* A keyframe that is rooted stays so.
LEMMA RootedGrows ==
    ASSUME made \subseteq made', Split' => Split,
           \A x \in KeyFrames : kf[x].parent # NULL => kf'[x].parent # NULL
    PROVE  Rooted \subseteq Rooted'
  BY DEF Rooted

\* Where no parent changes, ways up stay.
LEMMA CalmPaths ==
    ASSUME Inv, stolen = {}, CalmParents, \A u \in Threads : CalmChosen(u)
    PROVE  Acyclic(Parents)' /\ Turning' /\ Orphans'
  <1>1. /\ Sound /\ 0 \in KeyFrames /\ 1 \in KeyFrames /\ made \subseteq KeyFrames
        /\ Parents' = Parents /\ (Split' <=> Split) /\ Rooted \subseteq Rooted'
        /\ \A x \in KeyFrames : kf'[x].parent = kf[x].parent
    BY TreeKnown, InvTyped, SameParents, RootedGrows DEF CalmParents, CalmMaps, Split
  <1>2. Acyclic(Parents)'
    BY <1>1 DEF Sound, Acyclic
  <1>3. Turning'
    BY <1>1 DEF Sound, Turning, CalmParents, CalmMaps, TurnsOn, Closed
  <1>4. Orphans'
    <2>1. \A u \in Threads : /\ call'[u].pc # "crashed"
                             /\ call'[u].pc \in Chosen => kf'[call'[u].kf].parent # NULL
      BY <1>1 DEF CalmChosen
    <2>2. \A k \in made' \ {0, 1} : kf'[k].parent # NULL
      BY <1>1 DEF Sound, Orphans, CalmParents, CalmMaps
    <2>3. kf'[1].parent = NULL => Split' \/ TurnsOn'
      BY <1>1 DEF Sound, Orphans, CalmParents, CalmMaps, TurnsOn
    <2>4. kf'[0].parent = NULL /\ \A k \in KeyFrames : kf'[k].parent # NULL => kf'[k].parent \in Rooted'
      BY <1>1 DEF Sound, Orphans
    <2> QED BY <2>1, <2>2, <2>3, <2>4 DEF Orphans, TurnsOn
  <1> QED BY <1>2, <1>3, <1>4

\* Where no link changes, children stay known.
LEMMA CalmLinks ==
    ASSUME Inv, stolen = {}, SameLinks, \A u \in Threads : CalmHand(u)
    PROVE  BadEnd(Parents, BadOnes)' /\ Linked' /\ RestGone'
  <1>1. /\ Sound /\ NULL \notin KeyFrames
        /\ \A x \in KeyFrames : kf'[x].parent = kf[x].parent /\ kf'[x].children = kf[x].children /\ kf'[x].bad = kf[x].bad
    BY TreeKnown DEF SameLinks
  <1>2. BadEnd(Parents, BadOnes)'
    <2>1. Parents' = Parents /\ BadOnes' = BadOnes
      BY <1>1, SameParents DEF BadOnes
    <2> QED BY <1>1, <2>1 DEF Sound, BadEnd, Closed
  <1>3. Linked'
    <2>1. \A u \in Threads : \A x \in KeyFrames : ~InHandOf(u, x)' => ~InHandOf(u, x)
      BY DEF CalmHand
    <2>2. astray' = astray /\ \A x \in KeyFrames : kf[x].parent # NULL => kf[x].parent \in KeyFrames
      BY TreeKnown DEF SameLinks, NodesOrNull
    <2> QED BY <1>1, <2>1, <2>2 DEF Sound, Linked, Good
  <1>4. RestGone'
    <2> SUFFICES ASSUME NEW t \in Threads, call'[t].pc \in {"rest", "restGiven"},
                        NEW c \in kf'[call'[t].kf].children \ call'[t].scan
                 PROVE  kf'[c].parent # call'[t].kf \/ \E u \in Threads \ {t} : InHandOf(u, c)'
      BY DEF RestGone
    <2>1. CASE call[t].pc \in {"rest", "restGiven"} /\ call'[t].kf = call[t].kf /\ call'[t].scan = call[t].scan
      <3>1. call[t].kf \in KeyFrames
        BY <2>1, InvTyped DEF Typed, Arguments
      <3>2. c \in kf[call[t].kf].children \ call[t].scan /\ c \in KeyFrames
        BY <1>1, <2>1, <3>1, TreeKnown
      <3>3. kf[c].parent # call[t].kf \/ \E u \in Threads \ {t} : InHandOf(u, c)
        BY <1>1, <2>1, <3>2 DEF Sound, RestGone
      <3> QED BY <1>1, <2>1, <3>2, <3>3 DEF CalmHand
    <2>2. CASE call'[t].scan = kf[call'[t].kf].children /\ call'[t].kf \in KeyFrames
      BY <1>1, <2>2
    <2> QED BY <2>1, <2>2 DEF CalmHand
  <1> QED BY <1>2, <1>3, <1>4

\* Where no parent changes, the ways up of those who erase stay.
LEMMA CalmAncestry ==
    ASSUME Inv, stolen = {}, CalmParents, \A u \in Threads : CalmErasing(u)
    PROVE  Ancestry'
  <1>1. /\ Ancestry /\ Parents' = Parents /\ Rooted \subseteq Rooted'
        /\ \A x \in KeyFrames : kf'[x].parent = kf[x].parent
    BY TreeKnown, SameParents, RootedGrows DEF CalmParents, CalmMaps, Sound, Split
  <1>2. PICK up \in [Threads -> SUBSET KeyFrames] :
          /\ \A t \in Threads : Erases(t) => Above(t, up[t])
          /\ \A t, u \in Threads : t # u /\ Erases(t) /\ Erases(u) => Apart(t, u, up[t], up[u])
    BY <1>1 DEF Ancestry
  <1>3. ASSUME NEW t \in Threads, Erases(t)' PROVE Above(t, up[t])'
    <2>1. Above(t, up[t]) /\ call'[t].kf = call[t].kf
          /\ (call'[t].pc = "given" => call[t].pc = "given" /\ call'[t].child = call[t].child)
      BY <1>2, <1>3 DEF CalmErasing
    <2>2. call[t].kf \in KeyFrames
      BY <1>3, InvTyped DEF CalmErasing, Erases, Typed, Arguments, Holding
    <2>3. call'[t].cands \subseteq up[t]
      BY <1>3, <2>1 DEF CalmErasing, Above
    <2> QED BY <1>1, <2>1, <2>2, <2>3 DEF Above, Closed
  <1>4. ASSUME NEW t \in Threads, NEW u \in Threads, t # u, Erases(t)', Erases(u)'
        PROVE  Apart(t, u, up[t], up[u])'
    <2>1. Erases(t) /\ Erases(u) /\ call'[t].kf = call[t].kf /\ call'[u].kf = call[u].kf
      BY <1>4 DEF CalmErasing
    <2> QED BY <1>2, <1>4, <2>1 DEF Apart
  <1> QED BY <1>3, <1>4 DEF Ancestry

\* What a thread has at hand is as good as before.
Calm(u) == CalmChosen(u) /\ CalmHand(u)

\* A thread whose call is unchanged leaves the tree alone.
LEMMA CalmOthers ==
    ASSUME Inv, stolen = {}, NEW u \in Threads, call'[u] = call[u]
    PROVE  Calm(u) /\ CalmErasing(u)
  <1>1. Orphans /\ Arguments
    BY TreeKnown DEF Sound, Inv
  <1>2. /\ call[u].pc # "crashed" /\ call[u].pc \in Chosen => kf[call[u].kf].parent # NULL
    BY <1>1 DEF Orphans
  <1>3. /\ call[u].pc \in Chosen => call[u].kf \in KeyFrames
    BY <1>1 DEF Arguments, Chosen, Holding
  <1> QED BY <1>1, <1>2, <1>3 DEF Calm, CalmChosen, CalmHand, CalmErasing, InHandOf, Erases, Orphans

\* So does a step of a loop outside a merge.
LEMMA CalmLoop ==
    ASSUME Inv, stolen = {}, LoopStep
    PROVE  Sound'
  <1>1. TreeTypeOK
    BY InvTyped
  <1>2. CalmParents /\ SameLinks
    <2>1. mapping.pc = "new" /\ call[mapper].pc = "none" =>
             mapping.cur \in KeyFrames /\ kf[mapping.cur].parent # NULL
      BY TreeKnown DEF Unborn, Inv, MapperPhase
    <2> QED BY <2>1 DEF LoopStep, CalmParents, CalmMaps, SameLinks
  <1>3. ASSUME NEW u \in Threads PROVE Calm(u) /\ CalmErasing(u)
    <2>1. CASE call'[u] = call[u]
      BY <2>1, CalmOthers
    <2>2. CASE Begun(u)
      BY <2>2 DEF Begun, Calm, CalmChosen, CalmHand, CalmErasing, InHandOf, Erases, Chosen, Holding
    <2> QED BY <2>1, <2>2 DEF LoopStep
  <1> QED BY <1>2, <1>3, CalmPaths, CalmLinks, CalmAncestry DEF Sound, Calm

\* Steps of a method that leave the links as they are.
CalmStep(t) ==
    \/ SortsOwn(t) \/ UpdateBestCovisibles(t) \/ CountsPoints(t) \/ AddConnection(t)
    \/ EraseConnection(t) \/ (SetsParent(t) /\ SameLinks) \/ AsksToErase(t) \/ TakesOwn(t)
    \/ ScansChild(t) \/ ChoosesParent(t) \/ ForgetsKeyFrame(t)

\* So does a step that looks, sorts, connects or asks.
LEMMA CalmMethod ==
    ASSUME Inv, stolen = {}, NEW t \in Threads, CalmStep(t), LoopsStay
    PROVE  /\ CalmParents /\ SameLinks /\ \A u \in Threads : Calm(u)
           /\ \A u \in Threads \ {t} : CalmErasing(u)
           /\ ~TakesOwn(t) => CalmErasing(t)
  <1>1. Typed /\ Arguments /\ Orphans /\ call[t].kf \in NodesOrNull /\ kf[0].inMap = "old"
    BY TreeKnown, InvTyped DEF Sound, Inv, CallRecord, MapsMergeOnce
  <1>2. /\ call[t].pc # "crashed"
        /\ call[t].pc \in Chosen => kf[call[t].kf].parent # NULL
        /\ call[t].pc \in Chosen => call[t].kf \in KeyFrames
        /\ call[t].pc \in Erasing => call[t].kf \in KeyFrames
    BY <1>1 DEF Orphans, Arguments, Erasing, Chosen, Holding
  <1>3. OthersWait(t) /\ SameLinks /\ made' = made
    BY <1>1, SortsOwnEffect, UpdateBestEffect, CountsEffect, ConnectionEffect, SetsParentEffect,
       AsksEffect, TakesOwnEffect, ScansEffect, ChoosesEffect, ForgetsEffect DEF CalmStep, SameMarks
  <1>4. CalmParents
    BY <1>3 DEF CalmParents, CalmMaps, SameLinks, LoopsStay, TurnsOn
  <1>5. ASSUME NEW u \in Threads \ {t} PROVE Calm(u) /\ CalmErasing(u)
    BY <1>3, CalmOthers DEF OthersWait
  <1> SUFFICES Calm(t) /\ (~TakesOwn(t) => CalmErasing(t))
    BY <1>3, <1>4, <1>5
  <1> USE DEF Calm, CalmChosen, CalmHand, CalmErasing, InHandOf, Erases, Chosen, Holding
  <1>6. CASE SortsOwn(t)
    BY <1>1, <1>6, SortsOwnEffect
  <1>7. CASE UpdateBestCovisibles(t)
    BY <1>1, <1>2, <1>7, UpdateBestEffect
  <1>8. CASE CountsPoints(t)
    BY <1>1, <1>8, CountsEffect
  <1>9. CASE AddConnection(t) \/ EraseConnection(t)
    BY <1>1, <1>2, <1>9, ConnectionEffect
  <1>10. CASE SetsParent(t) /\ SameLinks
    <2>1. call[t].pc = "join"
      BY <1>1, <1>10, SetsParentEffect
    <2>2. call'[t].pc = "none" \/ kf[call[t].kf].parent = call[t].to
      BY <1>1, <1>10, SetsParentEffect DEF SameLinks, Arguments
    <2>3. call'[t].pc \in {"none", "addChild"}
      BY <1>1, <1>10, SetsParentEffect
    <2> QED BY <2>1, <2>3
  <1>11. CASE AsksToErase(t)
    <2>1. call[t].pc = "ask" /\ call[t].kf \in made
      BY <1>1, <1>11, AsksEffect DEF Arguments, Erasing
    <2>2. ASSUME ~IsOrigin(call[t].kf) PROVE kf[call[t].kf].parent # NULL
      <3>1. CASE call[t].kf \notin {0, 1}
        BY <1>1, <2>1, <3>1 DEF Orphans
      <3>2. CASE call[t].kf = 0
        BY <1>1, <2>2, <3>2 DEF IsOrigin, Origin
      <3>3. CASE call[t].kf = 1
        <4>1. kf[1].inMap # "new"
          BY <2>2, <3>3 DEF IsOrigin, Origin
        <4>2. ~Split
          BY <2>1, <3>3, <4>1 DEF Inv, MapsMergeOnce
        <4>3. closing.pc # "reverse"
          BY <2>1, NobodyIsInside DEF Inv, MapperPhase
        <4> QED BY <1>1, <3>3, <4>2, <4>3 DEF Orphans
      <3> QED BY <3>1, <3>2, <3>3
    <2>3. \/ call'[t].pc = "none"
          \/ call'[t].pc = "unlink" /\ call'[t].kf = call[t].kf /\ ~IsOrigin(call[t].kf)
      BY <1>1, <1>11, AsksEffect
    <2> QED BY <1>2, <2>1, <2>2, <2>3 DEF Erasing
  <1>12. CASE TakesOwn(t)
    BY <1>1, <1>2, <1>12, TakesOwnEffect
  <1>13. CASE ScansChild(t)
    BY <1>1, <1>2, <1>13, ScansEffect
  <1>14. CASE ChoosesParent(t)
    BY <1>1, <1>2, <1>14, ChoosesEffect
  <1>15. CASE ForgetsKeyFrame(t)
    BY <1>1, <1>15, ForgetsEffect
  <1> HIDE DEF Calm, CalmChosen, CalmHand, CalmErasing, InHandOf, Erases, Chosen, Holding
  <1> QED BY <1>6, <1>7, <1>8, <1>9, <1>10, <1>11, <1>12, <1>13, <1>14, <1>15 DEF CalmStep
\* What is known of a thread that erases a keyframe, and of the way up from it.
LEMMA RootedClosed ==
    ASSUME Inv, stolen = {}
    PROVE  Closed(Parents, Rooted)
  BY TreeKnown DEF Sound, Orphans, Closed, Rooted, NodesOrNull

\* The keyframe that is being erased has a parent, and no merge is turning links.
LEMMA ErasingKnown ==
    ASSUME Inv, stolen = {}, NEW t \in Threads, Erases(t)
    PROVE  /\ call[t].kf \in KeyFrames /\ call[t].kf \in made /\ call[t].kf # 0
           /\ lock[call[t].kf] = t /\ kf[call[t].kf].parent # NULL
           /\ kf[call[t].kf].parent \in Rooted /\ ~TurnsOn
  <1>1. /\ call[t].kf \in KeyFrames /\ call[t].kf \in made /\ call[t].kf # 0
        /\ lock[call[t].kf] = t
    BY InvTyped DEF Typed, Arguments, Locks, Erases, Erasing, Chosen
  <1>2. kf[call[t].kf].parent # NULL /\ kf[call[t].kf].parent \in Rooted
    BY <1>1, TreeKnown DEF Sound, Orphans, Erases, Chosen
  <1>3. ~TurnsOn
    <2>1. call[t].pc # "none"
      BY DEF Erases, Holding
    <2> QED BY <2>1, NobodyIsInside DEF TurnsOn, Inv, MapperPhase
  <1> QED BY <1>1, <1>2, <1>3

\* The way up from the keyframe is what a thread that begins to erase may give to; if both
\* begin, one of the two is not above the other.
LEMMA TakesOwnSound ==
    ASSUME Inv, stolen = {}, NEW t \in Threads, TakesOwn(t), LoopsStay
    PROVE  Sound'
  <1>20. PICK k \in KeyFrames : k = call[t].kf
    BY InvTyped, TakesOwnEffect DEF Typed, Arguments
  <1>1. /\ CalmParents /\ SameLinks /\ \A u \in Threads : Calm(u)
        /\ \A u \in Threads \ {t} : CalmErasing(u)
    BY CalmMethod DEF CalmStep
  <1>2. /\ call[t].pc = "own" /\ call'[t].pc = "scan" /\ call'[t].kf = k
        /\ call'[t].cands = {kf[k].parent} \ {NULL} /\ OthersWait(t)
    BY <1>20, InvTyped, TakesOwnEffect
  <1>3. k \in KeyFrames /\ kf[k].parent # NULL /\ kf[k].parent \in Rooted
    BY <1>20, <1>2, TreeKnown, InvTyped DEF Typed, Arguments, Sound, Orphans, Chosen
  <1>4. /\ Ancestry /\ Acyclic(Parents) /\ Closed(Parents, Rooted) /\ Rooted \subseteq KeyFrames
        /\ Parents' = Parents /\ Rooted \subseteq Rooted' /\ Parents \in ParentFunctions
        /\ \A x \in KeyFrames : kf'[x].parent = kf[x].parent /\ Parents[x] = kf[x].parent
    BY <1>1, TreeKnown, RootedClosed, SameParents, RootedGrows
       DEF CalmParents, CalmMaps, Sound, Split, Rooted
  <1>5. PICK up \in [Threads -> SUBSET KeyFrames] :
          /\ \A u \in Threads : Erases(u) => Above(u, up[u])
          /\ \A u, v \in Threads : u # v /\ Erases(u) /\ Erases(v) => Apart(u, v, up[u], up[v])
    BY <1>4 DEF Ancestry
  <1>6. PICK W \in SUBSET KeyFrames : Closed(Parents, W) /\ k \notin W /\ Parents[k] \in W \cup {NULL}
    BY <1>3, <1>4, WayUpAvoids
  <1>21. PICK U \in SUBSET KeyFrames :
          U = {y \in W \cap Rooted : \A u \in Threads \ {t} : Erases(u) /\ k \in up[u] => y \in up[u]}
    BY <1>6
  <1>22. PICK new \in [Threads -> SUBSET KeyFrames] : new = [u \in Threads |-> IF u = t THEN U ELSE up[u]]
    OBVIOUS
  <1>7. U \subseteq Rooted /\ U \subseteq KeyFrames /\ k \notin U
    BY <1>21, <1>6
  <1>8. kf[k].parent \in U
    <2>1. ASSUME NEW u \in Threads \ {t}, Erases(u), k \in up[u] PROVE kf[k].parent \in up[u]
      <3>1. Closed(Parents, up[u])
        BY <1>5, <2>1 DEF Above
      <3> QED BY <1>3, <1>4, <2>1, <3>1 DEF Closed
    <2> QED BY <1>21, <1>3, <1>4, <1>6, <2>1
  <1>9. Closed(Parents, U)
    <2> SUFFICES ASSUME NEW y \in U, Parents[y] # NULL PROVE Parents[y] \in U
      BY <1>7 DEF Closed
    <2>1. Parents[y] \in W \cap Rooted
      BY <1>21, <1>4, <1>6 DEF Closed
    <2>2. ASSUME NEW u \in Threads \ {t}, Erases(u), k \in up[u] PROVE Parents[y] \in up[u]
      <3>1. Closed(Parents, up[u])
        BY <1>5, <2>2 DEF Above
      <3>2. y \in up[u]
        BY <1>21, <2>2
      <3> QED BY <3>1, <3>2 DEF Closed
    <2> QED BY <1>21, <2>1, <2>2
  <1>11. \A u \in Threads \ {t} : \A y \in U : Erases(u) /\ k \in up[u] => y \in up[u]
    BY <1>21
  <1>12. new[t] = U /\ \A u \in Threads \ {t} : new[u] = up[u]
    BY <1>22
  <1>13. \A u \in Threads \ {t} : Erases(u)' => Erases(u) /\ call'[u] = call[u]
    BY <1>2 DEF OthersWait, Erases
  <1>14. ASSUME NEW u \in Threads, Erases(u)' PROVE Above(u, new[u])'
    <2>1. CASE u = t
      BY <1>2, <1>3, <1>4, <1>7, <1>8, <1>9, <1>12, <2>1 DEF Above
    <2>2. CASE u # t
      <3>1. Above(u, up[u]) /\ call'[u] = call[u] /\ call[u].kf \in KeyFrames
        BY <1>5, <1>13, <1>14, <2>2, ErasingKnown
      <3> QED BY <1>4, <1>12, <2>2, <3>1 DEF Above
    <2> QED BY <2>1, <2>2
  <1>15. ASSUME NEW u \in Threads \ {t}, Erases(u)' PROVE k \notin new[u] \/ call'[u].kf \notin new[t]
    <2>1. Above(u, up[u]) /\ call'[u].kf = call[u].kf /\ Erases(u)
      BY <1>5, <1>13, <1>15
    <2>2. call[u].kf \notin up[u]
      BY <2>1 DEF Above
    <2> QED BY <1>11, <1>12, <2>1, <2>2
  <1>16. ASSUME NEW u \in Threads, NEW v \in Threads, u # v, Erases(u)', Erases(v)'
        PROVE  Apart(u, v, new[u], new[v])'
    <2>1. CASE u = t \/ v = t
      BY <1>2, <1>15, <1>16, <2>1 DEF Apart
    <2>2. CASE u # t /\ v # t
      <3>1. Apart(u, v, up[u], up[v]) /\ call'[u] = call[u] /\ call'[v] = call[v]
        BY <1>5, <1>13, <1>16, <2>2
      <3> QED BY <1>12, <2>2, <3>1 DEF Apart
    <2> QED BY <2>1, <2>2
  <1>17. Ancestry'
    BY <1>14, <1>16 DEF Ancestry
  <1> QED BY <1>1, <1>17, CalmPaths, CalmLinks DEF Sound, Calm

\* A new keyframe gets a parent, and has no descendants it could be below.
LEMMA SetsParentSound ==
    ASSUME Inv, stolen = {}, NEW t \in Threads, SetsParent(t), LoopsStay
    PROVE  Sound'
  <1>1. CASE SameLinks
    <2>1. CalmParents /\ \A u \in Threads : Calm(u) /\ CalmErasing(u)
      <3>1. call[t].pc = "join"
        BY InvTyped, SetsParentEffect
      <3>2. ~TakesOwn(t)
        BY <3>1 DEF TakesOwn
      <3> QED BY <1>1, <3>2, CalmMethod DEF CalmStep
    <2> QED BY <1>1, <2>1, CalmPaths, CalmLinks, CalmAncestry DEF Sound, Calm
  <1>2. CASE ~SameLinks
    <2>20. PICK k \in KeyFrames, p \in KeyFrames : k = call[t].kf /\ p = call[t].to
      BY InvTyped, SetsParentEffect DEF Typed, Arguments
    <2>1. /\ call[t].pc = "join" /\ call'[t].pc = "addChild" /\ call'[t].kf = k
          /\ kf[k].first /\ OthersWait(t) /\ made' = made /\ astray' = astray
          /\ \A x \in KeyFrames :
                      /\ kf'[x].parent = (IF x = k THEN p ELSE kf[x].parent)
                      /\ kf'[x].children = kf[x].children /\ kf'[x].bad = kf[x].bad
      BY <1>2, <2>20, InvTyped, SetsParentEffect DEF SameMarks
    <2>2. k \in KeyFrames /\ p \in made /\ (Split => p # 0) /\ call[t].pc \in Connecting
      BY <2>20, <2>1, InvTyped DEF Typed, Arguments, Connecting
    <2>3. t = mapper /\ k = mapping.cur /\ mapping.pc # "top"
      BY <2>20, <2>1, <2>2, RecognitionAssumption
         DEF Inv, MapperPhase, CloserPhase, Erasing, Chosen, Holding, RecognitionAssumption
    <2>4. k \notin made /\ k \notin {0, 1}
      BY <2>1, <2>2, <2>3 DEF Inv, FirstOnce, MapperPhase
    <2>5. mapping.pc = "new" /\ kf[k].parent = NULL
      <3>1. mapping.pc = "new"
        BY <2>2, <2>3, <2>4 DEF Inv, Known
      <3> QED BY <2>1, <2>2, <2>3, <3>1, TreeKnown DEF Unborn
    <2>6. k \notin Rooted /\ p \in Rooted /\ p # NULL /\ ~TurnsOn
      BY <2>2, <2>4, <2>5, TreeKnown, InvTyped DEF Rooted, TurnsOn, Inv, MapperPhase
    <2>7. /\ Sound /\ Closed(Parents, Rooted) /\ Rooted \subseteq Rooted'
          /\ Parents \in ParentFunctions /\ \A x \in KeyFrames : Parents[x] = kf[x].parent
      BY <2>1, <2>6, TreeKnown, RootedClosed, RootedGrows DEF LoopsStay, Split
    <2>8. /\ Parents' \in ParentFunctions /\ Parents'[k] = p
          /\ \A x \in KeyFrames : Parents'[x] = kf'[x].parent
          /\ \A x \in KeyFrames \ {k} : Parents'[x] = Parents[x]
      <3>1. \A x \in KeyFrames : kf'[x].parent \in NodesOrNull
        BY <2>1, <2>2, TreeKnown, InvTyped DEF NodesOrNull
      <3> QED BY <2>1, <2>2, <3>1 DEF Parents, ParentFunctions
    <2>9. Acyclic(Parents)' /\ BadEnd(Parents, BadOnes)'
      <3>1. BadOnes' = BadOnes /\ BadOnes \in SUBSET KeyFrames
        BY <2>1, TreeKnown DEF BadOnes
      <3>2. /\ Acyclic(Parents) => Acyclic(Parents')
            /\ \A B \in SUBSET KeyFrames : BadEnd(Parents, B) => BadEnd(Parents', B)
        BY <2>2, <2>6, <2>7, <2>8, MoveLemma
      <3> QED BY <2>7, <3>1, <3>2 DEF Sound, Acyclic, BadEnd, Closed
    <2>10. \A u \in Threads \ {t} : call'[u] = call[u]
      BY <2>1 DEF OthersWait
    <2>11. Ancestry'
      <3>1. PICK up \in [Threads -> SUBSET KeyFrames] :
              /\ \A u \in Threads : Erases(u) => Above(u, up[u])
              /\ \A u, v \in Threads : u # v /\ Erases(u) /\ Erases(v) => Apart(u, v, up[u], up[v])
        BY <2>7 DEF Sound, Ancestry
      <3>2. \A u \in Threads : Erases(u)' => Erases(u) /\ call'[u] = call[u]
        BY <2>1, <2>10 DEF Erases, Holding
      <3>3. ASSUME NEW u \in Threads, Erases(u)' PROVE Above(u, up[u])'
        <4>1. Above(u, up[u]) /\ call'[u] = call[u] /\ call[u].kf \in made /\ call[u].kf \in KeyFrames
          BY <3>1, <3>2, <3>3, ErasingKnown
        <4> QED BY <2>1, <2>4, <2>6, <2>7, <2>8, <4>1 DEF Above, Closed
      <3>4. ASSUME NEW u \in Threads, NEW v \in Threads, u # v, Erases(u)', Erases(v)'
            PROVE  Apart(u, v, up[u], up[v])'
        BY <3>1, <3>2, <3>4 DEF Apart
      <3> QED BY <3>3, <3>4 DEF Ancestry
    <2>12. Turning' /\ ~TurnsOn'
      BY <2>6 DEF Turning, TurnsOn, LoopsStay
    <2>13. Orphans'
      <3>1. \A x \in KeyFrames : kf[x].parent # NULL => kf'[x].parent # NULL
        BY <2>1, <2>6
      <3>2. kf'[0].parent = NULL /\ 0 \in KeyFrames /\ 1 \in KeyFrames /\ made \subseteq KeyFrames
        BY <2>1, <2>4, <2>7, InvTyped DEF Sound, Orphans
      <3>3. \A x \in KeyFrames : kf'[x].parent # NULL => kf'[x].parent \in Rooted'
        BY <2>1, <2>6, <2>7 DEF Sound, Orphans
      <3>4. kf'[1].parent = NULL => Split'
        BY <2>6, <2>7, <3>1, <3>2 DEF Sound, Orphans, TurnsOn, LoopsStay, Split
      <3>5. \A x \in made' \ {0, 1} : kf'[x].parent # NULL
        BY <2>1, <2>7, <3>1, <3>2 DEF Sound, Orphans
      <3>6. \A u \in Threads : call'[u].pc \in Chosen =>
                call'[u] = call[u] /\ call[u].kf \in KeyFrames /\ kf[call[u].kf].parent # NULL
        BY <2>1, <2>7, <2>10, InvTyped DEF Sound, Orphans, Chosen, Holding, Typed, Arguments
      <3>7. \A u \in Threads : call'[u].pc # "crashed"
        BY <2>1, <2>7, <2>10 DEF Sound, Orphans
      <3> QED BY <3>1, <3>2, <3>3, <3>4, <3>5, <3>6, <3>7 DEF Orphans
    <2>14. \A u \in Threads : \A x \in KeyFrames : InHandOf(u, x) => InHandOf(u, x)'
      BY <2>1, <2>10 DEF InHandOf
    <2>15. InHandOf(t, k)'
      BY <2>1 DEF InHandOf
    <2>16. Linked'
      <3> SUFFICES ASSUME NEW x \in KeyFrames \ astray', Good(x)', kf'[x].parent # NULL,
                          \A u \in Threads : ~InHandOf(u, x)'
                   PROVE  Good(kf[x].parent)' /\ x \in kf'[kf'[x].parent].children
        BY DEF Linked
      <3>1. x # k /\ kf'[x].parent = kf[x].parent /\ kf[x].parent \in KeyFrames
        BY <2>1, <2>15, TreeKnown DEF NodesOrNull
      <3>2. Good(kf[x].parent) /\ x \in kf[kf[x].parent].children
        BY <2>1, <2>7, <2>14, <3>1 DEF Sound, Linked, Good
      <3> QED BY <2>1, <3>1, <3>2 DEF Good
    <2>17. RestGone'
      <3> SUFFICES ASSUME NEW u \in Threads, call'[u].pc \in {"rest", "restGiven"},
                          NEW c \in kf'[call'[u].kf].children \ call'[u].scan
                   PROVE  kf'[c].parent # call'[u].kf \/ \E v \in Threads \ {u} : InHandOf(v, c)'
        BY DEF RestGone
      <3>1. u # t /\ call'[u] = call[u]
        BY <2>1, <2>10
      <3>2. call[u].kf \in KeyFrames
        BY <3>1, InvTyped DEF Typed, Arguments
      <3>3. c \in kf[call[u].kf].children \ call[u].scan /\ c \in KeyFrames
        BY <2>1, <3>1, <3>2, TreeKnown
      <3>4. kf[c].parent # call[u].kf \/ \E v \in Threads \ {u} : InHandOf(v, c)
        BY <2>7, <3>1, <3>3 DEF Sound, RestGone
      <3> QED BY <2>1, <2>14, <2>15, <3>1, <3>3, <3>4
    <2> QED BY <2>9, <2>11, <2>12, <2>13, <2>16, <2>17 DEF Sound
  <1> QED BY <1>1, <1>2
\* The keyframe whose mutex one thread takes is not one that another erases.
LEMMA ErasedIsLocked ==
    ASSUME Inv, NEW u \in Threads, call[u].pc \in Holding, NEW p, lock[p] = NULL
    PROVE  p # call[u].kf /\ call[u].kf \in KeyFrames
  BY InvTyped, NullIsNoKeyFrame DEF Typed, Arguments, Locks, Holding

\* The new keyframe is known to its parent.
LEMMA AddChildSound ==
    ASSUME Inv, stolen = {}, NEW t \in Threads, AddChild(t), LoopsStay
    PROVE  Sound'
  <1>1. PICK k \in KeyFrames, p \in KeyFrames : k = call[t].kf /\ p = call[t].to
    BY InvTyped, AddChildEffect
  <1>2. /\ call[t].pc = "addChild" /\ call'[t].pc = "none" /\ OthersWait(t) /\ made' = made /\ lock[p] = NULL
        /\ astray' = (IF Good(p) THEN astray \ {k} ELSE astray \cup {k})
        /\ \A x \in KeyFrames :
             /\ kf'[x].parent = kf[x].parent /\ kf'[x].bad = kf[x].bad
             /\ kf'[x].children = (IF x = p THEN kf[x].children \cup {k} ELSE kf[x].children)
    <2>1. Typed
      BY InvTyped
    <2>2. /\ call[t].pc = "addChild" /\ call'[t].pc = "none" /\ OthersWait(t) /\ SameMarks
          /\ lock[call[t].to] = NULL
          /\ astray' = (IF Good(call[t].to) THEN astray \ {call[t].kf} ELSE astray \cup {call[t].kf})
          /\ \A x \in KeyFrames :
               /\ kf'[x].parent = kf[x].parent /\ kf'[x].bad = kf[x].bad
               /\ kf'[x].children =
                    (IF x = call[t].to THEN kf[x].children \cup {call[t].kf} ELSE kf[x].children)
      BY <2>1, AddChildEffect
    <2> QED BY <1>1, <2>2 DEF SameMarks
  <1>3. kf[k].parent = p
    <2>1. call[t].pc = "addChild" => kf[call[t].kf].parent = call[t].to
      <3>1. Locks
        BY InvTyped DEF Typed
      <3> QED BY <3>1 DEF Locks
    <2> QED BY <1>1, <1>2, <2>1
  <1>4. \A u \in Threads \ {t} : call'[u] = call[u]
    BY <1>2 DEF OthersWait
  <1>5. CalmParents /\ \A u \in Threads : CalmChosen(u) /\ CalmErasing(u)
    <2>1. CalmParents
      BY <1>2 DEF CalmParents, CalmMaps, LoopsStay, TurnsOn
    <2>2. CalmChosen(t) /\ CalmErasing(t)
      BY <1>2 DEF CalmChosen, CalmErasing, Erases, Chosen, Holding
    <2> QED BY <1>4, <2>1, <2>2, CalmOthers DEF Calm
  <1>6. Sound /\ Parents' = Parents /\ BadOnes' = BadOnes
    BY <1>2, TreeKnown, SameParents DEF BadOnes
  <1>7. BadEnd(Parents, BadOnes)'
    BY <1>6 DEF Sound, BadEnd, Closed
  <1>8. \A u \in Threads : \A x \in KeyFrames \ {k} : InHandOf(u, x) => InHandOf(u, x)'
    BY <1>1, <1>2, <1>4 DEF InHandOf
  <1>9. \A u \in Threads \ {t} : \A x \in KeyFrames : InHandOf(u, x) => InHandOf(u, x)'
    BY <1>4 DEF InHandOf
  <1>10. Linked'
    <2> SUFFICES ASSUME NEW x \in KeyFrames \ astray', Good(x)', kf'[x].parent # NULL,
                        \A u \in Threads : ~InHandOf(u, x)'
                 PROVE  Good(kf[x].parent)' /\ x \in kf'[kf'[x].parent].children
      BY DEF Linked
    <2>1. CASE x = k
      BY <1>2, <1>3, <2>1 DEF Good
    <2>2. CASE x # k
      <3>1. kf'[x].parent = kf[x].parent /\ kf[x].parent \in KeyFrames /\ x \notin astray
        BY <1>2, <2>2, TreeKnown DEF NodesOrNull
      <3>2. Good(kf[x].parent) /\ x \in kf[kf[x].parent].children
        BY <1>2, <1>6, <1>8, <2>2, <3>1 DEF Sound, Linked, Good
      <3> QED BY <1>2, <3>1, <3>2 DEF Good
    <2> QED BY <2>1, <2>2
  <1>11. RestGone'
    <2> SUFFICES ASSUME NEW u \in Threads, call'[u].pc \in {"rest", "restGiven"},
                        NEW c \in kf'[call'[u].kf].children \ call'[u].scan
                 PROVE  kf'[c].parent # call'[u].kf \/ \E v \in Threads \ {u} : InHandOf(v, c)'
      BY DEF RestGone
    <2>1. u # t /\ call'[u] = call[u]
      BY <1>2, <1>4
    <2>2. p # call[u].kf /\ call[u].kf \in KeyFrames
      BY <1>2, <2>1, ErasedIsLocked DEF Holding
    <2>3. c \in kf[call[u].kf].children \ call[u].scan /\ c \in KeyFrames
      BY <1>2, <2>1, <2>2, TreeKnown
    <2>4. kf[c].parent # call[u].kf \/ \E v \in Threads \ {u} : InHandOf(v, c)
      BY <1>6, <2>1, <2>3 DEF Sound, RestGone
    <2>5. CASE c = k
      BY <1>2, <1>3, <2>1, <2>2, <2>5
    <2>6. CASE c # k
      BY <1>2, <1>8, <2>1, <2>3, <2>4, <2>6
    <2> QED BY <2>5, <2>6
  <1> QED BY <1>5, <1>7, <1>10, <1>11, CalmPaths, CalmAncestry DEF Sound

\* The child becomes known to its new parent, which becomes a candidate itself.
LEMMA AdoptsSound ==
    ASSUME Inv, stolen = {}, NEW t \in Threads, AdoptsChild(t), LoopsStay
    PROVE  Sound'
  <1>1. PICK k \in KeyFrames, c \in KeyFrames, p \in KeyFrames :
          k = call[t].kf /\ c = call[t].child /\ p = call[t].to
    BY InvTyped, AdoptsEffect
  <1>2. /\ OthersWait(t) /\ made' = made /\ lock[p] = NULL /\ call'[t].kf = k
        /\ astray' = (IF Good(p) THEN astray \ {c} ELSE astray \cup {c})
        /\ \A x \in KeyFrames :
             /\ kf'[x].parent = kf[x].parent /\ kf'[x].bad = kf[x].bad
             /\ x # p => kf'[x].children \in SUBSET kf[x].children
             /\ kf[x].children \ {c} \in SUBSET kf'[x].children
             /\ x = p /\ x # k => c \in kf'[x].children
        /\ \/ /\ call[t].pc = "given" /\ call'[t].pc = "scan"
              /\ call'[t].cands = call[t].cands \cup {c}
           \/ /\ call[t].pc = "restGiven" /\ call'[t].pc = "rest"
              /\ call'[t].cands = call[t].cands /\ call'[t].scan = call[t].scan \ {c}
    BY <1>1, InvTyped, AdoptsEffect DEF SameMarks
  <1>3. kf[c].parent = p /\ p # k
    BY <1>1, <1>2, InvTyped, ErasedIsLocked DEF Typed, Locks, Holding
  <1>4. \A u \in Threads \ {t} : call'[u] = call[u]
    BY <1>2 DEF OthersWait
  <1>5. CalmParents /\ \A u \in Threads : CalmChosen(u) /\ CalmErasing(u)
    <2>1. CalmParents
      BY <1>2 DEF CalmParents, CalmMaps, LoopsStay, TurnsOn
    <2>2. kf[k].parent # NULL
      BY <1>1, <1>2, TreeKnown DEF Sound, Orphans, Chosen, Holding
    <2>3. CalmChosen(t) /\ CalmErasing(t)
      BY <1>1, <1>2, <2>2 DEF CalmChosen, CalmErasing, Erases, Chosen, Holding
    <2> QED BY <1>4, <2>1, <2>3, CalmOthers DEF Calm
  <1>6. Sound /\ Parents' = Parents /\ BadOnes' = BadOnes
    BY <1>2, TreeKnown, SameParents DEF BadOnes
  <1>7. BadEnd(Parents, BadOnes)'
    BY <1>6 DEF Sound, BadEnd, Closed
  <1>8. \A u \in Threads : \A x \in KeyFrames \ {c} : InHandOf(u, x) => InHandOf(u, x)'
    BY <1>1, <1>2, <1>4 DEF InHandOf
  <1>9. \A u \in Threads \ {t} : \A x \in KeyFrames : InHandOf(u, x) => InHandOf(u, x)'
    BY <1>4 DEF InHandOf
  <1>10. Linked'
    <2> SUFFICES ASSUME NEW x \in KeyFrames \ astray', Good(x)', kf'[x].parent # NULL,
                        \A u \in Threads : ~InHandOf(u, x)'
                 PROVE  Good(kf[x].parent)' /\ x \in kf'[kf'[x].parent].children
      BY DEF Linked
    <2>1. CASE x = c
      BY <1>2, <1>3, <2>1 DEF Good
    <2>2. CASE x # c
      <3>1. kf'[x].parent = kf[x].parent /\ kf[x].parent \in KeyFrames /\ x \notin astray
        BY <1>2, <2>2, TreeKnown DEF NodesOrNull
      <3>2. Good(kf[x].parent) /\ x \in kf[kf[x].parent].children
        BY <1>2, <1>6, <1>8, <2>2, <3>1 DEF Sound, Linked, Good
      <3> QED BY <1>2, <2>2, <3>1, <3>2 DEF Good
    <2> QED BY <2>1, <2>2
  <1>11. RestGone'
    <2> SUFFICES ASSUME NEW u \in Threads, call'[u].pc \in {"rest", "restGiven"},
                        NEW y \in kf'[call'[u].kf].children \ call'[u].scan
                 PROVE  kf'[y].parent # call'[u].kf \/ \E v \in Threads \ {u} : InHandOf(v, y)'
      BY DEF RestGone
    <2>1. call'[u].kf = call[u].kf /\ call[u].pc \in {"rest", "restGiven"}
      BY <1>1, <1>2, <1>4
    <2>2. p # call[u].kf /\ call[u].kf \in KeyFrames
      BY <1>2, <2>1, ErasedIsLocked DEF Holding
    <2>3. y \in kf[call[u].kf].children /\ y \in KeyFrames
      BY <1>2, <2>1, <2>2, TreeKnown
    <2>4. CASE y = c
      BY <1>2, <1>3, <2>1, <2>2, <2>4
    <2>5. CASE y # c
      <3>1. y \notin call[u].scan
        BY <1>1, <1>2, <1>4, <2>5
      <3>2. kf[y].parent # call[u].kf \/ \E v \in Threads \ {u} : InHandOf(v, y)
        BY <1>6, <2>1, <2>3, <3>1 DEF Sound, RestGone
      <3> QED BY <1>2, <1>8, <2>1, <2>3, <2>5, <3>2
    <2> QED BY <2>4, <2>5
  <1> QED BY <1>5, <1>7, <1>10, <1>11, CalmPaths, CalmAncestry DEF Sound

\* A keyframe that turns bad has no children left and a parent whose way up ends well.
LEMMA TurnsBadSound ==
    ASSUME Inv, stolen = {}, NEW t \in Threads, TurnsBad(t), LoopsStay
    PROVE  Sound'
  <1>1. PICK k \in KeyFrames : k = call[t].kf
    BY InvTyped, TurnsBadEffect
  <1>2. /\ OthersWait(t) /\ made' = made /\ astray' = astray
        /\ call[t].pc = "rest" /\ call[t].scan = {} /\ call'[t].pc = "forget"
        /\ \A x \in KeyFrames :
             /\ kf'[x].parent = kf[x].parent
             /\ x = k => kf'[x].bad = TRUE
             /\ x # k => kf'[x].bad = kf[x].bad
             /\ kf'[x].children \in SUBSET kf[x].children
             /\ kf[x].children \ {k} \in SUBSET kf'[x].children
    BY <1>1, InvTyped, TurnsBadEffect DEF SameMarks
  <1>3. Erases(t) /\ kf[k].parent # NULL
    BY <1>1, <1>2, ErasingKnown DEF Erases, Holding
  <1>4. \A u \in Threads \ {t} : call'[u] = call[u]
    BY <1>2 DEF OthersWait
  <1>5. CalmParents /\ \A u \in Threads : CalmChosen(u) /\ CalmErasing(u)
    <2>1. CalmParents
      BY <1>2 DEF CalmParents, CalmMaps, LoopsStay, TurnsOn
    <2>2. CalmChosen(t) /\ CalmErasing(t)
      BY <1>2 DEF CalmChosen, CalmErasing, Erases, Chosen, Holding
    <2> QED BY <1>4, <2>1, <2>2, CalmOthers DEF Calm
  <1>6. /\ Sound /\ Parents' = Parents /\ BadOnes' = BadOnes \cup {k}
        /\ Parents \in ParentFunctions /\ BadOnes \in SUBSET KeyFrames /\ Parents[k] = kf[k].parent
    BY <1>2, TreeKnown, SameParents DEF BadOnes
  <1>7. BadEnd(Parents, BadOnes)'
    <2>1. PICK V \in SUBSET KeyFrames : Closed(Parents, V) /\ k \notin V /\ kf[k].parent \in V \cup {NULL}
      BY <1>1, <1>3, <1>6 DEF Sound, Ancestry, Above
    <2>2. BadEnd(Parents, BadOnes \cup {k})
      BY <1>3, <1>6, <2>1, OneMoreBad DEF Sound
    <2> QED BY <1>6, <2>2 DEF BadEnd, Closed
  <1>8. \A u \in Threads : \A x \in KeyFrames : InHandOf(u, x) => u # t /\ InHandOf(u, x)'
    BY <1>1, <1>2, <1>4 DEF InHandOf
  <1>9. Linked'
    <2> SUFFICES ASSUME NEW x \in KeyFrames \ astray', Good(x)', kf'[x].parent # NULL,
                        \A u \in Threads : ~InHandOf(u, x)'
                 PROVE  Good(kf[x].parent)' /\ x \in kf'[kf'[x].parent].children
      BY DEF Linked
    <2>1. kf'[x].parent = kf[x].parent /\ kf[x].parent \in KeyFrames /\ x \notin astray /\ x # k
      BY <1>2, TreeKnown DEF NodesOrNull, Good
    <2>2. Good(kf[x].parent) /\ x \in kf[kf[x].parent].children
      BY <1>2, <1>6, <1>8, <2>1 DEF Sound, Linked, Good
    <2>3. kf[x].parent # k
      <3>1. SUFFICES ASSUME kf[x].parent = k PROVE FALSE
        OBVIOUS
      <3>2. x \in kf[call[t].kf].children \ call[t].scan
        BY <1>1, <1>2, <2>2, <3>1
      <3>3. \E u \in Threads \ {t} : InHandOf(u, x)
        BY <1>1, <1>2, <1>6, <3>1, <3>2 DEF Sound, RestGone
      <3> QED BY <1>8, <3>3
    <2> QED BY <1>2, <2>1, <2>2, <2>3 DEF Good
  <1>10. RestGone'
    <2> SUFFICES ASSUME NEW u \in Threads, call'[u].pc \in {"rest", "restGiven"},
                        NEW y \in kf'[call'[u].kf].children \ call'[u].scan
                 PROVE  kf'[y].parent # call'[u].kf \/ \E v \in Threads \ {u} : InHandOf(v, y)'
      BY DEF RestGone
    <2>1. call'[u] = call[u]
      BY <1>2, <1>4
    <2>2. call[u].kf \in KeyFrames
      BY <2>1, InvTyped DEF Typed, Arguments
    <2>3. y \in kf[call[u].kf].children \ call[u].scan /\ y \in KeyFrames
      BY <1>2, <2>1, <2>2, TreeKnown
    <2>4. kf[y].parent # call[u].kf \/ \E v \in Threads \ {u} : InHandOf(v, y)
      BY <1>6, <2>1, <2>3 DEF Sound, RestGone
    <2> QED BY <1>2, <1>8, <2>1, <2>3, <2>4
  <1> QED BY <1>5, <1>7, <1>9, <1>10, CalmPaths, CalmAncestry DEF Sound
\* A keyframe that is erased gives a child to one that is not below the child: the way up
\* from there avoids it, and the ways up of both threads still avoid what they erase.
LEMMA GivesSound ==
    ASSUME Inv, stolen = {}, stolen' = {}, NEW t \in Threads, GivesChild(t) \/ GivesRest(t), LoopsStay
    PROVE  Sound'
  <1>1. Typed /\ NULL \notin KeyFrames /\ NULL \notin Threads /\ Sound
    BY InvTyped, TreeKnown
  <1>2. PICK k \in KeyFrames, c \in KeyFrames, p \in NodesOrNull : k = call[t].kf /\ Moves(t, c, p)
    BY <1>1, GivesEffect
  <1>3. OthersWait(t) /\ made' = made /\ lock[k] = t
    BY <1>1, <1>2, GivesEffect DEF SameMarks
  <1>4. /\ kf[c].parent = k /\ lock[c] = NULL /\ astray' = astray
        /\ call'[t].child = c /\ call'[t].to = p /\ call'[t].kf = k
        /\ call'[t].scan = call[t].scan /\ call'[t].cands = call[t].cands
    BY <1>2 DEF Moves
  <1>5. \A x \in KeyFrames :
           /\ kf'[x].parent = (IF x = c /\ p # c THEN p ELSE kf[x].parent)
           /\ kf'[x].children = kf[x].children /\ kf'[x].bad = kf[x].bad
    BY <1>2 DEF Moves
  <1>6. \/ call[t].pc = "give" /\ call'[t].pc = "given" /\ p \in call[t].cands /\ p \in KeyFrames
        \/ /\ call[t].pc = "rest" /\ c \in call[t].scan /\ p = kf[k].parent
           /\ call'[t].pc = (IF p \in {NULL, c} THEN "crashed" ELSE "restGiven")
    BY <1>2 DEF Moves
  <1>7. Erases(t) /\ k \in made /\ k # 0 /\ kf[k].parent # NULL /\ ~TurnsOn
    BY <1>2, <1>6, ErasingKnown DEF Erases, Holding
  <1>8. PICK up \in [Threads -> SUBSET KeyFrames] :
          /\ \A u \in Threads : Erases(u) => Above(u, up[u])
          /\ \A u, v \in Threads : u # v /\ Erases(u) /\ Erases(v) => Apart(u, v, up[u], up[v])
    BY <1>1 DEF Sound, Ancestry
  <1>9. PICK V \in SUBSET KeyFrames : V = up[t]
    BY <1>8
  <1>10. /\ V \subseteq Rooted /\ Closed(Parents, V) /\ k \notin V /\ kf[k].parent \in V
         /\ call[t].cands \subseteq V
    BY <1>2, <1>7, <1>8, <1>9 DEF Above
  <1>11. p \in V /\ p \in KeyFrames /\ p # NULL
    BY <1>1, <1>6, <1>10
  <1>12. c # k /\ c # 0 /\ c \notin V /\ c \in Rooted /\ p # c
    <2>1. c # k
      BY <1>1, <1>3, <1>4
    <2>2. kf[0].parent = NULL
      BY <1>1 DEF Sound, Orphans
    <2>3. c \notin V
      BY <1>1, <1>4, <1>10, TreeKnown DEF Closed
    <2> QED BY <1>1, <1>4, <1>11, <2>1, <2>2, <2>3 DEF Rooted
  <1>13. call'[t].pc \in {"given", "restGiven"} /\ (call'[t].pc = "restGiven" => c \in call[t].scan)
    BY <1>6, <1>11, <1>12
  <1>14. \A u \in Threads \ {t} : call'[u] = call[u]
    BY <1>3 DEF OthersWait
  <1>15. /\ Parents \in ParentFunctions /\ \A x \in KeyFrames : Parents[x] = kf[x].parent
         /\ Parents' \in ParentFunctions /\ Parents'[c] = p
         /\ \A x \in KeyFrames : Parents'[x] = kf'[x].parent
         /\ \A x \in KeyFrames \ {c} : Parents'[x] = Parents[x]
    <2>1. \A x \in KeyFrames : kf'[x].parent \in NodesOrNull
      BY <1>2, <1>5, TreeKnown
    <2> QED BY <1>5, <1>12, <2>1, TreeKnown DEF Parents, ParentFunctions
  <1>16. Acyclic(Parents)' /\ BadEnd(Parents, BadOnes)'
    <2>1. BadOnes' = BadOnes /\ BadOnes \in SUBSET KeyFrames
      BY <1>5, TreeKnown DEF BadOnes
    <2>2. /\ Acyclic(Parents) => Acyclic(Parents')
          /\ \A B \in SUBSET KeyFrames : BadEnd(Parents, B) => BadEnd(Parents', B)
      BY <1>10, <1>11, <1>12, <1>15, MoveLemma
    <2> QED BY <1>1, <2>1, <2>2 DEF Sound, Acyclic, BadEnd, Closed
  <1>17. Rooted \subseteq Rooted'
    BY <1>3, <1>5, <1>11, RootedGrows DEF Split, LoopsStay
  <1>18. Ancestry'
    <2>1. \A u \in Threads : Erases(u)' => Erases(u) /\ call'[u].kf = call[u].kf
      BY <1>2, <1>4, <1>7, <1>14 DEF Erases
    <2>2. \A u \in Threads \ {t} : Erases(u) => call[u].kf # c /\ call[u].kf \in KeyFrames
      BY <1>1, <1>4, ErasingKnown
    <2>3. \A u \in Threads \ {t} : Erases(u) /\ c \in up[u] => k \in up[u] /\ call[u].kf \notin V
      <3> SUFFICES ASSUME NEW u \in Threads \ {t}, Erases(u), c \in up[u]
                   PROVE  k \in up[u] /\ call[u].kf \notin V
        OBVIOUS
      <3>1. Above(u, up[u]) /\ Apart(t, u, up[t], up[u])
        BY <1>7, <1>8
      <3>2. k \in up[u]
        BY <1>1, <1>4, <1>15, <3>1 DEF Above, Closed
      <3> QED BY <1>2, <1>9, <3>1, <3>2 DEF Apart
    <2>4. PICK new \in [Threads -> SUBSET KeyFrames] :
            new = [u \in Threads |-> IF u = t THEN V \cup {c}
                                     ELSE IF c \in up[u] THEN up[u] \cup V ELSE up[u]]
      BY <1>8
    <2>5. /\ new[t] = V \cup {c}
          /\ \A u \in Threads \ {t} : /\ c \in up[u] => new[u] = up[u] \cup V
                                      /\ c \notin up[u] => new[u] = up[u]
      BY <2>4
    <2>6. Above(t, new[t])'
      <3>1. Closed(Parents', V \cup {c})
        BY <1>10, <1>11, <1>12, <1>15 DEF Closed
      <3>2. kf'[k].parent = kf[k].parent
        BY <1>5, <1>12
      <3>3. V \cup {c} \subseteq Rooted'
        BY <1>10, <1>12, <1>17
      <3>4. k \notin V \cup {c} /\ kf'[k].parent \in V \cup {c} /\ call'[t].cands \subseteq V \cup {c}
            /\ call'[t].child \in V \cup {c}
        BY <1>4, <1>10, <1>12, <3>2
      <3> QED BY <1>4, <2>5, <3>1, <3>3, <3>4 DEF Above
    <2>7. ASSUME NEW u \in Threads \ {t}, Erases(u) PROVE Above(u, new[u])'
      <3>1. PICK U \in SUBSET KeyFrames, l \in KeyFrames : U = up[u] /\ l = call[u].kf
        BY <1>8, <2>2, <2>7
      <3>2. /\ U \subseteq Rooted /\ Closed(Parents, U) /\ l \notin U /\ kf[l].parent \in U \cup {NULL}
            /\ call[u].cands \subseteq U /\ (call[u].pc = "given" => call[u].child \in U)
        BY <1>8, <2>7, <3>1 DEF Above
      <3>3. call'[u] = call[u] /\ l # c /\ kf'[l].parent = kf[l].parent
        BY <1>5, <1>14, <2>2, <2>7, <3>1
      <3>4. CASE c \in U
        <4>1. new[u] = U \cup V /\ l \notin V
          BY <2>3, <2>5, <2>7, <3>1, <3>4
        <4>2. Closed(Parents', U \cup V)
          BY <1>10, <1>11, <1>15, <3>2 DEF Closed
        <4>3. U \cup V \subseteq Rooted'
          BY <1>10, <1>17, <3>2
        <4> QED BY <3>1, <3>2, <3>3, <4>1, <4>2, <4>3 DEF Above
      <3>5. CASE c \notin U
        <4>1. new[u] = U
          BY <2>5, <3>1, <3>5
        <4>2. Closed(Parents', U)
          BY <1>15, <3>2, <3>5 DEF Closed
        <4> QED BY <1>17, <3>1, <3>2, <3>3, <4>1, <4>2 DEF Above
      <3> QED BY <3>4, <3>5
    <2>8. ASSUME NEW u \in Threads \ {t}, Erases(u)
          PROVE  k \notin new[u] \/ call[u].kf \notin new[t]
      <3>1. CASE call[u].kf \in V
        <4>1. Apart(t, u, up[t], up[u])
          BY <1>7, <1>8, <2>8
        <4>2. k \notin up[u]
          BY <1>2, <1>9, <3>1, <4>1 DEF Apart
        <4>3. c \notin up[u]
          BY <2>3, <2>8, <4>2
        <4> QED BY <2>5, <4>2, <4>3
      <3>2. CASE call[u].kf \notin V
        BY <2>2, <2>5, <2>8, <3>2
      <3> QED BY <3>1, <3>2
    <2>9. ASSUME NEW u \in Threads, NEW v \in Threads, u # v, Erases(u)', Erases(v)'
          PROVE  Apart(u, v, new[u], new[v])'
      <3>1. u = t \/ v = t
        BY <2>9, RecognitionAssumption DEF RecognitionAssumption
      <3> QED BY <1>2, <2>1, <2>8, <2>9, <3>1 DEF Apart
    <2>10. \A u \in Threads : Erases(u)' => Above(u, new[u])'
      BY <2>1, <2>6, <2>7
    <2> QED BY <2>9, <2>10 DEF Ancestry
  <1>19. Turning'
    BY <1>7 DEF Turning, TurnsOn, LoopsStay
  <1>20. Orphans'
    <2>1. \A x \in KeyFrames : kf[x].parent # NULL => kf'[x].parent # NULL
      BY <1>5, <1>11
    <2>2. kf'[0].parent = NULL /\ 0 \in KeyFrames /\ 1 \in KeyFrames /\ made \subseteq KeyFrames
      BY <1>1, <1>5, <1>12, InvTyped DEF Sound, Orphans
    <2>3. \A x \in KeyFrames : kf'[x].parent # NULL => kf'[x].parent \in Rooted'
      BY <1>1, <1>5, <1>10, <1>11, <1>17 DEF Sound, Orphans
    <2>4. kf'[1].parent = NULL => Split'
      BY <1>1, <1>7, <2>1, <2>2 DEF Sound, Orphans, TurnsOn, LoopsStay, Split
    <2>5. \A x \in made' \ {0, 1} : kf'[x].parent # NULL
      BY <1>1, <1>3, <2>1, <2>2 DEF Sound, Orphans
    <2>6. \A u \in Threads : call'[u].pc \in Chosen => kf'[call'[u].kf].parent # NULL
      <3> SUFFICES ASSUME NEW u \in Threads, call'[u].pc \in Chosen PROVE kf'[call'[u].kf].parent # NULL
        OBVIOUS
      <3>1. CASE u = t
        BY <1>4, <1>7, <2>1, <3>1
      <3>2. CASE u # t
        <4>1. call'[u] = call[u] /\ call[u].kf \in KeyFrames
          BY <1>14, <3>2, InvTyped DEF Typed, Arguments, Chosen, Holding
        <4> QED BY <1>1, <2>1, <4>1 DEF Sound, Orphans
      <3> QED BY <3>1, <3>2
    <2>7. \A u \in Threads : call'[u].pc # "crashed"
      BY <1>1, <1>13, <1>14 DEF Sound, Orphans
    <2> QED BY <2>2, <2>3, <2>4, <2>5, <2>6, <2>7 DEF Orphans
  <1>21. InHandOf(t, c)' /\ \A u \in Threads : \A x \in KeyFrames : InHandOf(u, x) => u # t /\ InHandOf(u, x)'
    BY <1>4, <1>6, <1>13, <1>14 DEF InHandOf
  <1>22. Linked'
    <2> SUFFICES ASSUME NEW x \in KeyFrames \ astray', Good(x)', kf'[x].parent # NULL,
                        \A u \in Threads : ~InHandOf(u, x)'
                 PROVE  Good(kf[x].parent)' /\ x \in kf'[kf'[x].parent].children
      BY DEF Linked
    <2>1. x # c /\ x \notin astray /\ kf'[x].parent = kf[x].parent /\ kf[x].parent \in KeyFrames
      BY <1>4, <1>5, <1>21, TreeKnown DEF NodesOrNull
    <2>2. Good(kf[x].parent) /\ x \in kf[kf[x].parent].children
      BY <1>1, <1>5, <1>21, <2>1 DEF Sound, Linked, Good
    <2> QED BY <1>5, <2>1, <2>2 DEF Good
  <1>23. RestGone'
    <2> SUFFICES ASSUME NEW u \in Threads, call'[u].pc \in {"rest", "restGiven"},
                        NEW y \in kf'[call'[u].kf].children \ call'[u].scan
                 PROVE  kf'[y].parent # call'[u].kf \/ \E v \in Threads \ {u} : InHandOf(v, y)'
      BY DEF RestGone
    <2>1. /\ call'[u].kf = call[u].kf /\ call[u].pc \in {"rest", "restGiven"}
          /\ call'[u].scan = call[u].scan
      BY <1>2, <1>4, <1>6, <1>13, <1>14
    <2>2. call[u].kf \in KeyFrames
      BY <2>1, InvTyped DEF Typed, Arguments
    <2>3. y \in kf[call[u].kf].children \ call[u].scan /\ y \in KeyFrames
      BY <1>5, <2>1, <2>2, TreeKnown
    <2>4. kf[y].parent # call[u].kf \/ \E v \in Threads \ {u} : InHandOf(v, y)
      BY <1>1, <2>1, <2>3 DEF Sound, RestGone
    <2>5. CASE y = c
      <3>1. u # t
        BY <1>4, <1>13, <2>3, <2>5
      <3> QED BY <1>21, <2>5, <3>1
    <2>6. CASE y # c
      BY <1>5, <1>21, <2>1, <2>3, <2>4, <2>6
    <2> QED BY <2>5, <2>6
  <1> QED BY <1>16, <1>18, <1>19, <1>20, <1>22, <1>23 DEF Sound
\* A merge finds the old map's one keyframe, and nobody changes the tree meanwhile.
LEMMA MergeIsAlone ==
    ASSUME Inv, closing.pc = "found", mapping.pc = "top", "merge" \in Detected
    PROVE  /\ Split /\ Matched("merge") = 0
           /\ \A t \in Threads : call[t].pc = "none"
  <1>1. "merge" \in Searches /\ search["merge"].n > 0
    BY DetectedSearches
  <1>2. Split /\ Matched("merge") = 0
    BY <1>1 DEF Inv, MapsMergeOnce, Welding
  <1> QED BY <1>2, NobodyIsInside

\* While the tree is turned round nobody changes it either.
LEMMA NobodyInside ==
    ASSUME \A t \in Threads : call[t].pc = "none", call' = call
    PROVE  /\ Ancestry' /\ RestGone' /\ \A t \in Threads : \A x : InHandOf(t, x)' <=> InHandOf(t, x)
           /\ \A t \in Threads : call'[t].pc # "crashed" /\ call'[t].pc \notin Chosen
  <1>1. \A t \in Threads : ~Erases(t)' /\ call'[t].pc = "none"
    BY DEF Erases, Holding
  <1>2. Ancestry'
    <2> DEFINE up == [t \in Threads |-> {}]
    <2>1. up \in [Threads -> SUBSET KeyFrames]
      OBVIOUS
    <2> QED BY <1>1, <2>1 DEF Ancestry
  <1>3. RestGone'
    BY <1>1 DEF RestGone
  <1> QED BY <1>1, <1>2, <1>3 DEF InHandOf, Chosen, Holding

\* The start of a merge hangs the keyframe into the other tree.
LEMMA WeldsSound ==
    ASSUME Inv, stolen = {}, WeldsMaps
    PROVE  Sound'
  <1>1. PICK k \in KeyFrames : k = closing.cur
    BY WeldsMapsEffect
  <1>2. Split /\ Matched("merge") = 0 /\ \A t \in Threads : call[t].pc = "none"
    BY MergeIsAlone, WeldsMapsEffect
  <1>3. /\ call' = call /\ made' = made /\ k \in made /\ k # 0 /\ 0 \in made /\ tracking'.map = "old"
        /\ closing'.pc = "reverse" /\ closing'.child = kf[k].parent /\ closing'.parent = k
        /\ astray' = (IF Good(0) THEN astray \ {k} ELSE astray \cup {k})
        /\ \A x \in KeyFrames :
             /\ kf'[x].parent = (IF x = k THEN 0 ELSE kf[x].parent)
             /\ kf'[x].children = (IF x = 0 THEN kf[x].children \cup {k} ELSE kf[x].children)
             /\ kf'[x].bad = kf[x].bad
    BY <1>1, <1>2, WeldsMapsEffect
  <1>4. /\ Sound /\ NULL \notin KeyFrames /\ 0 \in KeyFrames /\ 1 \in KeyFrames /\ kf[0].parent = NULL
        /\ made \subseteq KeyFrames /\ Closed(Parents, Rooted) /\ 0 \notin Rooted /\ ~Split'
    BY <1>2, <1>3, TreeKnown, InvTyped, RootedClosed DEF Sound, Orphans, Rooted, Split
  <1>5. /\ Parents \in ParentFunctions /\ \A x \in KeyFrames : Parents[x] = kf[x].parent
        /\ Parents' \in ParentFunctions /\ Parents'[k] = 0
        /\ \A x \in KeyFrames : Parents'[x] = kf'[x].parent
        /\ \A x \in KeyFrames \ {k} : Parents'[x] = Parents[x]
    <2>1. \A x \in KeyFrames : kf'[x].parent \in NodesOrNull
      BY <1>3, <1>4, TreeKnown DEF NodesOrNull
    <2> QED BY <1>3, <2>1, TreeKnown DEF Parents, ParentFunctions
  <1>6. Acyclic(Parents)' /\ BadEnd(Parents, BadOnes)'
    <2>1. BadOnes' = BadOnes /\ BadOnes \in SUBSET KeyFrames
      BY <1>3, TreeKnown DEF BadOnes
    <2>2. Closed(Parents, {0}) /\ k \notin {0}
      BY <1>3, <1>4, <1>5 DEF Closed
    <2>3. /\ Acyclic(Parents) => Acyclic(Parents')
          /\ \A B \in SUBSET KeyFrames : BadEnd(Parents, B) => BadEnd(Parents', B)
      BY <1>5, <2>2, MoveLemma
    <2> QED BY <1>4, <2>1, <2>3 DEF Sound, Acyclic, BadEnd, Closed
  <1>7. Rooted \subseteq Rooted' /\ 0 \in Rooted' /\ k \in Rooted'
    <2>1. \A x \in KeyFrames : kf[x].parent # NULL => kf'[x].parent # NULL
      BY <1>3, <1>4
    <2>2. Rooted \subseteq Rooted'
      BY <1>3, <1>4, <2>1, RootedGrows
    <2> QED BY <1>3, <1>4, <2>2 DEF Rooted
  <1>8. Turning'
    <2>1. PICK W \in SUBSET KeyFrames : Closed(Parents, W) /\ k \notin W /\ Parents[k] \in W \cup {NULL}
      BY <1>4, <1>5, WayUpAvoids DEF Sound
    <2>2. PICK U \in SUBSET KeyFrames : U = W \cap Rooted
      BY <2>1
    <2>3. Closed(Parents', U) /\ U \subseteq Rooted' /\ k \notin U /\ 0 \notin U
      <3>1. Closed(Parents, U)
        BY <1>4, <1>5, <2>1, <2>2, ClosedSetsCombine
      <3> QED BY <1>4, <1>5, <1>7, <2>1, <2>2, <3>1 DEF Closed
    <2>4. kf[k].parent # NULL => kf[k].parent \in U
      BY <1>4, <1>5, <2>1, <2>2 DEF Sound, Orphans
    <2>5. Closed(Parents', {0, k})
      BY <1>3, <1>4, <1>5 DEF Closed
    <2> QED BY <1>3, <1>4, <1>7, <2>3, <2>4, <2>5 DEF Turning
  <1>9. Orphans'
    <2>1. \A x \in KeyFrames : kf'[x].parent # NULL => kf'[x].parent \in Rooted'
      BY <1>3, <1>4, <1>7 DEF Sound, Orphans
    <2>2. kf'[1].parent = NULL => TurnsOn'
      BY <1>3, <1>4 DEF Sound, Orphans, TurnsOn
    <2>3. \A x \in made' \ {0, 1} : kf'[x].parent # NULL
      BY <1>3, <1>4 DEF Sound, Orphans
    <2>4. kf'[0].parent = NULL
      BY <1>3, <1>4
    <2>5. \A t \in Threads : call'[t].pc # "crashed" /\ call'[t].pc \notin Chosen
      BY <1>2, <1>3, NobodyInside
    <2> QED BY <2>1, <2>2, <2>3, <2>4, <2>5 DEF Orphans, TurnsOn
  <1>10. Linked'
    <2> SUFFICES ASSUME NEW x \in KeyFrames \ astray', Good(x)', kf'[x].parent # NULL,
                        \A u \in Threads : ~InHandOf(u, x)'
                 PROVE  Good(kf[x].parent)' /\ x \in kf'[kf'[x].parent].children
      BY DEF Linked
    <2>1. CASE x = k
      BY <1>3, <1>4, <2>1 DEF Good
    <2>2. CASE x # k
      <3>1. x \notin astray /\ kf'[x].parent = kf[x].parent /\ kf[x].parent \in KeyFrames
            /\ \A u \in Threads : ~InHandOf(u, x)
        BY <1>2, <1>3, <2>2, TreeKnown, NobodyInside DEF NodesOrNull
      <3>2. Good(kf[x].parent) /\ x \in kf[kf[x].parent].children
        BY <1>3, <1>4, <3>1 DEF Sound, Linked, Good
      <3> QED BY <1>3, <3>1, <3>2 DEF Good
    <2> QED BY <2>1, <2>2
  <1> QED BY <1>2, <1>3, <1>6, <1>8, <1>9, <1>10, NobodyInside DEF Sound

\* The keyframe that is turned round hangs below the one it hung above; the way up from
\* there leads to the old map's first keyframe.
LEMMA ReversesSound ==
    ASSUME Inv, stolen = {}, ReversesLink
    PROVE  Sound'
  <1>1. PICK c \in KeyFrames, p \in KeyFrames : c = closing.child /\ p = closing.parent
    BY ReversesLinkEffect
  <1>2. /\ closing.pc = "reverse" /\ call' = call /\ made' = made /\ tracking' = tracking
        /\ closing'.pc = "reverse" /\ closing'.child = kf[c].parent /\ closing'.parent = c
        /\ astray' = (IF Good(p) THEN astray \ {c} ELSE astray \cup {c})
        /\ \A x \in KeyFrames :
             /\ kf'[x].parent = (IF x = c THEN p ELSE kf[x].parent)
             /\ kf[x].children \ (IF x = c THEN {p} ELSE {}) \subseteq kf'[x].children
             /\ x = p => c \in kf'[x].children
             /\ kf'[x].bad = kf[x].bad
    BY <1>1, ReversesLinkEffect
  <1>3. \A t \in Threads : call[t].pc = "none"
    BY <1>2, NobodyIsInside DEF Inv, MapperPhase
  <1>4. /\ Sound /\ NULL \notin KeyFrames /\ 0 \in KeyFrames /\ 1 \in KeyFrames /\ kf[0].parent = NULL
        /\ made \subseteq KeyFrames /\ Closed(Parents, Rooted)
    BY TreeKnown, InvTyped, RootedClosed DEF Sound, Orphans
  <1>5. /\ Parents \in ParentFunctions /\ \A x \in KeyFrames : Parents[x] = kf[x].parent
        /\ Parents' \in ParentFunctions /\ Parents'[c] = p
        /\ \A x \in KeyFrames : Parents'[x] = kf'[x].parent
        /\ \A x \in KeyFrames \ {c} : Parents'[x] = Parents[x]
    <2>1. \A x \in KeyFrames : kf'[x].parent \in NodesOrNull
      BY <1>2, TreeKnown DEF NodesOrNull
    <2> QED BY <1>2, <2>1, TreeKnown DEF Parents, ParentFunctions
  <1>6. p \in Rooted /\ c # NULL
    BY <1>1, <1>2, <1>4 DEF Sound, Turning
  <1>7. PICK U \in SUBSET KeyFrames, V \in SUBSET KeyFrames :
          /\ Closed(Parents, U) /\ Closed(Parents, V) /\ U \subseteq Rooted /\ U \cap V = {}
          /\ c \in U /\ p \in V /\ 0 \in V
    BY <1>1, <1>2, <1>4, <1>6 DEF Sound, Turning
  <1>8. Acyclic(Parents)' /\ BadEnd(Parents, BadOnes)'
    <2>1. BadOnes' = BadOnes /\ BadOnes \in SUBSET KeyFrames
      BY <1>2, TreeKnown DEF BadOnes
    <2>2. /\ Acyclic(Parents) => Acyclic(Parents')
          /\ \A B \in SUBSET KeyFrames : BadEnd(Parents, B) => BadEnd(Parents', B)
      BY <1>5, <1>7, MoveLemma
    <2> QED BY <1>4, <2>1, <2>2 DEF Sound, Acyclic, BadEnd, Closed
  <1>9. Rooted \subseteq Rooted'
    BY <1>2, <1>4, RootedGrows DEF Split
  <1>10. Turning'
    <2>1. PICK W \in SUBSET KeyFrames : Closed(Parents, W) /\ c \notin W /\ Parents[c] \in W \cup {NULL}
      BY <1>4, <1>5, WayUpAvoids DEF Sound
    <2>2. PICK X \in SUBSET KeyFrames : X = W \cap U
      BY <2>1
    <2>3. Closed(Parents', X) /\ X \subseteq Rooted' /\ c \notin X /\ X \cap V = {}
      <3>1. Closed(Parents, X)
        BY <1>5, <1>7, <2>1, <2>2, ClosedSetsCombine
      <3> QED BY <1>5, <1>7, <1>9, <2>1, <2>2, <3>1 DEF Closed
    <2>4. kf[c].parent # NULL => kf[c].parent \in X
      BY <1>5, <1>7, <2>1, <2>2 DEF Closed
    <2>5. Closed(Parents', V \cup {c})
      BY <1>5, <1>7 DEF Closed
    <2>6. c \in Rooted' /\ X \cap (V \cup {c}) = {} /\ 0 \in V \cup {c} /\ V \cup {c} \in SUBSET KeyFrames
      BY <1>7, <1>9, <2>3
    <2> QED BY <1>2, <2>3, <2>4, <2>5, <2>6 DEF Turning
  <1>11. Orphans'
    <2>1. \A x \in KeyFrames : kf'[x].parent # NULL => kf'[x].parent \in Rooted'
      BY <1>2, <1>4, <1>6, <1>9 DEF Sound, Orphans
    <2>2. kf'[1].parent = NULL => Split' \/ TurnsOn'
      <3>1. SUFFICES ASSUME kf'[1].parent = NULL, ~Split, closing'.child = NULL PROVE FALSE
        BY <1>2 DEF TurnsOn, Split
      <3>2. c # 1 /\ c # 0 /\ kf[c].parent = NULL
        BY <1>2, <1>4, <1>7, <3>1
      <3>3. c \in Rooted
        BY <1>7
      <3> QED BY <1>4, <3>2, <3>3 DEF Sound, Orphans, Rooted
    <2>3. \A x \in made' \ {0, 1} : kf'[x].parent # NULL
      BY <1>2, <1>4 DEF Sound, Orphans
    <2>4. kf'[0].parent = NULL
      BY <1>2, <1>4, <1>7
    <2>5. \A t \in Threads : call'[t].pc # "crashed" /\ call'[t].pc \notin Chosen
      BY <1>2, <1>3, NobodyInside
    <2> QED BY <2>1, <2>2, <2>3, <2>4, <2>5 DEF Orphans, TurnsOn
  <1>12. Linked'
    <2> SUFFICES ASSUME NEW x \in KeyFrames \ astray', Good(x)', kf'[x].parent # NULL,
                        \A u \in Threads : ~InHandOf(u, x)'
                 PROVE  Good(kf[x].parent)' /\ x \in kf'[kf'[x].parent].children
      BY DEF Linked
    <2>1. CASE x = c
      BY <1>2, <2>1 DEF Good
    <2>2. CASE x # c
      <3>1. x \notin astray /\ kf'[x].parent = kf[x].parent /\ kf[x].parent \in KeyFrames
            /\ \A u \in Threads : ~InHandOf(u, x)
        BY <1>2, <1>3, <2>2, TreeKnown, NobodyInside DEF NodesOrNull
      <3>2. Good(kf[x].parent) /\ x \in kf[kf[x].parent].children
        BY <1>2, <1>4, <3>1 DEF Sound, Linked, Good
      <3>3. kf[x].parent = c => x # p
        BY <1>5, <1>7 DEF Closed
      <3> QED BY <1>2, <3>1, <3>2, <3>3 DEF Good
    <2> QED BY <2>1, <2>2
  <1> QED BY <1>2, <1>3, <1>8, <1>10, <1>11, <1>12, NobodyInside DEF Sound
\* A keyframe that is erased once, as long as none is erased twice.
LEMMA StolenGrows ==
    ASSUME Inv, Next, stolen' = {}
    PROVE  stolen = {}
  <1>1. CASE LoopStep
    BY <1>1 DEF LoopStep, SameLinks
  <1>2. CASE WeldsMaps \/ ReversesLink
    BY <1>2 DEF WeldsMaps, ReversesLink
  <1>3. ASSUME NEW t \in Threads, KeyFrameStep(t) PROVE stolen = {}
    <2>1. CASE GivesChild(t) \/ GivesRest(t)
      BY <2>1 DEF GivesChild, GivesRest, ChangeParent
    <2>2. CASE UpdateConnections(t)
      BY <2>2 DEF UpdateConnections, CountsPoints, AddConnection, Links, SetsParent, AddChild
    <2>3. CASE SortsOwn(t) \/ UpdateBestCovisibles(t)
      BY <2>3 DEF SortsOwn, UpdateBestCovisibles
    <2>4. CASE AsksToErase(t) \/ EraseConnection(t) \/ TakesOwn(t) \/ ScansChild(t) \/ ChoosesParent(t)
      BY <2>4 DEF AsksToErase, EraseConnection, Links, TakesOwn, ScansChild, ChoosesParent
    <2>5. CASE AdoptsChild(t) \/ TurnsBad(t) \/ ForgetsKeyFrame(t)
      BY <2>5 DEF AdoptsChild, TurnsBad, ForgetsKeyFrame
    <2> QED BY <1>3, <2>1, <2>2, <2>3, <2>4, <2>5 DEF KeyFrameStep, SetBadFlag
  <1> QED BY <1>1, <1>2, <1>3, LoopSteps

\* A step of a method keeps the tree sound.
LEMMA MethodSound ==
    ASSUME Inv, stolen = {}, stolen' = {}, NEW t \in Threads, KeyFrameStep(t), LoopsStay
    PROVE  Sound'
  <1>1. CASE CalmStep(t) /\ ~TakesOwn(t)
    BY <1>1, CalmMethod, CalmPaths, CalmLinks, CalmAncestry DEF Sound, Calm
  <1>2. CASE TakesOwn(t)
    BY <1>2, TakesOwnSound
  <1>3. CASE SetsParent(t)
    BY <1>3, SetsParentSound
  <1>4. CASE AddChild(t)
    BY <1>4, AddChildSound
  <1>5. CASE GivesChild(t) \/ GivesRest(t)
    BY <1>5, GivesSound
  <1>6. CASE AdoptsChild(t)
    BY <1>6, AdoptsSound
  <1>7. CASE TurnsBad(t)
    BY <1>7, TurnsBadSound
  <1> QED BY <1>1, <1>2, <1>3, <1>4, <1>5, <1>6, <1>7
          DEF KeyFrameStep, UpdateConnections, SetBadFlag, CalmStep

\* Every step keeps the tree sound.
LEMMA SoundStep ==
    ASSUME Inv, Next, stolen = {}, stolen' = {}
    PROVE  Sound'
  BY LoopSteps, CalmLoop, WeldsSound, ReversesSound, MethodSound

\* A keyframe gets its first parent when local mapping connects it, and never loses it.
LEMMA ParentsStay ==
    ASSUME Inv, stolen = {}, stolen' = {}, NEW t \in Threads, KeyFrameStep(t), LoopsStay,
           NEW x \in KeyFrames
    PROVE  \/ kf'[x].parent = kf[x].parent
           \/ kf'[x].parent # NULL /\ kf[x].parent # NULL
           \/ /\ t = mapper /\ mapping.pc = "new" /\ x = mapping.cur
              /\ kf'[x].parent # NULL /\ call'[t].pc = "addChild"
  <1>1. Typed /\ NULL \notin KeyFrames
    BY InvTyped, TreeKnown
  <1>2. CASE CalmStep(t)
    BY <1>2, CalmMethod DEF SameLinks
  <1>3. CASE SetsParent(t) /\ ~SameLinks
    <2>1. /\ call[t].pc = "join" /\ call'[t].pc = "addChild" /\ kf[call[t].kf].first
          /\ kf'[x].parent = (IF x = call[t].kf THEN call[t].to ELSE kf[x].parent)
      BY <1>1, <1>3, SetsParentEffect
    <2>2. call[t].to \in made /\ call[t].kf \in KeyFrames /\ made \subseteq KeyFrames
      BY <1>1, <2>1, InvTyped DEF Typed, Arguments
    <2>3. t = mapper /\ call[t].kf = mapping.cur /\ mapping.cur \notin {0, 1} /\ mapping.pc # "top"
      BY <2>1, RecognitionAssumption
         DEF Inv, MapperPhase, CloserPhase, Connecting, Erasing, Chosen, Holding, RecognitionAssumption
    <2>4. mapping.pc = "new"
      BY <2>1, <2>2, <2>3 DEF Inv, FirstOnce, Known
    <2> QED BY <1>1, <2>1, <2>2, <2>3, <2>4
  <1>4. CASE AddChild(t) \/ AdoptsChild(t) \/ TurnsBad(t)
    BY <1>1, <1>4, AddChildEffect, AdoptsEffect, TurnsBadEffect
  <1>5. CASE GivesChild(t) \/ GivesRest(t)
    <2>1. PICK c \in KeyFrames, p \in NodesOrNull : Moves(t, c, p)
      BY <1>1, <1>5, GivesEffect
    <2>2. call'[t].pc # "crashed"
      BY <1>5, GivesSound DEF Sound, Orphans
    <2>3. p # NULL /\ kf[c].parent = call[t].kf /\ call[t].kf \in KeyFrames
          /\ kf'[x].parent = (IF x = c THEN p ELSE kf[x].parent)
      BY <1>1, <1>5, <2>1, <2>2, GivesEffect DEF Moves
    <2> QED BY <1>1, <2>3
  <1> QED BY <1>2, <1>3, <1>4, <1>5 DEF KeyFrameStep, UpdateConnections, SetBadFlag, CalmStep

\* Every step keeps keyframes without a parent until they are connected.
LEMMA UnbornStep ==
    ASSUME Inv, Next, stolen = {}, stolen' = {}
    PROVE  Unborn'
  <1>1. /\ Unborn /\ NULL \notin KeyFrames /\ made \subseteq KeyFrames /\ mapper \in Threads
        /\ mapping.pc = "new" => mapping.cur \in KeyFrames /\ mapping.cur \notin {0, 1}
    BY TreeKnown, InvTyped DEF Inv, MapperPhase
  <1>2. CASE ProcessNewKeyFrame
    <2>1. PICK k \in KeyFrames : k = tracking.id
      BY <1>2, ProcessEffect
    <2>2. /\ mapping.pc = "top" /\ mapping'.pc = "new" /\ mapping'.cur = k /\ made' = made
          /\ call'[mapper].pc = "count" /\ \A x \in KeyFrames : kf'[x].parent = kf[x].parent
      BY <1>2, <2>1, ProcessEffect DEF SameLinks
    <2>3. k \notin made
      BY <2>1, InvTyped DEF Inv, Known
    <2> QED BY <1>1, <2>2, <2>3 DEF Unborn
  <1>3. CASE AddKeyFrame
    BY <1>1, <1>3, AddKeyFrameEffect DEF Unborn, KeyFramesStay
  <1>4. CASE SearchInNeighbors \/ ListsNeighbours \/ KeyFrameCulling \/ InsertKeyFrame
    <2>1. /\ mapping.pc # "new" /\ mapping'.pc # "new" /\ made' = made
          /\ \A x \in KeyFrames : kf'[x].parent = kf[x].parent
      BY <1>4, SearchInNeighborsEffect, ListsNeighboursEffect, KeyFrameCullingEffect, InsertKeyFrameEffect
         DEF KeyFramesStay, treeVars
    <2> QED BY <1>1, <2>1 DEF Unborn
  <1>5. ASSUME mapping' = mapping, call'[mapper] = call[mapper], made' = made,
               \A x \in KeyFrames : kf'[x].parent = kf[x].parent
        PROVE  Unborn'
    BY <1>1, <1>5 DEF Unborn
  <1>6. CASE TakesKeyFrame \/ CorrectLoop \/ MovesRest
    BY <1>5, <1>6, TakesKeyFrameEffect, CorrectLoopEffect, MovesRestEffect DEF TreeStays, SameLinks
  <1>7. CASE LooksAgain \/ ListsCandidates \/ ChecksCandidates \/ AddsToDatabase \/ GoesOn \/ Reconnects
    <2>1. mapping' = mapping /\ call' = call /\ made' = made /\ kf' = kf
      BY <1>7, ReconnectsEffect
         DEF LooksAgain, ListsCandidates, ChecksCandidates, AddsToDatabase, GoesOn, rest, treeVars
    <2> QED BY <1>5, <2>1
  <1>8. CASE Matching \/ SetErase
    <2>1. mapping' = mapping /\ call'[mapper] = call[mapper] /\ made' = made /\ SameLinks
      <3>1. CASE Matching
        BY <3>1, MatchingEffect
      <3>2. CASE SetErase
        BY <3>2, InvTyped, SetEraseEffect DEF OthersWait
      <3> QED BY <1>8, <3>1, <3>2
    <2> QED BY <1>5, <2>1 DEF SameLinks
  <1>9. CASE WeldsMaps
    <2>1. /\ mapping.pc = "top" /\ mapping' = mapping /\ made' = made /\ closing.cur \in made
          /\ \A x \in KeyFrames : x # closing.cur => kf'[x].parent = kf[x].parent
      BY <1>9, WeldsMapsEffect
    <2> QED BY <1>1, <2>1 DEF Unborn
  <1>10. CASE ReversesLink
    <2>1. PICK c \in KeyFrames : c = closing.child
      BY <1>10, ReversesLinkEffect
    <2>2. /\ closing.pc = "reverse" /\ mapping' = mapping /\ call' = call /\ made' = made
          /\ \A x \in KeyFrames \ {c} : kf'[x].parent = kf[x].parent
      BY <1>10, <2>1, ReversesLinkEffect
    <2>3. mapping.pc = "top"
      BY <2>2 DEF Inv, MapperPhase
    <2>4. c \in Rooted
      BY <1>1, <2>1, <2>2, TreeKnown DEF Sound, Turning
    <2>5. c \in made
      BY <1>1, <2>3, <2>4 DEF Rooted, Unborn
    <2> QED BY <1>1, <2>2, <2>3, <2>5 DEF Unborn
  <1>11. ASSUME NEW t \in Threads, KeyFrameStep(t), LoopsStay PROVE Unborn'
    <2>1. mapping' = mapping /\ made' = made /\ OthersWait(t)
      BY <1>11, InvTyped, KeyFrameStepEffect DEF LoopsStay, SameMarks
    <2>2. \A k \in KeyFrames \ made : ~(mapping.pc = "new" /\ k = mapping.cur) => kf'[k].parent = NULL
      BY <1>1, <1>11, ParentsStay DEF Unborn
    <2>3. call[t].pc # "none" /\ (call[t].pc = "addChild" => AddChild(t) /\ call'[t].pc = "none")
      <3>1. call[t].pc # "none"
        BY <1>11, InvTyped, KeyFrameStepEffect DEF KeepsOn, Connecting, Sorting, Erasing, Chosen, Holding
      <3>2. call[t].pc = "addChild" => AddChild(t)
        BY <1>11
           DEF KeyFrameStep, SortsOwn, UpdateBestCovisibles, UpdateConnections, CountsPoints,
               AddConnection, SetsParent, SetBadFlag, AsksToErase, EraseConnection, TakesOwn, ScansChild,
               ChoosesParent, GivesChild, GivesRest, AdoptsChild, TurnsBad, ForgetsKeyFrame
      <3> QED BY <3>1, <3>2, InvTyped, AddChildEffect
    <2>4. ASSUME mapping.pc = "new", call'[mapper].pc = "none" PROVE kf'[mapping.cur].parent # NULL
      <3>1. CASE kf[mapping.cur].parent # NULL
        BY <1>1, <1>11, <2>4, <3>1, ParentsStay
      <3>2. CASE kf[mapping.cur].parent = NULL
        <4>1. call[mapper].pc # "none" /\ t = mapper
          BY <1>1, <2>1, <2>4, <3>2 DEF Unborn, OthersWait
        <4>2. kf[mapping.cur].first # kf'[mapping.cur].first
          BY <1>1, <1>11, <2>4, <4>1, ConnectedAtLast DEF Inv, FirstOnce
        <4>3. AddChild(t) /\ call[t].pc = "addChild" /\ call[t].kf = mapping.cur
          <5>1. AddChild(t)
            BY <1>1, <1>11, <2>4, <4>2, InvTyped, BadStays
          <5>2. call[t].pc = "addChild"
            BY <5>1 DEF AddChild
          <5> QED BY <4>1, <5>1, <5>2 DEF Inv, MapperPhase, Connecting
        <4>4. kf[mapping.cur].parent = call[t].to /\ call[t].to \in made
          BY <4>3 DEF Inv, Arguments, Locks
        <4> QED BY <1>1, <3>2, <4>4
      <3> QED BY <3>1, <3>2
    <2>5. ASSUME mapping.pc = "new", call'[mapper].pc \in Connecting \ {"addChild"}
          PROVE  kf'[mapping.cur].parent = NULL
      <3>1. call[mapper].pc \in Connecting \ {"addChild"}
        <4>1. CASE t = mapper
          BY <1>1, <2>3, <2>5, <4>1 DEF Inv, MapperPhase, Connecting
        <4>2. CASE t # mapper
          BY <1>1, <2>1, <2>5, <4>2 DEF OthersWait
        <4> QED BY <4>1, <4>2
      <3>2. kf[mapping.cur].parent = NULL
        BY <1>1, <2>5, <3>1 DEF Unborn
      <3> QED BY <1>1, <1>11, <2>5, <3>2, ParentsStay
    <2> QED BY <2>1, <2>2, <2>4, <2>5 DEF Unborn
  <1>12. LoopsStay => \A t \in Threads : KeyFrameStep(t) => Unborn'
    BY <1>11
  <1> QED BY <1>2, <1>3, <1>4, <1>6, <1>7, <1>8, <1>9, <1>10, <1>12, NextSteps

\* Every step keeps the tree, as long as nothing was stolen.
LEMMA TreeStep ==
    ASSUME Inv, Next
    PROVE  Tree'
  BY StolenGrows, SoundStep, UnbornStep DEF Tree

\* Every step keeps the invariant.
LEMMA InvStep ==
    ASSUME Inv, [Next]_vars
    PROVE  Inv'
  <1>1. CASE Next
    BY <1>1, TypeStep, PhaseStep, KnownStep, MapsStep, FirstStep, ArgumentsStep, ProtectionStep, TreeStep
       DEF Inv
  <1>2. CASE UNCHANGED vars
    <2>1. /\ kf' = kf /\ lock' = lock /\ call' = call /\ made' = made /\ database' = database
          /\ astray' = astray /\ stolen' = stolen /\ tracking' = tracking /\ mapping' = mapping
          /\ closing' = closing /\ search' = search /\ leaked' = leaked
      BY <1>2 DEF vars, treeVars
    <2>2. TypeOK' /\ MapperPhase' /\ CloserPhase'
      BY <2>1 DEF Inv, TypeOK, TreeTypeOK, MapperPhase, CloserPhase
    <2>3. Known'
      BY <2>1 DEF Inv, Known, Last, Matched
    <2>4. MapsMergeOnce' /\ FirstOnce'
      BY <2>1 DEF Inv, MapsMergeOnce, FirstOnce, Split, Welding, Good, Matched
    <2>5. Arguments' /\ Locks'
      BY <2>1 DEF Inv, Arguments, Locks, Split
    <2>6. Protection'
      BY <2>1 DEF Inv, Protection, Kept, Done, Detected, Last, Matched, Welding
    <2>7. ASSUME stolen = {}, Sound, Unborn PROVE Sound' /\ Unborn'
      <3>1. Parents' = Parents /\ BadOnes' = BadOnes /\ Rooted' = Rooted
        BY <2>1 DEF Parents, BadOnes, Rooted, Split
      <3>2. Acyclic(Parents)' /\ BadEnd(Parents, BadOnes)'
        BY <2>7, <3>1 DEF Sound, Acyclic, BadEnd, Closed
      <3>3. Ancestry'
        BY <2>1, <2>7, <3>1 DEF Sound, Ancestry, Erases, Above, Apart, Closed
      <3>4. Turning'
        BY <2>1, <2>7, <3>1 DEF Sound, Turning, Closed
      <3>5. Orphans' /\ Unborn'
        BY <2>1, <2>7, <3>1 DEF Sound, Orphans, Unborn, Split
      <3>6. Linked' /\ RestGone'
        BY <2>1, <2>7 DEF Sound, Linked, RestGone, InHandOf, Good
      <3> QED BY <3>2, <3>3, <3>4, <3>5, <3>6 DEF Sound
    <2> QED BY <2>1, <2>2, <2>3, <2>4, <2>5, <2>6, <2>7 DEF Inv, Tree
  <1> QED BY <1>1, <1>2
\* The old map's keyframe, and the new one's in the order in which they were made.
LEMMA InitTree ==
    ASSUME Init
    PROVE  /\ kf \in [KeyFrames -> KeyFrameRecord]
           /\ \A k \in KeyFrames :
                /\ kf[k].parent = (IF k \in {0, 1, LastId} THEN NULL ELSE k - 1)
                /\ kf[k].first <=> k \in {0, 1, LastId}
                /\ ~kf[k].bad /\ ~kf[k].notErase /\ ~kf[k].loopEdges
                /\ kf[k].inMap = (IF k = 0 THEN "old" ELSE "new")
                /\ k \notin {0, LastId} => k + 1 \in kf[k].children \cup {LastId}
  <1>1. LastId \in Nat \ {0, 1} /\ KeyFrames = 0 .. LastId
    BY TreeAssumption DEF TreeAssumption, KeyFrames
  <1>2. kf = [k \in KeyFrames |->
              CASE k \in {0, 1, LastId} -> KeyFrame(NULL, ({2} \cap {k + 1}) \ {LastId}, TRUE,
                                                   IF k = 0 THEN "old" ELSE "new")
                [] OTHER -> KeyFrame(k - 1, {k + 1} \ {LastId}, FALSE, "new")]
    BY DEF Init
  <1>3. ASSUME NEW k \in KeyFrames, k \in {0, 1, LastId}
        PROVE  /\ kf[k] = KeyFrame(NULL, ({2} \cap {k + 1}) \ {LastId}, TRUE, IF k = 0 THEN "old" ELSE "new")
               /\ kf[k] \in KeyFrameRecord
    <2>1. kf[k] = KeyFrame(NULL, ({2} \cap {k + 1}) \ {LastId}, TRUE, IF k = 0 THEN "old" ELSE "new")
      BY <1>2, <1>3
    <2>2. ({2} \cap {k + 1}) \ {LastId} \in SUBSET KeyFrames
      BY <1>1
    <2> QED BY <2>1, <2>2 DEF KeyFrame, KeyFrameRecord, NodesOrNull, Maps
  <1>4. ASSUME NEW k \in KeyFrames, k \notin {0, 1, LastId}
        PROVE  /\ kf[k] = KeyFrame(k - 1, {k + 1} \ {LastId}, FALSE, "new")
               /\ kf[k] \in KeyFrameRecord
    <2>1. kf[k] = KeyFrame(k - 1, {k + 1} \ {LastId}, FALSE, "new")
      BY <1>2, <1>4
    <2>2. {k + 1} \ {LastId} \in SUBSET KeyFrames /\ k - 1 \in KeyFrames
      BY <1>1, <1>4
    <2> QED BY <2>1, <2>2 DEF KeyFrame, KeyFrameRecord, NodesOrNull, Maps
  <1>5. \A k \in KeyFrames : kf[k] \in KeyFrameRecord
    BY <1>3, <1>4
  <1>6. kf \in [KeyFrames -> KeyFrameRecord]
    BY <1>2, <1>5
  <1>7. ASSUME NEW k \in KeyFrames
        PROVE  /\ kf[k].parent = (IF k \in {0, 1, LastId} THEN NULL ELSE k - 1)
               /\ kf[k].first <=> k \in {0, 1, LastId}
               /\ ~kf[k].bad /\ ~kf[k].notErase /\ ~kf[k].loopEdges
               /\ kf[k].inMap = (IF k = 0 THEN "old" ELSE "new")
               /\ k \notin {0, LastId} => k + 1 \in kf[k].children \cup {LastId}
    <2>1. CASE k \in {0, 1, LastId}
      <3>1. k \notin {0, LastId} => k + 1 = 2
        <4>1. k \notin {0, LastId} => k = 1
          BY <2>1
        <4> QED BY <4>1
      <3>2. kf[k] = KeyFrame(NULL, ({2} \cap {k + 1}) \ {LastId}, TRUE, IF k = 0 THEN "old" ELSE "new")
        BY <1>3, <1>7, <2>1
      <3>3. kf[k].parent = NULL /\ kf[k].children = ({2} \cap {k + 1}) \ {LastId}
        BY <3>2 DEF KeyFrame
      <3>4. kf[k].first /\ ~kf[k].bad /\ ~kf[k].notErase /\ ~kf[k].loopEdges
        BY <3>2 DEF KeyFrame
      <3>5. kf[k].inMap = IF k = 0 THEN "old" ELSE "new"
        BY <3>2 DEF KeyFrame
      <3> QED BY <2>1, <3>1, <3>3, <3>4, <3>5
    <2>2. CASE k \notin {0, 1, LastId}
      <3>1. kf[k] = KeyFrame(k - 1, {k + 1} \ {LastId}, FALSE, "new")
        BY <1>4, <1>7, <2>2
      <3>2. kf[k].parent = k - 1 /\ kf[k].children = {k + 1} \ {LastId} /\ kf[k].inMap = "new"
        BY <3>1 DEF KeyFrame
      <3>3. ~kf[k].first /\ ~kf[k].bad /\ ~kf[k].notErase /\ ~kf[k].loopEdges
        BY <3>1 DEF KeyFrame
      <3> QED BY <2>2, <3>2, <3>3
    <2> QED BY <2>1, <2>2
  <1> QED BY <1>6, <1>7

\* The invariant holds at the start.
LEMMA InitInv ==
    ASSUME Init
    PROVE  Inv
  <1>1. /\ LastId \in Nat \ {0, 1} /\ KeyFrames = 0 .. LastId /\ NULL \notin Threads /\ NULL \notin KeyFrames
        /\ made = 0 .. LastId - 1 /\ 0 \in KeyFrames /\ 1 \in KeyFrames /\ Enough \in Nat \ {0}
        /\ NoCall \in CallRecord /\ NoCall.pc = "none"
    <2>1. LastId \in Nat \ {0, 1} /\ KeyFrames = 0 .. LastId /\ made = 0 .. LastId - 1
      BY TreeAssumption DEF Init, TreeAssumption, KeyFrames
    <2>2. Enough \in Nat \ {0}
      BY RecognitionAssumption DEF RecognitionAssumption
    <2> QED BY <2>1, <2>2, NullIsNoKeyFrame, NoCallTyped
  <1>2. /\ \A t \in Threads : call[t] = NoCall
        /\ tracking = [id |-> LastId, map |-> "new"] /\ mapping = [pc |-> "top", cur |-> NULL, left |-> {}]
        /\ closing = [pc |-> "idle", cur |-> NULL, queue |-> [i \in 1 .. LastId - 1 |-> i],
                      erase |-> << >>, next |-> "idle", todo |-> {}, anew |-> {}, cand |-> NoCandidate,
                      child |-> NULL, parent |-> NULL]
        /\ \A s \in Searches : search[s].n = 0
        /\ database = {0} /\ stolen = {} /\ astray = {} /\ leaked = {}
    BY DEF Init
  <1>3. /\ kf \in [KeyFrames -> KeyFrameRecord]
        /\ \A k \in KeyFrames :
             /\ kf[k].parent = (IF k \in {0, 1, LastId} THEN NULL ELSE k - 1)
             /\ kf[k].first <=> k \in {0, 1, LastId}
             /\ ~kf[k].bad /\ ~kf[k].notErase /\ ~kf[k].loopEdges
             /\ kf[k].inMap = (IF k = 0 THEN "old" ELSE "new")
             /\ k \notin {0, LastId} => k + 1 \in kf[k].children \cup {LastId}
    BY InitTree
  <1>4. TypeOK
    <2>1. TreeTypeOK
      <3>1. lock = [k \in KeyFrames |-> NULL] /\ call = [t \in Threads |-> NoCall]
        BY DEF Init
      <3>2. call \in [Threads -> CallRecord]
        BY <1>1, <3>1
      <3> QED BY <1>1, <1>2, <1>3, <3>1, <3>2 DEF TreeTypeOK
    <2>2. mapping \in MappingRecord
      BY <1>2 DEF MappingRecord, NodesOrNull
    <2>3. closing \in ClosingRecord
      <3>1. [i \in 1 .. LastId - 1 |-> i] \in Seq(KeyFrames)
        BY <1>1
      <3>2. NoCandidate \in [Searches -> NodesOrNull]
        BY DEF NoCandidate, NodesOrNull
      <3> QED BY <1>2, <3>1, <3>2 DEF ClosingRecord, NodesOrNull, ClosingPcs
    <2>4. search \in [Searches -> SearchRecord]
      BY DEF Init, SearchRecord, NodesOrNull
    <2> QED BY <1>1, <1>2, <2>1, <2>2, <2>3, <2>4 DEF TypeOK, Maps
  <1>5. MapperPhase /\ CloserPhase
    BY <1>1, <1>2, RecognitionAssumption
       DEF MapperPhase, CloserPhase, RecognitionAssumption, Connecting, Sorting, Erasing
  <1>6. Known
    <2>1. closing.queue = [i \in 1 .. LastId - 1 |-> i] /\ closing.erase = << >> /\ closing.cur = NULL
          /\ closing.pc = "idle"
      BY <1>2
    <2>2. \A i \in DOMAIN closing.queue : closing.queue[i] \in made \ {0}
      BY <1>1, <2>1
    <2>3. made = {k \in KeyFrames : k < tracking.id}
      BY <1>1, <1>2
    <2> QED BY <1>1, <1>2, <2>1, <2>2, <2>3 DEF Known
  <1>7. MapsMergeOnce
    BY <1>1, <1>2, <1>3 DEF MapsMergeOnce, Split, Welding
  <1>8. FirstOnce
    <2>1. \A k \in made : kf[k].first => k = 0 \/ k = 1
      BY <1>1, <1>3
    <2>2. \A k \in KeyFrames \ made : kf[k].first
      BY <1>1, <1>3
    <2> QED BY <1>2, <2>1, <2>2 DEF FirstOnce, Split
  <1>9. Arguments /\ Locks
    BY <1>1, <1>2 DEF Arguments, Locks, Erasing, Chosen, Holding
  <1>10. Protection
    BY <1>1, <1>2, <1>3 DEF Protection, Detected, Welding
  <1>11. Sound
    <2>1. Acyclic(Parents)
      <3> SUFFICES ASSUME NEW S \in SUBSET KeyFrames, \A y \in S : Parents[y] \in S, S # {}
                   PROVE  FALSE
        BY DEF Acyclic
      <3>1. PICK x \in S : \A y \in S : ~(y < x)
        BY FirstMade
      <3>2. x \in KeyFrames /\ kf[x].parent \in S /\ kf[x].parent \in KeyFrames
        BY <3>1 DEF Parents
      <3>3. kf[x].parent = x - 1 /\ x - 1 < x
        BY <1>1, <1>3, <3>2
      <3> QED BY <3>1, <3>2, <3>3
    <2>2. BadEnd(Parents, BadOnes)
      BY <1>3 DEF BadEnd, BadOnes
    <2>3. \A t \in Threads : ~Erases(t) /\ \A x : ~InHandOf(t, x)
      BY <1>1, <1>2 DEF Erases, InHandOf, Holding
    <2>4. Ancestry
      <3> DEFINE up == [t \in Threads |-> {}]
      <3>1. up \in [Threads -> SUBSET KeyFrames]
        OBVIOUS
      <3> QED BY <2>3, <3>1 DEF Ancestry
    <2>5. Turning
      BY <1>2 DEF Turning
    <2>6. Orphans
      <3>1. \A k \in KeyFrames : kf[k].parent # NULL => kf[k].parent \in Rooted
        BY <1>1, <1>3 DEF Rooted
      <3>2. kf[0].parent = NULL /\ \A k \in made \ {0, 1} : kf[k].parent # NULL
        BY <1>1, <1>3
      <3> QED BY <1>1, <1>2, <3>1, <3>2 DEF Orphans, Split, Chosen, Holding
    <2>7. Linked
      <3> SUFFICES ASSUME NEW k \in KeyFrames, kf[k].parent # NULL
                   PROVE  Good(kf[k].parent) /\ k \in kf[kf[k].parent].children
        BY DEF Linked
      <3>1. kf[k].parent = k - 1 /\ k # LastId /\ k - 1 \in KeyFrames /\ k - 1 \notin {0, LastId}
            /\ (k - 1) + 1 = k
        BY <1>1, <1>3
      <3>2. k \in kf[k - 1].children \cup {LastId}
        BY <1>3, <3>1
      <3> QED BY <1>3, <3>1, <3>2 DEF Good
    <2>8. RestGone
      BY <1>1, <1>2 DEF RestGone
    <2> QED BY <2>1, <2>2, <2>4, <2>5, <2>6, <2>7, <2>8 DEF Sound
  <1>12. Unborn
    BY <1>1, <1>2, <1>3 DEF Unborn
  <1> QED BY <1>4, <1>5, <1>6, <1>7, <1>8, <1>9, <1>10, <1>11, <1>12 DEF Inv, Tree

\* The invariant holds of every run, with any number of keyframes.
THEOREM Invariance == Spec => []Inv
  <1>1. Init => Inv
    BY InitInv
  <1>2. Inv /\ [Next]_vars => Inv'
    BY InvStep
  <1> QED BY <1>1, <1>2, PTL DEF Spec

\* Every variable has its type in every run.
THEOREM TypeCorrect == Spec => []TypeOK
  <1>1. Inv => TypeOK
    BY DEF Inv
  <1> QED BY <1>1, Invariance, PTL

\* A keyframe stays protected only as long as somebody works with it.
LEMMA ProtectionMeans ==
    ASSUME Inv
    PROVE  ProtectedIsInUse
  <1> SUFFICES ASSUME NEW k \in made, kf[k].notErase
               PROVE  kf[k].loopEdges \/ k \in leaked \/ InUse(k)
    BY DEF ProtectedIsInUse
  <1>1. k \in KeyFrames
    BY InvTyped
  <1>2. Kept(k)
    BY <1>1 DEF Inv, Protection
  <1> QED BY <1>2 DEF Kept, InUse

\* A protected keyframe is in use, closes a loop or was leaked: ProtectedIsInUse, for any
\* number of keyframes.
THEOREM ProtectionEnds == Spec => []ProtectedIsInUse
  <1>1. Inv => ProtectedIsInUse
    BY ProtectionMeans
  <1> QED BY <1>1, Invariance, PTL

\* The tree has no cycle.
LEMMA NoCycleMeans ==
    ASSUME Inv
    PROVE  NoCycle
  <1> SUFFICES ASSUME stolen = {}, NEW S \in SUBSET made, S # {}, \A k \in S : kf[k].parent \in S
               PROVE  FALSE
    BY DEF NoCycle
  <1>1. S \in SUBSET KeyFrames /\ \A k \in S : Parents[k] \in S
    BY InvTyped, TreeKnown
  <1> QED BY <1>1, TreeKnown DEF Sound, Acyclic

\* Walks up the tree end (NoCycle), for any number of keyframes: neither erasures in two
\* threads nor the reversal of links by a merge makes a keyframe its own ancestor.
THEOREM TreeHasNoCycle == Spec => []NoCycle
  <1>1. Inv => NoCycle
    BY NoCycleMeans
  <1> QED BY <1>1, Invariance, PTL

\* The way up from an erased keyframe leads to a good one.
LEMMA ResolvesMeans ==
    ASSUME Inv, stolen = {}
    PROVE  LostPoseResolves
  <1> SUFFICES ASSUME NEW S \in SUBSET {k \in made : kf[k].bad}, S # {},
                      \A k \in S : kf[k].parent \in S \cup {NULL}
               PROVE  FALSE
    BY DEF LostPoseResolves
  <1>1. S \in SUBSET KeyFrames /\ S \in SUBSET BadOnes /\ Closed(Parents, S)
    BY InvTyped, TreeKnown DEF BadOnes, Closed
  <1> QED BY <1>1, TreeKnown DEF Sound, BadEnd

\* The pose of a frame tracked against an erased keyframe resolves (LostPoseResolves), for
\* any number of keyframes: no order of two threads' erasures, and no merge, lets the
\* parents of an erased keyframe end among erased ones.
THEOREM PosesResolve == Spec => []LostPoseResolves
  <1>1. Inv => LostPoseResolves
    BY ResolvesMeans DEF LostPoseResolves
  <1> QED BY <1>1, Invariance, PTL

\* A good keyframe is known to its good parent when nobody is in a method.
LEMMA ParentKnowsMeans ==
    ASSUME Inv, stolen = {}
    PROVE  ParentKnows
  <1> SUFFICES ASSUME \A t \in Threads : call[t].pc = "none",
                      NEW k \in made \ astray, Good(k), kf[k].parent # NULL
               PROVE  Good(kf[k].parent) /\ k \in kf[kf[k].parent].children
    BY DEF ParentKnows, Quiet
  <1>1. k \in KeyFrames \ astray /\ \A t \in Threads : ~InHandOf(t, k)
    BY InvTyped DEF InHandOf
  <1> QED BY <1>1, TreeKnown DEF Sound, Linked

\* Between operations parents know their children (ParentKnows), for any number of
\* keyframes.
THEOREM ParentsKnow == Spec => []ParentKnows
  <1>1. Inv => ParentKnows
    BY ParentKnowsMeans DEF ParentKnows
  <1> QED BY <1>1, Invariance, PTL

\* No erasure calls AddChild on a null pointer or makes a keyframe its own parent, for any
\* number of keyframes, as long as none that was erased twice gave away a child that had
\* gone over to another: a keyframe that is erased has a parent above it throughout.
THEOREM NobodyCrashes == Spec => [](stolen = {} => \A t \in Threads : call[t].pc # "crashed")
  <1>1. Inv => (stolen = {} => \A t \in Threads : call[t].pc # "crashed")
    BY DEF Inv, Tree, Sound, Orphans
  <1> QED BY <1>1, Invariance, PTL
===============================================================================
