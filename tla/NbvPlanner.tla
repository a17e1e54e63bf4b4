------------------------------ MODULE NbvPlanner ------------------------------
(***************************************************************************)
(* The next-best-view planner (exploration_cpp, one executor thread) and   *)
(* the mission that flies what it answers.  The planner roots a tree at    *)
(* the end of its last plan, keeps the rest of the last best branch, and   *)
(* pushes the start of every plan on a stack, to lead the drone back when  *)
(* nothing is worth seeing.  Places are regions of the air; the octree is  *)
(* the set of pairs of places with a free line between them.  The tree is  *)
(* kept as its number of nodes and the branch to its best node.            *)
(***************************************************************************)
EXTENDS Naturals, Sequences

CONSTANTS
    Places,             \* where the drone and the nodes of the tree can be
    NoPlace, NoTree,    \* no pose was heard; no octree, or an empty one
    Octrees,            \* bound: the octrees that are published
    AnyGain,            \* zero_gain_ is below the gain of every node
    InitIterations, CutoffIterations,
    MaxTries,           \* failed samples per node before the planner gives up
    MaxTrail            \* bound: plans on the stack

ASSUME PlannerAssumption ==
    /\ NoPlace \notin Places
    /\ NoTree \notin Octrees
    /\ AnyGain \in BOOLEAN
    /\ InitIterations \in Nat \ {0} /\ CutoffIterations \in Nat \ {0}
    /\ MaxTries \in Nat /\ MaxTrail \in Nat

VARIABLES
    at,             \* where the drone is
    root,           \* root_: the last pose the planner heard
    exactRoot,      \* exact_root_: where the next tree is rooted
    iterations,     \* iterationCount_, up to 2
    history,        \* history_, the top first
    memory,         \* bestBranchMemory_, from the root on
    octree,         \* what the manager reads
    tree,           \* counter_, loopCount, the branch to bestNode_
    plan,           \* the request and its answer
    led,            \* ghost: where the plans on the stack led
    astray,         \* ghost: the drone left the place the next tree is rooted at
    lost            \* ghost: the drone left the trail, or the trail is broken

vars == <<at, root, exactRoot, iterations, history, memory, octree, tree, plan, led, astray, lost>>

NoPlan == [kind |-> "none", from |-> NoPlace, to |-> NoPlace]
Asked == [NoPlan EXCEPT !.kind = "asked"]
Searching == [NoPlan EXCEPT !.kind = "search"]
Empty == [NoPlan EXCEPT !.kind = "empty"]
Plan(kind, p, q) == [kind |-> kind, from |-> p, to |-> q]

\* Branches of up to n nodes from r, at the given places, along free lines.
Free(r, b) == \A i \in DOMAIN b : {IF i = 1 THEN r ELSE b[i - 1], b[i]} \in octree
Branches(r, n, at_) == {b \in UNION {[1 .. k -> at_] : k \in 1 .. n} : Free(r, b)}

\* The best branch once a tree with the best branch old has grown to n nodes,
\* the first of which hangs on the root.
Best(r, n, at_, old) ==
    Branches(r, n, at_) \cup
    {best \in {old} : n = 0 \/ (Branches(r, 1, at_) # {} /\ ~(AnyGain /\ old = <<>>))}

NewTree == [counter |-> 0, tries |-> 0, best |-> <<>>]
gainFound == tree.best # <<>>
Growing == ~gainFound \/ tree.counter < InitIterations
GivesUp == tree.counter > CutoffIterations \/ tree.tries > MaxTries * (tree.counter + 1)

Init ==
    /\ at \in Places
    /\ root = NoPlace /\ exactRoot = NoPlace /\ iterations = 0
    /\ history = <<>> /\ memory = <<>>
    /\ octree = NoTree /\ tree = NewTree /\ plan = NoPlan
    /\ led = <<>> /\ astray = FALSE /\ lost = FALSE

Remembered == {memory[i] : i \in DOMAIN memory}
\* Mutant: a remembered node is taken over without looking at its line.
KeptUnchecked(r, n) == {b \in UNION {[1 .. k -> Remembered] : k \in 0 .. n} : AnyGain => n = 0 \/ b # <<>>}

Kept(r, n) == Best(r, n, Remembered, <<>>)

-----------------------------------------------------------------------------
(* The planner's callbacks; a search keeps the thread, so none runs in it. *)

PosCallback ==
    /\ plan.kind # "search" /\ root' = at
    /\ UNCHANGED <<at, exactRoot, iterations, history, memory, octree, tree, plan, led, astray, lost>>

OccupancyMapCallback ==
    /\ plan.kind # "search" /\ octree' \in Octrees
    /\ UNCHANGED <<at, root, exactRoot, iterations, history, memory, tree, plan, led, astray, lost>>

NotReady ==
    /\ plan.kind = "asked" /\ (root = NoPlace \/ octree = NoTree)
    /\ plan' = Empty
    /\ UNCHANGED <<at, root, exactRoot, iterations, history, memory, octree, tree, led, astray, lost>>

\* The first two trees are rooted where the drone is.  What is left of the
\* last best branch is taken over as far as its lines are free.
PlannerCallback ==
    /\ plan.kind = "asked" /\ root # NoPlace /\ octree # NoTree
    /\ plan' = Searching
    /\ IF iterations <= 1
       THEN exactRoot' = root /\ astray' = (root # at) /\ iterations' = iterations + 1
       ELSE UNCHANGED <<exactRoot, astray, iterations>>
    /\ \E kept \in 0 .. Len(memory) :
         \E b \in Kept(exactRoot', kept) : tree' = [counter |-> kept, tries |-> 0, best |-> b]
    /\ UNCHANGED <<at, root, history, memory, octree, led, lost>>

\* One sample: it reaches no free line, or it adds a node that is the best one or not.
Sample(failed) ==
    /\ plan.kind = "search" /\ Growing /\ ~GivesUp
    /\ \/ tree' = failed
       \/ \E b \in Best(exactRoot, tree.counter + 1, Places, tree.best) :
            tree' = [counter |-> tree.counter + 1, tries |-> tree.tries + 1, best |-> b]
    /\ UNCHANGED <<at, root, exactRoot, iterations, history, memory, octree, plan, led, astray, lost>>

\* Mutant: a failed sample is not counted.
IterateUncounted == Sample(tree)

Iterate == Sample([tree EXCEPT !.tries = @ + 1])

\* The next tree is rooted where this plan leads, whatever becomes of the plan.
\* The tree is cleared by the next request; nothing reads it before.
BestEdge(nextRoot) ==
    /\ plan.kind = "search" /\ ~Growing
    /\ plan' = Plan("best", exactRoot, Head(tree.best))
    /\ history' = <<exactRoot>> \o history
    /\ exactRoot' = nextRoot
    /\ memory' = Tail(tree.best)
    /\ led' = <<Head(tree.best)>> \o led
    /\ lost' = (history # <<>> /\ (lost \/ Head(led) # exactRoot))
    /\ tree' = NewTree
    /\ UNCHANGED <<at, root, iterations, octree, astray>>

\* Mutant: the next tree is rooted where this one is.
GetBestEdgeAgain == BestEdge(exactRoot)

GetBestEdge == BestEdge(Head(tree.best))

PathBack(previous) ==
    /\ plan.kind = "search" /\ Growing /\ GivesUp
    /\ IF history = <<>>
       THEN plan' = Empty /\ UNCHANGED <<history, led>>
       ELSE /\ plan' = Plan("back", root, previous)
            /\ history' = Tail(history) /\ led' = Tail(led)
    /\ tree' = NewTree
    /\ UNCHANGED <<at, root, exactRoot, iterations, memory, octree, astray, lost>>

\* Mutant: back to the bottom of the stack.
GetPathBackToFirst == PathBack(history[Len(history)])

GetPathBackToPrevious == PathBack(Head(history))

-----------------------------------------------------------------------------
(* The mission and the pilot.  Every pose is relayed before the mission    *)
(* acts on it, so a request finds the planner at the drone's pose or       *)
(* without any.  A drone asked for a plan in flight is one a pilot moved.  *)

MissionAsks ==
    /\ plan = NoPlan /\ root \in {at, NoPlace} /\ Len(history) < MaxTrail
    /\ plan' = Asked
    /\ UNCHANGED <<at, root, exactRoot, iterations, history, memory, octree, tree, led, astray, lost>>

MissionFlies ==
    /\ plan.kind \in {"best", "back"}
    /\ at' = plan.to /\ astray' = (plan.kind = "back")
    /\ plan' = NoPlan
    /\ UNCHANGED <<root, exactRoot, iterations, history, memory, octree, tree, led, lost>>

\* Cancelled, or in a calibration hop, when the answer comes: nothing is flown.
MissionDrops ==
    /\ plan.kind \in {"best", "back"}
    /\ astray' = (astray \/ plan.kind = "best") /\ lost' = TRUE
    /\ plan' = NoPlan
    /\ UNCHANGED <<at, root, exactRoot, iterations, history, memory, octree, tree, led>>

MissionEnds ==
    /\ plan = Empty /\ plan' = NoPlan
    /\ UNCHANGED <<at, root, exactRoot, iterations, history, memory, octree, tree, led, astray, lost>>

\* By the keys, in mid-flight, or by a new SLAM map with another origin.
PilotMoves ==
    /\ at' \in Places \ {at} /\ astray' = TRUE /\ lost' = TRUE
    /\ UNCHANGED <<root, exactRoot, iterations, history, memory, octree, tree, plan, led>>

Planner == NotReady \/ PlannerCallback \/ Iterate \/ GetBestEdge \/ GetPathBackToPrevious

Next ==
    \/ PosCallback \/ OccupancyMapCallback \/ Planner
    \/ MissionAsks \/ MissionFlies \/ MissionDrops \/ MissionEnds \/ PilotMoves

Spec == Init /\ [][Next]_vars
FairSpec == Spec /\ WF_vars(Planner)
-----------------------------------------------------------------------------
(* Types, and the loop's own bounds: a node is added only below the cutoff,*)
(* and a sample is drawn only below the limit on failed samples.           *)
TypeOK ==
    /\ at \in Places
    /\ root \in Places \cup {NoPlace} /\ exactRoot \in Places \cup {NoPlace}
    /\ iterations \in 0 .. 2
    /\ history \in Seq(Places) /\ led \in Seq(Places) /\ memory \in Seq(Places)
    /\ octree \in Octrees \cup {NoTree}
    /\ tree \in [counter : 0 .. CutoffIterations + 1, tries : Nat, best : Seq(Places)]
    /\ tree.tries <= MaxTries * (tree.counter + 1) + 1
    /\ plan \in [kind : {"none", "asked", "search", "empty", "best", "back"},
                 from : Places \cup {NoPlace}, to : Places \cup {NoPlace}]
    /\ astray \in BOOLEAN /\ lost \in BOOLEAN

(* getBestEdge answers with an edge that starts at exact_root_, and the    *)
(* mission drops its first waypoint: an answer to view something starts    *)
(* where the drone is, unless a plan was dropped, a way back was flown or  *)
(* a pilot moved it since.                                                 *)
PlanStartsAtDrone == plan.kind = "best" /\ ~astray => plan.from = at

(* getPathBackToPrevious checks no line: the way back it answers with      *)
(* retraces a plan, from where that plan led to where it started, unless   *)
(* the drone left the trail or a plan was made after a way back.           *)
WayBackRetraces ==
    [][plan.kind = "search" /\ plan'.kind = "back" /\ ~lost
         => plan'.from = Head(led) /\ plan'.to = Head(history)]_vars

(* Whatever was remembered from older octrees, the edge answered is free   *)
(* in the octree the planner has.                                          *)
PlansAreFree ==
    [][plan.kind = "search" /\ plan'.kind = "best" => {plan'.from, plan'.to} \in octree]_vars

(* Every request is answered: the loop of plannerCallback ends, also when  *)
(* no sample finds a free line.                                            *)
PlannerAnswers == plan = Asked ~> plan \notin {Asked, Searching}
=============================================================================
