----------------------------- MODULE KeyFrameTree -----------------------------
(***************************************************************************)
(* The spanning tree of the keyframes, the flags that say whether one may  *)
(* be erased, and the two operations of KeyFrame.cc that change the tree   *)
(* in any thread: UpdateConnections gives a new keyframe its parent, and   *)
(* SetBadFlag erases one and hands its children on. Each keyframe has a    *)
(* mutex, mMutexConnections, and an operation holds several at a time: a   *)
(* step here is the part between two of them. Of the covisibility graph    *)
(* only the nesting of its locks is kept; which keyframes share how many   *)
(* points is a choice.                                                     *)
(***************************************************************************)
EXTENDS Naturals

CONSTANTS LastId,       \* bound: keyframes 0 .. LastId
          Threads,
          NULL

ASSUME TreeAssumption == LastId \in Nat \ {0, 1} /\ NULL \notin Threads \cup 0 .. LastId

KeyFrames == 0 .. LastId

\* GetInitKFid of each map: an old map, and the one that was begun last.
Origin == [old |-> 0, new |-> 1]

VARIABLES
    kf,         \* mpParent, mspChildrens, mbFirstConnection, mbBad, mbNotErase,
                \*   mbToBeErased, whether it has loop edges, mpMap
    lock,       \* who holds mMutexConnections, if anyone
    call,       \* the operation each thread is in
    made,       \* keyframes that are in a map, or were
    database,   \* keyframes in the KeyFrameDatabase
    astray,     \* ghost: keyframes whose parent was bad when it took them as children
    stolen      \* ghost: keyframes given on by an erased one that had given them on before

treeVars == <<kf, lock, call, made, database, astray, stolen>>

NoCall == [pc |-> "none", kf |-> NULL, scan |-> {}, able |-> {}, cands |-> {},
           child |-> NULL, to |-> NULL, wait |-> NULL]

Good(k) == ~kf[k].bad
SameMap(k, l) == kf[k].inMap = kf[l].inMap
IsOrigin(k) == k = Origin[kf[k].inMap]

Free(k) == lock[k] = NULL
Take(t, k) == lock' = [lock EXCEPT ![k] = t]
Release(k) == lock' = [lock EXCEPT ![k] = NULL]

Adopted(c, p) == astray' = IF Good(p) THEN astray \ {c} ELSE astray \cup {c}

Begin(t, pc, k) == call' = [call EXCEPT ![t] = [NoCall EXCEPT !.pc = pc, !.kf = k]]
Goto(t, pc) == call' = [call EXCEPT ![t].pc = pc]
Return(t) == call' = [call EXCEPT ![t] = NoCall]

-----------------------------------------------------------------------------
(* UpdateBestCovisibles of a neighbour, in AddConnection or                *)
(* EraseConnection: it holds the neighbour's mutex and takes that of each  *)
(* keyframe connected with it, to see whether it is bad. One neighbour and *)
(* the one it waits for stand for all of them; and there may be none.      *)

\* Mutant: a keyframe is connected with itself, and takes its own mutex twice.
LinksToSelf(t, others, best, next) ==
    /\ \/ Goto(t, next) /\ UNCHANGED lock
       \/ \E n \in made \ {call[t].kf} :
            /\ Free(n) /\ Take(t, n)
            /\ call' = [call EXCEPT ![t].pc = best, ![t].child = n, ![t].wait = n]
    /\ UNCHANGED <<kf, made, database, astray, stolen>>

\* The neighbour is held, and the step at which the operation goes on is kept.
Links(t, others, best, next) ==
    /\ \/ Goto(t, next) /\ UNCHANGED lock
       \/ \E n \in made \ {call[t].kf}, m \in others :
            /\ n # m /\ Free(n) /\ Take(t, n)
            /\ call' = [call EXCEPT ![t].pc = best, ![t].child = n, ![t].wait = m]
    /\ UNCHANGED <<kf, made, database, astray, stolen>>

EraseConnection(t) ==
    call[t].pc = "unlink" /\ Links(t, made \ {call[t].kf}, "unlinkBest", "own")

\* A keyframe that is new is connected with its neighbours already.
AddConnection(t) ==
    call[t].pc = "link" /\ Links(t, made \cup {call[t].kf}, "linkBest", "join")

\* Its own, as culling does before it looks at its neighbours.
SortsOwn(t) ==
    LET k == call[t].kf IN
    /\ call[t].pc = "sort" /\ Free(k) /\ Take(t, k)
    /\ \E m \in made \ {k} :
         call' = [call EXCEPT ![t].pc = "sortBest", ![t].child = k, ![t].wait = m]
    /\ UNCHANGED <<kf, made, database, astray, stolen>>

UpdateBestCovisibles(t) ==
    /\ call[t].pc \in {"unlinkBest", "linkBest", "sortBest"} /\ Free(call[t].wait)
    /\ CASE call[t].pc = "unlinkBest" -> Goto(t, "own")
         [] call[t].pc = "linkBest"   -> Goto(t, "join")
         [] OTHER                     -> Return(t)
    /\ Release(call[t].child)
    /\ UNCHANGED <<kf, made, database, astray, stolen>>

-----------------------------------------------------------------------------
(* UpdateConnections. The parent is the keyframe it shares most points     *)
(* with, among those that were good when they were counted.                *)

CountsPoints(t) ==
    /\ call[t].pc = "count"
    /\ \E p \in made \ {call[t].kf} :
         /\ Good(p) /\ SameMap(p, call[t].kf)
         /\ call' = [call EXCEPT ![t].pc = "link", ![t].to = p]
    /\ UNCHANGED <<kf, lock, made, database, astray, stolen>>

\* Only the first time, and never the first keyframe of a map.
SetsParent(t) ==
    LET k == call[t].kf IN
    /\ call[t].pc = "join" /\ Free(k)
    /\ IF kf[k].first /\ ~IsOrigin(k)
       THEN /\ kf' = [kf EXCEPT ![k].parent = call[t].to]
            /\ Take(t, k) /\ Goto(t, "addChild")
       ELSE Return(t) /\ UNCHANGED <<kf, lock>>
    /\ UNCHANGED <<made, database, astray, stolen>>

AddChild(t) ==
    LET k == call[t].kf IN
    /\ call[t].pc = "addChild" /\ Free(call[t].to)
    /\ kf' = [kf EXCEPT ![call[t].to].children = @ \cup {k}, ![k].first = FALSE]
    /\ Adopted(k, call[t].to) /\ Release(k) /\ Return(t)
    /\ UNCHANGED <<made, database, stolen>>

UpdateConnections(t) ==
    CountsPoints(t) \/ AddConnection(t) \/ SetsParent(t) \/ AddChild(t)

-----------------------------------------------------------------------------
(* SetBadFlag.                                                             *)

\* With the mutex: may it be erased? From here on the answer may be out of date.
AsksToErase(t) ==
    LET k == call[t].kf IN
    /\ call[t].pc = "ask" /\ Free(k)
    /\ kf' = [kf EXCEPT ![k].toBeErased = @ \/ (kf[k].notErase /\ ~IsOrigin(k))]
    /\ IF IsOrigin(k) \/ kf[k].notErase THEN Return(t) ELSE Goto(t, "unlink")
    /\ UNCHANGED <<lock, made, database, astray, stolen>>

\* The last critical section begins: the keyframe's own mutex is held to its end.
TakesOwn(t) ==
    LET k == call[t].kf IN
    /\ call[t].pc = "own" /\ Free(k) /\ Take(t, k)
    /\ call' = [call EXCEPT ![t] = [NoCall EXCEPT !.pc = "scan", !.kf = k,
                                        !.scan = kf[k].children,
                                        !.cands = {kf[k].parent} \ {NULL}]]
    /\ UNCHANGED <<kf, made, database, astray, stolen>>

\* Each child's mutex is taken to see whether it is bad.
ScansChild(t) ==
    /\ call[t].pc = "scan"
    /\ \E c \in call[t].scan :
         /\ Free(c)
         /\ call' = [call EXCEPT ![t].scan = @ \ {c},
                                 ![t].able = @ \cup {x \in {c} : Good(x)}]
    /\ UNCHANGED <<kf, lock, made, database, astray, stolen>>

\* Mutant: the children that share nothing with a candidate are left behind.
ChoosesParentOrNone(t) ==
    /\ call[t].pc = "scan" /\ call[t].scan = {}
    /\ \/ \E c \in call[t].able : \E p \in call[t].cands \ {c} :
            call' = [call EXCEPT ![t].pc = "give", ![t].child = c, ![t].to = p]
       \/ Goto(t, "rest")
    /\ UNCHANGED <<kf, lock, made, database, astray, stolen>>

\* The child and the candidate that share most points, if any two share some; nobody
\* shares points with itself.
ChoosesParent(t) ==
    /\ call[t].pc = "scan" /\ call[t].scan = {}
    /\ \/ \E c \in call[t].able : \E p \in call[t].cands \ {c} :
            call' = [call EXCEPT ![t].pc = "give", ![t].child = c, ![t].to = p]
       \/ call' = [call EXCEPT ![t].pc = "rest", ![t].scan = kf[call[t].kf].children]
    /\ UNCHANGED <<kf, lock, made, database, astray, stolen>>

\* ChangeParent: mpParent is set, then the new parent's AddChild is called, on a
\* null pointer if there is none. A keyframe that would be its own parent is refused
\* with an exception before that, and nobody catches it.
ChangeParent(t, c, p, next) ==
    /\ Free(c) /\ Take(t, c)
    /\ kf' = [kf EXCEPT ![c].parent = IF p = c THEN @ ELSE p]
    /\ call' = [call EXCEPT ![t].pc = IF p \in {NULL, c} THEN "crashed" ELSE next,
                            ![t].child = c, ![t].to = p]
    /\ stolen' = stolen \cup {x \in {c} : kf[x].parent # call[t].kf}
    /\ UNCHANGED <<made, database, astray>>

GivesChild(t) == call[t].pc = "give" /\ ChangeParent(t, call[t].child, call[t].to, "given")

\* The others, bad ones too, go to the erased keyframe's own parent.
GivesRest(t) ==
    /\ call[t].pc = "rest"
    /\ \E c \in call[t].scan : ChangeParent(t, c, kf[call[t].kf].parent, "restGiven")

\* The child is a candidate from now on. The rest stay in the list of children.
AdoptsChild(t) ==
    LET k == call[t].kf  c == call[t].child  p == call[t].to IN
    /\ call[t].pc \in {"given", "restGiven"} /\ Free(p)
    /\ \/ /\ call[t].pc = "given"
          /\ kf' = [kf EXCEPT ![p].children = @ \cup {c}, ![k].children = @ \ {c}]
          /\ call' = [call EXCEPT ![t].pc = "scan", ![t].scan = kf[k].children \ {c},
                                  ![t].able = {}, ![t].cands = @ \cup {c},
                                  ![t].child = NULL, ![t].to = NULL]
       \/ /\ call[t].pc = "restGiven"
          /\ kf' = [kf EXCEPT ![p].children = @ \cup {c}]
          /\ call' = [call EXCEPT ![t].pc = "rest", ![t].scan = @ \ {c},
                                  ![t].child = NULL, ![t].to = NULL]
    /\ Adopted(c, p) /\ Release(c)
    /\ UNCHANGED <<made, database, stolen>>

\* Mutant: an erased keyframe forgets its parent.
TurnsBadAlone(t) ==
    LET k == call[t].kf  p == kf[k].parent IN
    /\ call[t].pc = "rest" /\ call[t].scan = {}
    /\ p # NULL => Free(p)
    /\ kf' = [x \in KeyFrames |-> CASE x = k -> [kf[x] EXCEPT !.bad = TRUE, !.parent = NULL]
                                     [] x = p -> [kf[x] EXCEPT !.children = @ \ {k}]
                                     [] OTHER -> kf[x]]
    /\ Release(k) /\ Goto(t, "forget")
    /\ UNCHANGED <<made, database, astray, stolen>>

TurnsBad(t) ==
    LET k == call[t].kf  p == kf[k].parent IN
    /\ call[t].pc = "rest" /\ call[t].scan = {}
    /\ p # NULL => Free(p)
    /\ kf' = [x \in KeyFrames |-> CASE x = k -> [kf[x] EXCEPT !.bad = TRUE]
                                     [] x = p -> [kf[x] EXCEPT !.children = @ \ {k}]
                                     [] OTHER -> kf[x]]
    /\ Release(k) /\ Goto(t, "forget")
    /\ UNCHANGED <<made, database, astray, stolen>>

ForgetsKeyFrame(t) ==
    /\ call[t].pc = "forget"
    /\ database' = database \ {call[t].kf}
    /\ Return(t)
    /\ UNCHANGED <<kf, lock, made, astray, stolen>>

SetBadFlag(t) ==
    \/ AsksToErase(t) \/ EraseConnection(t) \/ TakesOwn(t) \/ ScansChild(t)
    \/ ChoosesParent(t) \/ GivesChild(t) \/ GivesRest(t) \/ AdoptsChild(t)
    \/ TurnsBad(t) \/ ForgetsKeyFrame(t)

KeyFrameStep(t) ==
    SortsOwn(t) \/ UpdateBestCovisibles(t) \/ UpdateConnections(t) \/ SetBadFlag(t)

-----------------------------------------------------------------------------
(* Who waits for whom.                                                     *)

\* The mutexes one of which a thread wants before its operation can go on.
Wanted(t) ==
    CASE call[t].pc \in {"ask", "own", "join", "sort"}                -> {call[t].kf}
      [] call[t].pc \in {"unlinkBest", "linkBest", "sortBest"}          -> {call[t].wait}
      [] call[t].pc \in {"addChild", "given", "restGiven"}              -> {call[t].to}
      [] call[t].pc = "scan"                                          -> call[t].scan
      [] call[t].pc = "give"                                          -> {call[t].child}
      [] call[t].pc = "rest" /\ call[t].scan # {}                     -> call[t].scan
      [] call[t].pc = "rest" /\ call[t].scan = {}                     -> {kf[call[t].kf].parent} \ {NULL}
      [] OTHER                                                        -> {}

WaitsFor(t, u) == Wanted(t) # {} /\ \A k \in Wanted(t) : lock[k] = u

\* SetBadFlag gave a keyframe to itself, and the exception has ended the program.
Threw == \E t \in Threads : call[t].pc = "crashed" /\ call[t].to = call[t].child

\* Two threads each hold what the other waits for, for ever.
WaitCycle == \E t \in Threads : \E u \in Threads \ {t} : WaitsFor(t, u) /\ WaitsFor(u, t)
===============================================================================
