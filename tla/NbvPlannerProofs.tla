--------------------------- MODULE NbvPlannerProofs ---------------------------
(***************************************************************************)
(* Theorems about NbvPlanner, for any places, octrees and limits.          *)
(***************************************************************************)
EXTENDS NbvPlanner, SequenceTheorems, TLAPS

\* A search has what it reads, and its best branch starts on a free line.
SearchInv ==
    plan.kind = "search" =>
        /\ root \in Places /\ exactRoot \in Places /\ iterations > 0
        /\ tree.best # <<>> => {exactRoot, Head(tree.best)} \in octree

\* A branch has no more nodes than the tree, so the memory stays short.
SizeInv ==
    /\ Len(tree.best) <= tree.counter
    /\ Len(memory) <= CutoffIterations
    /\ Len(led) = Len(history)
    /\ history # <<>> => root \in Places

\* While the drone is not astray it is where the next tree is rooted.
AtRoot ==
    /\ plan.kind \in {"best", "back"} => plan.from \in Places /\ plan.to \in Places
    /\ plan.kind = "best" => plan.to = exactRoot
    /\ iterations > 0 => exactRoot \in Places
    /\ ~astray => IF plan.kind = "best" THEN plan.from = at ELSE iterations > 0 => exactRoot = at

\* Every plan on the stack led to where the next one starts.
Linked == \A i \in 1 .. Len(history) - 1 : led[i + 1] = history[i]

\* While the drone is not lost it is where the last of them led.
OnTrail ==
    ~lost /\ history # <<>> =>
        /\ Linked
        /\ IF plan.kind \in {"best", "back"} THEN Head(led) = plan.to ELSE Head(led) = at
        /\ plan.kind \in {"asked", "search"} => root = at

IInv == TypeOK /\ SearchInv /\ SizeInv /\ AtRoot /\ OnTrail

LEMMA Push ==
    ASSUME NEW S, NEW x \in S, NEW s \in Seq(S)
    PROVE  /\ <<x>> \o s \in Seq(S)
           /\ Len(<<x>> \o s) = Len(s) + 1
           /\ <<x>> \o s # <<>> /\ Head(<<x>> \o s) = x
           /\ \A i \in 1 .. Len(s) : (<<x>> \o s)[i + 1] = s[i]
  <1>1. <<x>> \in Seq(S) /\ Len(<<x>>) = 1
    OBVIOUS
  <1>2. /\ <<x>> \o s \in Seq(S) /\ Len(<<x>> \o s) = 1 + Len(s)
        /\ \A i \in 1 .. 1 + Len(s) :
             (<<x>> \o s)[i] = IF i <= 1 THEN <<x>>[i] ELSE s[i - 1]
    BY <1>1, ConcatProperties
  <1>3. Len(s) \in Nat
    OBVIOUS
  <1>4. (<<x>> \o s)[1] = x
    BY <1>2, <1>3
  <1>5. \A i \in 1 .. Len(s) : (<<x>> \o s)[i + 1] = s[i]
    <2> TAKE i \in 1 .. Len(s)
    <2>1. i + 1 \in 1 .. 1 + Len(s) /\ ~(i + 1 <= 1) /\ (i + 1) - 1 = i
      BY <1>3
    <2> QED BY <1>2, <2>1
  <1> QED BY <1>2, <1>3, <1>4, <1>5

LEMMA Pop ==
    ASSUME NEW S, NEW s \in Seq(S), s # <<>>
    PROVE  /\ Head(s) \in S /\ Head(s) = s[1]
           /\ Tail(s) \in Seq(S) /\ Len(Tail(s)) = Len(s) - 1
           /\ \A i \in 1 .. Len(s) - 1 : Tail(s)[i] = s[i + 1]
           /\ Tail(s) # <<>> => Len(s) > 1 /\ Head(Tail(s)) = s[2]
  <1>1. Head(s) \in S /\ Tail(s) \in Seq(S) /\ Len(Tail(s)) = Len(s) - 1
        /\ \A i \in 1 .. Len(Tail(s)) : Tail(s)[i] = s[i + 1]
    BY HeadTailProperties
  <1>2. Len(s) \in Nat \ {0} /\ Head(s) = s[1]
    OBVIOUS
  <1>3. Tail(s) # <<>> => Len(s) > 1 /\ Head(Tail(s)) = s[2]
    <2>1. ASSUME Tail(s) # <<>> PROVE Len(s) > 1 /\ Head(Tail(s)) = s[2]
      <3>1. Len(Tail(s)) # 0 /\ Head(Tail(s)) = Tail(s)[1]
        BY <1>1, <2>1
      <3>2. Len(s) - 1 \in Nat \ {0}
        BY <1>1, <1>2, <3>1
      <3> QED BY <1>1, <3>1, <3>2
    <2> QED BY <2>1
  <1> QED BY <1>1, <1>2, <1>3

(* What the operators on branches return: sequences whose first line is free. *)
LEMMA BranchIsFree ==
    ASSUME NEW r, NEW n \in Nat, NEW S, NEW b \in Branches(r, n, S)
    PROVE  /\ b \in Seq(S) /\ b # <<>> /\ Len(b) <= n
           /\ {r, Head(b)} \in octree
  <1>1. PICK k \in 1 .. n : b \in [1 .. k -> S]
    BY DEF Branches
  <1>2. b \in Seq(S) /\ Len(b) = k
    BY <1>1
  <1>3. 1 \in DOMAIN b /\ Head(b) = b[1]
    BY <1>1, <1>2
  <1>4. {r, b[1]} \in octree
    BY <1>3 DEF Branches, Free
  <1> QED BY <1>1, <1>2, <1>3, <1>4

LEMMA BestIsFree ==
    ASSUME NEW r, NEW n \in Nat, NEW S, NEW old \in Seq(S), Len(old) <= n,
           old # <<>> => {r, Head(old)} \in octree,
           NEW b \in Best(r, n, S, old)
    PROVE  /\ b \in Seq(S) /\ Len(b) <= n
           /\ b # <<>> => {r, Head(b)} \in octree
  <1>1. b \in Branches(r, n, S) \/ b = old
    BY DEF Best
  <1> QED BY <1>1, BranchIsFree

LEMMA InitInv == Init => IInv
  <1> SUFFICES ASSUME Init PROVE IInv
    OBVIOUS
  <1> USE PlannerAssumption DEF PlannerAssumption
  <1>1. <<>> \in Seq(Places) /\ Len(<<>>) = 0
    OBVIOUS
  <1>2. /\ tree = [counter |-> 0, tries |-> 0, best |-> <<>>]
        /\ plan = [kind |-> "none", from |-> NoPlace, to |-> NoPlace]
    BY DEF Init, NewTree, NoPlan
  <1>3. tree.tries <= MaxTries * (tree.counter + 1) + 1
    <2>1. tree.counter = 0 /\ tree.tries = 0 /\ 0 <= MaxTries * (0 + 1) + 1
      BY <1>2
    <2> QED BY <2>1
  <1>4. TypeOK
    <2>1. /\ tree \in [counter : 0 .. CutoffIterations + 1, tries : Nat, best : Seq(Places)]
          /\ plan \in [kind : {"none", "asked", "search", "empty", "best", "back"},
                       from : Places \cup {NoPlace}, to : Places \cup {NoPlace}]
      BY <1>1, <1>2
    <2>2. history \in Seq(Places) /\ led \in Seq(Places) /\ memory \in Seq(Places)
      BY <1>1, Zenon DEF Init
    <2>3. iterations \in 0 .. 2
      BY DEF Init
    <2>4. /\ at \in Places /\ astray \in BOOLEAN /\ lost \in BOOLEAN
          /\ root = NoPlace /\ exactRoot = NoPlace /\ octree = NoTree
      BY Zenon DEF Init
    <2> QED BY <1>3, <2>1, <2>2, <2>3, <2>4 DEF TypeOK
  <1> QED BY <1>1, <1>2, <1>4 DEF Init, IInv, SearchInv, SizeInv, AtRoot, OnTrail

\* The steps that leave the search and the stack alone.
LEMMA OtherSteps ==
    ASSUME IInv,
           \/ PosCallback \/ OccupancyMapCallback \/ NotReady
           \/ MissionAsks \/ MissionFlies \/ MissionDrops \/ MissionEnds \/ PilotMoves
    PROVE  IInv'
  <1> USE PlannerAssumption DEF PlannerAssumption
  <1> USE DEF IInv, TypeOK, SearchInv, SizeInv, AtRoot, OnTrail, Linked
  <1> USE DEF NoPlan, Asked, Empty
  <1>1. CASE PosCallback
    BY <1>1 DEF PosCallback
  <1>2. CASE OccupancyMapCallback
    BY <1>2 DEF OccupancyMapCallback
  <1>3. CASE NotReady
    BY <1>3 DEF NotReady
  <1>4. CASE MissionAsks
    BY <1>4 DEF MissionAsks
  <1>5. CASE MissionFlies
    BY <1>5 DEF MissionFlies
  <1>6. CASE MissionDrops
    BY <1>6 DEF MissionDrops
  <1>7. CASE MissionEnds
    BY <1>7 DEF MissionEnds
  <1>8. CASE PilotMoves
    BY <1>8 DEF PilotMoves
  <1> QED BY <1>1, <1>2, <1>3, <1>4, <1>5, <1>6, <1>7, <1>8

LEMMA CallbackStep ==
    ASSUME IInv, PlannerCallback
    PROVE  IInv'
  <1> USE PlannerAssumption DEF PlannerAssumption
  <1>1. /\ root \in Places /\ exactRoot' \in Places /\ iterations' \in 1 .. 2
        /\ octree \in Octrees /\ memory \in Seq(Places)
    BY DEF PlannerCallback, IInv, TypeOK, AtRoot
  <1>0. PICK kept \in 0 .. Len(memory) : \E b \in Kept(exactRoot', kept) :
             tree' = [counter |-> kept, tries |-> 0, best |-> b]
    BY DEF PlannerCallback
  <1>2. PICK b \in Kept(exactRoot', kept) : tree' = [counter |-> kept, tries |-> 0, best |-> b]
    BY <1>0
  <1>3. kept \in Nat /\ kept \in 0 .. CutoffIterations + 1
    BY <1>1, <1>2 DEF IInv, SizeInv
  <1>4. b \in Seq(Remembered) /\ Len(b) <= kept
        /\ (b # <<>> => {exactRoot', Head(b)} \in octree)
    <2>1. <<>> \in Seq(Remembered) /\ Len(<<>>) <= kept
      BY <1>3
    <2>2. b \in Best(exactRoot', kept, Remembered, <<>>)
      BY <1>2 DEF Kept
    <2> HIDE DEF Remembered
    <2> QED BY <1>3, <2>1, <2>2, BestIsFree
  <1>5. Remembered \subseteq Places
    BY <1>1 DEF Remembered
  <1>6. b \in Seq(Places)
    BY <1>4, <1>5
  <1>7. tree'.tries <= MaxTries * (tree'.counter + 1) + 1
    <2>1. 0 <= MaxTries * (kept + 1) + 1
      BY <1>3
    <2> QED BY <1>2, <2>1
  <1>8. plan' = [kind |-> "search", from |-> NoPlace, to |-> NoPlace]
    BY DEF PlannerCallback, Searching, NoPlan
  <1>9. TypeOK'
    <2>1. tree' \in [counter : 0 .. CutoffIterations + 1, tries : Nat, best : Seq(Places)]
      BY <1>2, <1>3, <1>6
    <2>2. astray' \in BOOLEAN
      BY DEF PlannerCallback, IInv, TypeOK
    <2> QED BY <1>1, <1>7, <1>8, <2>1, <2>2 DEF PlannerCallback, IInv, TypeOK
  <1>10. SearchInv' /\ SizeInv'
    <2>1. tree'.counter = kept /\ tree'.best = b /\ UNCHANGED <<root, octree, memory, history, led>>
      BY <1>2 DEF PlannerCallback
    <2>2. SearchInv'
      BY <1>1, <1>4, <2>1 DEF SearchInv
    <2>3. SizeInv'
      BY <1>1, <1>4, <2>1 DEF IInv, SizeInv
    <2> QED BY <2>2, <2>3
  <1>11. AtRoot'
    <2>1. ~astray' => exactRoot' = at
      <3>1. CASE iterations <= 1
        BY <3>1 DEF PlannerCallback
      <3>2. CASE ~(iterations <= 1)
        <4>1. UNCHANGED <<exactRoot, astray>> /\ plan.kind = "asked" /\ iterations > 0
          BY <3>2 DEF PlannerCallback, IInv, TypeOK
        <4> QED BY <4>1 DEF IInv, AtRoot
      <3> QED BY <3>1, <3>2
    <2>2. at' = at
      BY DEF PlannerCallback
    <2> QED BY <1>1, <1>8, <2>1, <2>2 DEF AtRoot
  <1>12. OnTrail'
    BY <1>8 DEF PlannerCallback, IInv, OnTrail, Linked
  <1> QED BY <1>9, <1>10, <1>11, <1>12 DEF IInv

LEMMA IterateStep ==
    ASSUME IInv, Iterate
    PROVE  IInv'
  <1> USE PlannerAssumption DEF PlannerAssumption
  <1> DEFINE n == tree.counter
  <1>1. /\ n \in 0 .. CutoffIterations /\ tree.tries \in Nat
        /\ tree.tries <= MaxTries * (n + 1)
        /\ tree.best \in Seq(Places) /\ Len(tree.best) <= n
        /\ tree.best # <<>> => {exactRoot, Head(tree.best)} \in octree
    BY DEF Iterate, Sample, GivesUp, IInv, TypeOK, SizeInv, SearchInv
  <1>2. /\ tree' \in [counter : 0 .. CutoffIterations + 1, tries : Nat, best : Seq(Places)]
        /\ tree'.tries <= MaxTries * (tree'.counter + 1) + 1
        /\ Len(tree'.best) <= tree'.counter
        /\ tree'.best # <<>> => {exactRoot, Head(tree'.best)} \in octree
    <2>1. CASE tree' = [tree EXCEPT !.tries = @ + 1]
      <3>1. tree' = [counter |-> n, tries |-> tree.tries + 1, best |-> tree.best]
        BY <2>1 DEF IInv, TypeOK
      <3>2. tree.tries + 1 <= MaxTries * (n + 1) + 1
        <4>1. MaxTries * (n + 1) \in Nat
          BY <1>1
        <4> QED BY <1>1, <4>1
      <3> HIDE DEF n
      <3> QED BY <1>1, <3>1, <3>2
    <2>2. CASE \E b \in Best(exactRoot, n + 1, Places, tree.best) :
                 tree' = [counter |-> n + 1, tries |-> tree.tries + 1, best |-> b]
      <3>1. PICK b \in Best(exactRoot, n + 1, Places, tree.best) :
                 tree' = [counter |-> n + 1, tries |-> tree.tries + 1, best |-> b]
        BY <2>2
      <3>2. n + 1 \in Nat /\ Len(tree.best) <= n + 1
        BY <1>1
      <3>3. b \in Seq(Places) /\ Len(b) <= n + 1
            /\ (b # <<>> => {exactRoot, Head(b)} \in octree)
        BY <1>1, <3>1, <3>2, BestIsFree
      <3>4. tree.tries + 1 <= MaxTries * ((n + 1) + 1) + 1
        <4>1. MaxTries * ((n + 1) + 1) = MaxTries * (n + 1) + MaxTries /\ MaxTries * (n + 1) \in Nat
          BY <1>1
        <4> QED BY <1>1, <4>1
      <3> HIDE DEF n
      <3> QED BY <1>1, <3>1, <3>3, <3>4
    <2> QED BY <2>1, <2>2 DEF Iterate, Sample
  <1>3. TypeOK'
    BY <1>2 DEF Iterate, Sample, IInv, TypeOK
  <1>4. SearchInv' /\ SizeInv'
    BY <1>2 DEF Iterate, Sample, IInv, SearchInv, SizeInv
  <1>5. AtRoot' /\ OnTrail'
    BY DEF Iterate, Sample, IInv, AtRoot, OnTrail, Linked
  <1> QED BY <1>3, <1>4, <1>5 DEF IInv

LEMMA BestEdgeStep ==
    ASSUME IInv, GetBestEdge
    PROVE  IInv'
  <1> USE PlannerAssumption DEF PlannerAssumption
  <1> DEFINE goal == Head(tree.best)
  <1>1. /\ tree.best \in Seq(Places) /\ tree.best # <<>>
        /\ exactRoot \in Places /\ root \in Places /\ iterations > 0 /\ plan.kind = "search"
        /\ history \in Seq(Places) /\ led \in Seq(Places) /\ Len(led) = Len(history)
    BY DEF GetBestEdge, BestEdge, Growing, gainFound, IInv, TypeOK, SearchInv, SizeInv
  <1>2. goal \in Places /\ Tail(tree.best) \in Seq(Places) /\ Len(Tail(tree.best)) = Len(tree.best) - 1
    BY <1>1, Pop
  <1>3. Len(tree.best) <= CutoffIterations + 1 /\ Len(tree.best) \in Nat
    BY <1>1 DEF IInv, TypeOK, SizeInv
  <1>4. /\ plan' = [kind |-> "best", from |-> exactRoot, to |-> goal]
        /\ tree' = [counter |-> 0, tries |-> 0, best |-> <<>>]
        /\ history' = <<exactRoot>> \o history /\ led' = <<goal>> \o led
        /\ exactRoot' = goal /\ memory' = Tail(tree.best)
        /\ lost' = (history # <<>> /\ (lost \/ Head(led) # exactRoot))
        /\ UNCHANGED <<at, root, iterations, octree, astray>>
    BY DEF GetBestEdge, BestEdge, Plan, NewTree
  <1>5. /\ history' \in Seq(Places) /\ Len(history') = Len(history) + 1
        /\ history' # <<>> /\ Head(history') = exactRoot
        /\ \A i \in 1 .. Len(history) : history'[i + 1] = history[i]
    BY <1>1, <1>4, Push
  <1>6. /\ led' \in Seq(Places) /\ Len(led') = Len(led) + 1
        /\ led' # <<>> /\ Head(led') = goal
        /\ \A i \in 1 .. Len(led) : led'[i + 1] = led[i]
    BY <1>1, <1>2, <1>4, Push
  <1> HIDE DEF goal
  <1>7. TypeOK'
    <2>1. tree'.tries <= MaxTries * (tree'.counter + 1) + 1
      <3>1. tree'.counter = 0 /\ tree'.tries = 0 /\ 0 <= MaxTries * (0 + 1) + 1
        BY <1>4
      <3> QED BY <3>1
    <2>2. tree' \in [counter : 0 .. CutoffIterations + 1, tries : Nat, best : Seq(Places)]
      BY <1>4
    <2>3. lost' \in BOOLEAN
      BY <1>4
    <2> QED BY <1>1, <1>2, <1>4, <1>5, <1>6, <2>1, <2>2, <2>3 DEF IInv, TypeOK
  <1>8. SearchInv' /\ SizeInv'
    BY <1>1, <1>2, <1>3, <1>4, <1>5, <1>6 DEF SearchInv, SizeInv
  <1>9. AtRoot'
    BY <1>1, <1>2, <1>4 DEF IInv, AtRoot, SearchInv
  <1>10. OnTrail'
    <2>1. ASSUME ~lost' PROVE Linked'
      <3> SUFFICES ASSUME NEW i \in 1 .. Len(history') - 1 PROVE led'[i + 1] = history'[i]
        BY DEF Linked
      <3>1. i \in 1 .. Len(history) /\ led'[i + 1] = led[i] /\ history # <<>>
        BY <1>1, <1>5, <1>6
      <3>2. ~lost /\ Head(led) = exactRoot /\ Linked
        BY <1>4, <2>1, <3>1 DEF IInv, OnTrail
      <3>3. CASE i = 1
        <4>1. led # <<>> /\ led[1] = Head(led)
          BY <1>1, <3>1, Pop
        <4>2. history'[1] = Head(history')
          BY <1>5
        <4> QED BY <1>5, <3>1, <3>2, <3>3, <4>1, <4>2
      <3>4. CASE i # 1
        <4>1. i - 1 \in 1 .. Len(history) - 1 /\ (i - 1) + 1 = i
          BY <1>1, <3>1, <3>4
        <4>2. led[i] = history[i - 1]
          BY <3>2, <4>1 DEF Linked
        <4>3. history'[i] = history[i - 1]
          BY <1>5, <4>1
        <4> QED BY <3>1, <4>2, <4>3
      <3> QED BY <3>3, <3>4
    <2> QED BY <1>4, <1>6, <2>1 DEF OnTrail
  <1> QED BY <1>7, <1>8, <1>9, <1>10 DEF IInv

LEMMA PathBackStep ==
    ASSUME IInv, GetPathBackToPrevious
    PROVE  IInv'
  <1> USE PlannerAssumption DEF PlannerAssumption
  <1>1. /\ tree' = [counter |-> 0, tries |-> 0, best |-> <<>>]
        /\ UNCHANGED <<at, root, exactRoot, iterations, memory, octree, astray, lost>>
        /\ root \in Places /\ exactRoot \in Places /\ iterations > 0 /\ plan.kind = "search"
        /\ history \in Seq(Places) /\ led \in Seq(Places) /\ Len(led) = Len(history)
    BY DEF GetPathBackToPrevious, PathBack, NewTree, IInv, TypeOK, SearchInv, SizeInv
  <1>2. /\ tree' \in [counter : 0 .. CutoffIterations + 1, tries : Nat, best : Seq(Places)]
        /\ tree'.tries <= MaxTries * (tree'.counter + 1) + 1
        /\ Len(tree'.best) <= tree'.counter
    <2>1. tree'.counter = 0 /\ tree'.tries = 0 /\ 0 <= MaxTries * (0 + 1) + 1
      BY <1>1
    <2> QED BY <1>1, <2>1
  <1>3. CASE history = <<>>
    <2>1. plan' = [kind |-> "empty", from |-> NoPlace, to |-> NoPlace] /\ UNCHANGED <<history, led>>
      BY <1>3 DEF GetPathBackToPrevious, PathBack, Empty, NoPlan
    <2> QED BY <1>1, <1>2, <1>3, <2>1 DEF IInv, TypeOK, SearchInv, SizeInv, AtRoot, OnTrail
  <1>4. CASE history # <<>>
    <2>1. /\ plan' = [kind |-> "back", from |-> root, to |-> Head(history)]
          /\ history' = Tail(history) /\ led' = Tail(led)
      BY <1>4 DEF GetPathBackToPrevious, PathBack, Plan
    <2>2. led # <<>>
      BY <1>1, <1>4
    <2>3. /\ Head(history) \in Places /\ Head(history) = history[1]
          /\ Tail(history) \in Seq(Places) /\ Len(Tail(history)) = Len(history) - 1
          /\ \A i \in 1 .. Len(history) - 1 : Tail(history)[i] = history[i + 1]
      BY <1>1, <1>4, Pop
    <2>4. /\ Tail(led) \in Seq(Places) /\ Len(Tail(led)) = Len(led) - 1
          /\ \A i \in 1 .. Len(led) - 1 : Tail(led)[i] = led[i + 1]
          /\ Tail(led) # <<>> => Len(led) > 1 /\ Head(Tail(led)) = led[2]
      BY <1>1, <2>2, Pop
    <2>5. TypeOK'
      BY <1>1, <1>2, <2>1, <2>3, <2>4 DEF IInv, TypeOK
    <2>6. SearchInv' /\ SizeInv'
      BY <1>1, <1>2, <2>1, <2>3, <2>4 DEF IInv, SearchInv, SizeInv
    <2>7. AtRoot'
      BY <1>1, <2>1, <2>3 DEF IInv, AtRoot
    <2>8. OnTrail'
      <3> SUFFICES ASSUME ~lost, Tail(history) # <<>> PROVE Linked' /\ Head(Tail(led)) = Head(history)
        BY <1>1, <2>1 DEF OnTrail
      <3>1. Linked
        BY <1>4 DEF IInv, OnTrail
      <3>2. Len(history) \in Nat /\ Len(history) > 1 /\ Tail(led) # <<>>
        BY <1>1, <2>3, <2>4
      <3>3. led[2] = history[1]
        <4>1. 1 \in 1 .. Len(history) - 1 /\ 1 + 1 = 2
          BY <3>2
        <4> QED BY <3>1, <4>1 DEF Linked
      <3>4. ASSUME NEW i \in 1 .. Len(Tail(history)) - 1 PROVE Tail(led)[i + 1] = Tail(history)[i]
        <4>1. i \in 1 .. Len(history) - 1 /\ i + 1 \in 1 .. Len(history) - 1
          BY <2>3, <3>2
        <4>2. Tail(led)[i + 1] = led[(i + 1) + 1] /\ Tail(history)[i] = history[i + 1]
          BY <1>1, <2>3, <2>4, <4>1
        <4> QED BY <3>1, <4>1, <4>2 DEF Linked
      <3> QED BY <2>1, <2>3, <2>4, <3>2, <3>3, <3>4 DEF Linked
    <2> QED BY <2>5, <2>6, <2>7, <2>8 DEF IInv
  <1> QED BY <1>3, <1>4

LEMMA InvStep ==
    ASSUME IInv, [Next]_vars
    PROVE  IInv'
  <1>1. CASE UNCHANGED vars
    BY <1>1 DEF vars, IInv, TypeOK, SearchInv, SizeInv, AtRoot, OnTrail, Linked
  <1> QED
    BY <1>1, OtherSteps, CallbackStep, IterateStep, BestEdgeStep, PathBackStep DEF Next, Planner

(* The planner, the drone and the stack of plans stay consistent: the      *)
(* invariant the theorems below rest on.                                   *)
THEOREM PlannerInvariant == Spec => []IInv
  <1> QED BY InitInv, InvStep, PTL DEF Spec

(* The loop of plannerCallback stays within its own limits, and everything *)
(* has its type.                                                           *)
THEOREM PlannerTypeCorrect == Spec => []TypeOK
  <1>1. IInv => TypeOK
    BY DEF IInv
  <1> QED BY <1>1, PlannerInvariant, PTL

(* A view to fly to starts where the drone is, unless a plan was dropped,  *)
(* a way back was flown or a pilot moved the drone.                        *)
THEOREM PlansStartAtDrone == Spec => []PlanStartsAtDrone
  <1>1. IInv => PlanStartsAtDrone
    BY DEF IInv, AtRoot, PlanStartsAtDrone
  <1> QED BY <1>1, PlannerInvariant, PTL

(* A way back retraces the plan that led there, for any number of plans.   *)
THEOREM WaysBackRetrace == Spec => WayBackRetraces
  <1>1. ASSUME IInv, [Next]_vars, plan.kind = "search", plan'.kind = "back", ~lost
        PROVE  plan'.from = Head(led) /\ plan'.to = Head(history)
    <2>1. GetPathBackToPrevious
      BY <1>1 DEF Next, Planner, vars, PosCallback, OccupancyMapCallback, NotReady, PlannerCallback,
         Iterate, Sample, GetBestEdge, BestEdge, Plan, MissionAsks, MissionFlies, MissionDrops,
         MissionEnds, PilotMoves, NoPlan, Empty, Asked
    <2>2. history # <<>> /\ plan' = [kind |-> "back", from |-> root, to |-> Head(history)]
      BY <1>1, <2>1 DEF GetPathBackToPrevious, PathBack, Plan, Empty, NoPlan
    <2>3. root = at /\ Head(led) = at
      BY <1>1, <2>2 DEF IInv, OnTrail
    <2> QED BY <2>2, <2>3
  <1>2. IInv /\ [Next]_vars =>
          [plan.kind = "search" /\ plan'.kind = "back" /\ ~lost
             => plan'.from = Head(led) /\ plan'.to = Head(history)]_vars
    BY <1>1
  <1> QED BY <1>2, PlannerInvariant, PTL DEF Spec, WayBackRetraces

(* The edge answered is free in the octree the planner has, whatever it    *)
(* took over from the last best branch.                                    *)
THEOREM AnswersAreFree == Spec => PlansAreFree
  <1>1. ASSUME IInv, [Next]_vars, plan.kind = "search", plan'.kind = "best"
        PROVE  {plan'.from, plan'.to} \in octree
    <2>1. GetBestEdge
      BY <1>1 DEF Next, Planner, vars, PosCallback, OccupancyMapCallback, NotReady, PlannerCallback,
         Iterate, Sample, GetPathBackToPrevious, PathBack, Plan, MissionAsks, MissionFlies,
         MissionDrops, MissionEnds, PilotMoves, NoPlan, Empty, Asked
    <2>2. tree.best # <<>> /\ plan' = [kind |-> "best", from |-> exactRoot, to |-> Head(tree.best)]
      BY <2>1 DEF GetBestEdge, BestEdge, Growing, gainFound, Plan
    <2> QED BY <1>1, <2>2 DEF IInv, SearchInv
  <1>2. IInv /\ [Next]_vars =>
          [plan.kind = "search" /\ plan'.kind = "best" => {plan'.from, plan'.to} \in octree]_vars
    BY <1>1
  <1> QED BY <1>2, PlannerInvariant, PTL DEF Spec, PlansAreFree
==============================================================================
