-------------------------------- MODULE Atlas --------------------------------
(***************************************************************************)
(* ORB-SLAM3's Atlas: the set of maps, the current one, the id each map    *)
(* shows to the outside, and what each map holds.  A map is named by the   *)
(* order of its creation, which is also the id it is born with; a merge    *)
(* gives a map the id of another.  Keyframes are counted; a coordinate     *)
(* frame is the outcome of one successful initialisation, and frames[m]    *)
(* are those in which keyframes of map m are placed.                       *)
(***************************************************************************)
EXTENDS Naturals, FiniteSets

CONSTANTS MaxMaps,      \* bound: maps ever created
          MaxKFs,       \* bound: keyframes counted per map, "many" beyond
          Frames        \* coordinate frames in use at one time; reused once forgotten

ASSUME BoundsAssumption == MaxMaps \in Nat \ {0} /\ MaxKFs \in Nat \ {0}

Maps == 0 .. MaxMaps - 1

Atlases == [maps: SUBSET Maps, cur: Maps, next: 0 .. MaxMaps, id: [Maps -> Maps],
            kfs: [Maps -> 0 .. MaxKFs], frames: [Maps -> SUBSET Frames]]

\* Atlas(0) of the System's constructor: one map, empty.
FirstAtlas == [maps |-> {0}, cur |-> 0, next |-> 1, id |-> [m \in Maps |-> m],
               kfs |-> [m \in Maps |-> 0], frames |-> [m \in Maps |-> {}]]

MapsLeft(a) == a.next < MaxMaps

CreateNewMap(a) ==
  [a EXCEPT !.maps = @ \cup {a.next}, !.cur = a.next, !.next = @ + 1]

\* Map::clear of the current map: its keyframes go, its id stays.
ClearMap(a) == [a EXCEPT !.kfs[a.cur] = 0, !.frames[a.cur] = {}]

AtMost(n) == IF n > MaxKFs THEN MaxKFs ELSE n

\* n keyframes placed in coordinate frame f join map m.
AddKeyFrames(a, m, n, f) ==
  [a EXCEPT !.kfs[m] = AtMost(@ + n), !.frames[m] = @ \cup {f}]

EraseKeyFrame(a, m) == [a EXCEPT !.kfs[m] = @ - 1]

\* Mutants: the merged map stays current, or stays in the set.
WeldMapsKeepingCurrent(a, c, m, n) ==
  [a EXCEPT !.kfs = [@ EXCEPT ![c] = a.kfs[c] - n, ![m] = AtMost(a.kfs[m] + n)], !.maps = @ \ {c}]
WeldMapsKeepingBadMap(a, c, m, n) ==
  [a EXCEPT !.kfs = [@ EXCEPT ![c] = a.kfs[c] - n, ![m] = AtMost(a.kfs[m] + n)], !.cur = m]

\* ChangeMap and SetMapBad of a merge: n keyframes around the match go from map c
\* to map m, in m's coordinates; m becomes current, c is no map any more.
WeldMaps(a, c, m, n) ==
  [a EXCEPT !.kfs = [@ EXCEPT ![c] = a.kfs[c] - n, ![m] = AtMost(a.kfs[m] + n)],
            !.cur = m, !.maps = @ \ {c}]

\* ChangeId of a merge: m shows the id of the map that goes.
TakeId(a, c, m) == [a EXCEPT !.id[m] = a.id[c]]

\* The rest of the merged map c, whose frame f is now that of m, is brought into m.
MoveRest(a, c, m, f) ==
  [a EXCEPT !.kfs = [@ EXCEPT ![c] = 0, ![m] = AtMost(a.kfs[m] + a.kfs[c])],
            !.frames = [@ EXCEPT ![c] = {}, ![m] = a.frames[m] \cup (a.frames[c] \ {f})]]

\* The ids of the maps that hold keyframes, as WriteKeyframeDataToFile finds them.
LiveIds(a) == {a.id[m] : m \in {k \in a.maps : a.kfs[k] > 0}}
==============================================================================
