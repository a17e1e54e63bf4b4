--------------------------- MODULE SlamNodeProofs ---------------------------
(***************************************************************************)
(* Theorems about SlamNode, for any number of maps, keyframes and frames   *)
(* and any thresholds.                                                     *)
(***************************************************************************)
EXTENDS SlamNode, FiniteSetTheorems, TLAPS

-----------------------------------------------------------------------------
(* What the operators on the atlas do to its fields.                       *)

LEMMA AtMostLemma == \A n \in Nat : AtMost(n) \in 0 .. MaxKFs
  BY BoundsAssumption DEF AtMost, BoundsAssumption

LEMMA CreateNewMapLemma ==
    ASSUME NEW a \in Atlases, MapsLeft(a)
    PROVE  /\ CreateNewMap(a) \in Atlases /\ a.next \in Maps
           /\ CreateNewMap(a).maps = a.maps \cup {a.next}
           /\ CreateNewMap(a).cur = a.next /\ CreateNewMap(a).next = a.next + 1
           /\ CreateNewMap(a).id = a.id /\ CreateNewMap(a).frames = a.frames
  <1>1. a.next \in 0 .. MaxMaps /\ a.next < MaxMaps /\ MaxMaps \in Nat
    BY BoundsAssumption DEF BoundsAssumption, Atlases, MapsLeft
  <1>2. a.next \in Maps /\ a.next + 1 \in 0 .. MaxMaps
    BY <1>1 DEF Maps
  <1> QED BY <1>2 DEF CreateNewMap, Atlases

LEMMA ClearMapLemma ==
    ASSUME NEW a \in Atlases
    PROVE  /\ ClearMap(a) \in Atlases
           /\ ClearMap(a).maps = a.maps /\ ClearMap(a).cur = a.cur
           /\ ClearMap(a).next = a.next /\ ClearMap(a).id = a.id
           /\ ClearMap(a).frames = [a.frames EXCEPT ![a.cur] = {}]
  <1>1. 0 \in 0 .. MaxKFs
    BY BoundsAssumption DEF BoundsAssumption
  <1> QED BY <1>1 DEF ClearMap, Atlases

LEMMA AddKeyFramesLemma ==
    ASSUME NEW a \in Atlases, NEW m \in Maps, NEW n \in Nat, NEW f \in Frames
    PROVE  /\ AddKeyFrames(a, m, n, f) \in Atlases
           /\ AddKeyFrames(a, m, n, f).maps = a.maps /\ AddKeyFrames(a, m, n, f).cur = a.cur
           /\ AddKeyFrames(a, m, n, f).next = a.next /\ AddKeyFrames(a, m, n, f).id = a.id
           /\ AddKeyFrames(a, m, n, f).frames = [a.frames EXCEPT ![m] = @ \cup {f}]
  <1>1. a.kfs[m] + n \in Nat
    BY BoundsAssumption DEF BoundsAssumption, Atlases
  <1>2. AtMost(a.kfs[m] + n) \in 0 .. MaxKFs
    BY <1>1, AtMostLemma
  <1> QED BY <1>2 DEF AddKeyFrames, Atlases

LEMMA EraseKeyFrameLemma ==
    ASSUME NEW a \in Atlases, NEW m \in Maps, a.kfs[m] > 1
    PROVE  /\ EraseKeyFrame(a, m) \in Atlases
           /\ EraseKeyFrame(a, m).maps = a.maps /\ EraseKeyFrame(a, m).cur = a.cur
           /\ EraseKeyFrame(a, m).next = a.next /\ EraseKeyFrame(a, m).id = a.id
           /\ EraseKeyFrame(a, m).frames = a.frames
  <1>1. a.kfs[m] - 1 \in 0 .. MaxKFs
    BY BoundsAssumption DEF BoundsAssumption, Atlases
  <1> QED BY <1>1 DEF EraseKeyFrame, Atlases

LEMMA WeldMapsLemma ==
    ASSUME NEW a \in Atlases, NEW c \in Maps, NEW m \in Maps, NEW n \in 1 .. a.kfs[c]
    PROVE  /\ WeldMaps(a, c, m, n) \in Atlases
           /\ WeldMaps(a, c, m, n).maps = a.maps \ {c} /\ WeldMaps(a, c, m, n).cur = m
           /\ WeldMaps(a, c, m, n).next = a.next /\ WeldMaps(a, c, m, n).id = a.id
           /\ WeldMaps(a, c, m, n).frames = a.frames
  <1>1. a.kfs \in [Maps -> 0 .. MaxKFs] /\ MaxKFs \in Nat
    BY BoundsAssumption DEF BoundsAssumption, Atlases
  <1>2. a.kfs[c] - n \in 0 .. MaxKFs /\ a.kfs[m] + n \in Nat
    BY <1>1
  <1>3. AtMost(a.kfs[m] + n) \in 0 .. MaxKFs
    BY <1>2, AtMostLemma
  <1>4. [a.kfs EXCEPT ![c] = a.kfs[c] - n, ![m] = AtMost(a.kfs[m] + n)] \in [Maps -> 0 .. MaxKFs]
    BY <1>1, <1>2, <1>3
  <1> DEFINE k == [a.kfs EXCEPT ![c] = a.kfs[c] - n, ![m] = AtMost(a.kfs[m] + n)]
  <1>5. WeldMaps(a, c, m, n) = [a EXCEPT !.kfs = k, !.cur = m, !.maps = @ \ {c}]
    BY DEF WeldMaps
  <1>6. k \in [Maps -> 0 .. MaxKFs]
    BY <1>4
  <1> HIDE DEF k
  <1> QED BY <1>5, <1>6 DEF Atlases

LEMMA TakeIdLemma ==
    ASSUME NEW a \in Atlases, NEW c \in Maps, NEW m \in Maps
    PROVE  /\ TakeId(a, c, m) \in Atlases
           /\ TakeId(a, c, m).maps = a.maps /\ TakeId(a, c, m).cur = a.cur
           /\ TakeId(a, c, m).next = a.next
           /\ TakeId(a, c, m).id = [a.id EXCEPT ![m] = a.id[c]]
           /\ TakeId(a, c, m).frames = a.frames
  BY DEF TakeId, Atlases

LEMMA MoveRestLemma ==
    ASSUME NEW a \in Atlases, NEW c \in Maps, NEW m \in Maps, c # m, NEW f
    PROVE  /\ MoveRest(a, c, m, f) \in Atlases
           /\ MoveRest(a, c, m, f).maps = a.maps /\ MoveRest(a, c, m, f).cur = a.cur
           /\ MoveRest(a, c, m, f).next = a.next /\ MoveRest(a, c, m, f).id = a.id
           /\ MoveRest(a, c, m, f).frames =
                [[a.frames EXCEPT ![c] = {}] EXCEPT ![m] = @ \cup (a.frames[c] \ {f})]
  <1>1. a.kfs \in [Maps -> 0 .. MaxKFs] /\ MaxKFs \in Nat /\ a.frames \in [Maps -> SUBSET Frames]
    BY BoundsAssumption DEF BoundsAssumption, Atlases
  <1>2. a.kfs[m] + a.kfs[c] \in Nat
    BY <1>1
  <1>3. AtMost(a.kfs[m] + a.kfs[c]) \in 0 .. MaxKFs /\ 0 \in 0 .. MaxKFs
    BY <1>1, <1>2, AtMostLemma
  <1>4. [a.kfs EXCEPT ![c] = 0, ![m] = AtMost(a.kfs[m] + a.kfs[c])] \in [Maps -> 0 .. MaxKFs]
    BY <1>1, <1>3
  <1>5. [a.frames EXCEPT ![c] = {}, ![m] = a.frames[m] \cup (a.frames[c] \ {f})]
          \in [Maps -> SUBSET Frames]
    BY <1>1
  <1> DEFINE k == [a.kfs EXCEPT ![c] = 0, ![m] = AtMost(a.kfs[m] + a.kfs[c])]
             g == [a.frames EXCEPT ![c] = {}, ![m] = a.frames[m] \cup (a.frames[c] \ {f})]
  <1>6. MoveRest(a, c, m, f) = [a EXCEPT !.kfs = k, !.frames = g]
    BY <1>1 DEF MoveRest, Atlases
  <1>7. g = [[a.frames EXCEPT ![c] = {}] EXCEPT ![m] = @ \cup (a.frames[c] \ {f})]
    BY <1>1
  <1>8. k \in [Maps -> 0 .. MaxKFs] /\ g \in [Maps -> SUBSET Frames]
    BY <1>4, <1>5
  <1> HIDE DEF k, g
  <1> QED BY <1>6, <1>7, <1>8 DEF Atlases

-----------------------------------------------------------------------------
(* The types of the fields that the steps below use.                       *)
LEMMA FieldTypes ==
    ASSUME TypeOK
    PROVE  /\ atlas \in Atlases /\ atlas.maps \subseteq Maps /\ atlas.cur \in Maps
           /\ atlas.next \in 0 .. MaxMaps /\ atlas.id \in [Maps -> Maps]
           /\ atlas.frames \in [Maps -> SUBSET Frames] /\ atlas.kfs \in [Maps -> 0 .. MaxKFs]
           /\ lc.cur \in Maps /\ lc.match \in Maps
  BY DEF TypeOK, Atlases

LEMMA MapsAreNumbers == /\ \A m \in Maps : m \in Nat
                        /\ \A n \in 0 .. MaxMaps : n \in Nat
  BY BoundsAssumption DEF Maps, BoundsAssumption

LEMMA InitMapInv == Init => MapInv
  <1> SUFFICES ASSUME Init PROVE MapInv
    OBVIOUS
  <1>1. 0 \in Maps /\ 0 \in 0 .. MaxKFs /\ 1 \in 0 .. MaxMaps
    BY BoundsAssumption DEF BoundsAssumption, Maps
  <1>2. FirstAtlas \in Atlases
    BY <1>1 DEF FirstAtlas, Atlases
  <1>3. TypeOK
    <2>1. lc \in [pc : {"idle", "detected", "moved", "relabelled"}, cur : Maps, match : Maps,
                  from : AnyFrame, to : AnyFrame]
      BY <1>1 DEF Init, NoMerge, AnyFrame
    <2>2. trk \in [state : States, ready : BOOLEAN, last : Times, frame : AnyFrame]
      BY DEF Init, NoImages, States, Times, AnyFrame
    <2>3. node \in [pc : {"idle", "reset", "enter", "track", "publish"},
                    pose : AnyFrame, merged : BOOLEAN]
      BY DEF Init, AnyFrame
    <2> QED BY <1>1, <1>2, <2>1, <2>2, <2>3 DEF Init, TypeOK, Times
  <1>4. IdInv
    BY <1>1 DEF Init, IdInv, CurrentMapIsGood, IdsUnique, FirstAtlas, NoMerge, Maps
  <1>5. FrameInv
    BY <1>1 DEF Init, FrameInv, Starting, PoseInItsMap, FirstAtlas, NoMerge, NoImages
  <1> QED BY <1>3, <1>4, <1>5 DEF MapInv

(* A new frame is a frame not in use.                                      *)
LEMMA NewFrameLemma ==
    ASSUME CanInitialize
    PROVE  NewFrame \in Frames /\ NewFrame \notin FramesInUse
  <1>1. \E f \in Frames : f \notin FramesInUse
    BY DEF CanInitialize
  <1> QED BY <1>1 DEF NewFrame

(* What the initialisation of a map does to the atlas.                     *)
LEMMA InitialAtlasLemma ==
    ASSUME TypeOK, CanInitialize
    PROVE  /\ InitialAtlas \in Atlases /\ NewFrame \in Frames /\ NewFrame # lc.from
           /\ InitialAtlas.maps = atlas.maps /\ InitialAtlas.cur = atlas.cur
           /\ InitialAtlas.next = atlas.next /\ InitialAtlas.id = atlas.id
           /\ InitialAtlas.frames = [atlas.frames EXCEPT ![atlas.cur] = @ \cup {NewFrame}]
  <1>1. NewFrame \in Frames /\ NewFrame # lc.from
    BY NewFrameLemma DEF FramesInUse
  <1>2. atlas \in Atlases /\ atlas.cur \in Maps /\ 2 \in Nat
    BY FieldTypes
  <1> HIDE DEF NewFrame
  <1> QED BY <1>1, <1>2, AddKeyFramesLemma DEF InitialAtlas

-----------------------------------------------------------------------------
(* Types are kept.                                                         *)
LEMMA TypeStep == MapInv /\ [Next]_vars => TypeOK'
  <1> SUFFICES ASSUME TypeOK, IdInv, FrameInv, [Next]_vars PROVE TypeOK'
    BY DEF MapInv
  <1> USE FieldTypes DEF AnyFrame
  <1>1. CASE TimestepCallback \/ ImgCallback \/ LiveCsvTimer
    <2>1. LiveIds(atlas) \subseteq Maps
      BY DEF LiveIds
    <2> QED BY <1>1, <2>1 DEF TypeOK, TimestepCallback, ImgCallback, LiveCsvTimer, Goto,
               slamVars, Times
  <1>2. CASE ResetActiveMap
    <2>1. NoImages \in [state : States, ready : BOOLEAN, last : Times, frame : AnyFrame]
      BY DEF NoImages, States, Times
    <2> QED BY <1>2, <2>1, ClearMapLemma DEF TypeOK, ResetActiveMap, Goto
  <1>3. CASE CreateMapInAtlas
    <2>1. NoImages \in [state : States, ready : BOOLEAN, last : Times, frame : AnyFrame]
      BY DEF NoImages, States, Times
    <2>2. 0 \in Maps
      BY BoundsAssumption DEF BoundsAssumption, Maps
    <2> QED BY <1>3, <2>1, <2>2, CreateNewMapLemma DEF TypeOK, CreateMapInAtlas, Goto
  <1>4. CASE EnterTrack
    BY <1>4 DEF TypeOK, EnterTrack, Goto, States
  <1>5. ASSUME NEW state \in States, NEW ready \in BOOLEAN, NEW last \in Times,
               Untracked(state, ready, last), resetMap' \in BOOLEAN, atlas' \in Atlases
        PROVE  TypeOK'
    <2>1. 0 \in Maps
      BY BoundsAssumption DEF BoundsAssumption, Maps
    <2> QED BY <1>5, <2>1 DEF TypeOK, Untracked, Goto
  <1>6. ASSUME NEW f \in AnyFrame, Tracked(f), atlas' \in Atlases, overtaken' \subseteq Maps
        PROVE  TypeOK'
    <2>1. 0 \in Maps
      BY BoundsAssumption DEF BoundsAssumption, Maps
    <2> QED BY <1>6, <2>1 DEF TypeOK, Tracked, States
  <1>7. CASE StillNotInitialized \/ TrackWeakens \/ StillLost \/ LoseSmallMap
    <2>0. trk.ready \in BOOLEAN /\ trk.last \in Times /\ timeStep \in Times /\ resetMap \in BOOLEAN
          /\ atlas \in Atlases
      BY DEF TypeOK
    <2>1. CASE StillNotInitialized
      BY <1>5, <2>0, <2>1 DEF StillNotInitialized, States
    <2>2. CASE TrackWeakens
      BY <1>5, <2>0, <2>2 DEF TrackWeakens, States
    <2>3. CASE StillLost
      BY <1>5, <2>0, <2>3 DEF StillLost, States
    <2>4. CASE LoseSmallMap
      BY <1>5, <2>0, <2>4 DEF LoseSmallMap, States
    <2> QED BY <1>7, <2>1, <2>2, <2>3, <2>4
  <1>8. CASE WrongInitialization
    BY <1>5, <1>8, InitialAtlasLemma DEF TypeOK, WrongInitialization, States
  <1>9. CASE CreateInitialMap
    BY <1>6, <1>9, InitialAtlasLemma DEF CreateInitialMap, TypeOK
  <1>10. CASE Relocalize
    BY <1>6, <1>10 DEF Relocalize, TypeOK
  <1>11. CASE TrackOk
    <2>1. trk.state = "OK" /\ trk.frame \in Frames
      BY <1>11 DEF TrackOk, FrameInv, Starting
    <2>2. AddKeyFrames(atlas, atlas.cur, 1, trk.frame) \in Atlases
      BY <2>1, AddKeyFramesLemma
    <2>3. overtaken' \subseteq Maps
      BY <1>11 DEF TrackOk, TypeOK
    <2> QED BY <1>6, <1>11, <2>1, <2>2, <2>3 DEF TrackOk
  <1>12. CASE PublishPose
    BY <1>12 DEF TypeOK, PublishPose
  <1>13. CASE CullKeyFrame
    BY <1>13, EraseKeyFrameLemma DEF TypeOK, CullKeyFrame, lcRest
  <1>14. CASE MergeDetected
    BY <1>14 DEF TypeOK, MergeDetected, lcRest
  <1>15. CASE ApplyMerge
    <2>1. TrackerMoves \in [state : States, ready : BOOLEAN, last : Times, frame : AnyFrame]
      BY DEF TypeOK, TrackerMoves
    <2>2. node' \in [pc : {"idle", "reset", "enter", "track", "publish"},
                     pose : AnyFrame, merged : BOOLEAN]
      <3>1. (node.merged \/ node.pc = "publish") \in BOOLEAN
        OBVIOUS
      <3> QED BY <1>15, <3>1 DEF TypeOK, ApplyMerge
    <2>3. atlas' \in Atlases
      BY <1>15, WeldMapsLemma DEF ApplyMerge
    <2>4. overtaken' \subseteq Maps
      BY <1>15 DEF ApplyMerge, TypeOK
    <2>5. trk' \in {TrackerMoves, trk}
      BY <1>15 DEF ApplyMerge
    <2> QED BY <1>15, <2>1, <2>2, <2>3, <2>4, <2>5 DEF TypeOK, ApplyMerge, lcRest
  <1>16. CASE ChangeId
    BY <1>16, TakeIdLemma DEF TypeOK, ChangeId, lcRest
  <1>17. CASE FinishMerge
    <2>1. NoMerge \in [pc : {"idle", "detected", "moved", "relabelled"}, cur : Maps, match : Maps,
                       from : AnyFrame, to : AnyFrame]
      BY BoundsAssumption DEF BoundsAssumption, Maps, NoMerge
    <2>2. MoveRest(atlas, lc.cur, lc.match, lc.from) \in Atlases
      BY <1>17, MoveRestLemma DEF TypeOK, FinishMerge, IdInv
    <2>3. TrackerMoves \in [state : States, ready : BOOLEAN, last : Times, frame : AnyFrame]
      BY DEF TypeOK, TrackerMoves
    <2>4. trk' \in {TrackerMoves, trk} /\ overtaken' \subseteq Maps
      BY <1>17 DEF FinishMerge, TypeOK
    <2>5. node' \in [pc : {"idle", "reset", "enter", "track", "publish"},
                     pose : AnyFrame, merged : BOOLEAN]
      <3>1. (node.merged \/ (node.pc = "publish" /\ node.pose = lc.from)) \in BOOLEAN
        OBVIOUS
      <3> QED BY <1>17, <3>1 DEF TypeOK, FinishMerge
    <2> QED BY <1>17, <2>1, <2>2, <2>3, <2>4, <2>5 DEF TypeOK, FinishMerge, lcRest
  <1>18. CASE UNCHANGED vars
    BY <1>18 DEF TypeOK, vars, slamVars
  <1> QED BY <1>1, <1>2, <1>3, <1>4, <1>7, <1>8, <1>9, <1>10, <1>11, <1>12, <1>13, <1>14, <1>15,
             <1>16, <1>17, <1>18
          DEF Next, CallbackStep, TrackStep, MergeStep, GiveUpOlderFrame, LoseGrownMap

-----------------------------------------------------------------------------
(* Steps that leave the maps and their ids alone.                          *)
LEMMA SameMaps ==
    ASSUME TypeOK, IdInv, lc' = lc,
           atlas'.maps = atlas.maps, atlas'.cur = atlas.cur, atlas'.next = atlas.next,
           atlas'.id = atlas.id,
           \A m \in Maps : m >= atlas.next => atlas'.frames[m] = atlas.frames[m]
    PROVE  IdInv'
  <1> USE FieldTypes DEF IdInv
  <1>1. CurrentMapIsGood' /\ IdsUnique'
    BY DEF CurrentMapIsGood, IdsUnique
  <1>2. \A m \in Maps :
            IF m < atlas'.next THEN atlas'.id[m] < atlas'.next
            ELSE m \notin atlas'.maps /\ atlas'.id[m] = m /\ atlas'.frames[m] = {}
    BY DEF Maps
  <1> QED BY <1>1, <1>2

LEMMA CurrentIsCreated ==
    ASSUME TypeOK, IdInv
    PROVE  /\ atlas.cur < atlas.next
           /\ \A m \in atlas.maps : m < atlas.next
  BY FieldTypes DEF IdInv, CurrentMapIsGood

(* What the tracker's steps other than a reset and a new map do to the     *)
(* atlas: keyframes in one frame join the current map, or nothing changes. *)
LEMMA TrackingAdds ==
    ASSUME MapInv,
           \/ StillNotInitialized \/ CreateInitialMap \/ WrongInitialization
           \/ TrackOk \/ TrackWeakens \/ Relocalize \/ StillLost \/ LoseSmallMap
    PROVE  /\ lc' = lc
           /\ atlas'.maps = atlas.maps /\ atlas'.cur = atlas.cur
           /\ atlas'.next = atlas.next /\ atlas'.id = atlas.id
           /\ \A m \in Maps \ {atlas.cur} : atlas'.frames[m] = atlas.frames[m]
  <1> USE FieldTypes DEF MapInv
  <1>1. CASE StillNotInitialized \/ TrackWeakens \/ Relocalize \/ StillLost \/ LoseSmallMap
    BY <1>1 DEF StillNotInitialized, TrackWeakens, Relocalize, StillLost, LoseSmallMap,
                Untracked, Tracked
  <1>2. CASE CreateInitialMap \/ WrongInitialization
    <2>1. CanInitialize /\ atlas' = InitialAtlas /\ lc' = lc
      BY <1>2 DEF CreateInitialMap, WrongInitialization, Untracked, Tracked
    <2> QED BY <2>1, InitialAtlasLemma
  <1>3. CASE TrackOk
    <2>1. trk.frame \in Frames /\ 1 \in Nat
      BY <1>3 DEF TrackOk, FrameInv, Starting
    <2>2. lc' = lc
      BY <1>3 DEF TrackOk, Tracked
    <2>3. CASE UNCHANGED atlas
      BY <2>2, <2>3
    <2>4. CASE atlas' = AddKeyFrames(atlas, atlas.cur, 1, trk.frame)
      <3>1. atlas \in Atlases /\ atlas.cur \in Maps /\ atlas.frames \in [Maps -> SUBSET Frames]
        OBVIOUS
      <3>2. /\ atlas'.maps = atlas.maps /\ atlas'.cur = atlas.cur
            /\ atlas'.next = atlas.next /\ atlas'.id = atlas.id
            /\ atlas'.frames = [atlas.frames EXCEPT ![atlas.cur] = @ \cup {trk.frame}]
        <4> HIDE FieldTypes DEF MapInv
        <4>1. /\ AddKeyFrames(atlas, atlas.cur, 1, trk.frame).maps = atlas.maps
              /\ AddKeyFrames(atlas, atlas.cur, 1, trk.frame).cur = atlas.cur
              /\ AddKeyFrames(atlas, atlas.cur, 1, trk.frame).next = atlas.next
              /\ AddKeyFrames(atlas, atlas.cur, 1, trk.frame).id = atlas.id
              /\ AddKeyFrames(atlas, atlas.cur, 1, trk.frame).frames =
                   [atlas.frames EXCEPT ![atlas.cur] = @ \cup {trk.frame}]
          BY ONLY <2>1, <3>1, AddKeyFramesLemma
        <4> QED BY <2>4, <4>1
      <3> QED BY <2>2, <3>1, <3>2
    <2> QED BY <1>3, <2>3, <2>4 DEF TrackOk
  <1> QED BY <1>1, <1>2, <1>3

LEMMA IdStep == MapInv /\ [Next]_vars => IdInv'
  <1> SUFFICES ASSUME MapInv, [Next]_vars PROVE IdInv'
    OBVIOUS
  <1> USE FieldTypes
  <1>0. TypeOK /\ IdInv /\ FrameInv /\ atlas.cur < atlas.next
        /\ \A m \in atlas.maps : m < atlas.next
    BY CurrentIsCreated DEF MapInv
  <1>a. /\ atlas \in Atlases /\ atlas.maps \subseteq Maps /\ atlas.cur \in Maps
        /\ atlas.next \in 0 .. MaxMaps /\ atlas.id \in [Maps -> Maps]
        /\ atlas.frames \in [Maps -> SUBSET Frames]
        /\ lc.cur \in Maps /\ lc.match \in Maps
    BY <1>0
  <1>1. CASE UNCHANGED <<atlas, lc>>
    BY <1>0, <1>1, SameMaps
  <1>2. CASE \/ StillNotInitialized \/ CreateInitialMap \/ WrongInitialization
             \/ TrackOk \/ TrackWeakens \/ Relocalize \/ StillLost \/ LoseSmallMap
    <2>1. \A m \in Maps : m >= atlas.next => m # atlas.cur
      BY <1>0 DEF Maps
    <2> QED BY <1>0, <1>2, <2>1, SameMaps, TrackingAdds
  <1>3. CASE ResetActiveMap
    <2>1. \A m \in Maps : m >= atlas.next => m # atlas.cur
      BY <1>0 DEF Maps
    <2>2. lc' = lc /\ atlas' = ClearMap(atlas)
      BY <1>3 DEF ResetActiveMap
    <2> QED BY <1>0, <2>1, <2>2, ClearMapLemma, SameMaps
  <1>4. CASE CullKeyFrame
    <2>1. lc' = lc
      BY <1>4 DEF CullKeyFrame
    <2>2. PICK m \in atlas.maps : atlas.kfs[m] > 1 /\ atlas' = EraseKeyFrame(atlas, m)
      BY <1>4 DEF CullKeyFrame
    <2> QED BY <1>0, <2>1, <2>2, EraseKeyFrameLemma, SameMaps
  <1>5. CASE CreateMapInAtlas
    <2>1. MapsLeft(atlas) /\ atlas' = CreateNewMap(atlas) /\ lc' = lc
      BY <1>5 DEF CreateMapInAtlas
    <2>2. /\ atlas'.maps = atlas.maps \cup {atlas.next} /\ atlas'.cur = atlas.next
          /\ atlas'.next = atlas.next + 1 /\ atlas'.id = atlas.id
          /\ atlas'.frames = atlas.frames /\ atlas.next \in Maps
      BY <1>a, <2>1, CreateNewMapLemma
    <2>3. atlas.id[atlas.next] = atlas.next /\ \A m \in atlas.maps : atlas.id[m] < atlas.next
      BY <1>0, <2>2 DEF IdInv
    <2>4. CurrentMapIsGood' /\ IdsUnique'
      BY <1>0, <2>2, <2>3 DEF IdInv, CurrentMapIsGood, IdsUnique, Maps
    <2>5. \A m \in Maps :
              IF m < atlas'.next THEN atlas'.id[m] < atlas'.next
              ELSE m \notin atlas'.maps /\ atlas'.id[m] = m /\ atlas'.frames[m] = {}
      <3> SUFFICES ASSUME NEW m \in Maps
                   PROVE IF m < atlas.next + 1 THEN atlas.id[m] < atlas.next + 1
                         ELSE m \notin atlas.maps \cup {atlas.next} /\ atlas.id[m] = m
                              /\ atlas.frames[m] = {}
        BY <2>2
      <3>1. m \in Nat /\ atlas.next \in Nat /\ atlas.id[m] \in Nat
        <4>1. atlas.id[m] \in Maps
          BY <1>a
        <4> QED BY <4>1, <1>a, MapsAreNumbers
      <3>2. IF m < atlas.next THEN atlas.id[m] < atlas.next
            ELSE m \notin atlas.maps /\ atlas.id[m] = m /\ atlas.frames[m] = {}
        BY <1>0 DEF IdInv
      <3>3. m # atlas.next \/ atlas.id[m] < atlas.next + 1
        BY <2>3, <3>1
      <3> QED BY <3>1, <3>2, <3>3
    <2>6. lc.pc = "moved" => atlas.id[lc.cur] < atlas.next
      BY <1>0 DEF IdInv
    <2> QED BY <1>0, <2>1, <2>2, <2>3, <2>4, <2>5, <2>6 DEF IdInv, Maps
  <1>6. CASE MergeDetected
    BY <1>0, <1>6 DEF MergeDetected, IdInv, CurrentMapIsGood, IdsUnique
  <1>7. CASE ApplyMerge
    <2>1. /\ lc.pc = "detected" /\ lc' = [lc EXCEPT !.pc = "moved"]
      BY <1>7 DEF ApplyMerge
    <2>2. PICK n \in 1 .. atlas.kfs[lc.cur] : atlas' = WeldMaps(atlas, lc.cur, lc.match, n)
      BY <1>7 DEF ApplyMerge
    <2>3. /\ atlas'.maps = atlas.maps \ {lc.cur} /\ atlas'.cur = lc.match
          /\ atlas'.next = atlas.next /\ atlas'.id = atlas.id /\ atlas'.frames = atlas.frames
      BY <1>a, <2>2, WeldMapsLemma
    <2>4. /\ lc'.pc = "moved" /\ lc'.cur = lc.cur /\ lc'.match = lc.match
      BY <1>0, <2>1 DEF TypeOK
    <2> QED BY <1>0, <2>1, <2>3, <2>4 DEF IdInv, CurrentMapIsGood, IdsUnique
  <1>8. CASE ChangeId
    <2>1. /\ lc.pc = "moved" /\ lc' = [lc EXCEPT !.pc = "relabelled"]
          /\ atlas' = TakeId(atlas, lc.cur, lc.match)
      BY <1>8 DEF ChangeId
    <2>2. /\ atlas'.maps = atlas.maps /\ atlas'.cur = atlas.cur
          /\ atlas'.next = atlas.next
          /\ atlas'.id = [atlas.id EXCEPT ![lc.match] = atlas.id[lc.cur]]
          /\ atlas'.frames = atlas.frames
      BY <1>a, <2>1, TakeIdLemma
    <2>3. /\ lc'.pc = "relabelled" /\ lc'.cur = lc.cur /\ lc'.match = lc.match
      BY <1>0, <2>1 DEF TypeOK
    <2> QED BY <1>0, <2>1, <2>2, <2>3 DEF IdInv, CurrentMapIsGood, IdsUnique
  <1>9. CASE FinishMerge
    <2>1. /\ lc.pc = "relabelled" /\ lc' = NoMerge
          /\ atlas' = MoveRest(atlas, lc.cur, lc.match, lc.from)
      BY <1>9 DEF FinishMerge
    <2>2. /\ lc.match < atlas.next /\ lc.cur < atlas.next /\ lc.cur # lc.match
      BY <1>0, <2>1 DEF IdInv
    <2>5. /\ atlas'.maps = atlas.maps /\ atlas'.cur = atlas.cur
          /\ atlas'.next = atlas.next /\ atlas'.id = atlas.id
          /\ atlas'.frames = [[atlas.frames EXCEPT ![lc.cur] = {}]
                EXCEPT ![lc.match] = @ \cup (atlas.frames[lc.cur] \ {lc.from})]
      BY <1>a, <2>1, <2>2, MoveRestLemma
    <2>3. /\ atlas'.maps = atlas.maps /\ atlas'.cur = atlas.cur
          /\ atlas'.next = atlas.next /\ atlas'.id = atlas.id
          /\ \A m \in Maps : m >= atlas.next => atlas'.frames[m] = atlas.frames[m]
      <3>1. ASSUME NEW m \in Maps, m >= atlas.next
            PROVE  m # lc.cur /\ m # lc.match
        <4>1. m \in Nat /\ atlas.next \in Nat /\ lc.cur \in Nat /\ lc.match \in Nat
          BY <1>a, MapsAreNumbers
        <4> HIDE FieldTypes
        <4> QED BY <2>2, <3>1, <4>1
      <3> QED BY <1>a, <2>5, <3>1
    <2>4. lc'.pc = "idle"
      BY <2>1 DEF NoMerge
    <2> QED BY <1>0, <2>3, <2>4 DEF IdInv, CurrentMapIsGood, IdsUnique, Maps
  <1> QED
    <2>1. CASE TimestepCallback \/ ImgCallback \/ LiveCsvTimer \/ EnterTrack \/ PublishPose
               \/ UNCHANGED vars
      BY <1>1, <2>1 DEF TimestepCallback, ImgCallback, LiveCsvTimer, EnterTrack, PublishPose,
                        vars, slamVars
    <2> QED BY <1>2, <1>3, <1>4, <1>5, <1>6, <1>7, <1>8, <1>9, <2>1
            DEF Next, CallbackStep, TrackStep, MergeStep, GiveUpOlderFrame, LoseGrownMap
-----------------------------------------------------------------------------
(* Steps of the tracker that leave the maps' frames alone and neither lose *)
(* nor gain an initialisation.                                             *)
LEMMA FramesKept ==
    ASSUME MapInv, UNCHANGED <<lc, overtaken>>,
           atlas'.maps = atlas.maps, atlas'.cur = atlas.cur, atlas'.frames = atlas.frames,
           trk'.frame = trk.frame, Starting' = Starting,
           node'.pc \in {"enter", "track", "publish"} => ~resetMap',
           resetMap => resetMap',
           PoseInItsMap'
    PROVE  FrameInv'
  BY DEF MapInv, FrameInv, Behind

(* Keyframes in frame f join the current map.                              *)
LEMMA FramesAdded ==
    ASSUME MapInv, lc' = lc, NEW f \in Frames,
           overtaken' = overtaken \/ overtaken' = overtaken \cup {atlas.cur},
           atlas'.maps = atlas.maps, atlas'.cur = atlas.cur,
           atlas'.frames = [atlas.frames EXCEPT ![atlas.cur] = @ \cup {f}],
           atlas.cur \notin overtaken' => atlas.frames[atlas.cur] \subseteq {f},
           Starting' => resetMap',
           ~Starting' /\ Behind' => atlas.cur \in overtaken',
           ~Starting' => trk'.frame = f,
           node'.pc \in {"enter", "track", "publish"} => ~resetMap',
           node'.pc = "publish" => node'.pose = f
    PROVE  FrameInv'
  <1> USE FieldTypes DEF MapInv
  <1>1. /\ atlas.frames \in [Maps -> SUBSET Frames] /\ atlas.cur \in Maps
        /\ atlas.maps \subseteq Maps /\ lc.cur \in Maps /\ lc.match \in Maps
    OBVIOUS
  <1>2. atlas'.frames[atlas.cur] = atlas.frames[atlas.cur] \cup {f}
    BY <1>1
  <1>3. \A m \in Maps \ {atlas.cur} : atlas'.frames[m] = atlas.frames[m]
    BY <1>1
  <1>4. \A m \in atlas'.maps \ overtaken' : \A g, h \in atlas'.frames[m] : g = h
    <2> SUFFICES ASSUME NEW m \in atlas.maps \ overtaken',
                        NEW g \in atlas'.frames[m], NEW h \in atlas'.frames[m]
                 PROVE  g = h
      OBVIOUS
    <2>1. CASE m = atlas.cur
      BY <1>2, <2>1
    <2>2. CASE m # atlas.cur
      BY <1>1, <1>3, <2>2 DEF FrameInv
    <2> QED BY <2>1, <2>2
  <1>5. lc'.pc = "detected" => /\ lc'.from \in atlas'.frames[lc'.cur]
                               /\ lc'.to \in atlas'.frames[lc'.match]
    BY <1>1, <1>2, <1>3 DEF FrameInv
  <1>6. lc'.pc \in {"moved", "relabelled"} /\ lc'.match \notin overtaken' =>
          atlas'.frames[lc'.cur] \subseteq {lc'.from}
    <2>1. lc.pc \in {"moved", "relabelled"} => lc.cur # atlas.cur
      BY DEF IdInv, CurrentMapIsGood
    <2> QED BY <1>1, <1>3, <2>1 DEF FrameInv
  <1>7. atlas'.cur \notin overtaken' =>
          /\ Starting' /\ ~resetMap' => atlas'.frames[atlas'.cur] = {}
          /\ ~Starting' => ~Behind' /\ atlas'.frames[atlas'.cur] = {trk'.frame}
    BY <1>2
  <1> QED BY <1>2, <1>4, <1>5, <1>6, <1>7 DEF FrameInv, PoseInItsMap

LEMMA FrameStep == MapInv /\ [Next]_vars => FrameInv'
  <1> SUFFICES ASSUME MapInv, [Next]_vars PROVE FrameInv'
    OBVIOUS
  <1>0. TypeOK /\ IdInv /\ FrameInv
    BY DEF MapInv
  <1>a. /\ atlas \in Atlases /\ atlas.maps \subseteq Maps /\ atlas.cur \in Maps
        /\ atlas.frames \in [Maps -> SUBSET Frames] /\ atlas.cur \in atlas.maps
        /\ lc.cur \in Maps /\ lc.match \in Maps
    BY <1>0, FieldTypes DEF IdInv, CurrentMapIsGood
  <1>b. /\ node \in [pc : {"idle", "reset", "enter", "track", "publish"},
                     pose : AnyFrame, merged : BOOLEAN]
        /\ trk \in [state : States, ready : BOOLEAN, last : Times, frame : AnyFrame]
        /\ lc \in [pc : {"idle", "detected", "moved", "relabelled"}, cur : Maps,
                   match : Maps, from : AnyFrame, to : AnyFrame]
    BY <1>0 DEF TypeOK
  <1>1. CASE TimestepCallback \/ LiveCsvTimer \/ UNCHANGED vars
    BY <1>0, <1>1 DEF TimestepCallback, LiveCsvTimer, vars, slamVars, FrameInv, Starting,
                      PoseInItsMap, Behind
  <1>2. CASE ImgCallback
    <2>1. /\ UNCHANGED <<lc, overtaken, atlas, trk, resetMap>>
          /\ node'.pc = IF resetMap THEN "reset" ELSE "enter"
      BY <1>2, <1>b DEF ImgCallback, Goto, slamVars
    <2> QED BY <2>1, FramesKept DEF PoseInItsMap, Starting
  <1>3. CASE EnterTrack
    <2>1. /\ UNCHANGED <<lc, overtaken, atlas, resetMap>> /\ node'.pc = "track"
          /\ node.pc = "enter" /\ trk'.frame = trk.frame /\ Starting' = Starting
      BY <1>3, <1>b DEF EnterTrack, Goto, Starting
    <2>2. ~resetMap
      BY <1>0, <2>1 DEF FrameInv
    <2> QED BY <2>1, <2>2, FramesKept DEF PoseInItsMap
  <1>4. CASE StillNotInitialized \/ TrackWeakens \/ StillLost \/ LoseSmallMap
    <2>1. /\ UNCHANGED <<lc, overtaken, atlas>> /\ node'.pc = "idle"
          /\ trk'.frame = trk.frame /\ Starting' = Starting /\ (resetMap => resetMap')
      <3>1. ASSUME NEW s, NEW r, NEW l, Untracked(s, r, l)
            PROVE  UNCHANGED <<lc, overtaken>> /\ node'.pc = "idle" /\ trk'.frame = trk.frame
                   /\ trk'.state = s
        BY <1>b, <3>1 DEF Untracked, Goto
      <3>2. CASE StillNotInitialized
        BY <3>1, <3>2 DEF StillNotInitialized, Starting
      <3>3. CASE TrackWeakens
        BY <3>1, <3>3 DEF TrackWeakens, Starting
      <3>4. CASE StillLost
        BY <3>1, <3>4 DEF StillLost, Starting
      <3>5. CASE LoseSmallMap
        BY <3>1, <3>5 DEF LoseSmallMap, TimeRecentlyLostIsOver, Starting
      <3> QED BY <1>4, <3>2, <3>3, <3>4, <3>5
    <2> QED BY <2>1, FramesKept DEF PoseInItsMap
  <1>5. CASE PublishPose
    <2>1. /\ UNCHANGED <<lc, overtaken, atlas, trk, resetMap>> /\ node'.pc = "idle"
      BY <1>5, <1>b DEF PublishPose
    <2> QED BY <2>1, FramesKept DEF PoseInItsMap, Starting
  <1>6. CASE CullKeyFrame
    <2>1. UNCHANGED <<lc, overtaken, trk, node, resetMap>>
      BY <1>6 DEF CullKeyFrame, lcRest
    <2>2. PICK m \in atlas.maps : atlas.kfs[m] > 1 /\ atlas' = EraseKeyFrame(atlas, m)
      BY <1>6 DEF CullKeyFrame
    <2>3. atlas'.maps = atlas.maps /\ atlas'.cur = atlas.cur /\ atlas'.frames = atlas.frames
      BY <1>a, <2>2, EraseKeyFrameLemma
    <2> QED BY <1>0, <2>1, <2>3 DEF FrameInv, PoseInItsMap, Starting, Behind
  <1>7. CASE CreateInitialMap
    <2>1. /\ UNCHANGED <<lc, overtaken, resetMap>> /\ node'.pc = "publish"
          /\ node'.pose = NewFrame /\ trk'.frame = NewFrame /\ ~Starting'
          /\ node.pc = "track" /\ Starting /\ CanInitialize /\ atlas' = InitialAtlas
      BY <1>7, <1>b DEF CreateInitialMap, CanInitialize, Tracked, Starting
    <2>2. ~resetMap /\ (atlas.cur \notin overtaken => atlas.frames[atlas.cur] = {})
      BY <1>0, <2>1 DEF FrameInv
    <2> HIDE DEF NewFrame, InitialAtlas
    <2>3. ~Behind'
      BY <1>0, <2>1, InitialAtlasLemma DEF Behind
    <2> QED BY <1>0, <2>1, <2>2, <2>3, InitialAtlasLemma, FramesAdded
  <1>8. CASE WrongInitialization
    <2>1. /\ UNCHANGED <<lc, overtaken>> /\ node'.pc = "idle" /\ resetMap' /\ Starting'
          /\ node.pc = "track" /\ Starting /\ CanInitialize /\ atlas' = InitialAtlas
      BY <1>8, <1>b DEF WrongInitialization, CanInitialize, Untracked, Goto, Starting
    <2>2. atlas.cur \notin overtaken => atlas.frames[atlas.cur] = {}
      BY <1>0, <2>1 DEF FrameInv
    <2> HIDE DEF NewFrame, InitialAtlas
    <2> QED BY <1>0, <2>1, <2>2, InitialAtlasLemma, FramesAdded
  <1>9. CASE TrackOk
    <2>1. /\ UNCHANGED <<lc, resetMap>> /\ node'.pc = "publish"
          /\ node'.pose = trk.frame /\ trk'.frame = trk.frame /\ ~Starting' /\ ~Starting
          /\ node.pc = "track"
      BY <1>9, <1>b DEF TrackOk, Tracked, Starting
    <2>2. /\ ~resetMap /\ trk.frame \in Frames
          /\ atlas.cur \notin overtaken /\ ~Behind => atlas.frames[atlas.cur] = {trk.frame}
      BY <1>0, <2>1 DEF FrameInv
    <2>3. CASE UNCHANGED <<atlas, overtaken>>
      <3>1. PoseInItsMap'
        BY <2>1, <2>2, <2>3 DEF PoseInItsMap, Behind
      <3>2. Starting' = Starting
        BY <1>b, <1>9 DEF TrackOk, Tracked, Starting
      <3> QED BY <2>1, <2>2, <2>3, <3>1, <3>2, FramesKept
    <2>4. CASE /\ atlas' = AddKeyFrames(atlas, atlas.cur, 1, trk.frame)
               /\ overtaken' = overtaken \cup {m \in {atlas.cur} : Behind}
      <3>1. /\ atlas'.maps = atlas.maps /\ atlas'.cur = atlas.cur
            /\ atlas'.frames = [atlas.frames EXCEPT ![atlas.cur] = @ \cup {trk.frame}]
        <4>1. /\ AddKeyFrames(atlas, atlas.cur, 1, trk.frame).maps = atlas.maps
              /\ AddKeyFrames(atlas, atlas.cur, 1, trk.frame).cur = atlas.cur
              /\ AddKeyFrames(atlas, atlas.cur, 1, trk.frame).frames =
                   [atlas.frames EXCEPT ![atlas.cur] = @ \cup {trk.frame}]
          BY ONLY <1>a, <2>2, AddKeyFramesLemma
        <4> QED BY <2>4, <4>1
      <3>2. Behind' = Behind
        BY <2>1, <3>1 DEF Behind
      <3>3. overtaken' = (IF Behind THEN overtaken \cup {atlas.cur} ELSE overtaken)
        BY <2>4
      <3> QED BY <2>1, <2>2, <3>1, <3>2, <3>3, FramesAdded
    <2> QED BY <1>9, <2>3, <2>4 DEF TrackOk
  <1>10. CASE Relocalize
    <2>1. PICK f \in atlas.frames[atlas.cur] : Tracked(f)
      BY <1>10 DEF Relocalize
    <2>2. /\ UNCHANGED <<lc, overtaken, resetMap, atlas>> /\ node'.pc = "publish"
          /\ node'.pose = f /\ trk'.frame = f /\ ~Starting' /\ ~Starting
          /\ node.pc = "track" /\ f \in Frames
      BY <1>10, <1>a, <1>b, <2>1 DEF Relocalize, Tracked, Starting
    <2>3. atlas.cur \notin overtaken => atlas.frames[atlas.cur] = {f}
      BY <1>0, <2>1, <2>2 DEF FrameInv
    <2>4. atlas.cur \notin overtaken /\ Behind' => lc.to = f
      BY <1>0, <2>1, <2>2, <2>3 DEF FrameInv, Behind
    <2> QED BY <1>0, <2>1, <2>2, <2>3, <2>4 DEF FrameInv, PoseInItsMap
  <1>11. CASE ResetActiveMap
    <2>1. /\ lc' = lc /\ lc.pc = "idle" /\ atlas' = ClearMap(atlas) /\ ~resetMap'
          /\ overtaken' = overtaken \ {atlas.cur} /\ node'.pc = "enter" /\ Starting'
      BY <1>11, <1>b DEF ResetActiveMap, NoImages, Goto, Starting
    <2>2. /\ atlas'.maps = atlas.maps /\ atlas'.cur = atlas.cur
          /\ atlas'.frames = [atlas.frames EXCEPT ![atlas.cur] = {}]
      BY <1>a, <2>1, ClearMapLemma
    <2>3. atlas'.frames[atlas.cur] = {}
          /\ \A m \in Maps \ {atlas.cur} : atlas'.frames[m] = atlas.frames[m]
      BY <1>a, <2>2
    <2>4. \A m \in atlas'.maps \ overtaken' : \A f, g \in atlas'.frames[m] : f = g
      BY <1>0, <1>a, <2>1, <2>2, <2>3 DEF FrameInv
    <2> QED BY <2>1, <2>2, <2>3, <2>4 DEF FrameInv, PoseInItsMap
  <1>12. CASE CreateMapInAtlas
    <2>1. /\ lc' = lc /\ overtaken' = overtaken /\ node'.pc = "idle" /\ Starting'
          /\ MapsLeft(atlas) /\ atlas' = CreateNewMap(atlas)
      BY <1>12, <1>b DEF CreateMapInAtlas, NoImages, Goto, Starting
    <2>2. /\ atlas'.maps = atlas.maps \cup {atlas.next} /\ atlas'.cur = atlas.next
          /\ atlas'.frames = atlas.frames /\ atlas.next \in Maps
      BY <1>a, <2>1, CreateNewMapLemma
    <2>3. atlas.frames[atlas.next] = {}
      <3>1. ~(atlas.next < atlas.next)
        BY <2>2, MapsAreNumbers
      <3> QED BY <1>0, <2>2, <3>1 DEF IdInv
    <2> QED BY <1>0, <2>1, <2>2, <2>3 DEF FrameInv, PoseInItsMap
  <1>13. CASE MergeDetected
    <2>1. /\ UNCHANGED <<atlas, overtaken, trk, node, resetMap>>
          /\ lc'.pc = "detected" /\ lc'.from \in atlas.frames[lc'.cur]
          /\ lc'.to \in atlas.frames[lc'.match] /\ lc'.to \in Frames
          /\ ~Behind /\ ~Behind'
      BY <1>13, <1>a DEF MergeDetected, lcRest, Behind
    <2> QED BY <1>0, <2>1 DEF FrameInv, PoseInItsMap, Starting
  <1>14. CASE ApplyMerge
    <2>1. /\ lc.pc = "detected" /\ lc'.pc = "moved" /\ lc'.cur = lc.cur /\ lc'.match = lc.match
          /\ lc'.from = lc.from /\ lc'.to = lc.to /\ resetMap' = resetMap
          /\ trk' \in {TrackerMoves, trk} /\ node'.pc = node.pc
          /\ node'.merged = (node.merged \/ node.pc = "publish")
          /\ overtaken' = overtaken \cup
               (IF atlas.cur # lc.cur \/ Starting \/ lc.cur \in overtaken
                THEN {lc.match} ELSE {})
      BY <1>14, <1>b DEF ApplyMerge, lcRest, Starting
    <2>2. PICK n \in 1 .. atlas.kfs[lc.cur] : atlas' = WeldMaps(atlas, lc.cur, lc.match, n)
      BY <1>14 DEF ApplyMerge
    <2>3. /\ atlas'.maps = atlas.maps \ {lc.cur} /\ atlas'.cur = lc.match
          /\ atlas'.frames = atlas.frames
      BY <1>a, <2>2, WeldMapsLemma
    <2>4. /\ \/ trk'.frame = trk.frame
             \/ trk.frame = lc.from /\ trk'.frame = lc.to
          /\ trk'.state = trk.state
      BY <1>b, <2>1 DEF TrackerMoves
    <2>5. /\ lc.from \in atlas.frames[lc.cur] /\ lc.to \in atlas.frames[lc.match]
          /\ lc.to \in Frames /\ lc.match \in atlas.maps
      BY <1>0, <1>a, <2>1 DEF FrameInv, IdInv
    <2>6. Starting' = Starting
      BY <2>4 DEF Starting
    <2>7. ASSUME lc.match \notin overtaken'
          PROVE  /\ ~Starting /\ atlas.frames[lc.match] = {lc.to}
                 /\ lc.to = IF Behind' THEN lc'.to ELSE trk'.frame
                 /\ atlas.frames[lc.cur] = {lc.from}
      <3>1. atlas.cur = lc.cur /\ ~Starting /\ lc.cur \notin overtaken
            /\ lc.match \notin overtaken
        BY <2>1, <2>7
      <3>2. atlas.frames[lc.cur] = {trk.frame} /\ trk.frame = lc.from
        BY <1>0, <2>1, <2>5, <3>1 DEF FrameInv, Behind
      <3>3. \A f, g \in atlas.frames[lc.match] : f = g
        BY <1>0, <2>5, <3>1 DEF FrameInv
      <3>4. lc.to = IF Behind' THEN lc'.to ELSE trk'.frame
        BY <2>1, <2>3, <2>4, <3>2 DEF Behind
      <3> QED BY <2>5, <3>1, <3>2, <3>3, <3>4
    <2>8. \A m \in atlas'.maps \ overtaken' : \A f, g \in atlas'.frames[m] : f = g
      BY <1>0, <2>1, <2>3 DEF FrameInv
    <2>9. ~Starting' => trk'.frame \in Frames
      BY <1>0, <2>4, <2>5, <2>6 DEF FrameInv
    <2>10. PoseInItsMap'
      BY <2>1 DEF PoseInItsMap
    <2>11. node'.pc \in {"enter", "track", "publish"} => ~resetMap'
      BY <1>0, <2>1 DEF FrameInv
    <2>12. lc'.to \in Frames
      BY <2>1, <2>5
    <2> QED BY <2>1, <2>3, <2>6, <2>7, <2>8, <2>9, <2>10, <2>11, <2>12 DEF FrameInv
  <1>15. CASE ChangeId
    <2>1. /\ lc.pc = "moved" /\ lc'.pc = "relabelled" /\ lc'.cur = lc.cur
          /\ lc'.match = lc.match /\ lc'.from = lc.from /\ lc'.to = lc.to
          /\ UNCHANGED <<overtaken, trk, node, resetMap>>
          /\ atlas' = TakeId(atlas, lc.cur, lc.match)
      BY <1>15, <1>b DEF ChangeId, lcRest
    <2>2. atlas'.maps = atlas.maps /\ atlas'.cur = atlas.cur /\ atlas'.frames = atlas.frames
      <3>1. /\ TakeId(atlas, lc.cur, lc.match).maps = atlas.maps
            /\ TakeId(atlas, lc.cur, lc.match).cur = atlas.cur
            /\ TakeId(atlas, lc.cur, lc.match).frames = atlas.frames
        BY <1>a DEF TakeId, Atlases
      <3> QED BY <2>1, <3>1
    <2> QED BY <1>0, <2>1, <2>2 DEF FrameInv, PoseInItsMap, Starting, Behind
  <1>16. CASE FinishMerge
    <2>1. /\ lc.pc = "relabelled" /\ lc'.pc = "idle" /\ ~Behind'
          /\ resetMap' = resetMap /\ overtaken \subseteq overtaken'
          /\ node'.pc = node.pc /\ node'.pose = node.pose
          /\ node'.merged = (node.merged \/ (node.pc = "publish" /\ node.pose = lc.from))
          /\ atlas' = MoveRest(atlas, lc.cur, lc.match, lc.from)
      BY <1>16, <1>b DEF FinishMerge, lcRest, NoMerge, Behind
    <2>2. lc.cur # lc.match /\ lc.match \in atlas.maps /\ lc.cur \notin atlas.maps
      BY <1>0, <2>1 DEF IdInv
    <2>3. /\ atlas'.maps = atlas.maps /\ atlas'.cur = atlas.cur
          /\ atlas'.frames = [[atlas.frames EXCEPT ![lc.cur] = {}]
                EXCEPT ![lc.match] = @ \cup (atlas.frames[lc.cur] \ {lc.from})]
      BY <1>a, <2>1, <2>2, MoveRestLemma
    <2>4. /\ \A m \in atlas.maps : m # lc.match => atlas'.frames[m] = atlas.frames[m]
          /\ atlas'.frames[lc.match] =
               atlas.frames[lc.match] \cup (atlas.frames[lc.cur] \ {lc.from})
      BY <1>a, <2>2, <2>3
    <2>5. \A m \in atlas.maps : m \notin overtaken => atlas'.frames[m] = atlas.frames[m]
      BY <1>0, <2>1, <2>4 DEF FrameInv
    <2>6. atlas.frames[atlas.cur] \subseteq atlas'.frames[atlas.cur]
      BY <1>a, <2>4
    <2>7. /\ trk'.state = trk.state
          /\ IF atlas.cur \in overtaken' THEN trk'.frame \in {trk.frame, lc.to}
             ELSE trk'.frame = IF Behind THEN lc.to ELSE trk.frame
      BY <1>16, <1>b DEF FinishMerge, TrackerMoves, Behind
    <2>8. lc.to \in AnyFrame /\ trk'.frame \in {trk.frame, lc.to}
      BY <1>b, <2>7
    <2>9. ~Starting' => trk'.frame \in Frames
      BY <1>0, <2>1, <2>7, <2>8 DEF FrameInv, Starting
    <2>10. atlas.cur \notin overtaken' /\ ~Starting' => atlas'.frames[atlas.cur] = {trk'.frame}
      BY <1>0, <1>a, <2>1, <2>5, <2>7 DEF FrameInv, Starting
    <2>11. PoseInItsMap'
      BY <1>0, <2>1, <2>3, <2>6 DEF FrameInv, PoseInItsMap
    <2>12. \A m \in atlas'.maps \ overtaken' : \A f, g \in atlas'.frames[m] : f = g
      BY <1>0, <2>1, <2>3, <2>5 DEF FrameInv
    <2>13. atlas.cur \notin overtaken' /\ Starting' /\ ~resetMap' => atlas'.frames[atlas.cur] = {}
      BY <1>0, <1>a, <2>1, <2>5, <2>7 DEF FrameInv, Starting
    <2>14. node'.pc \in {"enter", "track", "publish"} => ~resetMap'
      BY <1>0, <2>1 DEF FrameInv
    <2> QED BY <2>1, <2>3, <2>9, <2>10, <2>11, <2>12, <2>13, <2>14 DEF FrameInv
  <1> QED BY <1>1, <1>2, <1>3, <1>4, <1>5, <1>6, <1>7, <1>8, <1>9, <1>10, <1>11, <1>12, <1>13,
             <1>14, <1>15, <1>16
          DEF Next, CallbackStep, TrackStep, MergeStep, GiveUpOlderFrame, LoseGrownMap

-----------------------------------------------------------------------------
(* The maps, their ids and their frames fit together at all times.         *)
THEOREM MapInvariant == Spec => []MapInv
  <1>1. MapInv /\ [Next]_vars => MapInv'
    BY TypeStep, IdStep, FrameStep DEF MapInv
  <1> QED BY InitMapInv, <1>1, PTL DEF Spec

(* The node's variables keep their types.                                  *)
THEOREM NodeTypeCorrect == Spec => []TypeOK
  <1>1. MapInv => TypeOK
    BY DEF MapInv
  <1> QED BY MapInvariant, <1>1, PTL

(* A merge, a reset and a new map never leave a map that is no map any     *)
(* more as the current one.                                                *)
THEOREM CurrentMapStaysGood == Spec => []CurrentMapIsGood
  <1>1. MapInv => CurrentMapIsGood
    BY DEF MapInv, IdInv
  <1> QED BY MapInvariant, <1>1, PTL

(* Two maps never show the same id.                                        *)
THEOREM IdsStayUnique == Spec => []IdsUnique
  <1>1. MapInv => IdsUnique
    BY DEF MapInv, IdInv
  <1> QED BY MapInvariant, <1>1, PTL

(* A map mixes the frames of two initialisations only after a merge has    *)
(* overtaken the tracker.                                                  *)
THEOREM FramesStayApart == Spec => []FramesMixOnlyWhenOvertaken
  <1>1. MapInv => FramesMixOnlyWhenOvertaken
    <2> SUFFICES ASSUME MapInv, NEW m \in atlas.maps, m \notin overtaken
                 PROVE  ~(Cardinality(atlas.frames[m]) > 1)
      BY DEF FramesMixOnlyWhenOvertaken
    <2>1. \A f, g \in atlas.frames[m] : f = g
      BY DEF MapInv, FrameInv
    <2>2. CASE atlas.frames[m] = {}
      BY <2>2, FS_EmptySet
    <2>3. CASE atlas.frames[m] # {}
      <3>1. PICK f \in atlas.frames[m] : atlas.frames[m] = {f}
        BY <2>1, <2>3
      <3> QED BY <3>1, FS_Singleton
    <2> QED BY <2>2, <2>3
  <1> QED BY MapInvariant, <1>1, PTL

(* A pose goes out under the id of the map it was found in, unless a merge *)
(* came between.                                                           *)
THEOREM PosesStayInTheirMap == Spec => []PoseInItsMap
  <1>1. MapInv => PoseInItsMap
    BY DEF MapInv, FrameInv
  <1> QED BY MapInvariant, <1>1, PTL
=============================================================================
