----------------------------- MODULE FrameStream -----------------------------
(***************************************************************************)
(* How frames reach ORB-SLAM3: the bridge (a Python process) and the SLAM  *)
(* node (a C++ process) are started in any order and restarted at any      *)
(* time; they shake hands over two topics whose last message a late        *)
(* subscriber still receives; then the bridge publishes every frame as an  *)
(* image and a time on two topics of depth one.  Frames are numbered in    *)
(* the order of publication, and the number is the time of the frame.      *)
(***************************************************************************)
EXTENDS Naturals

CONSTANTS MaxFrames,    \* bound: frames published
          MaxStarts     \* bound: starts of each process

ASSUME StreamAssumption == MaxFrames \in Nat \ {0} /\ MaxStarts \in Nat

VARIABLES
    bridge,     \* RosBridge: runs, has been acked; starts
    node,       \* MonocularMode: pc, pAgent set, ACK sent, started after frames; starts
    settings,   \* an experiment-settings message waits at the node
    ack,        \* an ACK waits at the bridge
    frames,     \* frames published so far
    wire,       \* per topic: the message published and not delivered yet
    slot,       \* per topic: the message that waits for the node's executor
    timeStep,   \* MonocularMode::timeStep, not initialised by the constructor
    frame,      \* the frame tracked last: its image and its mTimeStamp
    cut         \* history: frames published before the node started last, or
                \* before a bridge ended with a message on its way

streamVars == <<frames, wire, slot>>
linkVars == <<bridge, node, settings, ack, streamVars, timeStep, frame, cut>>

Numbers == 1 .. MaxFrames
Topics == {"img", "timestep"}
Garbage == {0, MaxFrames + 1}       \* before or after all real times
Times == Numbers \cup Garbage
AtMostOne == {{}} \cup {{n} : n \in Numbers}
Nothing == [t \in Topics |-> {}]
NoFrame == [img |-> 0, time |-> 0]

StreamInit ==
    /\ bridge = [up |-> FALSE, acked |-> FALSE, starts |-> 0]
    /\ node = [pc |-> "down", agent |-> FALSE, acks |-> FALSE, late |-> FALSE, starts |-> 0]
    /\ settings = FALSE /\ ack = FALSE
    /\ frames = 0 /\ wire = Nothing /\ slot = Nothing
    /\ timeStep \in Garbage /\ frame = NoFrame /\ cut = 0

-----------------------------------------------------------------------------
(* The processes come and go.  TRANSIENT_LOCAL: a subscriber that is late  *)
(* gets the message that a living publisher sent last; the bridge sends its*)
(* settings as soon as it runs.                                            *)

BridgeStarts ==
    /\ ~bridge.up /\ bridge.starts < MaxStarts
    /\ bridge' = [up |-> TRUE, acked |-> FALSE, starts |-> bridge.starts + 1]
    /\ settings' = (node.pc # "down")
    /\ ack' = node.acks
    /\ UNCHANGED <<node, streamVars, timeStep, frame, cut>>

BridgeStops ==
    /\ bridge.up
    /\ bridge' = [bridge EXCEPT !.up = FALSE, !.acked = FALSE]
    /\ ack' = FALSE /\ wire' = Nothing
    /\ cut' = IF wire = Nothing THEN cut ELSE frames
    /\ UNCHANGED <<node, settings, frames, slot, timeStep, frame>>

NodeStarts ==
    /\ node.pc = "down" /\ node.starts < MaxStarts
    /\ node' = [pc |-> "idle", agent |-> FALSE, acks |-> FALSE, late |-> bridge.acked \/ ack,
                starts |-> node.starts + 1]
    /\ settings' = bridge.up
    /\ timeStep' \in Garbage /\ frame' = NoFrame /\ cut' = frames
    /\ UNCHANGED <<bridge, ack, streamVars>>

NodeGone ==
    /\ node' = [node EXCEPT !.pc = "down", !.agent = FALSE, !.acks = FALSE]
    /\ settings' = FALSE /\ slot' = Nothing
    /\ UNCHANGED <<bridge, ack, frames, wire, timeStep, frame, cut>>

NodeStops == node.pc # "down" /\ NodeGone

-----------------------------------------------------------------------------
(* The bridge.                                                             *)

\* _publish_settings: every second until the ACK.
PublishSettings ==
    /\ bridge.up /\ ~bridge.acked
    /\ settings' = (node.pc # "down")
    /\ UNCHANGED <<bridge, node, ack, streamVars, timeStep, frame, cut>>

OnAck ==
    /\ bridge.up /\ ack
    /\ ack' = FALSE
    /\ bridge' = [bridge EXCEPT !.acked = TRUE]
    /\ UNCHANGED <<node, settings, streamVars, timeStep, frame, cut>>

\* Image and time of a frame go out on two topics, each in place of the one before.
PublishFrameTick ==
    /\ bridge.up /\ bridge.acked /\ frames < MaxFrames
    /\ frames' = frames + 1
    /\ wire' = [t \in Topics |-> {frames'}]
    /\ UNCHANGED <<bridge, node, settings, ack, slot, timeStep, frame, cut>>

\* The topics are independent of each other.
Deliver(t) ==
    /\ wire[t] # {}
    /\ slot' = [slot EXCEPT ![t] = IF node.pc = "down" THEN {} ELSE wire[t]]
    /\ wire' = [wire EXCEPT ![t] = {}]
    /\ UNCHANGED <<bridge, node, settings, ack, frames, timeStep, frame, cut>>

-----------------------------------------------------------------------------
(* The node's executor.                                                    *)

\* Mutants: the node counts as initialised before the test; VSLAM is initialised
\* outside of the callback, when the next settings arrive.
SettingsCallbackFlagFirst ==
    /\ node.pc = "idle" /\ settings
    /\ settings' = FALSE /\ ack' = bridge.up
    /\ node' = [node EXCEPT !.acks = TRUE]
    /\ UNCHANGED <<bridge, streamVars, timeStep, frame, cut>>
SettingsCallbackReturning ==
    /\ node.pc = "idle" /\ settings
    /\ settings' = FALSE /\ ack' = bridge.up
    /\ node' = [node EXCEPT !.acks = TRUE, !.pc = IF @ = "idle" /\ node.acks THEN "init" ELSE @]
    /\ UNCHANGED <<bridge, streamVars, timeStep, frame, cut>>

\* The ACK goes out before VSLAM is initialised, which is done once.
SettingsCallback ==
    /\ node.pc = "idle" /\ settings
    /\ settings' = FALSE /\ ack' = bridge.up
    /\ node' = [node EXCEPT !.acks = TRUE, !.pc = IF node.agent THEN "idle" ELSE "init"]
    /\ UNCHANGED <<bridge, streamVars, timeStep, frame, cut>>

VslamInitialized ==
    /\ node.pc = "init"
    /\ node' = [node EXCEPT !.pc = "idle", !.agent = TRUE]
    /\ UNCHANGED <<bridge, settings, ack, streamVars, timeStep, frame, cut>>

\* Mutant: a time is taken only by a node that has VSLAM, as LiveCsvTimer_callback does it.
TimestepCallbackNeedsAgent ==
    /\ node.pc = "idle"
    /\ \E n \in slot["timestep"] :
         /\ timeStep' = IF node.agent THEN n ELSE timeStep
         /\ slot' = [slot EXCEPT !["timestep"] = @ \ {n}]
    /\ UNCHANGED <<bridge, node, settings, ack, frames, wire, frame, cut>>

TimestepCallback ==
    /\ node.pc = "idle"
    /\ \E n \in slot["timestep"] :
         timeStep' = n /\ slot' = [slot EXCEPT !["timestep"] = @ \ {n}]
    /\ UNCHANGED <<bridge, node, settings, ack, frames, wire, frame, cut>>

\* The image is tracked with whatever time came last.
ImgCallback ==
    /\ node.pc = "idle" /\ node.agent
    /\ \E n \in slot["img"] :
         /\ frame' = [img |-> n, time |-> timeStep]
         /\ slot' = [slot EXCEPT !["img"] = @ \ {n}]
    /\ node' = [node EXCEPT !.pc = "track"]
    /\ UNCHANGED <<bridge, settings, ack, frames, wire, timeStep, cut>>

\* TrackMonocular of a null pAgent.
ImgCallbackWithoutAgent ==
    /\ node.pc = "idle" /\ slot["img"] # {} /\ ~node.agent
    /\ NodeGone

TrackingReturns ==
    /\ node.pc = "track"
    /\ node' = [node EXCEPT !.pc = "idle"]
    /\ UNCHANGED <<bridge, settings, ack, streamVars, timeStep, frame, cut>>

StreamNext ==
    \/ BridgeStarts \/ BridgeStops \/ NodeStarts \/ NodeStops
    \/ PublishSettings \/ OnAck \/ PublishFrameTick
    \/ \E t \in Topics : Deliver(t)
    \/ SettingsCallback \/ VslamInitialized \/ TimestepCallback
    \/ ImgCallback \/ ImgCallbackWithoutAgent \/ TrackingReturns

StreamSpec == StreamInit /\ [][StreamNext]_linkVars

(* The timer repeats the settings, messages that wait are taken, and the   *)
(* executor, which serves all that is ready before it waits again, comes   *)
(* to every callback.  No process has to be started.                       *)
StreamFairness ==
    /\ WF_linkVars(PublishSettings) /\ WF_linkVars(OnAck)
    /\ SF_linkVars(SettingsCallback) /\ WF_linkVars(VslamInitialized) /\ WF_linkVars(TrackingReturns)

FairStreamSpec == StreamSpec /\ StreamFairness

-----------------------------------------------------------------------------
StreamTypeOK ==
    /\ bridge \in [up : BOOLEAN, acked : BOOLEAN, starts : 0 .. MaxStarts]
    /\ node \in [pc : {"down", "idle", "init", "track"}, agent : BOOLEAN, acks : BOOLEAN,
                 late : BOOLEAN, starts : 0 .. MaxStarts]
    /\ settings \in BOOLEAN /\ ack \in BOOLEAN
    /\ frames \in 0 .. MaxFrames
    /\ wire \in [Topics -> AtMostOne] /\ slot \in [Topics -> AtMostOne]
    /\ timeStep \in Times
    /\ frame \in [img : Numbers \cup {0}, time : Times] /\ cut \in 0 .. MaxFrames

(* However the processes are started, an image meets a node without VSLAM  *)
(* only if the node was started again under a bridge that had, or was about*)
(* to take, its ACK: the handshake keeps images away from every other node. *)
CrashOnlyAfterRestart ==
    node.pc = "idle" /\ ~node.agent /\ slot["img"] # {} => node.late

(* Image and time come on two topics and nothing pairs them again, so an   *)
(* image may be tracked with the time of another frame.  It is only while  *)
(* one topic is behind the other: with an older time, or none, while a     *)
(* time at least as new as the image waits to be taken, and with a newer   *)
(* one while a later image is on its way; otherwise the time is the        *)
(* image's own.  The exceptions are frames published before the node was   *)
(* started, or before a bridge ended with a message on its way.  And times *)
(* do not go back, or Tracking would give its map up.                      *)
Waiting(t) == slot[t] \cup wire[t]

OwnTimeUnlessOvertaken ==
    [][ImgCallback /\ frame'.img > cut =>
         /\ frame'.time \notin Numbers \/ frame'.time < frame'.img =>
              \E n \in Waiting("timestep") : n >= frame'.img
         /\ frame'.time \in Numbers /\ frame'.time > frame'.img =>
              \E n \in wire["img"] : n >= frame'.time
         /\ {frame.time, frame'.time} \subseteq Numbers => frame.time <= frame'.time]_linkVars

(* Bridge and node find each other in whatever order they start: where     *)
(* both keep running, VSLAM gets initialised and the bridge gets its ACK.  *)
Both == bridge.up /\ node.pc # "down"
HandshakeCompletes == <>[]Both => <>[](bridge.acked /\ node.agent)

(* Why: a node that has not initialised VSLAM and is no latecomer has not  *)
(* been answered by anybody, so the bridge sends nothing yet.              *)
Unanswered ==
    /\ bridge.acked => bridge.up
    /\ (wire["img"] # {} \/ wire["timestep"] # {}) => bridge.acked
    /\ node.pc = "down" => slot = Nothing /\ ~node.acks /\ ~node.agent
    /\ node.pc = "track" => node.agent
    /\ node.pc = "idle" /\ ~node.agent /\ ~node.late =>
         ~bridge.acked /\ ~ack /\ ~node.acks /\ slot["img"] = {}

(* Why: the topics keep their order and the newest message of each.        *)
Ordered ==
    /\ \A t \in Topics : /\ \A n \in wire[t] : n = frames
                         /\ \A n \in slot[t] : n <= frames
    /\ timeStep \in Numbers =>
         timeStep <= frames /\ \A n \in slot["timestep"] : timeStep <= n
    /\ frame.time \in Numbers => timeStep \in Numbers /\ frame.time <= timeStep

(* Why: until a topic has been cut, its newest message is the last frame's,*)
(* so the time of an image is taken or waits, and an image that waits in   *)
(* the node is the last one or has a later one behind it.                  *)
TimeAtHand ==
    node.pc # "down" => \A i \in Waiting("img") : i > cut =>
        \/ timeStep \in Numbers /\ timeStep >= i
        \/ \E n \in Waiting("timestep") : n >= i

ImageAtHand ==
    \A i \in slot["img"] : i > cut /\ i < frames => wire["img"] # {}

StreamInv == StreamTypeOK /\ Unanswered /\ Ordered /\ TimeAtHand /\ ImageAtHand
==============================================================================
