---------------------------- MODULE OccupancyMap ----------------------------
(***************************************************************************)
(* occupancy_map_cpp/src/occupancy_map_node.cpp: two synchronizers put     *)
(* metric frames in a queue, a worker thread inserts them into the OcTree, *)
(* a callback opens the gate for a new map or resets the tree, and a timer *)
(* publishes the tree.  octree_mutex_ makes each of the last three one     *)
(* step; queue_mutex_ each access to the queue.                            *)
(*                                                                         *)
(* A job is the map of a frame and the transform it was registered with;   *)
(* the OcTree is the set of the jobs inserted since its last reset.  The   *)
(* frame_id of the published message is left out.                          *)
(***************************************************************************)
EXTENDS Naturals, Sequences

CONSTANT
    MaxJobs,        \* bound: jobs in the queue and in the worker's hands
    GroundMap       \* map_id 0, which needs no alignment

ASSUME JobsAssumption == MaxJobs \in Nat

VARIABLES
    jobQueue,       \* job_queue_
    batch,          \* jobs_to_process
    gate,           \* map_ids_already_aligned_
    octree,         \* octree_
    forcePublish,   \* force_publish_next_tick_
    published,      \* the last map on TOPIC_OCCUPANCY_GRID
    missed          \* history: the publication of an empty tree failed, and
                    \* nothing has been published since

publication == <<forcePublish, published, missed>>
occupancyVars == <<jobQueue, batch, gate, octree, publication>>

OccupancyInit ==
    /\ jobQueue = <<>> /\ batch = <<>> /\ gate = {}
    /\ octree = {} /\ forcePublish = FALSE /\ published = {} /\ missed = FALSE

SyncedCallback(job) ==
    /\ Len(jobQueue) + Len(batch) < MaxJobs
    /\ jobQueue' = Append(jobQueue, job)
    /\ UNCHANGED <<batch, gate, octree, publication>>

\* The worker swaps the queue with its empty batch.
WorkerTakes ==
    /\ batch = <<>> /\ jobQueue # <<>>
    /\ batch' = jobQueue /\ jobQueue' = <<>>
    /\ UNCHANGED <<gate, octree, publication>>

\* Mutant: the gate is not looked at.
WorkerInsertsAll ==
    /\ batch # <<>>
    /\ octree' = octree \cup {Head(batch)}
    /\ batch' = Tail(batch)
    /\ UNCHANGED <<jobQueue, gate, publication>>

\* A job of a map without its alignment message is skipped.
WorkerInserts ==
    /\ batch # <<>>
    /\ octree' = IF Head(batch).map = GroundMap \/ Head(batch).map \in gate
                   THEN octree \cup {Head(batch)} ELSE octree
    /\ batch' = Tail(batch)
    /\ UNCHANGED <<jobQueue, gate, publication>>

\* Mutant: the reset is not published before the tree has content again.
MapAlignmentCallbackQuietly(m, accepted) ==
    /\ gate' = gate \cup {m}
    /\ octree' = IF m \in gate \/ accepted THEN octree ELSE {}
    /\ forcePublish' = forcePublish
    /\ UNCHANGED <<jobQueue, batch, published, missed>>

\* Once per map: the gate opens, and a rejection resets the tree.
MapAlignmentCallback(m, accepted) ==
    /\ gate' = gate \cup {m}
    /\ octree' = IF m \in gate \/ accepted THEN octree ELSE {}
    /\ forcePublish' = (m \notin gate \/ forcePublish)
    /\ UNCHANGED <<jobQueue, batch, published, missed>>

\* An empty tree is published only when forced; the force is spent before the
\* tree is serialized, which may fail.
PublishTimer(serialized) ==
    /\ octree # {} \/ forcePublish
    /\ forcePublish' = FALSE
    /\ published' = IF serialized THEN octree ELSE published
    /\ missed' = (~serialized /\ (octree = {} \/ missed))
    /\ UNCHANGED <<jobQueue, batch, gate, octree>>
=============================================================================
