------------------------------ MODULE MCService ------------------------------
(***************************************************************************)
(* Instances of three background workers of the service that share no      *)
(* state: the distillation batcher and promoter (Distillation), the queue  *)
(* of asynchronous consolidation (ConsolidateQueue) and the chunk backfill *)
(* (Chunks).  A behaviour is a behaviour of one of them, the others at     *)
(* rest.                                                                   *)
(***************************************************************************)
EXTENDS Distillation, ConsolidateQueue, Chunks

\* Sessions are interchangeable: the captures that are written over come from a
\* given one, if from any.
MCSessionsOf ==
    [c \in Captures |-> IF c \in Edited THEN {CHOOSE s \in Sessions : TRUE, NoSession}
                                         ELSE Sessions \cup {NoSession}]

VARIABLE worked

ServiceInit ==
    /\ worked \in {"distillation", "queue", "chunks"}
    /\ DistillationInit /\ QueueInit /\ ChunkInit
    /\ worked # "chunks" => doc = [d \in Docs |-> NoDoc]

ServiceVars == <<worked, distillationVars, queueVars, chunkVars>>

ServiceNext ==
    \/ /\ worked = "distillation" /\ DistillationNext
       /\ UNCHANGED <<worked, queueVars, chunkVars>>
    \/ /\ worked = "queue" /\ QueueNext
       /\ UNCHANGED <<worked, distillationVars, chunkVars>>
    \/ /\ worked = "chunks" /\ ChunkNext
       /\ UNCHANGED <<worked, distillationVars, queueVars>>

\* At rest nothing of Distillation or ConsolidateQueue is enabled; the ticker of
\* Chunks is.
ServiceFairness ==
    /\ DistillationFairness
    /\ QueueFairness
    /\ WF_chunkVars(worked = "chunks" /\ Walk)
    /\ WF_chunkVars(worked = "chunks" /\ EmbedderReturns)

ServiceSpec == ServiceInit /\ [][ServiceNext]_ServiceVars /\ ServiceFairness

\* Every variable of the workers has its type.
ServiceTypeOK == DistillationTypeOK /\ QueueTypeOK /\ ChunkTypeOK
=============================================================================
