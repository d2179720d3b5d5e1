------------------------- MODULE MCWorkerRedelivery -------------------------
(* Small instances of WorkerRedelivery, as MCAnalysisWorker for            *)
(* AnalysisWorker.                                                         *)
EXTENDS WorkerRedelivery, TLC

MCOwnerOf == [j \in Jobs |-> CHOOSE u \in Users : TRUE]
MCRepoOf == [j \in Jobs |-> CHOOSE r \in Repos : TRUE]
=============================================================================
