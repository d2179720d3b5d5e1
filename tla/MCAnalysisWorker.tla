-------------------------- MODULE MCAnalysisWorker --------------------------
(* Small instances of AnalysisWorker: every job belongs to the one user    *)
(* and the one repository of the instance.                                 *)
EXTENDS AnalysisWorker, TLC

MCOwnerOf == [j \in Jobs |-> CHOOSE u \in Users : TRUE]
MCRepoOf == [j \in Jobs |-> CHOOSE r \in Repos : TRUE]

(* Invocations are interchangeable.                                        *)
WorkerSymmetry == Permutations(Workers)
=============================================================================
