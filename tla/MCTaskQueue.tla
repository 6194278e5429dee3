---------------------------- MODULE MCTaskQueue ----------------------------
(* Instances of TaskQueue for TLC. *)
EXTENDS TaskQueue, TLC

\* The default of settings.worker_id: an embedded and a standalone worker that
\* share it.
SharedWorkerId == [p \in Proc |-> "worker-1"]

ProcSymmetry == Permutations(Proc) \cup Permutations(Client)
=============================================================================
