---------------------------- MODULE MCWorkerLease ----------------------------
(* Three processes, two of them started under the same WORKER_NAME. *)
EXTENDS WorkerLease, TLC

CONSTANTS p1, p2, p3, w1, w2

MCWorkerOf == (p1 :> w1) @@ (p2 :> w1) @@ (p3 :> w2)

(* The two processes with the same name are interchangeable. *)
Twins == Permutations({p1, p2})
=============================================================================
