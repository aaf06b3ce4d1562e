---------------------------- MODULE MCWorkerLoop ----------------------------
(* WorkerLoop for TLC: up to three requests, of three kinds, and two models. *)
EXTENDS WorkerLoop, TLC

CONSTANTS r1, r2, r3, m1, m2

\* The requests beyond those of the instance are not used.
KindOf == [r \in Requests |-> CASE r = r1 -> "chat" [] r = r2 -> "image" [] r = r3 -> "embeddings"]
WantsOf == [r \in Requests |-> IF r = r1 THEN m1 ELSE m2]
=============================================================================
