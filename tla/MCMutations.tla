----------------------------- MODULE MCMutations -----------------------------
(* Three processes and queues of two messages: a change, a recording and a *)
(* question cross with the engine's requests for reads, and the queues     *)
(* overflow.                                                               *)
EXTENDS Mutations
=============================================================================
