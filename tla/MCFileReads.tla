----------------------------- MODULE MCFileReads -----------------------------
(* Two slots of a clip, three reads and queues that hold two messages:     *)
(* requests, disposals and completions cross, and the queues fill.         *)
EXTENDS FileReads, TLC

CONSTANTS s1, s2

MCSlot == {s1, s2}
Symmetry == Permutations(MCSlot)
=============================================================================
