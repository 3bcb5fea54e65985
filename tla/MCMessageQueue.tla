--------------------------- MODULE MCMessageQueue ---------------------------
(* A ring of three slots, a plain type and a type with two parameters:  *)
(* the indices wrap, the queue fills, and a slot changes between plain     *)
(* messages and messages with a parameter.                                 *)
EXTENDS MessageQueue

CONSTANTS ContinueProcess, Play, p1, p2

MCPlainType == {Play}
MCParamType == {ContinueProcess}
MCParam == {p1, p2}
=============================================================================
