----------------------------- MODULE MCPlayback -----------------------------
(* Two clips of a playlist, the second from the middle of its file; a turn *)
(* is two frames and the read-ahead four, so that clips and reads begin    *)
(* and end inside buffers.                                                 *)
EXTENDS Playback

MCClips == <<[start |-> 1, fileStart |-> 0, length |-> 9],
             [start |-> 10, fileStart |-> 2, length |-> 3]>>
MCPositions == {5}
=============================================================================
