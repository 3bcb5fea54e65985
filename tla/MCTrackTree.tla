----------------------------- MODULE MCTrackTree -----------------------------
(* A project file of two tracks, side by side or one inside the other,     *)
(* and room for two more; three deletions.                                 *)
EXTENDS TrackTree
=============================================================================
