--------------------------- MODULE MCBufferManager ---------------------------
(* Two buffers wanted and two output channels, so that the pool is short,  *)
(* exactly full and overfull within a few requests, and a turn can find    *)
(* one buffer out of two.                                                  *)
EXTENDS BufferManager
=============================================================================
