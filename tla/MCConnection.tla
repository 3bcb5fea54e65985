---------------------------- MODULE MCConnection ----------------------------
(***************************************************************************)
(* A small instance of Connection for TLC: the requests of the UI and      *)
(* frames that fill the buffer, wrap the mask, come in fragments, are       *)
(* interrupted by control frames or have no data.  Of two long header      *)
(* lines one just fits and one does not.                                   *)
(***************************************************************************)
EXTENDS Connection

Of(verb, later, content) ==
  [verb |-> verb, later |-> later, lines |-> <<2, 2, 2>>, content |-> content]
LongHeader(length) == [verb |-> "Api", later |-> FALSE, content |-> 0,
                       lines |-> <<5, length, 2>>]
FrameOf(opcode, final, masked, length) ==
  [opcode |-> opcode, final |-> final, masked |-> masked, length |-> length]

MCRequests == {Of("Api", TRUE, 0), Of("Missing", FALSE, 0),
               Of("Put", TRUE, 2), Of("Put", FALSE, 0),
               Of("BadHeader", FALSE, 0), Of("Upgrade", FALSE, 0),
               Of("BadUpgrade", FALSE, 0),
               LongHeader(7), LongHeader(8)}

MCFrames == {FrameOf("Text", TRUE, TRUE, 6), FrameOf("Text", FALSE, TRUE, 1),
             FrameOf("Text", TRUE, FALSE, 1),
             FrameOf("Continuation", TRUE, TRUE, 6),
             FrameOf("Continuation", TRUE, TRUE, 0),
             FrameOf("Ping", TRUE, FALSE, 1), FrameOf("Ping", TRUE, FALSE, 0),
             FrameOf("Close", TRUE, TRUE, 2),
             FrameOf("Text", TRUE, TRUE, 7)}
=============================================================================
