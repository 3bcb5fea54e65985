--------------------------- MODULE SampleConversion ---------------------------
(***************************************************************************)
(* How samples become the bytes of an interface or of a WAV file, and come *)
(* back (src/SampleConversion.cpp, Recorder::write_buffers() and           *)
(* AudioFile::play_into_buffers()).                                        *)
(*                                                                         *)
(* A sample is a float; here it is an integer, in units of 1/Unit of full  *)
(* scale.  The rounding of the float product, half a unit in its last      *)
(* place, is left out, but 0x7FFFFFFF is 2^31 when it becomes a float.     *)
(* Memory is a function from addresses to bytes.  Frames are `step' bytes  *)
(* apart, and channels lie between each other.                             *)
(***************************************************************************)
EXTENDS Integers, Sequences

Unit == 16777216

\* Bytes of a frame, the level of 1.0, and the order of the bytes.
Format(size, full, order) == [size |-> size, full |-> full, order |-> order]

S32_LE == Format(4, 2147483648, "little")
S32_BE == Format(4, 2147483648, "big")
S24_LE == Format(3, 8388607, "little")
S24_BE == Format(3, 8388607, "big")
S16_LE == Format(2, 32767, "little")
S16_BE == Format(2, 32767, "big")
Formats == {S32_LE, S32_BE, S24_LE, S24_BE, S16_LE, S16_BE}

\* The weight of a byte; and where it is in a frame, or which one is there.
Weight(j) == CASE j = 0 -> 1 [] j = 1 -> 256 [] j = 2 -> 65536
               [] j = 3 -> 16777216 [] j = 4 -> 4294967296
Place(f, j) == IF f.order = "little" THEN j ELSE f.size - 1 - j

Byte(v, j) == (v \div Weight(j)) % 256

-----------------------------------------------------------------------------
(* From samples to bytes: to_32() and its like.                            *)

Clipped(s) == IF s > Unit THEN Unit ELSE IF s < -Unit THEN -Unit ELSE s

\* A conversion to an integer drops the fraction.
Level(f, s) == IF s >= 0 THEN (Clipped(s) * f.full) \div Unit
               ELSE -((-Clipped(s) * f.full) \div Unit)

\* The memory when a channel's samples are in it, from `start' on.
Converted(f, in, out, start, step) ==
  [a \in DOMAIN out |->
     LET i == (a - start) \div step
         k == (a - start) % step
     IN  IF a >= start /\ i < Len(in) /\ k < f.size
         THEN Byte(Level(f, in[i + 1]), Place(f, k))
         ELSE out[a]]

\* to_16() is given a step too, but puts one byte after the other, and the low
\* one of each sample only.
to_16(in, out, start) ==
  [a \in DOMAIN out |-> IF a - start \in 0 .. Len(in) - 1
                        THEN Byte(Level(S16_LE, in[a - start + 1]), 0)
                        ELSE out[a]]

-----------------------------------------------------------------------------
(* From bytes to samples: from_32() and its like.                          *)

\* from_24_be() takes the byte after the frame for its last one.
ByteAt(f, j) == IF f = S24_BE /\ j = 0 THEN 3 ELSE Place(f, j)

Part(f, data, p, j) ==
  IF j < f.size THEN Weight(j) * data[p + ByteAt(f, j)] ELSE 0

Unsigned(f, data, p) == Part(f, data, p, 0) + Part(f, data, p, 1)
                          + Part(f, data, p, 2) + Part(f, data, p, 3)

\* The level at an address; the sample is this divided by f.full.
Restored(f, data, p) ==
  LET u == Unsigned(f, data, p)
  IN  IF 2 * u >= Weight(f.size) THEN u - Weight(f.size) ELSE u

-----------------------------------------------------------------------------
(* A recorded file and what is heard of it.                                *)

\* write_buffers() puts a channel of the file among the others.
Written(in, buffer, channel, channels) ==
  Converted(S24_LE, in, buffer, 3 * channel, 3 * channels)

\* Where play_into_buffers() finds a frame of a channel.
Position(size, channel, channels, frame) == size * (frame * channels + channel)

\* What it makes of a little-endian sample, in units of 2^-31: the bytes go to
\* the upper end of a 32-bit number.
Heard(f, data, p) == Weight(4 - f.size) * Restored(f, data, p)

\* The channel of the file that an output gets; a mono file is for them all.
\* -1: none.
SourceChannel(output, channels) ==
  IF channels = 1 THEN 0 ELSE IF output < channels THEN output ELSE -1
=============================================================================
