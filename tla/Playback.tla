------------------------------ MODULE Playback ------------------------------
(***************************************************************************)
(* What the engine does to hear a playlist (src/Clip.cpp, src/Playlist.cpp *)
(* and the transport of src/AudioEngine.cpp).  In each turn the clips      *)
(* around the play head ask for the stretch of their file that comes next, *)
(* give back the one that is behind, and mix what has arrived into the     *)
(* buffer of the turn.  A clip follows the file with a position of its own *)
(* (play_frame), which is set from the play head when the clip begins to   *)
(* play and counted on from there.                                         *)
(*                                                                         *)
(* Time is counted in frames and the files have the rate of the engine.    *)
(* How a read travels to the DAW and back is the subject of FileReads:     *)
(* here it is asked for, and ready some time later, or too late.           *)
(***************************************************************************)
EXTENDS Integers, Sequences, FiniteSetsExt

CONSTANTS Clips,       \* the playlist: start, fileStart, length of each clip
          BufferSize,  \* cur_buffer_size
          ReadAhead,   \* frames in read_ahead_seconds
          NumReads,    \* slots of a clip (2)
          PoolGoal,    \* free requests the engine wants (40)
          Offset,      \* recording_buffers_offset (2)
          Delay,       \* turns a read is to be asked for before it is needed
          Positions,   \* bound: where the user seeks
          LastFrame,   \* bound: where the play head waits for the user
          None

ASSUME PlaybackAssumption ==
  /\ Clips \in Seq([start : Nat, fileStart : Nat, length : Nat])
  /\ BufferSize \in Nat \ {0} /\ ReadAhead \in Nat \ {0}
  /\ NumReads \in Nat \ {0} /\ PoolGoal \in Nat /\ Offset \in Nat
  /\ Delay \in Nat /\ Positions \subseteq Nat /\ LastFrame \in Nat
  /\ None \notin Int
  /\ None \notin [start : Nat, length : Nat]
  /\ None \notin [start : Nat, length : Nat, ready : BOOLEAN, age : Nat]

Slot == 1 .. NumReads
Frame == 0 .. BufferSize - 1 \* of a buffer

VARIABLES playing, playHead, playStart, \* the engine's transport
          recording, countdown, \* recording, stop_recording_in_buffers
          armed,    \* record_armed of the track
          first,    \* first_playing_clip
          clips,    \* clip |-> playing, frame (play_frame), reads (its slots)
          free,     \* num_free_read_requests
          since,    \* turns since the playlist was prepared, up to Delay
          inStep,   \* clips that have lost no frame since they began
          behind,   \* a turn has gone by without the playlist since then
          starved,  \* a read has not been asked for for want of a request
          overflow  \* a read has not been asked for for want of a slot

transportVars == <<playing, playHead, playStart, recording, countdown>>
playlistVars == <<first, clips, free, inStep, starved, overflow>>
turnVars == <<since, behind>>
vars == <<transportVars, armed, playlistVars, turnVars>>

End(c) == Clips[c].start + Clips[c].length
FileEnd(c) == Clips[c].fileStart + Clips[c].length

\* The frame of the file that belongs to a time, inside the clip or not.
FrameAt(c, time) == time - Clips[c].start + Clips[c].fileStart

Quiet == [c \in DOMAIN Clips |-> [i \in Frame |-> None]]

-----------------------------------------------------------------------------
(* Clip::read_ahead().                                                     *)

ReadEnd(r) == r.start + r.length
Loaded(reads) == {reads[s] : s \in Slot} \ {None}

\* Broken variant: the next read is asked for when the last one is in use.
StretchLate(c, head, reads) ==
  LET last == Max({ReadEnd(r) - 1 : r \in Loaded(reads)} \cup {-1})
      next == FrameAt(c, head)
      start == IF last >= 0 THEN last + 1
               ELSE Max({next, Clips[c].fileStart})
  IN  IF /\ next + ReadAhead >= Clips[c].fileStart
         /\ last < next
         /\ start < FileEnd(c)
      THEN [start |-> start, length |-> Min({ReadAhead, FileEnd(c) - start})]
      ELSE None
\* Broken variant: the next read begins where the play head is.
StretchAgain(c, head, reads) ==
  LET last == Max({ReadEnd(r) - 1 : r \in Loaded(reads)} \cup {-1})
      next == FrameAt(c, head)
      start == Max({next, Clips[c].fileStart})
  IN  IF /\ next + ReadAhead >= Clips[c].fileStart
         /\ last < next + ReadAhead
         /\ start < FileEnd(c)
      THEN [start |-> start, length |-> Min({ReadAhead, FileEnd(c) - start})]
      ELSE None
\* The stretch to ask for next, or None: up to the read-ahead point, after
\* the last one asked for, inside the clip.
Stretch(c, head, reads) ==
  LET last == Max({ReadEnd(r) - 1 : r \in Loaded(reads)} \cup {-1})
      next == FrameAt(c, head)
      start == IF last >= 0 THEN last + 1
               ELSE Max({next, Clips[c].fileStart})
  IN  IF /\ next + ReadAhead >= Clips[c].fileStart
         /\ last < next + ReadAhead
         /\ start < FileEnd(c)
      THEN [start |-> start, length |-> Min({ReadAhead, FileEnd(c) - start})]
      ELSE None

\* Broken variant: a read is kept for one turn more.
StillNeededLonger(c, head, r) ==
  /\ FrameAt(c, head) < ReadEnd(r) + BufferSize
  /\ r.start <= FrameAt(c, head) + ReadAhead
\* Reads behind the play head or beyond the read-ahead point are disposed.
StillNeeded(c, head, r) == /\ FrameAt(c, head) < ReadEnd(r)
                           /\ r.start <= FrameAt(c, head) + ReadAhead

\* Disposes, and starts a read if there are a slot and a request for it.
\* `acc' carries the clips, the pool and what went wrong.
ReadAheadOf(c, head, acc) ==
  LET reads == [s \in Slot |->
                  IF acc.clips[c].reads[s] = None THEN None
                  ELSE IF StillNeeded(c, head, acc.clips[c].reads[s])
                       THEN acc.clips[c].reads[s] ELSE None]
      stretch == Stretch(c, head, reads)
      empty == {s \in Slot : reads[s] = None}
      kept == [acc EXCEPT !.clips[c].reads = reads]
  IN  IF stretch = None THEN kept
      ELSE IF empty = {} THEN [kept EXCEPT !.overflow = TRUE]
      ELSE IF acc.free = 0 THEN [kept EXCEPT !.starved = TRUE]
      ELSE [kept EXCEPT
              !.clips[c].reads[Min(empty)] =
                 [start |-> stretch.start, length |-> stretch.length,
                  ready |-> FALSE, age |-> 0],
              !.free = acc.free - 1]

-----------------------------------------------------------------------------
(* Clip::run().  `st': out (start_out_frame), frame (play_frame), playing, *)
(* whether the buffer is done, what is heard, a miss, a lost position.     *)

Copied(st, r) ==
  LET n == Min({BufferSize - st.out, ReadEnd(r) - st.frame})
  IN  [st EXCEPT !.out = @ + n,
                 !.frame = @ + n,
                 !.heard = [i \in Frame |-> IF i \in st.out .. st.out + n - 1
                                            THEN st.frame + i - st.out
                                            ELSE st.heard[i]]]

\* Broken variant: a read that is not there is waited for.
GivenUpWaits(st) == [st EXCEPT !.done = TRUE]
\* "We've got nothing for this entire buffer."
GivenUp(st) == [st EXCEPT !.frame = @ + BufferSize,
                          !.done = TRUE,
                          !.lost = st.out > 0]

\* Once around the loop: the end, a copy, a jump to the next read, or silence.
CopyStep(c, reads, st) ==
  LET here == {s \in Slot : /\ reads[s] # None
                            /\ reads[s].start <= st.frame
                            /\ st.frame < ReadEnd(reads[s])}
      later == {s \in Slot : /\ reads[s] # None
                             /\ st.frame < reads[s].start
                             /\ ReadEnd(reads[s])
                                  < st.frame + BufferSize - st.out}
  IN  IF st.done \/ st.out >= BufferSize THEN st
      ELSE IF st.frame >= FileEnd(c)
           THEN [st EXCEPT !.playing = FALSE, !.done = TRUE]
      ELSE IF here # {} /\ reads[Min(here)].ready
           THEN Copied(st, reads[Min(here)])
      ELSE IF later = {} THEN GivenUp([st EXCEPT !.missed = TRUE])
      ELSE LET r == reads[Min(later)]
               jumped == [st EXCEPT !.missed = TRUE,
                                    !.out = @ + r.start - st.frame,
                                    !.frame = r.start]
           IN  IF r.ready THEN Copied(jumped, r) ELSE GivenUp(jumped)

\* Where a clip begins in this turn, or goes on.
Entered(c, head, clip) ==
  LET st == [playing |-> TRUE, frame |-> clip.frame, out |-> 0, done |-> FALSE,
             heard |-> [i \in Frame |-> None], missed |-> FALSE, lost |-> FALSE]
  IN  IF clip.playing THEN st
      ELSE IF head > Clips[c].start
           THEN [st EXCEPT !.frame = FrameAt(c, head)]
           ELSE [st EXCEPT !.frame = Clips[c].fileStart,
                           !.out = Clips[c].start - head]

\* Where the loop has come to: each time but the last copies a frame.
Copying(c, head, clip) ==
  LET copied[n \in 0 .. BufferSize + 1] ==
        IF n = 0 THEN Entered(c, head, clip)
                 ELSE CopyStep(c, clip.reads, copied[n - 1])
  IN  copied[BufferSize + 1]

RunClip(c, head, acc) ==
  LET clip == acc.clips[c]
      st == Copying(c, head, clip)
  IN  IF ~clip.playing /\ head + BufferSize < Clips[c].start THEN acc
      ELSE [acc EXCEPT
              !.clips[c].playing = st.playing,
              !.clips[c].frame = st.frame,
              !.heard[c] = st.heard,
              !.missed = IF st.missed THEN @ \cup {c} ELSE @,
              !.inStep = IF st.lost THEN @ \ {c}
                         ELSE IF clip.playing THEN @ ELSE @ \cup {c}]

-----------------------------------------------------------------------------
(* Playlist::prepare_to_play() and run().                                  *)

\* What `acc' starts from, and where it goes.
Acc == [clips |-> clips, free |-> free, starved |-> starved,
        overflow |-> overflow, inStep |-> inStep, heard |-> Quiet,
        missed |-> {}, first |-> first, over |-> FALSE]

Prepare(head, acc, c) ==
  ReadAheadOf(c, head, [acc EXCEPT !.clips[c].playing = FALSE,
                                   !.clips[c].frame = FrameAt(c, head)])

\* Every clip is stopped and reads ahead; the first that is not past is the
\* first to play.
PreparedFrom(head, acc0) ==
  LET prepared[n \in 0 .. Len(Clips)] ==
        IF n = 0 THEN acc0 ELSE Prepare(head, prepared[n - 1], n)
      ahead == {c \in DOMAIN Clips : End(c) > head} \cup {Len(Clips) + 1}
  IN  [prepared[Len(Clips)] EXCEPT !.first = Min(ahead)]

\* Project::prepare_to_play(), at the new play head.
PrepareToPlay ==
  LET acc == PreparedFrom(playHead', [Acc EXCEPT !.starved = FALSE])
  IN  /\ clips' = acc.clips /\ free' = acc.free /\ first' = acc.first
      /\ starved' = acc.starved /\ overflow' = acc.overflow
      /\ inStep' = DOMAIN Clips
      /\ since' = 0 /\ behind' = FALSE

\* One clip of the walk of run(), which starts at first_playing_clip and ends
\* at the first clip beyond the read-ahead point.
Visit(head, acc, c) ==
  LET ahead == ReadAheadOf(c, head, acc)
      passed == IF head > End(c) THEN [ahead EXCEPT !.first = c + 1] ELSE ahead
  IN  IF acc.over \/ c < first THEN acc
      ELSE IF head + ReadAhead < Clips[c].start THEN [passed EXCEPT !.over = TRUE]
      ELSE RunClip(c, head, passed)

\* The whole walk: the clips and what they mix into the buffer of the turn.
Mixed == LET visited[n \in 0 .. Len(Clips)] ==
               IF n = 0 THEN Acc ELSE Visit(playHead, visited[n - 1], n)
         IN  visited[Len(Clips)]

RunPlaylist ==
  LET acc == Mixed
      Older(r) == IF r = None \/ r.age = Delay THEN r ELSE [r EXCEPT !.age = @ + 1]
  IN  /\ clips' = [c \in DOMAIN Clips |->
                     [acc.clips[c] EXCEPT
                        !.reads = [s \in Slot |-> Older(acc.clips[c].reads[s])]]]
      /\ free' = acc.free /\ first' = acc.first /\ starved' = acc.starved
      /\ overflow' = acc.overflow /\ inStep' = acc.inStep
      /\ since' = Min({Delay, since + 1})
      /\ UNCHANGED behind

\* Track::run(): an armed track does not play what it records.
PlaylistRuns == playing /\ ~(armed /\ recording)

\* A turn that leaves the playlist out: a clip that was playing stays where
\* it was.
SkipPlaylist == /\ inStep' = inStep \ {c \in DOMAIN Clips : clips[c].playing}
                /\ behind' = (behind \/ playing)
                /\ UNCHANGED <<first, clips, free, starved, overflow, since>>

-----------------------------------------------------------------------------
(* The engine.                                                             *)

NewRead == [c \in DOMAIN Clips |-> [playing |-> FALSE, frame |-> 0,
                                    reads |-> [s \in Slot |-> None]]]

\* A project has been installed.
Init == /\ playing = FALSE /\ playHead = 0 /\ playStart = 0
        /\ recording = FALSE /\ countdown = 0
        /\ armed = TRUE
        /\ LET acc == PreparedFrom(0,
                        [clips |-> NewRead, free |-> PoolGoal, starved |-> FALSE,
                         overflow |-> FALSE, inStep |-> {}, heard |-> Quiet,
                         missed |-> {}, first |-> 1, over |-> FALSE])
           IN  /\ clips = acc.clips /\ free = acc.free /\ first = acc.first
               /\ starved = acc.starved /\ overflow = acc.overflow
        /\ inStep = DOMAIN Clips
        /\ since = 0 /\ behind = FALSE

\* play(): from where the last command left the play head.
Play == /\ playing' = TRUE
        /\ UNCHANGED <<playHead, playStart, recording, countdown, armed,
                       playlistVars, turnVars>>

\* stop(): a recording goes on for some turns.
Stop == /\ playing' = FALSE
        /\ playHead' = playStart
        /\ countdown' = IF recording THEN Offset + 1 ELSE countdown
        /\ PrepareToPlay
        /\ UNCHANGED <<playStart, recording, armed>>

Pause == /\ playing' = FALSE
         /\ playStart' = playHead
         /\ recording' = FALSE
         /\ playHead' = playHead
         /\ PrepareToPlay
         /\ UNCHANGED <<countdown, armed>>

\* rewind() and SeekProcess::next().
Seek(position) == /\ playing' = FALSE
                  /\ playHead' = position
                  /\ playStart' = position
                  /\ PrepareToPlay
                  /\ UNCHANGED <<recording, countdown, armed>>

StopPlay == IF playing THEN Stop ELSE Play
PausePlay == IF playing THEN Pause ELSE Play

\* start_recording(); the new clips play no part here (see Recording).
StartRecording == /\ playing' = TRUE
                  /\ recording' = TRUE
                  /\ countdown' = 0
                  /\ UNCHANGED <<playHead, playStart, armed, playlistVars, turnVars>>

\* ArmTrackProcess and UnarmTrackProcess.
SetArmed == /\ armed' = ~armed
            /\ UNCHANGED <<transportVars, playlistVars, turnVars>>

\* A turn of run(): the tracks, unless a buffer is missing; then the play
\* head moves, and a recording that is to stop comes nearer to its end.
Turn(buffers) ==
  /\ playing => playHead <= LastFrame
  /\ playing \/ recording
  /\ IF buffers /\ PlaylistRuns THEN RunPlaylist ELSE SkipPlaylist
  /\ playHead' = IF playing THEN playHead + BufferSize ELSE playHead
  /\ LET ending == recording /\ countdown > 0
     IN  /\ countdown' = IF ending THEN countdown - 1 ELSE countdown
         /\ recording' = (recording /\ ~(ending /\ countdown = 1))
  /\ UNCHANGED <<playing, playStart, armed>>

\* A supply of requests arrives.
Supplied == /\ \E n \in free + 1 .. PoolGoal : free' = n
            /\ UNCHANGED <<transportVars, armed, first, clips, inStep, starved,
                           overflow, turnVars>>

\* The DAW finds a read complete and marks it playable.
ReadCompletes(c, s) ==
  /\ clips[c].reads[s] # None
  /\ ~clips[c].reads[s].ready
  /\ clips' = [clips EXCEPT ![c].reads[s].ready = TRUE]
  /\ UNCHANGED <<transportVars, armed, first, free, inStep, starved, overflow,
                 turnVars>>

Next == \/ Play \/ Stop \/ Pause \/ StopPlay \/ PausePlay
        \/ \E p \in Positions \cup {0} : Seek(p)
        \/ StartRecording \/ SetArmed
        \/ \E buffers \in BOOLEAN : Turn(buffers)
        \/ Supplied
        \/ \E c \in DOMAIN Clips, s \in Slot : ReadCompletes(c, s)

Spec == Init /\ [][Next]_vars

-----------------------------------------------------------------------------
\* The frame of the file the timeline calls for at a time, if any.
Due(c, time) == IF Clips[c].start <= time /\ time < End(c)
                THEN FrameAt(c, time) ELSE None

Holds(r, frame) == r.start <= frame /\ frame < ReadEnd(r)

\* What a clip mixes into the next buffer is what the timeline calls for, to
\* the frame, at its beginning, its end and where two reads meet; a read that
\* is late costs silence and nothing else, until a clip loses its place in
\* the middle of a buffer (Clip::run(), Playlist::run()).
HeardInStep ==
  PlaylistRuns =>
    LET acc == Mixed
    IN  \A c \in acc.inStep, i \in Frame :
          \/ acc.heard[c][i] = Due(c, playHead + i)
          \/ acc.heard[c][i] = None /\ c \in acc.missed

\* Every frame that is due has been asked for long enough before, whatever
\* the user did with the transport and whatever the state of the slots: what
\* is missed is missed because of a slow disk, an exhausted pool, turns that
\* left the playlist out, or a read that the last command left ahead of the
\* play head (Clip::read_ahead()).
AskedForInTime ==
  PlaylistRuns /\ since = Delay /\ ~behind =>
    LET acc == Mixed
    IN  ~acc.starved =>
          \A c \in DOMAIN Clips, i \in Frame :
            LET frame == Due(c, playHead + i)
                reads == Loaded(acc.clips[c].reads)
            IN  \/ frame = None
                \/ \E r \in reads : Holds(r, frame) /\ r.age = Delay
                \/ reads # {} /\ \A r \in reads : frame < r.start

\* No stretch of a file is asked for twice, or beyond the clip: the reads of
\* a clip do not overlap and lie between its ends (Clip::read_ahead()).
ReadsDisjoint ==
  \A c \in DOMAIN Clips :
    /\ \A r \in Loaded(clips[c].reads) :
         /\ r.length > 0
         /\ Clips[c].fileStart <= r.start /\ ReadEnd(r) <= FileEnd(c)
    /\ \A s, t \in Slot :
         LET r == clips[c].reads[s]
             q == clips[c].reads[t]
         IN  s # t /\ r # None /\ q # None =>
               ReadEnd(r) <= q.start \/ ReadEnd(q) <= r.start

\* The two slots of a clip are enough: when a stretch is to be asked for, one
\* is empty (Clip::start_read()).
SlotsSuffice == ~overflow

\* "Read whatever we need up to the read_ahead_point": after a command has
\* prepared the playlist, every frame from the play head to the read-ahead
\* point is in a read (Clip::read_ahead()).
AheadIsCovered ==
  since = 0 /\ ~behind /\ ~starved =>
    \A c \in DOMAIN Clips, i \in 0 .. ReadAhead - 1 :
      LET frame == Due(c, playHead + i)
      IN  \/ frame = None
          \/ \E r \in Loaded(clips[c].reads) : Holds(r, frame)
=============================================================================
