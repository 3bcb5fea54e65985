------------------------------ MODULE Recording ------------------------------
(***************************************************************************)
(* Recording (src/Recorder.cpp, src/RecordBuffers.cpp and the recording    *)
(* part of src/AudioEngine.cpp).  "record" makes the DAW open a file and   *)
(* send the engine a clip and a supply of record buffers.  While it        *)
(* records, the engine fills a record buffer in each turn and sends it to  *)
(* the DAW, which writes it to the file and sends it back.  "stop" takes   *)
(* effect some turns later: what is captured lags behind what is played,   *)
(* so the first buffers of a take are skipped by the clip and as many are  *)
(* recorded after the stop.  Then the engine has the file closed, gives up *)
(* its free record buffers, and the ones in flight come back later.        *)
(*                                                                         *)
(* One track is armed; with several the same is done to each.  A recorded  *)
(* buffer is the pair of its take and its number in the take.              *)
(***************************************************************************)
EXTENDS Channel, Integers, FiniteSets

CONSTANTS MaxTakes,    \* bound: how often "record" is sent
          MaxTurns,    \* bound: turns of a take before the user stops it
          MaxCommands, \* bound: transport commands, the last stop apart
          NumBuffers,  \* num_record_buffers (16)
          Offset,      \* recording_buffers_offset (2)
          Capacity,    \* messages a queue holds (99)
          HeaderBytes, \* bytes of a file before its first sample (44)
          BufferBytes, \* bytes a buffer's samples take in the file
          None

ASSUME RecordingAssumption == /\ MaxTakes \in Nat /\ MaxTurns \in Nat
                              /\ MaxCommands \in Nat /\ NumBuffers \in Nat
                              /\ HeaderBytes \in Nat /\ BufferBytes \in Nat
                              /\ Offset \in Nat /\ Capacity \in Nat \ {0}
                              /\ None \notin Nat

Take == 1 .. MaxTakes
Buffers == 1 .. MaxTakes * NumBuffers \* RecordBuffers objects, as allocated
Command == {"Play", "Stop", "Pause", "StopPlay", "PausePlay", "Rewind"}

VARIABLES takes,     \* takes begun by the DAW so far
          second,    \* the first take of those begun in the latest second
          file,      \* the take whose file is open, or None
          content,   \* take |-> what its file has of it
          header,    \* take |-> the size of its data chunk, in buffers
          riff,      \* take |-> the size of its RIFF chunk, in bytes
          uiTake,    \* the take the UI believes to be recording, or None
          playing, recording,
          current,   \* the take recording_clips belong to
          countdown, \* stop_recording_in_buffers
          free,      \* free_record_buffers, a stack
          enginePC,  \* "messages", "turn" or "finish"
          clips,     \* takes that have a clip
          length,    \* take |-> length_in_frames of its clip, in buffers
          start,     \* take |-> file_start_frame of its clip, in buffers
          to, from,  \* the queues to and from the engine
          state,     \* buffers |-> the state of the object
          data,      \* buffers |-> what they hold, or None
          commands,  \* commands sent so far
          deleted,   \* the RecordBuffers deleted so far
          captured,  \* take |-> the buffers the engine has sent to be written
          exhausted, \* take |-> the turns without a record buffer
          over,      \* takes the DAW has been told to close
          overlapped,\* takes begun before another was over, and those others
          disarmed,  \* takes whose track was disarmed with the file open
          replaced,  \* takes whose file was begun anew by a later one
          dropped    \* a full queue has dropped a message

fileVars == <<second, content, header, riff, replaced>>
dawVars == <<takes, file, fileVars, uiTake, over, overlapped, disarmed,
             commands, deleted>>
clipVars == <<length, start>>
engineVars == <<playing, recording, current, countdown, free, enginePC,
                clipVars, captured, exhausted>>
bufferVars == <<state, data>>
vars == <<dawVars, clips, engineVars, bufferVars, to, from, dropped>>

StartRecording(t) == [type |-> "StartRecording", take |-> t]
Started(t) == [type |-> "Started", take |-> t]
Continue(b) == [type |-> "Continue", buffers |-> b]
Transport(c) == [type |-> "Transport", command |-> c]
Stopped(t) == [type |-> "RecordingStopped", take |-> t]
Checkpoint == [type |-> "RecordingCheckpoint"]

\* The supply that comes with a take, the last one pushed on top.
Supply(t) == [i \in 1 .. NumBuffers |-> t * NumBuffers + 1 - i]

Elements(seq) == {seq[i] : i \in DOMAIN seq}

\* The first of the messages that the queue has room for.
SentAll(queue, messages) ==
  LET all == queue \o messages
  IN  SubSeq(all, 1, IF Len(all) < Capacity THEN Len(all) ELSE Capacity)
Overfull(queue, messages) == Len(queue) + Len(messages) > Capacity

SendTo(messages) == /\ to' = SentAll(to, messages)
                    /\ dropped' = (dropped \/ Overfull(to, messages))
SendFrom(messages) == /\ from' = SentAll(from, messages)
                      /\ dropped' = (dropped \/ Overfull(from, messages))

Init == /\ takes = 0 /\ second = 1 /\ file = None /\ uiTake = None
        /\ content = [t \in Take |-> << >>]
        /\ header = [t \in Take |-> 0]
        /\ riff = [t \in Take |-> 0]
        /\ playing = FALSE /\ recording = FALSE
        /\ current = None /\ countdown = 0 /\ free = << >>
        /\ enginePC = "messages"
        /\ clips = {}
        /\ length = [t \in Take |-> 0]
        /\ start = [t \in Take |-> 0]
        /\ to = << >> /\ from = << >>
        /\ state = [b \in Buffers |-> "Resupplying"]
        /\ data = [b \in Buffers |-> None]
        /\ commands = 0 /\ deleted = {}
        /\ captured = [t \in Take |-> << >>]
        /\ exhausted = [t \in Take |-> 0]
        /\ over = {} /\ overlapped = {} /\ disarmed = {} /\ replaced = {}
        /\ dropped = FALSE

TurnsOf(t) == Len(captured[t]) + exhausted[t]
\* The bound MaxTurns is reached: the engine waits for the user's stop.
Overdue == recording /\ countdown = 0 /\ TurnsOf(current) >= MaxTurns

-----------------------------------------------------------------------------
(* The DAW thread: what the UI asks for.                                   *)

\* create_wav_file(): fopen(path, "w").  The path has the track's name and id
\* and the date to the second (Date.cpp), so that the takes of a track begun in
\* one second have one file, and each begins it anew.
OpenFile(sameSecond) ==
  LET again == (IF sameSecond THEN second ELSE takes + 1) .. takes
  IN  /\ content' = [t \in Take |-> IF t \in again THEN << >> ELSE content[t]]
      /\ header' = [t \in Take |-> IF t \in again THEN 0 ELSE header[t]]
      /\ riff' = [t \in Take |-> IF t \in again THEN 0 ELSE riff[t]]
      /\ replaced' = replaced \cup again

\* Recorder::start().  `opened': there is an armed track and its file can be
\* opened; `ok': its header can be written too.  A file that is still open is
\* not closed but forgotten, with what stdio has not written of it.
Record ==
  LET t == takes + 1
      open == (1 .. takes) \ over
  IN  /\ t <= MaxTakes
      /\ takes' = t
      /\ \E opened, ok, sameSecond \in BOOLEAN :
           /\ ok => opened
           /\ second' = IF sameSecond THEN second ELSE t
           /\ IF opened THEN OpenFile(sameSecond)
                        ELSE UNCHANGED <<content, header, riff, replaced>>
           /\ file' = IF ok THEN t ELSE None
           /\ clips' = IF ok THEN clips \cup {t} ELSE clips
      /\ overlapped' = IF open = {} THEN overlapped
                       ELSE overlapped \cup open \cup {t}
      /\ SendTo(<<StartRecording(t)>>)
      /\ UNCHANGED <<uiTake, over, disarmed, commands, deleted,
                     engineVars, bufferVars, from>>

\* unarm_track(), or armed_tracks.clear() of interface_changed() and
\* project_changed(): the file is closed as it is.
Disarm == /\ file # None
          /\ file' = None
          /\ disarmed' = disarmed \cup {file}
          /\ UNCHANGED <<takes, fileVars, uiTake, over, overlapped, commands,
                         deleted, clips, engineVars, bufferVars, to, from,
                         dropped>>

SendCommand(c) ==
  /\ commands < MaxCommands \/ (c = "Stop" /\ Overdue /\ to = << >>)
  /\ commands' = IF commands < MaxCommands THEN commands + 1 ELSE commands
  /\ SendTo(<<Transport(c)>>)
  /\ UNCHANGED <<takes, file, fileVars, uiTake, over, overlapped,
                 disarmed, deleted, clips, engineVars, bufferVars, from>>

-----------------------------------------------------------------------------
(* The DAW thread: handle_messages_from_engine().                          *)

\* write_buffers() and on to the engine.  Without a file nothing is written.
Write == /\ from # << >>
         /\ Head(from).type = "Continue"
         /\ LET b == Head(from).buffers
            IN  /\ state[b] = "Writing"
                /\ content' = IF file = None THEN content
                              ELSE [content EXCEPT ![file] = Append(@, data[b])]
                /\ state' = [state EXCEPT ![b] = "Resupplying"]
                /\ SendTo(<<Continue(b)>>)
         /\ from' = Tail(from)
         /\ UNCHANGED <<takes, second, file, header, riff, replaced, uiTake, over,
                        overlapped, disarmed, commands, deleted, clips,
                        engineVars, data>>

\* Disposing: done, and deleted.
Delete == /\ from # << >>
          /\ Head(from).type = "Continue"
          /\ LET b == Head(from).buffers
             IN  /\ state[b] = "Disposing"
                 /\ state' = [state EXCEPT ![b] = "Done"]
                 /\ deleted' = deleted \cup {b}
          /\ from' = Tail(from)
          /\ UNCHANGED <<takes, file, fileVars, uiTake, over, overlapped,
                         disarmed, commands, clips, engineVars, data, to,
                         dropped>>

\* update_wav_file_size(): the samples there are, and `samples_end - 4'.
RiffSize(n) == HeaderBytes + n * BufferBytes - 4
UpdateFileSize ==
  IF file = None THEN UNCHANGED <<header, riff>>
  ELSE /\ header' = [header EXCEPT ![file] = Len(content[file])]
       /\ riff' = [riff EXCEPT ![file] = RiffSize(Len(content[file]))]

\* StartRecordingProcess::back_in_daw()
TellStarted == /\ from # << >>
               /\ Head(from).type = "Started"
               /\ uiTake' = Head(from).take
               /\ from' = Tail(from)
               /\ UNCHANGED <<takes, file, fileVars, over, overlapped,
                              disarmed, commands, deleted, clips, engineVars,
                              bufferVars, to, dropped>>

TakeCheckpoint == /\ from # << >>
                  /\ Head(from).type = "RecordingCheckpoint"
                  /\ UpdateFileSize
                  /\ from' = Tail(from)
                  /\ UNCHANGED <<takes, second, file, content, replaced, uiTake,
                                 over, overlapped, disarmed, commands, deleted,
                                 clips, engineVars, bufferVars, to, dropped>>

\* Broken variant: the file is closed with the header of the checkpoint.
CloseFileOnly == /\ from # << >>
                 /\ Head(from).type = "RecordingStopped"
                 /\ file' = None
                 /\ uiTake' = None
                 /\ over' = over \cup {Head(from).take}
                 /\ from' = Tail(from)
                 /\ UNCHANGED <<takes, fileVars, overlapped, disarmed,
                                commands, deleted, clips, engineVars, bufferVars,
                                to, dropped>>
\* Recorder::stop() finishes whatever file is open.
CloseFile == /\ from # << >>
             /\ Head(from).type = "RecordingStopped"
             /\ UpdateFileSize
             /\ file' = None
             /\ uiTake' = None
             /\ over' = over \cup {Head(from).take}
             /\ from' = Tail(from)
             /\ UNCHANGED <<takes, second, content, replaced, overlapped, disarmed,
                            commands, deleted, clips, engineVars, bufferVars,
                            to, dropped>>

HandleMessage == Write \/ Delete \/ TellStarted \/ TakeCheckpoint \/ CloseFile

-----------------------------------------------------------------------------
(* The engine: its messages.                                               *)

\* StartRecordingProcess::start_recording(): the record buffers of the take
\* join the free ones, start_recording() installs the clips.
TakeStart == /\ enginePC = "messages"
             /\ to # << >>
             /\ Head(to).type = "StartRecording"
             /\ LET t == Head(to).take
                IN  /\ free' = Supply(t) \o free
                    /\ state' = [b \in Buffers |-> IF b \in Elements(Supply(t))
                                                   THEN "Filling" ELSE state[b]]
                    /\ current' = t
                    /\ SendFrom(<<Started(t)>>)
             /\ countdown' = 0
             /\ playing' = TRUE
             /\ recording' = TRUE
             /\ to' = Tail(to)
             /\ UNCHANGED <<dawVars, clips, enginePC, clipVars, captured,
                            exhausted, data>>

\* RecordBuffers::resupply()
Resupply == /\ enginePC = "messages"
            /\ to # << >>
            /\ Head(to).type = "Continue"
            /\ LET b == Head(to).buffers
               IN  /\ state[b] = "Resupplying"
                   /\ data' = [data EXCEPT ![b] = None]
                   /\ free' = <<b>> \o free
                   /\ state' = [state EXCEPT ![b] = "Filling"]
            /\ to' = Tail(to)
            /\ UNCHANGED <<dawVars, clips, playing, recording, current,
                           countdown, enginePC, clipVars, captured, exhausted,
                           from, dropped>>

Play == /\ playing' = TRUE
        /\ UNCHANGED <<recording, countdown, free, bufferVars, from, dropped>>

\* Broken variant: recording ends here, as it does in pause().
StopForgetsTail ==
  /\ playing' = FALSE
  /\ recording' = FALSE
  /\ IF recording
     THEN countdown' = Offset + 1 /\ SendFrom(<<Checkpoint>>)
     ELSE UNCHANGED <<countdown, from, dropped>>
  /\ UNCHANGED <<free, bufferVars>>
\* Broken variant: the DAW is told that the take is over.
StopTellsEarly ==
  /\ playing' = FALSE
  /\ IF recording
     THEN countdown' = Offset + 1 /\ SendFrom(<<Stopped(current)>>)
     ELSE UNCHANGED <<countdown, from, dropped>>
  /\ UNCHANGED <<recording, free, bufferVars>>
\* stop() and stop_recording()
Stop ==
  /\ playing' = FALSE
  /\ IF recording
     THEN countdown' = Offset + 1 /\ SendFrom(<<Checkpoint>>)
     ELSE UNCHANGED <<countdown, from, dropped>>
  /\ UNCHANGED <<recording, free, bufferVars>>

\* dispose_record_buffers() after `messages': all free record buffers go to
\* the DAW to be deleted.
Disposed == [i \in DOMAIN free |-> Continue(free[i])]
IsFree(b) == b \in Elements(free)

\* Broken variant: the record buffers stay in the list.
DisposeAndKeep(messages) ==
  /\ SendFrom(messages \o Disposed)
  /\ state' = [b \in Buffers |-> IF IsFree(b) THEN "Disposing" ELSE state[b]]
  /\ UNCHANGED <<free, data>>
DisposeAfter(messages) ==
  /\ SendFrom(messages \o Disposed)
  /\ state' = [b \in Buffers |-> IF IsFree(b) THEN "Disposing" ELSE state[b]]
  /\ data' = [b \in Buffers |-> IF IsFree(b) THEN None ELSE data[b]]
  /\ free' = << >>

\* Broken variant: the DAW is not told.
PauseSilently == /\ playing' = FALSE
                 /\ recording' = FALSE
                 /\ IF recording
                    THEN DisposeAfter(<< >>)
                    ELSE UNCHANGED <<free, bufferVars, from, dropped>>
                 /\ UNCHANGED countdown
\* pause() ends the recording with what has been recorded.
Pause == /\ playing' = FALSE
         /\ recording' = FALSE
         /\ IF recording
            THEN DisposeAfter(<<Stopped(current)>>)
            ELSE UNCHANGED <<free, bufferVars, from, dropped>>
         /\ UNCHANGED countdown

\* rewind() leaves the recording alone.
Rewind == /\ playing' = FALSE
          /\ UNCHANGED <<recording, countdown, free, bufferVars, from, dropped>>

TakeCommand ==
  /\ enginePC = "messages"
  /\ to # << >>
  /\ Head(to).type = "Transport"
  /\ LET c == Head(to).command
     IN  \/ /\ c = "Play" \/ (c \in {"StopPlay", "PausePlay"} /\ ~playing)
            /\ Play
         \/ /\ c = "Stop" \/ (c = "StopPlay" /\ playing)
            /\ Stop
         \/ /\ c = "Pause" \/ (c = "PausePlay" /\ playing)
            /\ Pause
         \/ c = "Rewind" /\ Rewind
  /\ to' = Tail(to)
  /\ UNCHANGED <<dawVars, clips, current, enginePC, clipVars, captured,
                 exhausted>>

\* All messages are handled: the turn begins.
BeginTurn == /\ enginePC = "messages"
             /\ to = << >>
             /\ ~Overdue
             /\ enginePC' = "turn"
             /\ UNCHANGED <<dawVars, clips, playing, recording, current,
                            countdown, free, clipVars, captured, exhausted,
                            bufferVars, to, from, dropped>>

-----------------------------------------------------------------------------
(* The engine: run_recording(), at the end of each turn.                   *)

NotRecording == /\ enginePC = "turn"
                /\ ~recording
                /\ enginePC' = "messages"
                /\ UNCHANGED <<dawVars, clips, playing, recording, current,
                               countdown, free, clipVars, captured, exhausted,
                               bufferVars, to, from, dropped>>

Now == <<current, TurnsOf(current) + 1>>

\* The buffer goes up to the DAW, or is lost for want of a record buffer.
SendUp == /\ free # << >>
          /\ state' = [state EXCEPT ![Head(free)] = "Writing"]
          /\ data' = [data EXCEPT ![Head(free)] = Now]
          /\ SendFrom(<<Continue(Head(free))>>)
          /\ captured' = [captured EXCEPT ![current] = Append(@, Now)]
          /\ free' = Tail(free)
          /\ UNCHANGED exhausted
Exhausted == /\ free = << >>
             /\ exhausted' = [exhausted EXCEPT ![current] = @ + 1]
             /\ UNCHANGED <<free, bufferVars, captured, from, dropped>>

\* The clips of the take grow by a buffer.
Longer == IF current \in clips THEN [length EXCEPT ![current] = @ + 1] ELSE length

RunRecording == /\ enginePC = "turn"
                /\ recording
                /\ SendUp \/ Exhausted
                /\ length' = Longer
                /\ countdown' = IF countdown = 0 THEN 0 ELSE countdown - 1
                /\ enginePC' = IF countdown = 1 THEN "finish" ELSE "messages"
                /\ UNCHANGED <<dawVars, clips, playing, recording, current,
                               start, to>>

\* Broken variant: the clip begins later but does not become shorter.
FinishStartOnly == /\ start' = IF current \in clips
                               THEN [start EXCEPT ![current] = @ + Offset]
                               ELSE start
                   /\ UNCHANGED length
\* The clip skips the buffers that were captured before its start was heard.
FinishClips ==
  IF current \in clips
  THEN /\ start' = [start EXCEPT ![current] = @ + Offset]
       /\ length' = [length EXCEPT ![current] = @ - Offset]
  ELSE UNCHANGED clipVars

\* finish_recording(), when the last turn of a take has counted down.
FinishRecording == /\ enginePC = "finish"
                   /\ FinishClips
                   /\ DisposeAfter(<<Stopped(current)>>)
                   /\ recording' = FALSE
                   /\ enginePC' = "messages"
                   /\ UNCHANGED <<dawVars, clips, playing, current, countdown,
                                  captured, exhausted, to>>

Engine == \/ TakeStart \/ Resupply \/ TakeCommand \/ BeginTurn
          \/ NotRecording \/ RunRecording \/ FinishRecording

Next == \/ Record
        \/ Disarm
        \/ \E c \in Command : SendCommand(c)
        \/ HandleMessage
        \/ Engine

Spec == Init /\ [][Next]_vars

\* Both threads loop for as long as the program runs.
FairSpec == Spec /\ WF_vars(HandleMessage) /\ WF_vars(Engine)

-----------------------------------------------------------------------------
TypeOK == /\ takes \in 0 .. MaxTakes
          /\ {file, uiTake, current} \subseteq 1 .. takes \cup {None}
          /\ clips \cup over \cup overlapped \cup disarmed \cup replaced
               \subseteq 1 .. takes
          /\ second \in 1 .. takes + 1
          /\ playing \in BOOLEAN /\ recording \in BOOLEAN /\ dropped \in BOOLEAN
          /\ countdown \in 0 .. Offset + 1
          /\ enginePC \in {"messages", "turn", "finish"}
          /\ length \in [Take -> Int] /\ start \in [Take -> {0, Offset}]
          /\ header \in [Take -> Nat] /\ riff \in [Take -> Int]
          /\ Len(to) <= Capacity /\ Len(from) <= Capacity

\* Nothing came between a take and its file: no other take overlapped it, none
\* of the same second has begun its file anew, its track stayed armed, and no
\* message was dropped.
Undisturbed(t) == t \notin overlapped \cup replaced \cup disarmed /\ ~dropped

IsPrefix(s, r) == Len(s) <= Len(r) /\ s = SubSeq(r, 1, Len(s))

Earlier(a, b) == a[1] < b[1] \/ (a[1] = b[1] /\ a[2] < b[2])

\* Every buffer captured for a take is written to its file, those recorded
\* after the stop included, and the file is closed only after the last.
\* Record buffers travel in circles and are reused, last in, first out: still
\* no file, of a disturbed take either, has a buffer twice, too early or late.
FileIsCapture ==
  \A t \in Take :
    /\ \A i, j \in DOMAIN content[t] :
         i < j => Earlier(content[t][i], content[t][j])
    /\ t \in clips /\ Undisturbed(t) =>
         /\ IsPrefix(content[t], captured[t])
         /\ t \in over => content[t] = captured[t]

\* The data chunk never promises more than the file has, and that of a file
\* which has been closed says exactly what it has.  The RIFF chunk is counted
\* with it, to four bytes past the end of the file.
FileSize(t) == HeaderBytes + Len(content[t]) * BufferBytes
HeaderIsTrue ==
  \A t \in clips :
    /\ header[t] <= Len(content[t])
    /\ riff[t] \in {0, RiffSize(header[t])}
    /\ t \in over /\ Undisturbed(t) => /\ header[t] = Len(content[t])
                                      /\ riff[t] = FileSize(t) - 4

\* When a take is over its clip ends with its file, however and however soon
\* after the start it was ended, unless record buffers ran out.  A length,
\* unsigned in the code, never goes below zero.
ClipMatchesFile ==
  \A t \in clips :
    /\ length[t] >= 0
    /\ t \in over /\ Undisturbed(t) /\ exhausted[t] = 0
         => start[t] + length[t] = Len(content[t])

\* Where a record buffers object may be, once in each: the free list, a supply
\* or a reply on its way to the engine, a write or a disposal on its way back.
Places(b) ==
  {<<"free", i>> : i \in {j \in DOMAIN free : free[j] = b}}
    \cup {<<"to", i>> : i \in {j \in DOMAIN to : to[j] = Continue(b)}}
    \cup {<<"supply", i>> : i \in {j \in DOMAIN to :
             to[j].type = "StartRecording" /\ b \in Elements(Supply(to[j].take))}}
    \cup {<<"from", i>> : i \in {j \in DOMAIN from : from[j] = Continue(b)}}

\* A record buffers object has one holder until it is deleted, none after, and
\* only messages that were dropped have lost one.
BuffersHaveOneHolder ==
  \A t \in 1 .. takes : \A b \in Elements(Supply(t)) :
    LET holders == Cardinality(Places(b))
    IN  IF b \in deleted THEN holders = 0
        ELSE holders = 1 \/ (holders = 0 /\ dropped)

\* When nothing is on its way the UI shows a recording exactly when there is
\* one.
UiAgrees == to = << >> /\ from = << >> /\ ~dropped /\ enginePC = "messages"
              => uiTake = IF recording THEN current ELSE None

\* Once the countdown of a stopped take has begun, the take is over for the
\* DAW in the end, unless the next one is begun meanwhile or a message is lost.
StopIsHeard == countdown > 0
                 ~> (current \in over \/ current # takes \/ dropped)
=============================================================================
