# A verification project for dawlet

dawlet is a small digital audio workstation: an audio engine, files, a project
of nested tracks with clips, and a web server that gives the user interface an
HTTP API and a WebSocket. This directory holds TLA+ modules of its parts, TLC
configurations that check them on small instances, and theorems about them that
TLAPS checks for every value of the constants.

Paths like `DAW.cpp:114` are relative to `src/src/`; `README.md` and `docs/` are
those of the repository.

## 1. The system

Two threads share one project (`README.md:22-52`):

* the **DAW thread** (`DAW::run`) serves HTTP and WebSocket, owns files, makes and
  deletes objects, and is the only one that may block;
* the **audio engine** (`AudioEngine::run`) is real-time: it handles its messages,
  then plays, records and meters one buffer of frames after the other. It takes
  no lock, allocates nothing and does no I/O.

They talk through two lock-free queues, `to_audio_engine` and `from_audio_engine`.
Most messages carry a **process**: an object that is handed to and fro, does one
step at each stop (`next()`), and is deleted by the DAW thread when it is done.
The engine is thereby the only writer of the project's structure, the DAW thread
reads it. Two data structures are shared without a message: the DAW thread feeds the
engine's pool of buffers, and reads of audio files are filled by the one and played
by the other.

### 1.1 Inventory

| component | state | operations | with whom | what is hard | correct when |
|---|---|---|---|---|---|
| Message queue (`MessageQueue`) | slots, `head`, `tail` | `send`, `back`, `push`, `front`, `pop`, `is_empty`, `is_full` | engine and DAW thread, one at each end | two threads, slots used in place in plain memory, wrap-round, full | no slot in two hands; FIFO; drops only when full; every slot freed |
| Buffer pool (`BufferManager`) | free list and count, new list and count, open order | `tick` (DAW), `run`, `get_buffer`, `free_buffer` (engine) | everything in the engine that needs a buffer | list handed over without a lock | the two sides exclude each other; no buffer twice; count safe; order delivered |
| Audio file reads (`AudioFileRead`, the engine's pool, `DAW::active_reads`) | state of a read, its buffer and file, who holds it | request, start, poll, finish, dispose, delete | engine, clips, DAW thread, aio | completion races with disposal and cancellation | no use after deletion; what is playable is complete; file open while read |
| Audio files (`AudioFile`, `OpenAudioFile`, `WAVFile`) | count of opens, the open file, format | `open`, `close`, `load_info`, `play_into_buffers` | reads, recorder, project files | several users of one file; bytes per sample, channels between each other | open while used, closed after; what was written is what is heard |
| Processes and mutations (`Process`, `MutatingProcess`, `SimpleProcess`) | step, `pending_mutations` | send, step in engine, step back | API handlers, both threads | lost in full queues; counter against `save-project` | count exact; no change during a save; save answered |
| DAW thread (`DAW`) | project, active reads, `pending_mutations` | `tick`, message handling, `open_project`, `new_project`, `save_project`, `close_project` | everything | nested message loops, objects the engine still uses | a save waits; projects are deleted once |
| Audio engine (`AudioEngine`) | project, interface, transport, free reads and record buffers | message loop, one turn per buffer | everything | order of messages and turns | see the parts |
| Tracks (`Track`, `Project`, `List`) | lists of children, `tracks_by_id`, `deleted_tracks` | new, delete, restore | API, processes | pointers looked up by one thread and used by the other; list links left over | lists whole; maps agree with lists; order as asked |
| API handlers (`APIHandlers`) | none | GET, POST, DELETE, PUT | web server, processes | look-ups that grow stale | answer for what is there |
| Web UI (`html/*.js`) | undo stack, tracks | actions with do/undo/redo | API, WebSocket | replies out of order, replaced objects | undo restores |
| Recording (`Recorder`, `RecordBuffers`, `RecordingClip`) | takes, record buffers in flight, countdown | start, stop, write, close | engine, DAW thread, files | a stop that takes some turns, buffers in flight, files closed once | every captured frame is in the file; writes only while it is open |
| Clips and playlists (`Clip`, `Playlist`) | two read slots, `playing`, `play_frame`; `first_playing_clip` | `prepare_to_play`, `run`, `read_ahead`, `start_read` | engine, reads | frame numbers at the ends of clips, reads and buffers; a position of its own beside the play head | what is due has been asked for in time; what is heard is what is due |
| Project switching (`InstallProjectProcess`, `close_project`) | two project pointers | open, new, close | both threads | changes to the old project in flight, processes lost, a file cut short | old project deleted once, when nobody uses it; what is opened is what was saved |
| Sample conversion (`SampleConversion.cpp`) | none | `to_32` ... `to_16_le`, `from_32` ... `from_16_le` | recorder, interfaces | ranges at full scale, byte orders, signs, steps | what goes out comes back; channels do not touch each other |
| Interfaces (`AudioInterface`, `ALSA*`) | device, channels | select, capture, send | engine, DAW | hardware I/O | -- |
| Metering, seeking | peaks, play head | `run_metering`, `seek`, `rewind` | engine, WebSocket | a seek between two turns | the playlist is prepared for the new place |
| Web server (`web/*`) | connections, replies, frames | accept, read, parse, reply, upgrade | DAW thread | partial reads, replies in later turns | one reply per request |
| Helpers (`JSONParser`, `FieldParser`, logging) | rest of the text | `next_field`, `ignore_value`, ... | project files, API | truncated, newer or unescaped text | a torn file is refused |
| `Send` | -- | -- | -- | nothing makes one | -- |

`PROJECT.json` lists each component with its sources and status, and under
"hazards" what can go wrong in it at which line and which property would show it.

## 2. The modules

| module | models | kind |
|---|---|---|
| `BoundedQueue` | what a queue promises: a FIFO that drops when full | abstract specification |
| `MessageQueue` | the ring at the grain of its memory accesses | component, refines `BoundedQueue` |
| `Channel` | the same queue as one sequence, for the modules that use it | operators |
| `BufferManager` | pool of buffers, handover, the engine's use of it | component |
| `FileReads` | life of reads over two `Channel`s | composition of engine, DAW thread, clip, files |
| `Mutations` | processes over two `Channel`s, counter, save | composition of clients, DAW thread, engine |
| `Recording` | takes, record buffers, stop, files, over two `Channel`s | composition of engine, recorder, DAW thread |
| `Connection` | one connection of the web server: reads, requests, replies, frames | component with its client |
| `Playback` | clips, playlist and transport, to the frame | composition of engine, playlist, clips, with reads that are ready sooner or later |
| `ProjectSwitch` | how one project takes the place of another, over two `Channel`s | component |
| `SavedProject` | the project file, token by token: how it is written and read | operators (recursive) |
| `Projects` | what is done to projects in a session, with the disk | composition: each step joins one of `ProjectSwitch` to what it does to the contents |
| `SampleConversion` | samples as bytes, and back | operators |
| `TrackOrder` | what a client of the tracks expects: an order of names | abstract specification |
| `TrackTree` | lists, maps, processes over two FIFO queues | component, refines `TrackOrder` |
| `MessageQueueProofs`, `BufferManagerProofs`, `FileReadsProofs`, `MutationsProofs`, `RecordingProofs`, `TrackTreeProofs`, `ProjectSwitchProofs`, `PlaybackProofs` | theorems about the module of that name; `RecordingProofs` also about `SampleConversion` | proofs |
| `MC*` | small instances for TLC | model checking |

`Channel` stands for the queue in every other module (its `Sent` is proved right by the ring:
`RingImplementsBoundedQueue` says that a ring of `Capacity + 1` slots is a FIFO of
at most `Capacity` messages that drops exactly when full, which is what `Sent` does).

**Broken variants.** Each component has, just before some of its definitions, an
operator introduced by a comment *Broken variant*: the definition as a plausible
mistake would have it. Nothing uses them in a run; put in the definition's
place each one breaks the property that `PROJECT.json` names under "mutants", which is the
evidence that the property can fail at all.

### 2.1 MessageQueue

`head`, `tail` and the slots of `MessageQueue.h`. One step is one access of
shared memory or a stretch of code that touches only what is private to its side:
`back()` (look at tail and head), filling of type and parameter, `push()`, `front()`, use
of the slot in place, `pop()`. The atomics of the code are
sequentially consistent (default memory order), so steps interleave. `send()` drops
when full. The receiver handles what it finds in place, as `AudioEngine::run()` does
(`front()` ... `pop()`), so that a slot is *in use* over a stretch of time.

*Checked* (`message_queue`, ring of 3 slots, 2 processes): `NoSlotShared`, refinement of
`BoundedQueue`, and that an occupied slot is freed again (`EverySlotIsFreed`). Three slots
suffice for a queue that is empty, partly filled, full and wrapped. *Proved* for every
capacity of at least two and every set of messages: section 3.

### 2.2 BufferManager

`free_buffers`, `num_free_buffers`, `first_new_buffer`, `num_new_buffers`,
`needed_new_buffers`, as in `BufferManager.h`. `tick()` runs on the DAW thread in four
steps, each with one access of a shared variable; `run()` on the engine in three, followed by a turn
that takes and gives back buffers: capture buffers, output buffers, and what tracks and
recording borrow. Buffers have names so that `OneOwner` can say that
none is in two places. `Wanted` stands for the 50 of `free_buffers_wanted`.

*Checked* (`buffer_manager`, Wanted 2, two output channels, at most 3 orders): both threads
at every pair of positions, with the second output buffer missing, with an
order extended while `tick()` is between its two reads of it. *Proved*: all five invariants, for every
pool size and number of orders; `OrderIsDelivered` is only checked.

### 2.3 FileReads

A read's `state` is that of `AudioFileRead.h` (`Waiting`, `StartingRead`, `Reading`,
`Playing`, `Done`); who refers to it is in the engine's `pool`, the `slots` of the clips, the two
queues and the DAW's list `active`. The engine asks for reads when its pool runs low, a clip takes one and
sends it, the DAW opens the file and starts an asynchronous transfer (external: it
ends when it likes, with all its bytes or with fewer), polls it, and sends the read back; it looks at nothing but that the
transfer is over. The supply of reads goes back as well, to be deleted.
The clip may give a read up at any moment; then the DAW deletes it, in whatever
state it is. Both threads assign `state` and look at it without a lock, so these accesses are steps of
their own. `close` stops at zero as `AudioFile::close` does, and a read deleted
in the middle of a transfer does not close the file it opened.

*Checked* (`file_reads`, 3 reads, two slots, queues of 2; two reads to begin with, and the engine asks for more when it has fewer than
one): no read is used after
deletion, the kernel has stopped writing into what the engine plays (`PlayableHasEnded`), and so on. That it has *filled* it is false:
a read that failed or came short is played like any other (section 5). A known race of the code, a read that
is completed and disposed of at the same time, is recorded in the variable `fault` and ends
the behaviour: the properties then say what holds up to that race. It is not
listed as a finding because no document of the repository promises otherwise. *Proved*: the four
invariants of the run, and that a read has one holder, for any number of reads and slots and queues of any length.

### 2.4 Mutations

A process is one of the kinds that differ in how they are counted and
acknowledged: a `MutatingProcess`, the start of a recording (which changes the project and is none), a
`GetProcess`, the supply of reads. `pending_mutations` and what the UI was told are variables. The DAW thread is in its web requests, in the messages of
a turn, or in a `save-project`: at its test, in the nested message loop, or in the walk, which takes time. `handle_messages_from_engine()` goes back to where
it was called when it has found the queue empty (`NoneLeft`) and not before, so that the test is not made between two messages. A change in the engine
takes time as well. Queues drop when full. A reply may fail: the exception leaves the process before `mutation_done()` (`ReplyFails`), or after the count has been
reduced (`ReportFails`), and leaves a save that waits. A save may write nothing, and `dirty false` follows it all the same: what is in
the file is left to `Projects`, and this module speaks of what the UI has been told.

*Checked* (`mutations`, 3 requests, queues of 2): `PendingIsExact`,
`NoEditDuringSave`, `CleanHasMissedNoEdit` (what the UI has been told of, not what is in the file); and, under fairness of both loops,
`SaveIsAnsweredUnlessLost`: a save that waits gets to write once the engine sends no more requests of its own, unless a process was lost or a reply failed. While such requests keep coming the queue
need never be found empty, and the save need never be made. That clean means saved, as the documents have it, is false of the code and not claimed; this and what happens to a
save when a recording starts meanwhile is in section 5. *Proved*: the three invariants, for any number of requests and any
capacity.

### 2.5 Recording

"record" makes the DAW thread open a file and send a clip and a supply of record buffers; the engine
fills one in each turn, the DAW thread writes it and sends it back. "stop" counts turns down, so that the buffers
which are captured late get into the file too, then `RecordingStopped` makes the DAW thread close the file, and
the free record buffers go back to be deleted, while others are still in flight. All transport commands
are there (`play`, `stop`, `pause`, the two toggles, `rewind`), disarming a track with its file open, a file that
cannot be made, "record" during a recording or its countdown, and full queues. A recorded buffer is the pair of its take and its
number; `captured` is the history of what the engine sent to be written.

A file is named by its track and the date, to the second, and opened with `"w"`: takes of one second have one file, and each begins it anew (`OpenFile`; `second` is the
first take of the latest second, `replaced` are the takes whose file was begun anew). A header has two sizes, that of the data chunk, counted in buffers, and that of the RIFF chunk, in bytes.

*Checked* (`recording`, two takes, two record buffers per take, offset 1, one free command besides the stop that ends a take,
queues of 6): the file of an undisturbed take has exactly what was captured, in order and without a gap (`FileIsCapture`), its data chunk counts what is there, and its RIFF chunk
four bytes more than the file has (`HeaderIsTrue`),
the clip ends with the file, record buffers have one holder, the UI agrees, a stop is heard. Two
takes suffice for record buffers of one take used in the next and for overlapping takes; two record buffers
run out when the DAW thread is slow; a queue of 6 fills. Takes that overlapped, were replaced, disarmed or lost a message are
excepted where a property says `Undisturbed`; the order of what is written, `BuffersHaveOneHolder` and the bound on
headers and lengths are not. What an overlap does to a take is in section 5; so are takes of one second and the RIFF size. *Proved*: the five invariants, for any
number of takes, commands, turns and record buffers, any offset and any capacity.

One track with one channel is armed. Several channels, a change of input while recording (the DAW
thread then writes channels the record buffers in flight do not have), a missing interface, failing writes, files of 4 GB and more, and
what `stdio` still writes at exit of a file that was forgotten open are not modelled.

### 2.6 TrackTree and TrackOrder

The children of each parent as the chain of `next` pointers with `head` and `last` that
`List.h` keeps, the maps `tracks_by_id` and `deleted_tracks`, and the three processes on
their way. The engine changes the two maps one after the other, without a lock: a deletion and a restore have a step for each (`DeleteErases` and `DeleteInEngine`, `RestoreErases` and `RestoreInEngine`),
and `between` is the track that is in neither map meanwhile. The HTTP handlers look tracks up on the DAW thread when the request comes in; the engine
uses what they found when the process gets there. `TrackOrder` is the client's idea of it:
a sequence of names in which a request takes effect when the engine performs it.

A client may be one that waits for its answers and undoes deletions in reverse order (as `DeleteTrackAction` and
the undo stack do with the objects they keep: `Spec` with one request in flight), may
have several requests in flight (`Spec` with `MaxInFlight = 2`), or may use the
documented API freely (`ApiSpec`). The first keeps the lists whole and refines `TrackOrder` (run `track_tree`,
4 tracks, 3 deletions: enough for a deleted head, a middle, a last, and a
chain of left-over pointers among several deleted tracks). The other two do not
(section 5; the run `restore_at_end` is one of the third kind). For all of them no track is ever in both maps, and only `between` is in neither (`IdsAgree`). *Proved*: `IdsAgree` for all three, and
`ListIsWhole` for the first, for any number of tracks and deletions; the refinement is only checked.

Not modelled: deletion of the master, restores under another parent (the code leaves
`track->parent` as it was), and that the UI's actions hold on to JavaScript
objects of tracks that a redo has replaced.

### 2.7 Connection

One connection and its client. `ReadSocket` takes any number of the bytes that are there, up to
the room in the buffer, so a stream is cut in every way; then come the functions that
`process_buffer()` calls, one action each (`StartRequest`, `ReadHeader`, `HandleSimple`,
`HandlePut`, `StartWebSocket`, `ProcessFrame`, `ReadData`, ...), and `Compact`. The variable `pc` keeps other steps of the DAW thread
out meanwhile. A handler answers at once or starts a process (`later`), whose `Reply` sets the state
whatever it was. The state `Replying` never lasts: the caller of the handler overwrites it.

*Checked* (`connection`; up to four requests and frames, a buffer of 12 bytes
compacted at 6, which is the smallest that holds a masked header). Requests have a content or none, are answered at once or later, have an error in a header, are an upgrade as it should be or not, or
have a long header line, one as long as `compact_buffer()` always leaves room for and one longer by a byte. Frames have 0 to 6 bytes, some
unmasked, so that several fit in one read, and wrap the mask of 4; a text in fragments, a ping between fragments, empty frames and a close frame are among them. The handlers get
requests and messages whole and in order (`ArrivesWhole`); a full buffer is never taken for the end of
the stream while lines are no longer than that (`NeverFull`: 512 bytes and the line feed in the code; behind a longer one it is, section 5); each request is answered once, a malformed upgrade twice, and control frames
get their own data back in their order (`AnsweredOnce`); none waits
for bytes that come after it, an empty frame excepted (`MessageIsHandled`; section 5); and a connection whose client has gone is deleted, although a late reply reopens it (`GoneIsDeleted`). A client
waits for the answer to a request before it sends the next, as browsers do, so that the order of the answers to requests is not in question; with pipelining the code would leave the
second request in the buffer until more bytes come.

The program fails (`pc = "dead"`, where everything stops) in three situations that
the model has because the code has them: content of a PUT that comes in a later read than its headers
(`handle_request()` has deleted the request), a process that answers on a connection that was deleted meanwhile, and a frame of more than
125 bytes (the loop over the extended length, `web/Connection.cpp:453-456`, does not count down). Not modelled: several connections, and failing writes, which end the turn with an exception.

### 2.8 Playback

One playlist and the transport commands of the engine. A turn of `AudioEngine::run()` walks the playlist
(`Playlist::run()`), each clip of which asks for the next stretch of its file and gives back the one
behind (`Clip::read_ahead()`) and then mixes into the buffer what has arrived (`Clip::run()`). `Mixed` is the whole
walk as a function of the state, so that the properties can say what the *next* turn would sound like; `RunPlaylist`
makes it so. A clip has `playing`, `play_frame` and two read slots; the playlist `first_playing_clip`; the engine
the play head, the place where it started, the recording with its countdown and the number of free requests. A stop, a pause, a seek or a rewind
prepares every clip again, in the same step, as the code does. What happens between a request and the moment it
is playable is the subject of `FileReads`; here a read becomes ready at any time, or never.

Time is counted in frames, and files have the rate of the engine: the code multiplies seconds (doubles) by the rate, and what this
rounds is not modelled, nor files of other rates, nor a playlist that gets a new clip while it plays, nor several tracks.

*Checked* (`playback`: two clips that begin and end inside a buffer of two frames, the second from the middle of its file; read-ahead of four; two
slots; a pool of two requests; a seek to 5 or 0 or the play head wherever a command left it): reads of a clip
neither overlap nor leave the clip (`ReadsDisjoint`), two slots suffice (`SlotsSuffice`), what is mixed is to the frame what the timeline calls for
or the silence of a late read (`HeardInStep`), and every frame that is due has been asked for at least one whole turn earlier
(`AskedForInTime`, `Delay` = 1; nothing in between starved, playing and not left out). `Offset`, two in the code, is 0: the turns a recording goes on after a stop play no part but to leave
the playlist of an armed track out, for one turn instead of three. The bound `LastFrame` stops the play head behind the second clip.

`HeardInStep` speaks of clips in step only. When a read is missing in the *middle* of a buffer, `play_frame` is moved
on by a whole buffer (`Clip.cpp:166`) although part of it has been played; from then on the clip is
ahead of the play head, until it is prepared again. Such a clip leaves `inStep`, as does one that a turn without playlist has left behind, and neither the run nor the theorem says how it sounds: a late read costs silence and nothing else only if it is missed from the first frame of a buffer on.
`AskedForInTime` has an exception, too: what `read_ahead_gap` shows (section 5).

*Proved* (section 3), for any playlist, buffer and read-ahead: `ReadsDisjoint`; `SlotsSuffice` for two or more slots (with one it is false); `HeardInStep` for
a playlist in order and a read-ahead of at least a buffer less one frame. In order means that of two clips the one with the greater index starts and ends no earlier: `Playlist::run()` ends at the first clip beyond the
read-ahead point and never goes back behind `first_playing_clip`, and so relies on it. `Playlist::add_clip()` puts a clip at the end and does not see to
it by itself: a take recorded earlier on the timeline than one before breaks the order. `AskedForInTime` for a playlist in order, two or more slots and
a read-ahead of `(Delay + 1) * BufferSize`: the code reads two seconds ahead, which is hundreds of buffers.

### 2.9 ProjectSwitch, SavedProject and Projects

`ProjectSwitch` has the two pointers (`DAW::project`, `AudioEngine::project`), the objects made and deleted, and
the messages: an `InstallProjectProcess` carries the new project one way and the old one back, and its destructor deletes it;
changes to tracks travel in the same queues, for the project that was the DAW's when they were sent. Queues drop, and the program may end at any time.

`SavedProject` is what `write_to_file()` writes and what `read_json()` reads, over the tokens of `JSONParser`. A double is rounded to six digits and has an exponent below 0.0001 and, once rounded, from a million up, which the tokenizer splits; a string is not escaped; a reader has the text that is left, whether something has been thrown, and
whether it comes to an end (`ignore_value()` does not in an array that is cut short). Gains and positions
are integers, in units of 0.00001. It uses recursive operators, because tracks are nested.

`Projects` puts the two together, with a disk: each of its actions is one of `ProjectSwitch` joined to what it does to the
contents, to the maps and to `armed_tracks`. A save opens the file, which truncates it, and writes into it while the DAW thread does nothing else; the
end of the program and a full disk leave a prefix. `saved` is the history variable of what was last wholly written at each path.

*Checked* (`projects`: a path with a project and a path without; two project objects between restarts, five commands, two messages per
queue): `InUseIsAlive` and `OneProjectLeft` (both *proved* of `ProjectSwitch`, for any number of projects), `TornIsRefused` (at *every* token, whatever `Cuts` says; refused means that the reader throws and does not read for ever), `IdsAreFresh` and `OpenedIsSaved`, in which gains and starts come back as what they were to six digits: the gain that is set has seven (12.34567). The
other setting is a name with a quotation mark, which makes the file unreadable here; in the code what follows the mark may also be taken for other settings, which is left out of the model and of the claim. The project that is there at first comes from a newer version: it has fields that are not known here, a clip without
an id and a position with nine digits. Two objects are enough for one to be installed while the other is replaced; the theorem
`SwitchIsSafe` takes over for more. Only children of the master are changed, and new ones go to the end; `TrackTree` is about their order.
The refusals that change nothing (`..` in a path, a file or directory that is there already or missing) are no actions. A take is a step: its clips are there with their length at once, so that
recording across a switch (section 5) is out of this model.

### 2.10 SampleConversion

The bytes that `to_32()` and its like make of a sample, at which address, and the number that `from_32()` and its like make of bytes; what
`Recorder::write_buffers()` and `AudioFile::play_into_buffers()` do with them. A sample is a whole number of 2^-24 of full scale. There is
no run: the numbers of 32-bit formats exceed the integers of TLC, and what there is to say is said by theorems (in `RecordingProofs`), for all samples. `to_float()` and `from_float()` copy and are not
modelled. The rounding of the product of floats is not, either, but that `0x7FFFFFFF` becomes 2^31 is.

## 3. What is proved

For all values of the constants that satisfy the named assumptions (`CapacityAssumption` and so on in the
modules), from `Init` and `Next` without fairness.

* `MessageQueueProofs`. Inductive invariant `TypeOK /\ SenderInv /\ ReceiverInv`: when
  the sender is between `back()` and `push()` its slot is the tail and the ring is not full;
  while the receiver is between `front()` and `pop()` its slot is the head and the ring is not
  empty. Neither side's guard is enough alone, because the other
  index moves meanwhile: that it only moves away is what the invariant says. From it: `TypeCorrect`,
  `SlotsExclusive`, and `RingImplementsBoundedQueue` by step simulation: `push` is the
  abstract send, `pop` the abstract receive, all other steps stutter.
* `BufferManagerProofs`. `first_new_buffer = NULL` and an open order let `tick()` in, a list
  that is there lets `run()` in; the invariant ties each thread's position to them
  (`HandoverNeedsNoLock`). `CountIsSafe` (the count never exceeds the list, also in mid-splice),
  `ShortageOrdered` and `OrderCovers` (an order is at least what is built or waits for it, so that `run()` subtracts
  no more than there is) follow with it. `BuffersHaveOneOwner` needs more: that every buffer made
  is in at most one of six places, once in its list (`PlacesApart`, `AllMade`), while `tick()` makes new ones and `run()` joins
  two lists in steps. Hypotheses about numbers of requests are not
  needed: the bound only guards an action.
* `FileReadsProofs`. Who may hold a read depends on its `state`, which both threads assign without a lock. The
  invariant says for each holder what the state can be: a read nobody has asked for is in one place and untouched (`UnusedReads`), one in a slot
  is in no other, alive, and started, reading or playing unless it is being disposed of (`SlotReads`), one in the DAW's list is there once, reading or done (`ActiveReads`), `Playing`
  is not said before the transfer is over, however it ended (`PlayableReads`, `PlayedReadsHaveEnded`). So what the DAW finds `Done` and deletes is in no slot (`HeldReadsLive`, `ReadsHaveOneHolder`) and no longer
  in the list (`PolledReadsLive`); `FileStaysOpen` counts the opens that are not paid back. The race that ends in `fault` is excluded by nothing in the
  invariant: a step into it leads to a state where all steps are over, and in which the invariant still holds.
* `MutationsProofs`. `pending_mutations` is a number; what it counts is a set of processes that are in two queues or in neither. The proof is that
  a change has one place (`OnePlace`: each queue has it once, and a lost one, dropped or with a reply that failed, is nowhere), so that each step that moves one changes
  the number by what it changes the set (`PendingCounts`). A walk begins when the number is zero, the queue to the engine is handled in order,
  and what the engine has in hand is still in its slot (`InHandIsFirst`): no counted change meets the walk (`SaveMeetsNoEdit`). An edit
  stays pending until it has been reported, so that a UI that is told `dirty false` has missed none made before the save began (`CleanUIMissesNoEdit`); nothing is proved of what the save has written.
* `RecordingProofs` is in layers, each an invariant that uses the ones before. `Order`: the engine begins the takes in the DAW's order, and never an old one after a new one. `Holders`:
  the state of a record buffers object says where it is, and it is there once; `NoneLost`: without a drop it is somewhere (`BuffersInOnePlace`). `FramesInOrder`, `OneOpen`, `EndsLast`, `NothingMissed`: what is in the files, what is on
  its way to them and what comes later are in the order of time; the word that a take is over comes behind its last frame; of an undisturbed take what is not in the file
  is on its way (`FilesAreCaptures`); one whose file a take of the same second has begun anew is not undisturbed. `Headers` and `ClipsFit` relate numbers to it: `start + length` of a clip is the turns of its take, and what the end takes off is no more than that (`HeadersAreTrue`, `ClipsMatchFiles`: the unsigned
  length does not pass below zero, for any offset). `UiIsTold`: the last message on its way to the UI says what the engine does (`UiFollowsEngine`).
* `TrackTreeProofs`. `IdsAlwaysAgree`: the maps, for any client, with any number of requests on their way, at every point between the two changes the engine makes of them; it needs that what a request is about has been made, and that a loop over a list meets tracks, whatever the pointers are
  (`ReachIsTracks`). `ListsStayWhole`: the lists, for a client with one request at a time (`MaxInFlight = 1`, as in the run `track_tree`) that undoes
  its deletions in reverse order; what goes wrong for other clients is in section 5. The invariant says, for each parent, that there is a sequence without repetition
  of which `head`, `last` and `next` are the links and the live children the members (`Lists`). What makes it inductive is about the tracks that are *not* in a list: one that
  joins for the first time has no next track (`NewHaveNoNext`), and one that the client can restore still points at what it was deleted before (`UndoFits`), which is where it goes back to;
  `push_back()` leaves `next` alone and is right only because of them. `RequestsSound` says that nothing has happened since the request was made. The lemmas `ListGains` and `ListLoses` say once what all operations of `List.h` do to such
  a sequence, `ChainIsList` that the loops over the pointers (`Chain`, `Reach`) then give that sequence and its members.

* `ProjectSwitchProofs`. `SwitchIsSafe`: `InUseIsAlive` for any number of projects and any capacity. The
  inductive invariant says where a project can be. `HoldersAlive`: the pointers of the threads and of the messages are to projects that are made and
  not deleted. `HoldersDiffer`: a project that is to be installed is installed nowhere yet and is in no second such message, and one that
  is on its way back is in nobody else's hands, nor in a change behind it. `NotReplaced`: the DAW's project is not one
  that an installation still on its way will replace, nor is the project of a change behind it. The last is what lets the engine's step
  hand the old project over; it holds because every switch changes the DAW's pointer in the step that sends the
  process, and because what is sent later is sent for the new one. Nothing in it depends on messages arriving.
  `SwitchLeavesOne` does: if none was dropped, the last installation on its way carries the DAW's project (`LastIsDaws`), and every project made and not deleted is
  somebody's (`NothingForgotten`); with nothing on its way one is left.
* `PlaybackProofs`. The invariant of the state: each clip's reads are `Fit` (inside the clip, apart from each other, and each as long as the read-ahead unless it ends with the clip),
  and a clip that has lost no frame and is still in the walk is where the play head is (`StepInv`). `SlotsSuffice` follows from the lengths: of two reads that are kept, both between the play head and the
  read-ahead point, one reaches beyond that point, and then nothing is asked for (`SlotIsLeft`). A turn is two walks, over the clips and, for each clip, around the loop of `Clip::run()`, and each has an invariant of its own:
  `Around` says after each copy that what is mixed so far is what is due and `play_frame` is where the buffer is filled to (`Timely`), unless a frame was missed in mid-buffer, after which the clip is out of step and nothing is claimed of it (`WhatIsHeardIsDue`); `Walked` says after each clip what is already mixed
  (`Ahead`), what is not touched yet (`Behind`), and that what lies beyond the end of the walk is not due (`NotDue`, `LeftOut`; here the order of the playlist is needed). Both walks are recursive functions on `0 .. n`: `Recursion`
  shows once, by the least number at which it could fail (`LeastNat`), that such a function exists and satisfies its equation, and `UpTo` is the induction over it.
  `AskedForInTime` speaks of several turns, and its invariant `AskedInv` of all those since the playlist was prepared: what was in sight, between play head and read-ahead point, `k` turns ago is in a read at least `k` turns old, or before
  all reads of its clip, for each `k` up to `since` (`Covered`). It needs that the reads of a clip have no gap (`Unbroken`) and that none lies beyond the read-ahead point (`Near`). One turn carries it on: a read that
  is still needed gets a turn older, and what comes in sight is asked for in that turn (`ReadsAheadCovers`, `VisitAsks`). With `Delay + 1` buffers of read-ahead, what is due was in sight `Delay` turns ago.
* `RecordingProofs`, second part, on `SampleConversion`. No state: theorems about the operators, for all samples, starts, steps and numbers of
  channels. `LevelsFit`: levels stay in the range of their format, unless a sample is at or above full scale in a 32-bit format (then the conversion of 2^31 to
  `int32_t` is undefined). `ConvertedIsRestored`: `from_*()` gives back the level that `to_*()` wrote, for all formats except
  the 24-bit big-endian one, whose reader takes a byte too far. `ChannelsKeepApart`: a channel of a recorded file survives the writing of another. `RecordedIsHeard`: what is
  heard of a recorded sample is within two levels of it, on the quiet side. They rest on lemmas about quotients and about numbers cut into two, three and four bytes.

What stays with TLC, and why:

* Liveness (`EverySlotIsFreed`, `OrderIsDelivered`, `SaveIsAnsweredUnlessLost`, `StopIsHeard`, `MessageIsHandled`, `GoneIsDeleted`): out of the prover's reach, like `ENABLED`.
* `ImplementsTrackOrder`: `TrackOrder` takes a name out of an order with `SelectSeq`, which is defined by recursion over the sequence, and of which nothing can be proved by induction here.
  That the lists are whole is proved; that they keep the order of names is checked.
* `ArrivesWhole`, `NeverFull`, `AnsweredOnce` of `Connection`, which relate what arrives to what was sent by flattening sequences of messages to sequences of bytes: the bounds on
  the buffer and the turn of an answer rest on where a message ends in the flattened stream, which is induction over data.
* `SavedProject` is recursive, `Projects` reaches it: `TornIsRefused`, `IdsAreFresh`, `OpenedIsSaved`.

Each inductive invariant was first an invariant of a run on the small instance. Two things about the proofs: the existence of a recursive function
(`Met`, `Walk`, `Mixed`) is shown with an explicit one, since the induction theorems of the library take operators, and induction over numbers is that of well-founded sets
(`LeastNat`, `AllNat`); and steps that expand a `CHOOSE` of a recursive function are left to Zenon.

## 4. Bounds and fairness

Every bound is a constant of its module: `Capacity` (slots of a queue), `MaxRequests`
(client requests, orders), `MaxReads`, `MaxTracks`, `MaxDeletes`, `MaxInFlight`, `MaxItems`, `Positions`, `LastFrame`, `Settings`, `MaxPending`, `MaxCommands`, `MaxTakes`, `MaxTurns`, `MaxId`, `Cuts`. They bound
how often the environment acts, not what the code does in between. The
queues of the code hold 99 messages; 2 to 6 make *full* reachable.

Fairness: weak fairness of the loop of a thread, where the code loops for ever without a condition:
`AudioEngine::run` (it turns whether or not an interface is selected) and
`DAW::run` with its `tick()`. In `Mutations` the engine's taking of a message (`BeginNext`) is strongly fair: a turn in which it changes a
clip disables it for a while, but every turn begins with the messages. None for clients, nor for the environment.
`OrderIsDelivered` says what happens when the program shuts down instead.

One loop holds up the others: while a `save-project` waits (`DAW.cpp:114-115`) the DAW thread does not come back to `tick()`. `Mutations` has this; in `BufferManager`,
`MessageQueue`, `Recording` and `Connection` `tick()` is taken to go on. What is said to happen there (an order is delivered, a stop is heard, a request is handled) happens
when the save is through, and not at all when the save waits for ever, which `SaveIsAnsweredUnlessLost` says when it can: after a process has been lost, or while the engine never lets its queue run dry. Messages from the engine are handled
in the nested loop, too, and so are those that follow a stop.

`Playback`, `ProjectSwitch` and `Projects` are about safety and assume no fairness.

Deadlock is checked where the system must not stop. `track_tree` and `connection`, with the runs beside them,
turn it off because a bounded client has nothing more to ask once all is done.

## 5. Where code and documents differ

Three runs expect a violation, each of one property:

| run | what the trace shows |
|---|---|
| `restore_at_end` | `List::push_back()` leaves `next` of what it appends; a track that was deleted from the middle and restored without `before` (`docs/api:14-17`) closes the list to a circle. |
| `read_ahead_gap` | "Read whatever we need up to the read_ahead_point" (`Clip.cpp:222`): `read_ahead()` looks at the end of what is loaded only. After a stop that goes back by less than the read-ahead a read ahead of the play head is kept, and the stretch before it is never asked for. |
| `saved_unreadable` | A gain below 0.0001 is written as `5e-05` (one of a million as `1e+06`), and `next_token()` ends a number at the sign: the project that was saved can not be opened, and `open-project` is answered by neither `project-loaded` nor `error` (`docs/websocket-protocol:9`, `DAW.cpp:325-329`). |

The models, and the reading they took, show more. These have no run of their own, most because no document promises otherwise; the
properties that pass say in their definitions what they except for them:

* *Saving.* A mutation dropped by a full queue is never acknowledged, and `save-project` waits for ever (`DAW.cpp:114`; in `Mutations` a dropped change keeps
  `pending` above zero). Starting a recording is not counted, so that the engine may change what is being written (`README.md:40-43`). A reply to a mutation that fails leaves it counted for ever and ends a save that waits, without an answer (`SetTrackStateProcesses.cpp:26`).
  A save goes over the old file; an `ofstream` does not throw, so `error project-save-failed` is never
  sent. A string is written without escapes.
* *Switching.* `DeleteTrackProcess` asks the DAW for the current project when it runs in the engine (`DeleteTrackProcess.cpp:10`): after a switch it changes the maps of the new one, after a close it follows a null pointer (where
  `EngineChanges` is not enabled). A recording goes on over a switch (`AudioEngine.cpp:174`), into clips that are about to be deleted. A read completed before the switch may reach the engine after its project is gone. A deleted track stays in
  `armed_tracks`. `close-project` is not answered, though `docs/websocket-protocol:12` says so.
* *Dirty.* `dirty false` is sent after every save (`DAW.cpp:117`), also when there is no project and when the stream has failed (`:400-409`): the project "is or isn't dirty (that is, has
  unsaved changes" (`docs/websocket-protocol:30`) says more than the code does.
* *Serving.* `read()` of nothing, which is what a full buffer leaves, is taken for "EOF: The client closed the connection" (`web/Connection.cpp:65-69`): a line of the head of more than 513 bytes closes the connection. A malformed upgrade
  is answered with 400 and then with 101, and is a WebSocket all the same (`:391-418`). A frame without data waits for a byte behind its header (`:449`, `:460`).
* *Reading.* `ignore_value()` takes an array to have an element (`JSONParser.cpp:58-63`); an empty one leads it past its end, and one that is cut short is read for ever (`:59-63`), which no torn file of this program comes to, because what it does not know is not written.
* *Tracks.* A track made `after` one whose deletion is on its way is answered for and known by its id, but hangs on a track that is in no list (`Track.cpp:323-326`).
* *Recording.* A file is named by track and second and opened with `"w"` (`Recorder.cpp:99-113`, `:266`): a take begun in the second of the one before it empties its file, whose clip stays. The size of the RIFF chunk is made
  `samples_end - 4` (`:338`), where eight bytes come before what it counts. `RecordingStopped` closes whatever file is open: that of the next take, if "record" came in before it; the UI is told `recording-started`, and
  nothing is written (`Recorder.cpp:142`). A recorded file has no sample rate until it is opened for the first time, and a clip of an earlier start may follow later ones in the playlist, of which `Playlist::run()` expects the order of time.
* *Playing.* A read that failed or came short is played as if it had come whole (`AudioFileRead.cpp:97-104`), though the buffer is "Valid after read complete" (`AudioFileRead.h:32`). A miss in the middle of a buffer sets a clip ahead (`Clip.cpp:166`).
* *Samples.* `to_32()` at full scale, `from_24_be()` (`SampleConversion.cpp:198`), `to_16()` (`:100`).

## 6. Plan

1. Done: the queue, the buffer pool, reads, mutations, recording, playback, tracks, the switching of projects and the conversion of samples, with proofs;
   a connection, project files and sessions, model-checked.
2. Proofs. Done: all invariants of `BufferManager`, `FileReads`, `Mutations`, `Recording`, `TrackTree` and `ProjectSwitch`, and of `Playback`.
   What `Connection` and `Projects` keep to TLC is out of the prover's reach (section 3).
3. `Shutdown`: `EngineKill` and `EngineDied` in queues that drop.
4. Several connections, with the one that the DAW sends its messages to, and the lifetime of
   their processes; the device loop of `ALSAAudioInterface` with its xruns.
5. The actions of `html/*.js` with their undo stack against replies that come later.

### Not modelled

ALSA (`ALSAAudioInterface`, `ALSAAudioSystem`): what it does is decided by hardware and the library. Metering and statistics:
they report and change nothing. RIFF chunks and WAV headers beyond the two sizes of a recording. `FieldParser`, indentation, Base64, dates, logging. Drawing in the
browser. `Send`: nothing makes one.
