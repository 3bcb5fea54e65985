------------------------------- MODULE Projects -------------------------------
(***************************************************************************)
(* The projects of a session: made, opened, changed, saved and closed      *)
(* (src/DAW.cpp, src/Project.cpp, src/Recorder.cpp), by steps that are     *)
(* joined to those of ProjectSwitch, with the files of SavedProject.  A    *)
(* file is written over the last one; the program may come to an end in    *)
(* the middle, and the disk may be full, which nobody is told.             *)
(*                                                                         *)
(* Only the children of the master are changed here, and the new ones are  *)
(* put at the end: TrackTree is about their order.                         *)
(***************************************************************************)
EXTENDS ProjectSwitch, SavedProject

CONSTANTS Path,   \* where projects are
          OnDisk, \* path |-> what is there at first: text, project; or None
          Settings, \* bound: names and gains the user gives
          MaxPending, \* bound: changes under way
          MaxCommands, \* bound: what the user asks for
          Take,   \* start and length of what is recorded
          MaxId,  \* bound: ids given out in a project
          Cuts    \* bound: where a file is cut short

ASSUME ProjectsAssumption == /\ MaxId \in Nat
                             /\ Cuts \subseteq Nat
                             /\ Project \subseteq Nat

VARIABLES contents, \* project |-> what it holds
          armed,    \* armed_tracks of the Recorder: project and id
          saving,   \* the file being written, or None
          disk,     \* path |-> text, or None
          commands, \* asked for so far
          saved     \* path |-> the project that was last written there

vars == <<switchVars, contents, armed, saving, disk, saved, commands>>

Unmade == [path |-> None, master |-> NewMaster, files |-> << >>, nextId |-> 2,
           byId |-> {1}]
NoSave == [project |-> None, install |-> FALSE]

Init == /\ SwitchInit
        /\ contents = [p \in Project |-> Unmade]
        /\ armed = {}
        /\ saving = NoSave
        /\ commands = 0
        /\ disk = [path \in Path |-> IF OnDisk[path] = None THEN None
                                     ELSE OnDisk[path].text]
        /\ saved = [path \in Path |-> IF OnDisk[path] = None THEN None
                                      ELSE OnDisk[path].project]

\* The DAW thread waits for its messages or the UI; while it writes a file it
\* does nothing else.
Idle == saving = NoSave

Text(p) == Written(contents[p])

-----------------------------------------------------------------------------
(* Changes to tracks.                                                      *)

Changing(kind, track) ==
  [kind |-> kind, track |-> track, set |-> << >>, takes |-> << >>]

Counted(change) == change.kind \notin {"record", "rearm"}

\* The child of the master with an id, changed.
WithChild(master, id, Changed(_)) ==
  [master EXCEPT !.children =
     [i \in DOMAIN @ |-> IF @[i].id = id THEN Changed(@[i]) ELSE @[i]]]

\* What a process does in the engine to the project it was made for.
Applied(change, master) ==
  CASE change.kind = "new" ->
         [master EXCEPT !.children =
            Append(@, [EmptyTrack EXCEPT !.id = change.track])]
    [] change.kind = "delete" ->
         [master EXCEPT !.children =
            SelectSeq(@, LAMBDA t : t.id # change.track)]
    [] change.kind = "set" ->
         WithChild(master, change.track, LAMBDA t : change.set @@ t)
    [] change.kind \in {"arm", "rearm"} ->
         WithChild(master, change.track,
                   LAMBDA t : [t EXCEPT !.record_armed = TRUE])
    [] change.kind = "record" ->
         FoldLeft(LAMBDA m, take :
                    WithChild(m, take.track,
                              LAMBDA t : [t EXCEPT !.clips =
                                            Append(@, take.clip)]),
                  master, change.takes)

\* A request of the API about a track of the DAW's project.
Request(change) == /\ Idle
                   /\ pending < MaxPending
                   /\ SendEdit(change, TRUE)
                   /\ UNCHANGED <<saving, disk, saved>>

\* NewTrackProcess: its constructor takes an id and registers the track.
NewTrack == /\ dawProject # None
            /\ contents[dawProject].nextId <= MaxId
            /\ Request(Changing("new", contents[dawProject].nextId))
            /\ contents' = [contents EXCEPT
                              ![dawProject].nextId = @ + 1,
                              ![dawProject].byId =
                                @ \cup {contents[dawProject].nextId}]
            /\ UNCHANGED armed

Known(id) == dawProject # None /\ id \in contents[dawProject].byId \ {1}

\* SetTrackGainProcess, SetTrackNameProcess and their like.
SetTrack(id, setting) == /\ Known(id)
                         /\ Request([Changing("set", id) EXCEPT !.set = setting])
                         /\ UNCHANGED <<contents, armed>>

\* DeleteTrackProcess.
DeleteTrack(id) == /\ Known(id)
                   /\ Request(Changing("delete", id))
                   /\ UNCHANGED <<contents, armed>>

\* Recorder::arm_track().
Arm(id) == /\ Known(id)
           /\ Request(Changing("arm", id))
           /\ armed' = armed \cup {[project |-> dawProject, id |-> id]}
           /\ UNCHANGED contents

\* Recorder::start(): a file and a clip for every armed track.
RecordTake ==
  LET first == contents[dawProject].nextId
      tracks == SetToSortSeq({a.id : a \in armed}, <)
      Id(i) == first + 2 * (i - 1)
      takes == [i \in DOMAIN tracks |->
                  [track |-> tracks[i],
                   clip |-> [EmptyClip EXCEPT !.id = Id(i) + 1, !.file = Id(i),
                                              !.start = Take.start,
                                              !.length = Take.length]]]
      files == [i \in DOMAIN tracks |-> [id |-> Id(i), path |-> "take"]]
  IN  /\ Idle
      /\ dawProject # None
      /\ armed # {}
      /\ Id(Len(tracks)) < MaxId
      /\ SendEdit([Changing("record", 0) EXCEPT !.takes = takes], FALSE)
      /\ contents' = [contents EXCEPT
                        ![dawProject].nextId = @ + 2 * Len(tracks),
                        ![dawProject].files = @ \o files]
      /\ UNCHANGED <<armed, saving, disk, saved>>

\* The process in the engine.  A deletion takes the id from the project that
\* the DAW has by then.
EngineChanges ==
  LET p == Head(to).project
      change == Head(to).what
  IN  /\ EngineEdits
      /\ change.kind = "delete" => dawProject # None
      /\ contents' =
           [q \in Project |->
              [contents[q] EXCEPT
                 !.master = IF q = p THEN Applied(change, @) ELSE @,
                 !.byId = IF q = dawProject /\ change.kind = "delete"
                          THEN @ \ {change.track} ELSE @]]
      /\ UNCHANGED <<armed, saving, disk, saved>>

\* back_in_daw() of such a process.
ChangeIsDone == /\ Idle
                /\ from # << >>
                /\ TakeEdited(Counted(Head(from).what))
                /\ UNCHANGED <<contents, armed, saving, disk, saved>>

-----------------------------------------------------------------------------
(* Making, opening, saving and closing projects.                           *)

ArmedIds(p) == {t.id : t \in {u \in TracksUnder(contents'[p].master) :
                                u.record_armed}}

\* start_process(), the DAW's pointer, and Recorder::project_changed().
Installs(p) ==
  LET ids == ArmedIds(p)
  IN  /\ SwitchTo(p, [i \in DOMAIN SetToSortSeq(ids, <) |->
                       Changing("rearm", SetToSortSeq(ids, <)[i])])
      /\ armed' = {[project |-> p, id |-> id] : id \in ids}

\* Whether open_project() gets to the end: the text must be a project, and
\* load_audio_file_info() must find its files.
Loaded(read) == read.ok /\ \A f \in Range(read.project.files) : f.path # ""
Readable(text) == Loaded(ReadBack(text))

\* Project objects are made in order.
IsNext(p) == p \notin made /\ \A q \in Project \ made : p <= q

\* A project that has been read.
Opened(path, read) ==
  [path |-> path, master |-> read.master, files |-> read.files,
   nextId |-> MaxUsedId(read) + 1,
   byId |-> {t.id : t \in TracksUnder(read.master)}]

\* open_project().  What cannot be read changes nothing.
OpenProject(path, p) ==
  /\ Idle
  /\ IsNext(p)
  /\ disk[path] # None
  /\ Readable(disk[path])
  /\ contents' = [contents EXCEPT
                    ![p] = Opened(path, ReadBack(disk[path]).project)]
  /\ Installs(p)
  /\ UNCHANGED <<saving, disk, saved>>

\* A file is opened for writing: what was there is gone.
SaveBegins(p, install) ==
  /\ saving' = [project |-> p, install |-> install]
  /\ disk' = [disk EXCEPT ![contents'[p].path] = << >>]
  /\ UNCHANGED saved

\* new_project() begins with the file of the project.
NewProject(path, p) ==
  /\ Idle
  /\ IsNext(p)
  /\ disk[path] = None
  /\ contents' = [contents EXCEPT ![p].path = path]
  /\ SaveBegins(p, TRUE)
  /\ UNCHANGED <<switchVars, armed>>

\* save-project, when the pending changes have come back.
SaveProject ==
  /\ Idle
  /\ dawProject # None
  /\ pending = 0
  /\ UNCHANGED contents
  /\ SaveBegins(dawProject, FALSE)
  /\ UNCHANGED <<switchVars, armed>>

\* The file gets the first n tokens of the project.
Writes(n) ==
  LET p == saving.project
      path == contents[p].path
  IN  /\ n \in Cuts \cup {Len(Text(p))}
      /\ n <= Len(Text(p))
      /\ disk' = [disk EXCEPT ![path] = SubSeq(Text(p), 1, n)]
      /\ saved' = IF n = Len(Text(p))
                  THEN [saved EXCEPT ![path] =
                          [master |-> contents[p].master,
                           files |-> contents[p].files]]
                  ELSE saved
      /\ saving' = NoSave

\* The file has been written, or as much of it as there was room for; the
\* stream keeps the failure to itself.  A new project is then installed.
SaveEnds(n) == /\ ~Idle
               /\ Writes(n)
               /\ UNCHANGED contents
               /\ IF saving.install THEN Installs(saving.project)
                  ELSE UNCHANGED <<switchVars, armed>>

\* close_project().
CloseProject == /\ Idle
                /\ Close
                /\ armed' = {}
                /\ UNCHANGED <<contents, saving, disk, saved>>

\* install_project().
EngineSwitches == /\ EngineInstalls
                  /\ UNCHANGED <<contents, armed, saving, disk, saved>>

\* The InstallProjectProcess is back and done.
OldIsDeleted == /\ Idle
                /\ TakeInstalled
                /\ contents' = [p \in Project |-> IF p \in deleted' THEN Unmade
                                                 ELSE contents[p]]
                /\ UNCHANGED <<armed, saving, disk, saved>>

\* The end of the program, perhaps in the middle of a file.
Restart(n) == /\ SwitchRestart
              /\ contents' = [p \in Project |-> Unmade]
              /\ armed' = {}
              /\ IF Idle THEN UNCHANGED <<saving, disk, saved>> ELSE Writes(n)

Length == IF Idle THEN 0 ELSE Len(Text(saving.project))

\* The user asks for something.
Command == \/ NewTrack
           \/ \E id \in 1 .. MaxId :
                \/ \E setting \in Settings : SetTrack(id, setting)
                \/ DeleteTrack(id)
                \/ Arm(id)
           \/ RecordTake
           \/ \E path \in Path, p \in Project : \/ OpenProject(path, p)
                                               \/ NewProject(path, p)
           \/ SaveProject
           \/ CloseProject

\* Something that was asked for goes on, or everything ends.
Progress == \/ EngineChanges
            \/ ChangeIsDone
            \/ EngineSwitches
            \/ OldIsDeleted
            \/ \E n \in Cuts \cup {Length} : SaveEnds(n) \/ Restart(n)

Next == \/ /\ commands < MaxCommands
           /\ Command
           /\ commands' = commands + 1
        \/ Progress /\ UNCHANGED commands

Spec == Init /\ [][Next]_vars

-----------------------------------------------------------------------------
\* Numbers that differ in the sixth digit at most, and there by no more than
\* rounding makes them.
Near(x, y) == \A far \in {x - y, y - x} : far <= y \div 200000

RECURSIVE Alike(_, _)
Alike(t, u) ==
  /\ [t EXCEPT !.gain = 0, !.clips = << >>, !.children = << >>]
       = [u EXCEPT !.gain = 0, !.clips = << >>, !.children = << >>]
  /\ Near(t.gain, u.gain)
  /\ Len(t.clips) = Len(u.clips)
  /\ \A i \in DOMAIN t.clips :
       LET c == t.clips[i]
           d == u.clips[i]
       IN  /\ [c EXCEPT !.start = 0] = [d EXCEPT !.start = 0]
           /\ Near(c.start, d.start)
  /\ Len(t.children) = Len(u.children)
  /\ \A i \in DOMAIN t.children : Alike(t.children[i], u.children[i])

\* What is opened is what was last wholly written there, whatever was cut
\* short or went on meanwhile: every track with its settings, its place, its
\* clips and their files.  Gains and the starts of clips are rounded to six
\* digits and no further.  A name with a quotation mark, which is written as it
\* is, makes the file unreadable here; in the code what comes after the mark
\* may be taken for other settings, which is left out (Track::write_to_file(),
\* Clip::write_to_file(), Project::read_json()).
OpenedIsSaved ==
  [][\A p \in made' \ made :
       LET now == contents'[p]
       IN  contents[p] = Unmade =>
             /\ saved[now.path] # None
             /\ Alike(now.master, saved[now.path].master)
             /\ Range(now.files) = Range(saved[now.path].files)]_vars

\* A file that was cut short anywhere is refused, never taken for a smaller
\* project nor read for ever (JSONParser::next_field(), array_is_done()).
TornIsRefused ==
  ~Idle => \A n \in 0 .. Length - 1 :
             LET read == ReadBack(SubSeq(Text(saving.project), 1, n))
             IN  read.ends /\ ~Loaded(read)

\* The id that is given out next is used by no track, clip or file of the
\* project, though ids come from the file, from both threads' changes and
\* from a counter that is not saved (Project::new_id(), max_used_id()).
IdsAreFresh ==
  \A p \in made \ deleted :
    \A id \in IdsOf(contents[p]) : id < contents[p].nextId

\* "open-project (-> project-loaded or error)": a project that has been
\* wholly saved can be opened (Track::write_to_file(), JSONParser).
SavedCanBeOpened ==
  \A path \in Path :
    disk[path] # None /\ disk[path] # << >> /\ saved[path] # None
      /\ disk[path] = Written(saved[path]) => Readable(disk[path])
=============================================================================
