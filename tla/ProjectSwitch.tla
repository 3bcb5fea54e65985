---------------------------- MODULE ProjectSwitch ----------------------------
(***************************************************************************)
(* How one project takes the place of another (src/DAW.cpp,                *)
(* src/InstallProjectProcess.cpp and AudioEngine::install_project()).  The *)
(* DAW thread makes the new project and works with it from then on; the    *)
(* engine gets it with a process, and goes on with the old one until then; *)
(* the process brings the old one back, and the DAW thread deletes it.     *)
(* The changes to tracks travel by the same queues, made for the project   *)
(* the DAW has when it sends them.  A queue that is full drops what it is  *)
(* sent.                                                                   *)
(*                                                                         *)
(* What is in a project, and where it comes from, is left to Projects,     *)
(* which joins its own steps to these.                                     *)
(***************************************************************************)
EXTENDS Channel, Integers

CONSTANTS Project,  \* the Project objects that are ever made
          None,     \* no project
          Change,   \* what can be done to a track
          Capacity  \* messages a queue holds (99)

ASSUME SwitchAssumption == /\ None \notin Project
                           /\ Capacity \in Nat \ {0}

VARIABLES made, deleted, \* Project objects
          dawProject,    \* DAW::project
          engineProject, \* AudioEngine::project
          to, from,      \* the queues to and from the engine
          pending,       \* pending_mutations
          twice,         \* a project has been deleted twice
          lost           \* a queue has dropped something

switchVars == <<made, deleted, dawProject, engineProject, to, from, pending,
                twice, lost>>

\* An InstallProjectProcess, with the old project once it has it, and a
\* process that changes a track of a project.
Install(new, old) == [type |-> "install", project |-> new, old |-> old]
Edit(project, what) == [type |-> "edit", project |-> project, what |-> what]

SwitchInit == /\ made = {} /\ deleted = {}
              /\ dawProject = None /\ engineProject = None
              /\ to = << >> /\ from = << >>
              /\ pending = 0
              /\ twice = FALSE /\ lost = FALSE

\* What is left of some messages when the queue is nearly full.
SendTo(messages) ==
  LET room == Capacity - Len(to)
  IN  /\ to' = to \o SubSeq(messages, 1, IF Len(messages) <= room
                                         THEN Len(messages) ELSE room)
      /\ lost' = (lost \/ Len(messages) > room)
SendFrom(message) == /\ from' = Sent(from, message, Capacity)
                     /\ lost' = (lost \/ Len(from) >= Capacity)

-----------------------------------------------------------------------------
(* The DAW thread.                                                         *)

\* open_project() and new_project(), when they have made the new one; the
\* Recorder arms its tracks once more.
SwitchTo(p, armings) ==
  /\ p \in Project \ made
  /\ made' = made \cup {p}
  /\ SendTo(<<Install(p, None)>>
              \o [i \in DOMAIN armings |-> Edit(p, armings[i])])
  /\ dawProject' = p
  /\ UNCHANGED <<deleted, engineProject, from, pending, twice>>

\* close_project().
Close == /\ SendTo(<<Install(None, None)>>)
         /\ dawProject' = None
         /\ UNCHANGED <<made, deleted, engineProject, from, pending, twice>>

\* A process that changes the project; a MutatingProcess counts itself.
SendEdit(what, counted) ==
  /\ dawProject # None
  /\ SendTo(<<Edit(dawProject, what)>>)
  /\ pending' = IF counted THEN pending + 1 ELSE pending
  /\ UNCHANGED <<made, deleted, dawProject, engineProject, from, twice>>

\* Broken variant: the process deletes the project it brought.
TakeInstalledNew ==
  /\ from # << >>
  /\ Head(from).type = "install"
  /\ LET old == Head(from).project
     IN  /\ deleted' = deleted \cup ({old} \ {None})
         /\ twice' = (twice \/ old \in deleted)
  /\ from' = Tail(from)
  /\ UNCHANGED <<made, dawProject, engineProject, to, pending, lost>>
\* Broken variant: the old project is left alone.
TakeInstalledLeak ==
  /\ from # << >> /\ Head(from).type = "install"
  /\ from' = Tail(from)
  /\ UNCHANGED <<made, deleted, dawProject, engineProject, to, pending, twice,
                 lost>>
\* An InstallProjectProcess has reported; its destructor deletes the old
\* project.
TakeInstalled ==
  /\ from # << >> /\ Head(from).type = "install"
  /\ LET old == Head(from).old
     IN  /\ deleted' = deleted \cup ({old} \ {None})
         /\ twice' = (twice \/ old \in deleted)
  /\ from' = Tail(from)
  /\ UNCHANGED <<made, dawProject, engineProject, to, pending, lost>>

\* A process that changed the project is back.
TakeEdited(counted) ==
  /\ from # << >> /\ Head(from).type = "edit"
  /\ from' = Tail(from)
  /\ pending' = IF counted THEN pending - 1 ELSE pending
  /\ UNCHANGED <<made, deleted, dawProject, engineProject, to, twice, lost>>

-----------------------------------------------------------------------------
(* The engine.                                                             *)

\* install_project().
EngineInstalls == /\ to # << >> /\ Head(to).type = "install"
                  /\ to' = Tail(to)
                  /\ engineProject' = Head(to).project
                  /\ SendFrom(Install(Head(to).project, engineProject))
                  /\ UNCHANGED <<made, deleted, dawProject, pending, twice>>

\* The process is continued and returned.
EngineEdits == /\ to # << >> /\ Head(to).type = "edit"
               /\ to' = Tail(to)
               /\ SendFrom(Head(to))
               /\ UNCHANGED <<made, deleted, dawProject, engineProject, pending,
                              twice>>

\* The program comes to an end, as it may at any time, and starts anew.
SwitchRestart == /\ made' = {} /\ deleted' = {}
                 /\ dawProject' = None /\ engineProject' = None
                 /\ to' = << >> /\ from' = << >>
                 /\ pending' = 0
                 /\ twice' = FALSE /\ lost' = FALSE

SwitchNext == \/ \E p \in Project, armings \in Seq(Change) : SwitchTo(p, armings)
              \/ Close
              \/ \E what \in Change, counted \in BOOLEAN : SendEdit(what, counted)
              \/ TakeInstalled
              \/ \E counted \in BOOLEAN : TakeEdited(counted)
              \/ EngineInstalls
              \/ EngineEdits
              \/ SwitchRestart

SwitchSpec == SwitchInit /\ [][SwitchNext]_switchVars

-----------------------------------------------------------------------------
\* What is in use is alive, and nothing is deleted twice, even if processes
\* have been lost: the projects of both threads, the one that is to be
\* installed and the one that is to be deleted, and the projects of the
\* changes under way (InstallProjectProcess::~InstallProjectProcess()).
InUseIsAlive ==
  /\ dawProject \notin deleted
  /\ engineProject \notin deleted
  /\ \A i \in DOMAIN to : to[i].project \notin deleted
  /\ \A i \in DOMAIN from :
       /\ from[i].type = "install" => from[i].old \notin deleted
       /\ from[i].type = "edit" => from[i].project \notin deleted
  /\ ~twice

\* When all messages have been handled and none was lost, both threads have
\* the same project and every other one has been deleted.
OneProjectLeft ==
  to = << >> /\ from = << >> /\ ~lost =>
    /\ engineProject = dawProject
    /\ made \ deleted = {dawProject} \ {None}
=============================================================================
