------------------------------ MODULE Mutations ------------------------------
(***************************************************************************)
(* Who may touch the project, and when.  Only the engine changes it; only  *)
(* the DAW thread saves it.  A change is a Process that travels from the   *)
(* DAW to the engine and back (src/Process.cpp): in_engine() makes the     *)
(* change there, back_in_daw() acknowledges it.  A MutatingProcess counts  *)
(* itself in pending_mutations, and a save waits, handling messages, until *)
(* there are none.  Starting a recording changes the project too, but is   *)
(* no MutatingProcess.                                                     *)
(***************************************************************************)
EXTENDS Channel, Integers, FiniteSets

CONSTANTS MaxRequests, \* bound: processes the UI's requests start
          Capacity     \* messages a queue holds (99)

ASSUME MutationsAssumption == MaxRequests \in Nat /\ Capacity \in Nat \ {0}

Kind == {"mutate",  \* a MutatingProcess: SetTrackState, New-, Delete-, Restore-
         "record",  \* StartRecordingProcess
         "get"}     \* a GetProcess
Process == [kind : Kind, id : 1 .. MaxRequests]

\* The engine's NeedMoreReadRequests, and the SupplyReadsProcess that answers
\* it and comes back to be deleted.
NeedMore == [kind |-> "need-more", id |-> 0]
SupplyReads == [kind |-> "supply", id |-> 0]
NoProcess == [kind |-> "none", id |-> 0]

VARIABLES to, from,     \* the queues to and from the engine
          issued,       \* processes started so far
          lost,         \* the mutating processes that will never be
                        \* acknowledged: a full queue has dropped them, or
                        \* their reply has failed
          pending,      \* pending_mutations
          dawPC,        \* "idle" (web requests), "tick" (handling messages),
                        \* "saving" (at the test of save-project), "nested"
                        \* (handling messages in save-project) or "walking"
                        \* (writing the project)
          broken,       \* where a send has failed: "api", "ui"
          enginePC,     \* "run"; "changing" or "reading" the project
          inHand,       \* the process the engine has in hand
          recording,    \* the engine is recording
          unsavedEdit,  \* a mutating process has changed the project since
                        \* the last save began
          uiDirty       \* what the UI has last been told

queues == <<to, from, lost>>
dawVars == <<issued, pending, dawPC, broken, uiDirty>>
engineVars == <<enginePC, inHand, recording>>
vars == <<to, from, issued, lost, pending, dawPC, broken, enginePC, inHand,
          recording, unsavedEdit, uiDirty>>

Init == /\ to = << >>
        /\ from = << >>
        /\ issued = 0
        /\ lost = {}
        /\ pending = 0
        /\ dawPC = "idle"
        /\ broken = {}
        /\ enginePC = "run"
        /\ inHand = NoProcess
        /\ recording = FALSE
        /\ unsavedEdit = FALSE
        /\ uiDirty = FALSE

\* A process that finds the queue full is gone; nobody is told.
Dropped(queue, p) ==
  IF Len(queue) < Capacity \/ p.kind # "mutate" THEN {} ELSE {p}

-----------------------------------------------------------------------------
(* The DAW thread.                                                         *)

\* Broken variant: the process is counted when it reaches the engine.
RequestUncounted(k) ==
  /\ dawPC = "idle"
  /\ issued < MaxRequests
  /\ LET p == [kind |-> k, id |-> issued + 1]
     IN  /\ to' = Sent(to, p, Capacity)
         /\ lost' = lost \cup Dropped(to, p)
  /\ issued' = issued + 1
  /\ UNCHANGED <<from, pending, dawPC, broken, uiDirty, engineVars, unsavedEdit>>
\* A request from the UI starts a process.  The constructor of a
\* MutatingProcess counts it before it is sent.
Request(k) ==
  /\ dawPC = "idle"
  /\ issued < MaxRequests
  /\ LET p == [kind |-> k, id |-> issued + 1]
     IN  /\ to' = Sent(to, p, Capacity)
         /\ lost' = lost \cup Dropped(to, p)
  /\ issued' = issued + 1
  /\ pending' = IF k = "mutate" THEN pending + 1 ELSE pending
  /\ UNCHANGED <<from, dawPC, broken, uiDirty, engineVars, unsavedEdit>>

\* DAW::tick() turns from the web requests to the messages.
Tick == /\ dawPC = "idle"
        /\ dawPC' = "tick"
        /\ UNCHANGED <<queues, issued, pending, broken, uiDirty, engineVars,
                       unsavedEdit>>

\* "save-project" arrives.
SaveProject == /\ dawPC = "idle"
               /\ dawPC' = "saving"
               /\ UNCHANGED <<queues, issued, pending, broken, uiDirty,
                              engineVars, unsavedEdit>>

\* while (pending_mutations > 0) handle_messages_from_engine() ...
Wait == /\ dawPC = "saving"
        /\ pending > 0
        /\ dawPC' = "nested"
        /\ UNCHANGED <<queues, issued, pending, broken, uiDirty, engineVars,
                       unsavedEdit>>

\* Broken variant: the messages are handled once.
NoneLeftSavesAtOnce ==
  /\ dawPC \in {"tick", "nested"}
  /\ from = << >>
  /\ dawPC' = IF dawPC = "tick" THEN "idle" ELSE "walking"
  /\ unsavedEdit' = IF dawPC = "tick" THEN unsavedEdit ELSE FALSE
  /\ UNCHANGED <<queues, issued, pending, broken, uiDirty, engineVars>>
\* ... which comes back when it has found the queue empty, and no sooner.
NoneLeft == /\ dawPC \in {"tick", "nested"}
            /\ from = << >>
            /\ dawPC' = IF dawPC = "tick" THEN "idle" ELSE "saving"
            /\ UNCHANGED <<queues, issued, pending, broken, uiDirty,
                           engineVars, unsavedEdit>>

\* The next message is a process: it is taken from the queue, to be replied
\* to and deleted.
Took(p) == /\ dawPC \in {"tick", "nested"}
           /\ from # << >>
           /\ p = Head(from)
           /\ p # NeedMore
           /\ from' = Tail(from)
           /\ UNCHANGED <<to, issued, engineVars, unsavedEdit>>

\* Broken variant: the acknowledgement does not reach the UI.
TakeProcessSilently(p) ==
  /\ Took(p)
  /\ pending' = IF p.kind = "mutate" THEN pending - 1 ELSE pending
  /\ UNCHANGED <<lost, dawPC, broken, uiDirty>>
\* Broken variant: save-project waits without handling messages.
TakeProcessInTick(p) ==
  /\ dawPC = "tick"
  /\ Took(p)
  /\ pending' = IF p.kind = "mutate" THEN pending - 1 ELSE pending
  /\ uiDirty' = (uiDirty \/ p.kind = "mutate")
  /\ UNCHANGED <<lost, dawPC, broken>>
\* back_in_daw() or replying() replies; a mutation is acknowledged, and the UI
\* hears "dirty true".
TakeProcess(p) ==
  /\ Took(p)
  /\ p.kind = "mutate" => "ui" \notin broken
  /\ pending' = IF p.kind = "mutate" THEN pending - 1 ELSE pending
  /\ uiDirty' = (uiDirty \/ p.kind = "mutate")
  /\ UNCHANGED <<lost, dawPC, broken>>

\* The reply cannot be sent.  The exception leaves back_in_daw() before
\* mutation_done(), and everything around it, a save-project that waits
\* included; DAW::run() catches it.
ReplyFails(p) ==
  /\ Took(p)
  /\ p.kind # "supply"
  /\ lost' = IF p.kind = "mutate" THEN lost \cup {p} ELSE lost
  /\ broken' = broken \cup {IF p.kind = "record" THEN "ui" ELSE "api"}
  /\ dawPC' = "idle"
  /\ UNCHANGED <<pending, uiDirty>>

\* The reply is sent, but "dirty true" is not: mutation_complete() has counted
\* the mutation by then.
ReportFails(p) ==
  /\ Took(p)
  /\ p.kind = "mutate"
  /\ pending' = pending - 1
  /\ broken' = broken \cup {"ui"}
  /\ dawPC' = "idle"
  /\ UNCHANGED <<lost, uiDirty>>

\* NeedMoreReadRequests is answered with a SupplyReadsProcess.
TakeNeedMore ==
  /\ dawPC \in {"tick", "nested"}
  /\ from # << >>
  /\ Head(from) = NeedMore
  /\ from' = Tail(from)
  /\ to' = Sent(to, SupplyReads, Capacity)
  /\ UNCHANGED <<lost, dawVars, engineVars, unsavedEdit>>

\* while (pending_mutations > 0) ends; save_project() starts to write.
SaveStarts == /\ dawPC = "saving"
              /\ pending <= 0
              /\ dawPC' = "walking"
              /\ unsavedEdit' = FALSE
              /\ UNCHANGED <<queues, issued, pending, broken, uiDirty,
                             engineVars>>

\* The project is written, or not: there is none, or the stream has failed,
\* and nobody looks: what is in the file is left out here.  "dirty false" is
\* sent in every case.
SaveEnds == /\ dawPC = "walking"
            /\ dawPC' = "idle"
            /\ \/ /\ "ui" \notin broken
                  /\ uiDirty' = FALSE
                  /\ UNCHANGED broken
               \/ /\ broken' = broken \cup {"ui"}
                  /\ UNCHANGED uiDirty
            /\ UNCHANGED <<queues, issued, pending, engineVars, unsavedEdit>>

\* handle_messages_from_engine(): from DAW::tick(), or from save-project.
Handle == \/ \E p \in Process \cup {SupplyReads} :
               TakeProcess(p) \/ ReplyFails(p) \/ ReportFails(p)
          \/ TakeNeedMore
          \/ NoneLeft
Save == Wait \/ SaveStarts \/ SaveEnds

-----------------------------------------------------------------------------
(* The engine.                                                             *)

\* process->next() enters in_engine(); the message stays in its slot.
BeginNext ==
  /\ enginePC = "run"
  /\ to # << >>
  /\ inHand' = Head(to)
  /\ enginePC' = IF Head(to).kind \in {"mutate", "record"} THEN "changing"
                                                          ELSE "reading"
  /\ recording' = (recording \/ Head(to).kind = "record")
  /\ unsavedEdit' = (unsavedEdit \/ Head(to).kind = "mutate")
  /\ UNCHANGED <<queues, dawVars>>

\* next() returns: the process goes back, and its slot is freed.
EndNext == /\ inHand # NoProcess
           /\ from' = Sent(from, inHand, Capacity)
           /\ lost' = lost \cup Dropped(from, inHand)
           /\ to' = Tail(to)
           /\ inHand' = NoProcess
           /\ enginePC' = "run"
           /\ UNCHANGED <<dawVars, recording, unsavedEdit>>

\* The rest of a turn of the engine: it asks for more reads ...
Ask == /\ enginePC = "run"
       /\ from' = Sent(from, NeedMore, Capacity)
       /\ UNCHANGED <<to, lost, dawVars, engineVars, unsavedEdit>>

\* ... and while it records, run_recording() lengthens the clips.
BeginTake == /\ enginePC = "run"
             /\ recording
             /\ enginePC' = "changing"
             /\ UNCHANGED <<queues, dawVars, inHand, recording, unsavedEdit>>

EndTake == /\ enginePC = "changing"
           /\ inHand = NoProcess
           /\ enginePC' = "run"
           /\ UNCHANGED <<queues, dawVars, inHand, recording, unsavedEdit>>

\* finish_recording().
FinishTake == /\ enginePC = "run"
              /\ recording
              /\ recording' = FALSE
              /\ UNCHANGED <<queues, dawVars, enginePC, inHand, unsavedEdit>>

Engine == BeginNext \/ EndNext \/ Ask \/ BeginTake \/ EndTake \/ FinishTake

Next == \/ \E k \in Kind : Request(k)
        \/ Tick
        \/ Handle
        \/ SaveProject
        \/ Save
        \/ Engine

Spec == Init /\ [][Next]_vars

\* The DAW's loops keep turning, and every turn of the engine begins with the
\* messages.
FairSpec == /\ Spec
            /\ WF_vars(Handle)
            /\ WF_vars(Save)
            /\ SF_vars(BeginNext)
            /\ WF_vars(EndNext \/ EndTake)

-----------------------------------------------------------------------------
InQueue(queue) == {queue[i] : i \in DOMAIN queue}
Mutating(ps) == {p \in ps : p.kind = "mutate"}

\* The mutating processes on their way to the engine, in it or on their way
\* back.  (The one in hand is still in its slot of `to'.)
Outstanding == Mutating(InQueue(to) \cup InQueue(from))

\* pending_mutations is the number of changes asked for and not yet
\* acknowledged: those on their way, and those that never will be, because a
\* full queue has swallowed them or their reply has failed.
PendingIsExact == pending = Cardinality(Outstanding \cup lost)

\* While the project is being written no change that was counted is on its
\* way to the engine or being made there.
NoEditDuringSave == dawPC = "walking" => Outstanding = {}

\* A UI that shows the project as clean and can still be reached has been told
\* of every edit up to the last save, or is about to be: an edit stays pending
\* until it has been reported (mutation_complete() against "dirty false" of
\* save-project).  Whether that save has written anything is another matter:
\* it may have found no project, or the stream may have failed.
CleanHasMissedNoEdit ==
  ~uiDirty /\ "ui" \notin broken => ~unsavedEdit \/ pending > 0

\* A save-project that waits gets to write, once the engine sends no more
\* requests of its own (while they keep coming the queue need never be found
\* empty), unless a process it waits for has been lost; and it is left
\* without writing only by an exception of a reply (the nested loop of
\* DAW::handle_ui_message()).
SaveIsAnsweredUnlessLost ==
  <>[][~Ask]_vars =>
    (dawPC = "saving" ~>
       \/ dawPC = "walking"
       \/ lost # {}
       \/ dawPC = "idle" /\ broken # {})
=============================================================================
