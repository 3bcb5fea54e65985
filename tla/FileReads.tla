------------------------------ MODULE FileReads ------------------------------
(***************************************************************************)
(* The life of the AudioFileRead objects that bring audio files into       *)
(* memory ahead of the play head (src/AudioFileRead.cpp, Clip.cpp,         *)
(* SupplyReadsProcess.cpp and the DAW's list of active reads).  The DAW    *)
(* thread makes them and supplies them to the engine; the engine takes one *)
(* per read, puts it in a slot of a clip and sends it to the DAW, which    *)
(* opens the file, starts an asynchronous read, and sends it back when the *)
(* read is over.  The engine plays the data, and disposes of the read  *)
(* when the play head has left it: now, later, or before the DAW has even  *)
(* heard of it.  The DAW deletes what it finds disposed of.                *)
(*                                                                         *)
(* Both threads assign `state' and look at it without a lock, so the       *)
(* accesses that can meet are separate steps.                              *)
(***************************************************************************)
EXTENDS Channel, FiniteSets

CONSTANTS MaxReads, \* bound: read objects the DAW allocates
          Slot,     \* the reads[] slots of the clips that are being played
          None,
          FirstSupply, \* reads of the supply DAW::DAW() sends (8)
          PoolGoal, \* free requests the engine wants (40)
          Capacity  \* messages a queue holds (99)

Read == 1 .. MaxReads \* in the order of their allocation

ASSUME ReadAssumption == /\ MaxReads \in Nat
                         /\ None \notin Nat
                         /\ FirstSupply \in 1 .. MaxReads
                         /\ PoolGoal \in Nat
                         /\ Capacity \in Nat \ {0}

VARIABLES made,     \* reads allocated so far
          deleted,  \* the reads deleted so far
          state,    \* read |-> the state of its object
          aio,      \* read |-> "none", "busy", "whole", "short" or "cancelled"
          pool,     \* free_read_requests of the engine, a stack
          slots,    \* slot |-> the read it holds, or None
          to, from, \* the queues to and from the engine
          active,   \* active_reads of the DAW
          opens,    \* num_opens of the audio file
          dawPC, dawRead,       \* what the DAW thread is doing, to which read
          enginePC, engineSlot, \* what the engine is doing, to which slot
          fault     \* a deleted read has been used

dawVars == <<active, opens, dawPC, dawRead>>
engineVars == <<pool, slots, enginePC, engineSlot>>
vars == <<made, deleted, state, aio, pool, slots, to, from, active, opens,
          dawPC, dawRead, enginePC, engineSlot, fault>>

\* Messages: a read as a process, a supply of reads and the same one back, a
\* request for more.
Continue(r) == [type |-> "ContinueProcess", read |-> r]
Supply(first, last) == [type |-> "Supply", first |-> first, last |-> last]
SupplyBack == [type |-> "SupplyBack"]
NeedMore(n) == [type |-> "NeedMoreReadRequests", num |-> n]

Init == /\ made = FirstSupply
        /\ deleted = {}
        /\ state = [r \in Read |-> "Waiting"]
        /\ aio = [r \in Read |-> "none"]
        /\ pool = << >>
        /\ slots = [s \in Slot |-> None]
        /\ to = <<Supply(1, FirstSupply)>>
        /\ from = << >>
        /\ active = << >>
        /\ opens = 0
        /\ dawPC = "idle"
        /\ dawRead = None
        /\ enginePC = "run"
        /\ engineSlot = None
        /\ fault = FALSE

-----------------------------------------------------------------------------
(* The engine.                                                             *)

\* SupplyReadsProcess::supplying(): the new requests join the free ones.
\* They come in the order they were linked, youngest first, and each is
\* pushed on top of the last.  The process goes back to its sender.
TakeSupply == /\ enginePC = "run"
              /\ to # << >>
              /\ Head(to).type = "Supply"
              /\ LET new == Head(to)
                 IN  pool' = [i \in 1 .. new.last - new.first + 1 |->
                                new.first + i - 1] \o pool
              /\ to' = Tail(to)
              /\ from' = Sent(from, SupplyBack, Capacity)
              /\ UNCHANGED <<made, deleted, state, aio, dawVars, slots, enginePC,
                             engineSlot, fault>>

\* A read that is over comes back; next() has nothing to do in its state.
TakeRead == /\ enginePC = "run"
            /\ to # << >>
            /\ Head(to).type = "ContinueProcess"
            /\ to' = Tail(to)
            /\ fault' = (Head(to).read \in deleted)
            /\ UNCHANGED <<made, deleted, state, aio, from, dawVars, engineVars>>

\* The loop of the engine asks while it has too few, each time around.
AskForMore == /\ enginePC = "run"
              /\ Len(pool) < PoolGoal
              /\ from' = Sent(from, NeedMore(PoolGoal - Len(pool)), Capacity)
              /\ UNCHANGED <<made, deleted, state, aio, to, dawVars, engineVars, fault>>

\* Broken variant: the request stays in the list of free ones.
RequestKept(s) == /\ enginePC = "run"
                  /\ slots[s] = None
                  /\ pool # << >>
                  /\ LET r == Head(pool)
                     IN  /\ slots' = [slots EXCEPT ![s] = r]
                         /\ state' = [state EXCEPT ![r] = "StartingRead"]
                         /\ from' = Sent(from, Continue(r), Capacity)
                  /\ UNCHANGED <<made, deleted, aio, to, dawVars, pool, enginePC,
                                 engineSlot, fault>>
\* Clip::start_read() with a free slot and a free request.
RequestRead(s) == /\ enginePC = "run"
                  /\ slots[s] = None
                  /\ pool # << >>
                  /\ LET r == Head(pool)
                     IN  /\ slots' = [slots EXCEPT ![s] = r]
                         /\ state' = [state EXCEPT ![r] = "StartingRead"]
                         /\ from' = Sent(from, Continue(r), Capacity)
                  /\ pool' = Tail(pool)
                  /\ UNCHANGED <<made, deleted, aio, to, dawVars, enginePC, engineSlot,
                                 fault>>

\* Clip::read_ahead() finds the slot's read behind the play head or beyond
\* the read-ahead point: dispose() marks it...
Dispose(s) == /\ enginePC = "run"
              /\ slots[s] # None
              /\ state' = [state EXCEPT ![slots[s]] = "Done"]
              /\ enginePC' = "dispose"
              /\ engineSlot' = s
              /\ UNCHANGED <<made, deleted, aio, to, from, dawVars, pool, slots, fault>>

\* Broken variant: the slot keeps its pointer.
DisposeSendKeepsSlot == /\ enginePC = "dispose"
                        /\ from' = Sent(from, Continue(slots[engineSlot]),
                                        Capacity)
                        /\ enginePC' = "run"
                        /\ engineSlot' = None
                        /\ UNCHANGED <<made, deleted, state, aio, to, dawVars, pool,
                                       slots, fault>>
\* ... and sends it to the DAW; then the slot is cleared.
DisposeSend == /\ enginePC = "dispose"
               /\ from' = Sent(from, Continue(slots[engineSlot]), Capacity)
               /\ slots' = [slots EXCEPT ![engineSlot] = None]
               /\ enginePC' = "run"
               /\ engineSlot' = None
               /\ UNCHANGED <<made, deleted, state, aio, to, dawVars, pool, fault>>

Engine == \/ TakeSupply
          \/ TakeRead
          \/ AskForMore
          \/ \E s \in Slot : RequestRead(s) \/ Dispose(s)
          \/ DisposeSend

-----------------------------------------------------------------------------
(* The DAW thread.                                                         *)

\* DAW::handle_messages_from_engine() makes a SupplyReadsProcess with as many
\* new reads as the engine asked for (MaxReads bounds them).
MakeMore == /\ dawPC = "idle"
            /\ from # << >>
            /\ Head(from).type = "NeedMoreReadRequests"
            /\ from' = Tail(from)
            /\ LET last == IF made + Head(from).num > MaxReads
                           THEN MaxReads ELSE made + Head(from).num
               IN  /\ made' = last
                   /\ to' = Sent(to, Supply(made + 1, last), Capacity)
            /\ UNCHANGED <<deleted, state, aio, dawVars, engineVars, fault>>

\* A SupplyReadsProcess is back: next() does nothing, and it is deleted.
DeleteSupply == /\ dawPC = "idle"
                /\ from # << >>
                /\ Head(from).type = "SupplyBack"
                /\ from' = Tail(from)
                /\ UNCHANGED <<made, deleted, state, aio, to, dawVars, engineVars,
                               fault>>

\* A read arrives: next() looks at its state.
Receive == /\ dawPC = "idle"
           /\ from # << >>
           /\ Head(from).type = "ContinueProcess"
           /\ LET r == Head(from).read
              IN  IF r \in deleted
                  THEN fault' = TRUE /\ UNCHANGED <<dawPC, dawRead>>
                  ELSE /\ dawPC' = IF state[r] = "StartingRead" THEN "start"
                                                                ELSE "check"
                       /\ dawRead' = r
                       /\ UNCHANGED fault
           /\ from' = Tail(from)
           /\ UNCHANGED <<made, deleted, state, aio, to, active, opens, engineVars>>

\* start_read(): the file is opened, the read queued, the state assigned
\* whatever it has become meanwhile.
StartRead == /\ dawPC = "start"
             /\ opens' = opens + 1
             /\ aio' = [aio EXCEPT ![dawRead] = "busy"]
             /\ state' = [state EXCEPT ![dawRead] = "Reading"]
             /\ active' = <<dawRead>> \o active
             /\ dawPC' = "check"
             /\ UNCHANGED <<made, deleted, to, from, dawRead, engineVars, fault>>

\* The file cannot be opened, or the open file not read: the exception
\* leaves the message loop.
StartFails == /\ dawPC = "start"
              /\ opens' \in {opens, opens + 1}
              /\ dawPC' = "idle"
              /\ dawRead' = None
              /\ UNCHANGED <<made, deleted, state, aio, to, from, active,
                             engineVars, fault>>

\* AudioFile::close().
Closed(n) == IF n <= 1 THEN 0 ELSE n - 1

\* After next(): is_done()?  Then the read is deleted.  A read that is still
\* going on is cancelled and leaves the list, but its file stays open.
Without(list, r) ==
  IF \A i \in DOMAIN list : list[i] # r THEN list
  ELSE LET i == CHOOSE i \in DOMAIN list : list[i] = r
       IN  SubSeq(list, 1, i - 1) \o SubSeq(list, i + 1, Len(list))

\* Broken variant: the destructor leaves the read in the list.
CheckDoneKeepsActive ==
  /\ dawPC = "check"
  /\ IF state[dawRead] = "Done"
     THEN deleted' = deleted \cup {dawRead}
     ELSE UNCHANGED deleted
  /\ dawPC' = "idle"
  /\ dawRead' = None
  /\ UNCHANGED <<made, state, aio, active, to, from, opens, engineVars, fault>>
\* Broken variant: every read that is deleted closes its file.
CheckDoneCloses ==
  /\ dawPC = "check"
  /\ IF state[dawRead] = "Done"
     THEN /\ deleted' = deleted \cup {dawRead}
          /\ aio' = [aio EXCEPT ![dawRead] =
                       IF @ = "busy" THEN "cancelled" ELSE @]
          /\ active' = Without(active, dawRead)
          /\ opens' = Closed(opens)
     ELSE UNCHANGED <<deleted, aio, active, opens>>
  /\ dawPC' = "idle"
  /\ dawRead' = None
  /\ UNCHANGED <<made, state, to, from, engineVars, fault>>
CheckDone ==
  /\ dawPC = "check"
  /\ IF state[dawRead] = "Done"
     THEN /\ deleted' = deleted \cup {dawRead}
          /\ aio' = [aio EXCEPT ![dawRead] =
                       IF @ = "busy" THEN "cancelled" ELSE @]
          /\ active' = Without(active, dawRead)
     ELSE UNCHANGED <<deleted, aio, active>>
  /\ dawPC' = "idle"
  /\ dawRead' = None
  /\ UNCHANGED <<made, state, to, from, opens, engineVars, fault>>

\* Broken variant: the file is closed though the read is in progress.
CompleteTooEarly(r) ==
  /\ dawPC = "idle"
  /\ \E i \in DOMAIN active : active[i] = r
  /\ opens' = Closed(opens)
  /\ state' = [state EXCEPT ![r] = "Playing"]
  /\ active' = Without(active, r)
  /\ to' = Sent(to, Continue(r), Capacity)
  /\ UNCHANGED <<made, deleted, aio, from, dawPC, dawRead, engineVars, fault>>
\* DAW::handle_file_reads(): a read that is no longer in progress is taken for
\* complete, however it ended: read_is_complete() does not ask how much came.
\* Its file is closed and the engine is told.
Complete(r) == /\ dawPC = "idle"
               /\ \E i \in DOMAIN active : active[i] = r
               /\ aio[r] # "busy"
               /\ opens' = Closed(opens)
               /\ state' = [state EXCEPT ![r] = "Playing"]
               /\ active' = Without(active, r)
               /\ to' = Sent(to, Continue(r), Capacity)
               /\ UNCHANGED <<made, deleted, aio, from, dawPC, dawRead, engineVars,
                              fault>>

Daw == \/ MakeMore
       \/ DeleteSupply
       \/ Receive
       \/ StartRead
       \/ StartFails
       \/ CheckDone
       \/ \E r \in Read : Complete(r)

\* The kernel is done with a read: with all its bytes, or with fewer or none
\* (an error, the end of the file).
ReadEnds(r) == /\ aio[r] = "busy"
               /\ \E how \in {"whole", "short"} : aio' = [aio EXCEPT ![r] = how]
               /\ UNCHANGED <<made, deleted, state, to, from, dawVars, engineVars,
                              fault>>

\* Using a deleted read ends the program: nothing is said of what follows.
Crashed == fault /\ UNCHANGED vars

Running == Engine \/ Daw \/ \E r \in Read : ReadEnds(r)

Next == (~fault /\ Running) \/ Crashed

Spec == Init /\ [][Next]_vars

-----------------------------------------------------------------------------
InList(list) == {list[i] : i \in DOMAIN list}
InSlots == {slots[s] : s \in Slot \ {engineSlot}} \ {None}
Made == 1 .. made

TypeOK == /\ made \in 0 .. MaxReads
          /\ deleted \subseteq Made
          /\ state \in [Read -> {"Waiting", "StartingRead", "Reading",
                                 "Playing", "Done"}]
          /\ aio \in [Read -> {"none", "busy", "whole", "short", "cancelled"}]
          /\ pool \in Seq(Made)
          /\ active \in Seq(Made)
          /\ slots \in [Slot -> Made \cup {None}]
          /\ opens \in Nat
          /\ dawPC \in {"idle", "start", "check"}
          /\ dawRead \in Made \cup {None}
          /\ enginePC \in {"run", "dispose"}
          /\ engineSlot \in Slot \cup {None}
          /\ fault \in BOOLEAN

\* The DAW deletes no read that the engine can still reach without a message
\* (in a slot it is not just clearing, or in its pool), however late or early
\* it hears of the request and of the disposal.
EngineReadsAlive == (InSlots \cup InList(pool)) \cap deleted = {}

\* The DAW polls no deleted read.
ActiveReadsAlive == InList(active) \cap deleted = {}

\* The kernel is done with a slot's read that the engine may play: it writes no
\* more into the buffer that is being mixed, and the DAW has cancelled nothing
\* the engine still holds (AudioFileRead::read_is_complete(), its destructor).
\* How much of the buffer it has filled is another matter: nobody asks.
PlayableHasEnded ==
  \A r \in InSlots : state[r] = "Playing" => aio[r] \in {"whole", "short"}

\* The file is not closed under a read that is going on: every active read
\* still has its open() (a cancelled one keeps its for ever).
FileOpenWhileReading == opens >= Len(active)

\* A read has one holder in the engine: two slots, or a slot and the pool,
\* never share one.
OneHolder ==
  /\ \A s, t \in Slot : s # t /\ slots[s] # None => slots[s] # slots[t]
  /\ InSlots \cap InList(pool) = {}
  /\ Cardinality(InList(pool)) = Len(pool)
=============================================================================
