---------------------------- MODULE BufferManager ----------------------------
(***************************************************************************)
(* The pool of audio buffers of src/BufferManager.cpp.  The realtime       *)
(* thread may not allocate: run() notes in needed_new_buffers how many     *)
(* buffers it wants, tick() builds a list of them on the non-realtime      *)
(* thread, and run() splices that list into the free list.  All the        *)
(* variables of the handover are plain memory that both threads touch, so  *)
(* tick() and run() are split at each shared access.                       *)
(*                                                                         *)
(* A linked list is the sequence of its buffers; a buffer is the number of *)
(* the malloc() that made it.                                              *)
(***************************************************************************)
EXTENDS Integers, Sequences, FiniteSets

CONSTANTS Wanted,     \* free_buffers_wanted (50)
          OutChannels,\* num_channels of AudioEngine::run() (2)
          MaxRequests \* bound: how often run() asks for more buffers

ASSUME BufferAssumption == /\ Wanted \in Nat \ {0}
                           /\ OutChannels \in Nat \ {0}
                           /\ MaxRequests \in Nat

VARIABLES free,      \* first_free_buffer: the free list
          numFree,   \* num_free_buffers
          overran,   \* had_overrun
          needed,    \* needed_new_buffers
          numNew,    \* num_new_buffers
          fresh,     \* first_new_buffer: the list handed over, empty for NULL
          tickPC,    \* where the non-realtime thread is
          toBuild,   \* buffers_to_build
          building,  \* prev_buffer: the list tick() is building
          enginePC,  \* where the realtime thread is
          outs,      \* out_buffers of this turn of AudioEngine::run()
          borrowed,  \* buffers tracks and recording have taken
          dropped,   \* buffers whose last pointer is gone
          made,      \* buffers allocated so far
          requests   \* how often run() has asked

poolVars == <<free, numFree, overran>>
handoverVars == <<needed, numNew, fresh>>
tickVars == <<tickPC, toBuild, building, made>>
userVars == <<outs, borrowed, dropped>>
vars == <<free, numFree, overran, needed, numNew, fresh, tickPC, toBuild,
          building, enginePC, outs, borrowed, dropped, made, requests>>

Elements(s) == {s[i] : i \in DOMAIN s}

Init == /\ free = << >>
        /\ numFree = 0
        /\ overran = FALSE
        /\ needed = 0
        /\ numNew = 0
        /\ fresh = << >>
        /\ tickPC = "idle"
        /\ toBuild = 0
        /\ building = << >>
        /\ enginePC = "top"
        /\ outs = << >>
        /\ borrowed = {}
        /\ dropped = {}
        /\ made = 0
        /\ requests = 0

-----------------------------------------------------------------------------
(* tick(), on the non-realtime thread.                                     *)

\* Broken variant: a small order is left to grow.
TickNeededLarge == /\ tickPC = "idle"
                   /\ needed > Wanted
                   /\ tickPC' = "first"
                   /\ UNCHANGED <<poolVars, handoverVars, toBuild, building,
                                  made, enginePC, userVars, requests>>
\* The first half of the condition: needed_new_buffers is not zero.
TickNeeded == /\ tickPC = "idle"
              /\ needed # 0
              /\ tickPC' = "first"
              /\ UNCHANGED <<poolVars, handoverVars, toBuild, building, made,
                             enginePC, userVars, requests>>

\* Broken variant: a list is built although the last one is still there.
TickFirstIgnored == /\ tickPC = "first"
                    /\ tickPC' = "build"
                    /\ UNCHANGED <<poolVars, handoverVars, toBuild, building,
                                   made, enginePC, userVars, requests>>
\* The second half: the last list has been taken.  Nothing to do otherwise.
TickFirst == /\ tickPC = "first"
             /\ tickPC' = IF fresh = << >> THEN "build" ELSE "idle"
             /\ UNCHANGED <<poolVars, handoverVars, toBuild, building, made,
                            enginePC, userVars, requests>>

\* needed_new_buffers is read again.  One buffer is made however few it asks
\* for: by now run() may have taken a list and brought it down to zero.
TickBuild == /\ tickPC = "build"
             /\ numNew' = 0
             /\ toBuild' = needed
             /\ LET n == IF needed > 1 THEN needed ELSE 1
                IN  /\ building' = [i \in 1 .. n |-> made + n + 1 - i]
                    /\ made' = made + n
             /\ tickPC' = "count"
             /\ UNCHANGED <<poolVars, needed, fresh, enginePC, userVars,
                            requests>>

\* Broken variant: the number is taken from the counter, not from the list.
TickCountFromNeeded == /\ tickPC = "count"
                       /\ numNew' = needed
                       /\ tickPC' = "install"
                       /\ UNCHANGED <<poolVars, needed, fresh, toBuild, building,
                                      made, enginePC, userVars, requests>>
\* Broken variant: the buffer made for an order already met is counted.
TickCountBuilt == /\ tickPC = "count"
                  /\ numNew' = Len(building)
                  /\ tickPC' = "install"
                  /\ UNCHANGED <<poolVars, needed, fresh, toBuild, building, made,
                                 enginePC, userVars, requests>>
TickCount == /\ tickPC = "count"
             /\ numNew' = toBuild
             /\ tickPC' = "install"
             /\ UNCHANGED <<poolVars, needed, fresh, toBuild, building, made,
                            enginePC, userVars, requests>>

\* Installing the first buffer hands the list to the realtime thread.
TickInstall == /\ tickPC = "install"
               /\ fresh' = building
               /\ building' = << >>
               /\ tickPC' = "idle"
               /\ UNCHANGED <<poolVars, needed, numNew, toBuild, made, enginePC,
                              userVars, requests>>

Tick == TickNeeded \/ TickFirst \/ TickBuild \/ TickCount \/ TickInstall

\* The DAW shuts down: ~AudioEngine() sends EngineKill and waits.
Close == /\ tickPC = "idle"
         /\ tickPC' = "closing"
         /\ UNCHANGED <<poolVars, handoverVars, toBuild, building, made,
                        enginePC, userVars, requests>>

\* clear(), from the destructor, once the engine is dead.
Clear == /\ tickPC = "closing"
         /\ enginePC = "dead"
         /\ free' = << >>
         /\ fresh' = << >>
         /\ numFree' = 0
         /\ overran' = FALSE
         /\ needed' = 0
         /\ numNew' = 0
         /\ tickPC' = "cleared"
         /\ UNCHANGED <<toBuild, building, made, enginePC, userVars, requests>>

-----------------------------------------------------------------------------
(* run(), at the top of each turn of the engine's loop.                    *)

\* The loop starts with the messages; EngineKill ends it.
Die == /\ enginePC = "top"
       /\ tickPC = "closing"
       /\ enginePC' = "dead"
       /\ UNCHANGED <<poolVars, handoverVars, tickVars, userVars, requests>>

\* MaxRequests bounds the turns the engine takes.
RunFirst == /\ enginePC = "top"
            /\ requests < MaxRequests
            /\ enginePC' = IF fresh # << >> THEN "splice" ELSE "want"
            /\ UNCHANGED <<poolVars, handoverVars, tickVars, userVars, requests>>

RunSplice == /\ enginePC = "splice"
             /\ free' = fresh \o free
             /\ enginePC' = "settle"
             /\ UNCHANGED <<numFree, overran, handoverVars, tickVars, userVars,
                            requests>>

RunSettle == /\ enginePC = "settle"
             /\ numFree' = numFree + numNew
             /\ needed' = needed - numNew
             /\ enginePC' = "release"
             /\ UNCHANGED <<free, overran, numNew, fresh, tickVars, userVars,
                            requests>>

\* Broken variant: the list is not taken off the handover.
RunReleaseForgotten == /\ enginePC = "release"
                       /\ enginePC' = "want"
                       /\ UNCHANGED <<poolVars, handoverVars, tickVars, userVars,
                                      requests>>
RunRelease == /\ enginePC = "release"
              /\ fresh' = << >>
              /\ enginePC' = "want"
              /\ UNCHANGED <<poolVars, needed, numNew, tickVars, userVars,
                             requests>>

\* Broken variant: a request is made only when the pool is empty.
RunWantLate == /\ enginePC = "want"
               /\ IF numFree = 0
                  THEN /\ requests' = requests + 1
                       /\ needed' = needed + Wanted
                  ELSE UNCHANGED <<requests, needed>>
               /\ enginePC' = "interface"
               /\ UNCHANGED <<poolVars, numNew, fresh, tickVars, userVars>>
\* Each turn with too few free buffers asks for Wanted more, whether or not
\* an earlier request is still open.
RunWant == /\ enginePC = "want"
           /\ IF numFree < Wanted
              THEN /\ requests' = requests + 1
                   /\ needed' = needed + Wanted
              ELSE UNCHANGED <<requests, needed>>
           /\ enginePC' = "interface"
           /\ UNCHANGED <<poolVars, numNew, fresh, tickVars, userVars>>

Run == RunFirst \/ RunSplice \/ RunSettle \/ RunRelease \/ RunWant

-----------------------------------------------------------------------------
(* The users of the pool, all on the realtime thread: the rest of the      *)
(* engine's loop.                                                          *)

\* No interface is selected: the loop starts over.
NoInterface == /\ enginePC = "interface"
               /\ enginePC' = "top"
               /\ UNCHANGED <<poolVars, handoverVars, tickVars, userVars,
                              requests>>

\* There is one.  New capture buffers are made before the output buffers.
Capture == /\ enginePC = "interface"
           /\ enginePC' = "out"
           /\ UNCHANGED <<poolVars, handoverVars, tickVars, userVars, requests>>

\* get_buffer() for each output channel.  When one is missing the turn does
\* nothing with the others, and never gives them back.
OutBuffers ==
  /\ enginePC = "out"
  /\ LET n == IF Len(free) < OutChannels THEN Len(free) ELSE OutChannels
         taken == SubSeq(free, 1, n)
     IN  /\ free' = SubSeq(free, n + 1, Len(free))
         /\ numFree' = numFree - n
         /\ overran' = (overran \/ n < OutChannels)
         /\ IF n < OutChannels
            THEN dropped' = dropped \cup Elements(taken) /\ UNCHANGED outs
            ELSE outs' = taken /\ UNCHANGED dropped
  /\ enginePC' = "use"
  /\ UNCHANGED <<handoverVars, tickVars, borrowed, requests>>

\* get_buffer() of the capture buffers, of a track or of run_recording().
Borrow == /\ enginePC \in {"out", "use"}
          /\ free # << >>
          /\ borrowed' = borrowed \cup {Head(free)}
          /\ free' = Tail(free)
          /\ numFree' = numFree - 1
          /\ UNCHANGED <<overran, handoverVars, tickVars, enginePC, outs,
                         dropped, requests>>

BorrowFails == /\ enginePC \in {"out", "use"}
               /\ free = << >>
               /\ overran' = TRUE
               /\ UNCHANGED <<free, numFree, handoverVars, tickVars, enginePC,
                              userVars, requests>>

\* free_buffer(): a track is done with its buffers during its turn, record
\* buffers come back as messages at the top of a later one.
Return(b) == /\ enginePC \in {"top", "use"}
             /\ free' = <<b>> \o free
             /\ numFree' = numFree + 1
             /\ borrowed' = borrowed \ {b}
             /\ UNCHANGED <<overran, handoverVars, tickVars, enginePC, outs,
                            dropped, requests>>

\* The output has been sent: its buffers are free again, last on top.
FreeOut == /\ enginePC = "use"
           /\ free' = [i \in 1 .. Len(outs) |-> outs[Len(outs) + 1 - i]] \o free
           /\ numFree' = numFree + Len(outs)
           /\ outs' = << >>
           /\ enginePC' = "top"
           /\ UNCHANGED <<overran, handoverVars, tickVars, borrowed, dropped,
                          requests>>

Use == \/ NoInterface
       \/ Capture
       \/ OutBuffers
       \/ Borrow
       \/ BorrowFails
       \/ \E b \in borrowed : Return(b)
       \/ FreeOut

\* The program has ended.
Ended == tickPC = "cleared" /\ UNCHANGED vars

Next == Tick \/ Close \/ Clear \/ Die \/ Run \/ Use \/ Ended

Spec == Init /\ [][Next]_vars

\* DAW::run() calls tick() again and again for as long as the DAW lives.
FairSpec == Spec /\ WF_vars(Tick)

-----------------------------------------------------------------------------
BufferId == Nat \ {0}

TypeOK == /\ free \in Seq(BufferId)
          /\ fresh \in Seq(BufferId)
          /\ building \in Seq(BufferId)
          /\ outs \in Seq(BufferId)
          /\ borrowed \subseteq BufferId
          /\ dropped \subseteq BufferId
          /\ numFree \in Int
          /\ needed \in Nat
          /\ numNew \in Nat
          /\ toBuild \in Nat
          /\ made \in Nat
          /\ requests \in Nat
          /\ overran \in BOOLEAN
          /\ tickPC \in {"idle", "first", "build", "count", "install",
                         "closing", "cleared"}
          /\ enginePC \in {"top", "splice", "settle", "release", "want",
                           "interface", "out", "use", "dead"}

TickHasHandover == tickPC \in {"build", "count", "install"}
EngineHasHandover == enginePC \in {"splice", "settle", "release"}

\* num_new_buffers, last_new_buffer and first_new_buffer need no lock: tick()
\* writes them only while run() is not reading them.
HandoverExclusive == /\ ~(TickHasHandover /\ EngineHasHandover)
                     /\ TickHasHandover => fresh = << >>

\* The lists a buffer may stand in.  A list being spliced is still pointed
\* to by first_new_buffer, which run() clears last.
Pending == IF enginePC \in {"settle", "release"} THEN << >> ELSE fresh

\* A buffer is in one place, once: no list holds it twice and it is never
\* free and in use together.
OneOwner ==
  LET lists == free \o Pending \o building \o outs
  IN  /\ Cardinality(Elements(lists)) = Len(lists)
      /\ Elements(lists) \cap (borrowed \cup dropped) = {}
      /\ borrowed \cap dropped = {}

\* The count run() decides by may fall behind the list (a list that was built
\* for a request just met counts as none), never ahead of it.
CountNeverOverstates ==
  Len(free) >= IF enginePC = "settle" THEN numFree + numNew ELSE numFree

\* The order is never for fewer buffers than are on their way: taking them
\* cannot leave a negative order, which tick() would take for a request.
OrderCoversDelivery ==
  fresh # << >> /\ enginePC # "release" => needed >= numNew

\* A turn of the engine that starts short of buffers leaves an order open.
ShortageIsOrdered == enginePC = "interface" /\ Len(free) < Wanted => needed > 0

\* While the DAW runs, an open order is delivered.
OrderIsDelivered == needed > 0 ~> (fresh # << >> \/ tickPC = "closing")
=============================================================================
