--------------------------- MODULE MutationsProofs ---------------------------
(***************************************************************************)
(* The count by which save-project waits is right for any number of        *)
(* requests and any capacity of the queues: it counts each change once     *)
(* from its making to its acknowledgement, those a queue has swallowed     *)
(* included, and those whose reply fails.  From this it follows that a     *)
(* save and an edit never meet, and that a clean UI has missed no edit.    *)
(***************************************************************************)
EXTENDS Mutations, FiniteSetTheorems, SequenceTheorems, TLAPS

\* The processes started so far, and what a queue may hold.
Started == [kind : Kind, id : 1 .. issued]
Message == Started \cup {NeedMore, SupplyReads}

TypeOK == /\ to \in Seq(Message) /\ from \in Seq(Message)
          /\ issued \in Nat
          /\ lost \subseteq Mutating(Started)
          /\ pending \in Int
          /\ dawPC \in {"idle", "tick", "saving", "nested", "walking"}
          /\ enginePC \in {"run", "changing", "reading"}
          /\ inHand \in Message \cup {NoProcess}

\* A queue holds a change once.
HeldOnce(queue) ==
  \A i, j \in DOMAIN queue :
    queue[i] = queue[j] /\ queue[i].kind = "mutate" => i = j

\* A change has one place: on its way to the engine, on its way back, or lost
\* for good.
OnePlace ==
  /\ HeldOnce(to) /\ HeldOnce(from)
  /\ Mutating(InQueue(to)) \cap Mutating(InQueue(from)) = {}
  /\ lost \cap Outstanding = {}

\* What the engine has in hand is still in its slot.
InHandIsFirst == inHand # NoProcess => to # << >> /\ inHand = Head(to)

\* What is being written has every edit that has been made.
WrittenIsWhole == dawPC = "walking" => ~unsavedEdit

IInv == /\ TypeOK /\ OnePlace /\ InHandIsFirst /\ WrittenIsWhole
        /\ PendingIsExact /\ NoEditDuringSave /\ CleanHasMissedNoEdit

-----------------------------------------------------------------------------
(* The queues.                                                             *)

LEMMA QueueTail ==
  ASSUME NEW S, NEW q \in Seq(S), q # << >>
  PROVE  /\ Tail(q) \in Seq(S)
         /\ Head(q) \in S
         /\ InQueue(q) = InQueue(Tail(q)) \cup {Head(q)}
         /\ HeldOnce(q) =>
              /\ HeldOnce(Tail(q))
              /\ Head(q).kind = "mutate" => Head(q) \notin InQueue(Tail(q))
<1>1. /\ Tail(q) \in Seq(S) /\ Head(q) \in S /\ Head(q) = q[1]
      /\ Len(q) \in Nat \ {0} /\ DOMAIN q = 1 .. Len(q)
      /\ DOMAIN Tail(q) = 1 .. Len(q) - 1
      /\ \A i \in 1 .. Len(q) - 1 : Tail(q)[i] = q[i + 1]
  OBVIOUS
<1>2. InQueue(q) = InQueue(Tail(q)) \cup {Head(q)}
  <2>1. ASSUME NEW x \in InQueue(q) PROVE x \in InQueue(Tail(q)) \cup {Head(q)}
    <3>1. PICK i \in 1 .. Len(q) : x = q[i]
      BY <1>1, <2>1 DEF InQueue
    <3>2. CASE i = 1
      BY <3>1, <3>2, <1>1
    <3>3. CASE i # 1
      <4>1. i - 1 \in 1 .. Len(q) - 1 /\ (i - 1) + 1 = i
        BY <3>1, <3>3, <1>1
      <4>2. x = Tail(q)[i - 1]
        BY <4>1, <3>1, <1>1
      <4> QED BY <4>1, <4>2, <1>1 DEF InQueue
    <3> QED BY <3>2, <3>3
  <2>2. ASSUME NEW x \in InQueue(Tail(q)) \cup {Head(q)} PROVE x \in InQueue(q)
    BY <1>1, <2>2 DEF InQueue
  <2> QED BY <2>1, <2>2
<1>3. ASSUME HeldOnce(q) PROVE HeldOnce(Tail(q))
  BY <1>1, <1>3 DEF HeldOnce
<1>4. ASSUME HeldOnce(q), Head(q).kind = "mutate", Head(q) \in InQueue(Tail(q))
      PROVE  FALSE
  <2>1. PICK i \in 1 .. Len(q) - 1 : Head(q) = q[i + 1]
    BY <1>1, <1>4 DEF InQueue
  <2>2. i + 1 \in DOMAIN q /\ 1 \in DOMAIN q /\ i + 1 # 1
    BY <1>1, <2>1
  <2> QED BY <1>1, <1>4, <2>1, <2>2 DEF HeldOnce
<1> QED BY <1>1, <1>2, <1>3, <1>4

LEMMA QueueSent ==
  ASSUME NEW S, NEW q \in Seq(S), NEW m \in S
  PROVE  /\ Sent(q, m, Capacity) \in Seq(S)
         /\ \/ /\ Len(q) < Capacity
               /\ InQueue(Sent(q, m, Capacity)) = InQueue(q) \cup {m}
            \/ /\ ~(Len(q) < Capacity)
               /\ Sent(q, m, Capacity) = q
         /\ q # << >> => /\ Sent(q, m, Capacity) # << >>
                         /\ Head(Sent(q, m, Capacity)) = Head(q)
         /\ HeldOnce(q) /\ (m.kind = "mutate" => m \notin InQueue(q)) =>
              HeldOnce(Sent(q, m, Capacity))
<1>1. CASE ~(Len(q) < Capacity)
  BY <1>1 DEF Sent
<1>2. CASE Len(q) < Capacity
  <2> DEFINE r == Append(q, m)
  <2>1. Sent(q, m, Capacity) = r
    BY <1>2 DEF Sent
  <2>2. /\ r \in Seq(S) /\ Len(q) \in Nat /\ DOMAIN q = 1 .. Len(q)
        /\ DOMAIN r = 1 .. Len(q) + 1
        /\ \A i \in 1 .. Len(q) : r[i] = q[i]
        /\ r[Len(q) + 1] = m
    OBVIOUS
  <2>3. q # << >> => r # << >> /\ Head(r) = Head(q)
    BY <2>2
  <2> HIDE DEF r
  <2>4. InQueue(r) = InQueue(q) \cup {m}
    BY <2>2 DEF InQueue
  <2>5. HeldOnce(q) /\ (m.kind = "mutate" => m \notin InQueue(q)) => HeldOnce(r)
    BY <2>2 DEF HeldOnce, InQueue
  <2> QED BY <1>2, <2>1, <2>2, <2>3, <2>4, <2>5
<1> QED BY <1>1, <1>2

-----------------------------------------------------------------------------
(* What the steps do to the changes under way.                             *)

\* Only finitely many changes can have been started.
LEMMA StartedIsFinite ==
  ASSUME NEW n \in Nat, NEW S, S \subseteq Mutating([kind : Kind, id : 1 .. n])
  PROVE  IsFiniteSet(S) /\ Cardinality(S) \in Nat
<1> DEFINE all == Mutating([kind : Kind, id : 1 .. n])
           f == [i \in 1 .. n |-> [kind |-> "mutate", id |-> i]]
<1>1. IsFiniteSet(1 .. n)
  BY FS_Interval
<1>2. f \in [1 .. n -> all]
  BY DEF Mutating, Kind
<1>3. \A p \in all : \E i \in 1 .. n : f[i] = p
  <2> TAKE p \in all
  <2>1. p = [kind |-> "mutate", id |-> p.id] /\ p.id \in 1 .. n
    BY DEF Mutating
  <2>2. f[p.id] = p
    BY <2>1
  <2> QED BY <2>1, <2>2
<1>4. f \in Surjection(1 .. n, all)
  BY <1>2, <1>3 DEF Surjection
<1>5. IsFiniteSet(all)
  BY <1>1, <1>4, FS_Surjection
<1> QED BY <1>5, FS_Subset, FS_CardinalityType

\* The messages that are no changes, and those that are.
LEMMA Kinds ==
  /\ NeedMore.kind = "need-more" /\ SupplyReads.kind = "supply"
  /\ \A p \in Message \ Started : p.kind # "mutate"
  /\ NoProcess \notin Message
  /\ \A ps : Mutating(ps) \subseteq ps
BY DEF NeedMore, SupplyReads, NoProcess, Message, Started, Kind, Mutating

\* The changes on their way are among those that have been started.
LEMMA OutstandingIsFinite ==
  ASSUME TypeOK
  PROVE  /\ Outstanding \cup lost \subseteq Mutating(Started)
         /\ IsFiniteSet(Outstanding \cup lost)
         /\ Cardinality(Outstanding \cup lost) \in Nat
<1>1. InQueue(to) \cup InQueue(from) \subseteq Message
  BY DEF TypeOK, InQueue
<1>2. Outstanding \cup lost \subseteq Mutating(Started)
  BY <1>1, Kinds DEF TypeOK, Outstanding, Mutating
<1> QED BY <1>2, StartedIsFinite DEF TypeOK, Started

-----------------------------------------------------------------------------
LEMMA InitIInv == Init => IInv
<1> SUFFICES ASSUME Init PROVE IInv
  OBVIOUS
<1>1. DOMAIN to = {} /\ DOMAIN from = {}
  BY DEF Init
<1>2. TypeOK
  BY DEF Init, TypeOK
<1>3. Outstanding = {} /\ InQueue(to) = {} /\ InQueue(from) = {}
  BY <1>1 DEF Outstanding, Mutating, InQueue
<1>4. OnePlace /\ InHandIsFirst /\ WrittenIsWhole
  BY <1>1, <1>3 DEF Init, OnePlace, HeldOnce, InHandIsFirst, WrittenIsWhole, Mutating
<1>5. PendingIsExact
  BY <1>3, FS_EmptySet DEF Init, PendingIsExact
<1>6. NoEditDuringSave /\ CleanHasMissedNoEdit
  BY DEF Init, NoEditDuringSave, CleanHasMissedNoEdit
<1> QED BY <1>2, <1>4, <1>5, <1>6 DEF IInv

\* A step that leaves the queues alone disturbs little.
LEMMA QueuesKept ==
  ASSUME IInv, UNCHANGED <<to, from, lost, issued, pending>>
  PROVE  OnePlace' /\ PendingIsExact' /\ Outstanding' = Outstanding
BY DEF IInv, OnePlace, HeldOnce, PendingIsExact, Outstanding, InQueue, Mutating

LEMMA RequestKeeps ==
  ASSUME IInv, NEW k \in Kind, Request(k)
  PROVE  IInv'
<1> DEFINE p == [kind |-> k, id |-> issued + 1]
<1>1. /\ dawPC = "idle" /\ issued' = issued + 1
      /\ to' = Sent(to, p, Capacity)
      /\ lost' = lost \cup Dropped(to, p)
      /\ pending' = IF k = "mutate" THEN pending + 1 ELSE pending
      /\ UNCHANGED <<from, dawPC, broken, uiDirty, engineVars, unsavedEdit>>
  BY DEF Request
<1>2. p \in Started' /\ p.kind = k /\ p \notin Message /\ p \in Message'
  <2>1. issued \in Nat /\ issued' \in Nat
    BY <1>1 DEF IInv, TypeOK
  <2> QED BY <1>1, <2>1 DEF Started, Message, NeedMore, SupplyReads, Kind
<1>3. Message \subseteq Message' /\ Started \subseteq Started'
  BY <1>1 DEF IInv, TypeOK, Message, Started
<1>4. p \notin InQueue(to) \cup InQueue(from) \cup lost
  BY <1>2 DEF IInv, TypeOK, InQueue, Message, Mutating
<1>5. to \in Seq(Message') /\ from \in Seq(Message')
  BY <1>3 DEF IInv, TypeOK
<1> HIDE DEF p
<1>6. /\ to' \in Seq(Message')
      /\ \/ /\ Len(to) < Capacity
            /\ InQueue(to') = InQueue(to) \cup {p}
         \/ /\ ~(Len(to) < Capacity)
            /\ to' = to
      /\ to # << >> => to' # << >> /\ Head(to') = Head(to)
      /\ HeldOnce(to')
  BY <1>1, <1>2, <1>4, <1>5, QueueSent DEF IInv, OnePlace
<1>7. Outstanding' \cup lost' = IF k = "mutate" THEN (Outstanding \cup lost) \cup {p}
                                ELSE Outstanding \cup lost
  BY <1>1, <1>2, <1>6 DEF Outstanding, Mutating, Dropped
<1>8. TypeOK'
  <2>1. lost' \subseteq Mutating(Started')
    BY <1>1, <1>2, <1>3 DEF IInv, TypeOK, Mutating, Dropped
  <2> QED BY <1>1, <1>3, <1>5, <1>6, <2>1 DEF IInv, TypeOK, engineVars
<1>9. OnePlace'
  <2>1. HeldOnce(from') /\ InQueue(from') = InQueue(from)
    BY <1>1 DEF IInv, OnePlace
  <2>2. /\ Mutating(InQueue(to')) \cap Mutating(InQueue(from')) = {}
        /\ lost' \cap Outstanding' = {}
    BY <1>1, <1>2, <1>4, <1>6, <2>1 DEF IInv, OnePlace, Outstanding, Mutating, Dropped
  <2> QED BY <1>6, <2>1, <2>2 DEF OnePlace
<1>10. PendingIsExact'
  <2>1. p \notin Outstanding \cup lost
    BY <1>4 DEF Outstanding, Mutating
  <2>2. IsFiniteSet(Outstanding \cup lost) /\ pending \in Int
    BY OutstandingIsFinite DEF IInv, TypeOK
  <2> QED BY <1>1, <1>7, <2>1, <2>2, FS_AddElement DEF IInv, PendingIsExact
<1>11. InHandIsFirst' /\ WrittenIsWhole' /\ NoEditDuringSave'
  BY <1>1, <1>6 DEF IInv, InHandIsFirst, WrittenIsWhole, NoEditDuringSave, engineVars
<1>12. CleanHasMissedNoEdit'
  BY <1>1 DEF IInv, TypeOK, CleanHasMissedNoEdit
<1> QED BY <1>8, <1>9, <1>10, <1>11, <1>12 DEF IInv

\* A process that is taken leaves its place, or keeps it among the lost.
LEMMA TookKeeps ==
  ASSUME IInv, NEW p, Took(p),
         \/ /\ pending' = IF p.kind = "mutate" THEN pending - 1 ELSE pending
            /\ lost' = lost
         \/ /\ pending' = pending
            /\ lost' = IF p.kind = "mutate" THEN lost \cup {p} ELSE lost,
         dawPC' \in {dawPC, "idle"}
  PROVE  TypeOK' /\ OnePlace' /\ PendingIsExact' /\ InHandIsFirst' /\ WrittenIsWhole'
         /\ NoEditDuringSave'
<1>1. /\ dawPC \in {"tick", "nested"} /\ from # << >> /\ p = Head(from)
      /\ from' = Tail(from)
      /\ UNCHANGED <<to, issued, engineVars, unsavedEdit>>
  BY DEF Took
<1>2. Message' = Message /\ Started' = Started
  BY <1>1 DEF Message, Started
<1>3. /\ from' \in Seq(Message) /\ HeldOnce(from') /\ p \in Message
      /\ InQueue(from) = InQueue(from') \cup {p}
      /\ p.kind = "mutate" => p \notin InQueue(from')
  BY <1>1, QueueTail DEF IInv, TypeOK, OnePlace
<1>4. p.kind = "mutate" => p \in Outstanding /\ p \in Mutating(Started) /\ p \notin lost
  BY <1>3, Kinds DEF IInv, OnePlace, Outstanding, Mutating
<1>5. TypeOK'
  BY <1>1, <1>2, <1>3, <1>4 DEF IInv, TypeOK, engineVars, Mutating
<1>6. Outstanding' = IF p.kind = "mutate" THEN Outstanding \ {p} ELSE Outstanding
  BY <1>1, <1>3 DEF IInv, OnePlace, Outstanding, Mutating
<1>7. OnePlace'
  BY <1>1, <1>3, <1>4, <1>6 DEF IInv, OnePlace, Outstanding, Mutating
<1>8. IsFiniteSet(Outstanding \cup lost) /\ pending \in Int
  BY OutstandingIsFinite DEF IInv, TypeOK
<1>9. PendingIsExact'
  <2>1. CASE p.kind = "mutate" /\ lost' = lost /\ pending' = pending - 1
    <3>1. p \in Outstanding \cup lost
          /\ Outstanding' \cup lost' = (Outstanding \cup lost) \ {p}
      BY <1>4, <1>6, <2>1
    <3> QED BY <1>8, <2>1, <3>1, FS_RemoveElement DEF IInv, PendingIsExact
  <2>2. CASE p.kind = "mutate" /\ lost' = lost \cup {p} /\ pending' = pending
    <3>1. Outstanding' \cup lost' = Outstanding \cup lost
      BY <1>4, <1>6, <2>2
    <3> QED BY <2>2, <3>1 DEF IInv, PendingIsExact
  <2>3. CASE p.kind # "mutate"
    BY <1>6, <2>3 DEF IInv, PendingIsExact
  <2> QED BY <2>1, <2>2, <2>3
<1>10. InHandIsFirst' /\ WrittenIsWhole' /\ NoEditDuringSave'
  BY <1>1 DEF IInv, InHandIsFirst, WrittenIsWhole, NoEditDuringSave, engineVars
<1> QED BY <1>5, <1>7, <1>9, <1>10

LEMMA TakeProcessKeeps ==
  ASSUME IInv, NEW p, TakeProcess(p) \/ ReplyFails(p) \/ ReportFails(p)
  PROVE  IInv'
<1>1. Took(p) /\ unsavedEdit' = unsavedEdit
  BY DEF TakeProcess, ReplyFails, ReportFails, Took
<1>2. /\ TypeOK' /\ OnePlace' /\ PendingIsExact' /\ InHandIsFirst' /\ WrittenIsWhole'
      /\ NoEditDuringSave'
  BY <1>1, TookKeeps DEF TakeProcess, ReplyFails, ReportFails
<1>3. CleanHasMissedNoEdit'
  <2>1. CASE TakeProcess(p)
    BY <1>1, <2>1 DEF TakeProcess, IInv, CleanHasMissedNoEdit
  <2>2. CASE ReplyFails(p)
    BY <1>1, <2>2 DEF ReplyFails, IInv, CleanHasMissedNoEdit
  <2>3. CASE ReportFails(p)
    BY <2>3 DEF ReportFails, CleanHasMissedNoEdit
  <2> QED BY <2>1, <2>2, <2>3
<1> QED BY <1>2, <1>3 DEF IInv

LEMMA TakeNeedMoreKeeps ==
  ASSUME IInv, TakeNeedMore
  PROVE  IInv'
<1>1. /\ from # << >> /\ Head(from) = NeedMore
      /\ from' = Tail(from)
      /\ to' = Sent(to, SupplyReads, Capacity)
      /\ UNCHANGED <<lost, issued, pending, dawPC, broken, uiDirty, engineVars,
                     unsavedEdit>>
  BY DEF TakeNeedMore, dawVars
<1>2. Message' = Message /\ Started' = Started /\ SupplyReads \in Message
  BY <1>1 DEF Message, Started
<1>3. /\ from' \in Seq(Message) /\ HeldOnce(from')
      /\ InQueue(from) = InQueue(from') \cup {NeedMore}
  BY <1>1, QueueTail DEF IInv, TypeOK, OnePlace
<1>4. /\ to' \in Seq(Message) /\ HeldOnce(to')
      /\ InQueue(to') \in {InQueue(to), InQueue(to) \cup {SupplyReads}}
      /\ to # << >> => to' # << >> /\ Head(to') = Head(to)
  BY <1>1, <1>2, QueueSent, Kinds DEF IInv, TypeOK, OnePlace
<1>5. TypeOK'
  BY <1>1, <1>2, <1>3, <1>4 DEF IInv, TypeOK, engineVars
<1>6. Outstanding' = Outstanding
  BY <1>3, <1>4, Kinds DEF Outstanding, Mutating
<1>7. OnePlace'
  BY <1>1, <1>3, <1>4, <1>6, Kinds DEF IInv, OnePlace, Mutating
<1>8. /\ PendingIsExact' /\ InHandIsFirst' /\ WrittenIsWhole' /\ NoEditDuringSave'
      /\ CleanHasMissedNoEdit'
  BY <1>1, <1>4, <1>6
  DEF IInv, PendingIsExact, InHandIsFirst, WrittenIsWhole, NoEditDuringSave,
      CleanHasMissedNoEdit, engineVars
<1> QED BY <1>5, <1>7, <1>8 DEF IInv

\* A turn of the DAW's loops that takes no message.
LEMMA LoopKeeps ==
  ASSUME IInv, Tick \/ SaveProject \/ Wait \/ NoneLeft
  PROVE  IInv'
<1>1. /\ UNCHANGED <<to, from, lost, issued, pending, broken, uiDirty, engineVars,
                     unsavedEdit>>
      /\ dawPC' \in {"idle", "tick", "saving", "nested"}
  BY DEF Tick, SaveProject, Wait, NoneLeft, queues
<1>2. OnePlace' /\ PendingIsExact' /\ Outstanding' = Outstanding
  BY <1>1, QueuesKept
<1>3. /\ TypeOK' /\ InHandIsFirst' /\ WrittenIsWhole' /\ NoEditDuringSave'
      /\ CleanHasMissedNoEdit'
  BY <1>1 DEF IInv, TypeOK, InHandIsFirst, WrittenIsWhole, NoEditDuringSave,
              CleanHasMissedNoEdit, engineVars, Message, Started
<1> QED BY <1>2, <1>3 DEF IInv

LEMMA SaveKeeps ==
  ASSUME IInv, SaveStarts \/ SaveEnds
  PROVE  IInv'
<1>1. UNCHANGED <<to, from, lost, issued, pending, engineVars>>
  BY DEF SaveStarts, SaveEnds, queues
<1>2. OnePlace' /\ PendingIsExact' /\ Outstanding' = Outstanding
  BY <1>1, QueuesKept
<1>3. TypeOK' /\ InHandIsFirst'
  BY <1>1 DEF SaveStarts, SaveEnds, IInv, TypeOK, InHandIsFirst, engineVars, Message,
              Started
<1>4. WrittenIsWhole' /\ NoEditDuringSave' /\ CleanHasMissedNoEdit'
  <2>1. CASE SaveStarts
    <3>1. Cardinality(Outstanding \cup lost) = 0
      BY <2>1, OutstandingIsFinite DEF SaveStarts, IInv, PendingIsExact
    <3>2. Outstanding \cup lost = {}
      BY <3>1, OutstandingIsFinite, FS_EmptySet DEF IInv
    <3> QED BY <1>2, <2>1, <3>2 DEF SaveStarts, WrittenIsWhole, NoEditDuringSave,
                                    CleanHasMissedNoEdit
  <2>2. CASE SaveEnds
    BY <1>2, <2>2 DEF SaveEnds, IInv, WrittenIsWhole, NoEditDuringSave,
                      CleanHasMissedNoEdit
  <2> QED BY <2>1, <2>2
<1> QED BY <1>2, <1>3, <1>4 DEF IInv

-----------------------------------------------------------------------------
\* The engine changes the project only with a change that is still counted.
LEMMA BeginNextKeeps ==
  ASSUME IInv, BeginNext
  PROVE  IInv'
<1>1. /\ to # << >> /\ inHand' = Head(to)
      /\ enginePC' \in {"changing", "reading"}
      /\ unsavedEdit' = (unsavedEdit \/ Head(to).kind = "mutate")
      /\ UNCHANGED <<to, from, lost, issued, pending, dawPC, broken, uiDirty>>
  BY DEF BeginNext, queues, dawVars
<1>2. OnePlace' /\ PendingIsExact' /\ Outstanding' = Outstanding
  BY <1>1, QueuesKept
<1>3. Head(to) \in Message /\ Head(to) \in InQueue(to)
  BY <1>1, QueueTail DEF IInv, TypeOK
<1>4. TypeOK' /\ InHandIsFirst'
  BY <1>1, <1>3 DEF IInv, TypeOK, InHandIsFirst, Message, Started
<1>5. Head(to).kind = "mutate" => Outstanding # {} /\ pending > 0
  <2>1. SUFFICES ASSUME Head(to).kind = "mutate"
                 PROVE  Outstanding # {} /\ pending > 0
    OBVIOUS
  <2>2. Head(to) \in Outstanding
    BY <1>3, <2>1 DEF Outstanding, Mutating
  <2> QED BY <2>2, OutstandingIsFinite, FS_EmptySet DEF IInv, PendingIsExact
<1>6. WrittenIsWhole' /\ NoEditDuringSave' /\ CleanHasMissedNoEdit'
  BY <1>1, <1>2, <1>5 DEF IInv, WrittenIsWhole, NoEditDuringSave, CleanHasMissedNoEdit
<1> QED BY <1>2, <1>4, <1>6 DEF IInv

\* What goes back has left its slot, or is lost.
LEMMA EndNextKeeps ==
  ASSUME IInv, EndNext
  PROVE  IInv'
<1> DEFINE p == Head(to)
<1>1. /\ to # << >> /\ to' = Tail(to) /\ inHand' = NoProcess /\ enginePC' = "run"
      /\ from' = Sent(from, p, Capacity)
      /\ lost' = lost \cup Dropped(from, p)
      /\ UNCHANGED <<issued, pending, dawPC, broken, uiDirty, unsavedEdit>>
  BY DEF IInv, InHandIsFirst, EndNext, dawVars
<1>2. Message' = Message /\ Started' = Started
  BY <1>1 DEF Message, Started
<1>3. /\ to' \in Seq(Message) /\ HeldOnce(to') /\ p \in Message
      /\ InQueue(to) = InQueue(to') \cup {p}
      /\ p.kind = "mutate" => p \notin InQueue(to')
  BY <1>1, QueueTail DEF IInv, TypeOK, OnePlace
<1> HIDE DEF p
<1>4. p.kind = "mutate" =>
        p \notin InQueue(from) /\ p \notin lost /\ p \in Mutating(Started)
  BY <1>3, Kinds DEF IInv, OnePlace, Outstanding, Mutating
<1>5. /\ from' \in Seq(Message) /\ HeldOnce(from')
      /\ \/ Len(from) < Capacity /\ InQueue(from') = InQueue(from) \cup {p}
         \/ ~(Len(from) < Capacity) /\ from' = from
  BY <1>1, <1>3, <1>4, QueueSent DEF IInv, TypeOK, OnePlace
<1>6. TypeOK'
  <2>1. lost' \subseteq Mutating(Started)
    BY <1>1, <1>4 DEF IInv, TypeOK, Dropped
  <2> QED BY <1>1, <1>2, <1>3, <1>5, <2>1 DEF IInv, TypeOK
<1>7. OnePlace'
  <2>1. Mutating(InQueue(to')) \cap Mutating(InQueue(from')) = {}
    BY <1>3, <1>5 DEF IInv, OnePlace, Mutating
  <2>2. lost' \cap Outstanding' = {}
    BY <1>1, <1>3, <1>4, <1>5 DEF IInv, OnePlace, Outstanding, Mutating, Dropped
  <2> QED BY <1>3, <1>5, <2>1, <2>2 DEF OnePlace
<1>8. Outstanding' \cup lost' = Outstanding \cup lost /\ Outstanding' \subseteq Outstanding
  BY <1>1, <1>3, <1>5 DEF Outstanding, Mutating, Dropped
<1>9. PendingIsExact' /\ NoEditDuringSave'
  BY <1>1, <1>8 DEF IInv, PendingIsExact, NoEditDuringSave
<1>10. InHandIsFirst' /\ WrittenIsWhole' /\ CleanHasMissedNoEdit'
  BY <1>1 DEF IInv, InHandIsFirst, WrittenIsWhole, CleanHasMissedNoEdit
<1> QED BY <1>6, <1>7, <1>9, <1>10 DEF IInv

LEMMA AskKeeps ==
  ASSUME IInv, Ask
  PROVE  IInv'
<1>1. /\ from' = Sent(from, NeedMore, Capacity)
      /\ UNCHANGED <<to, lost, issued, pending, dawPC, broken, uiDirty, engineVars,
                     unsavedEdit>>
  BY DEF Ask, dawVars
<1>2. Message' = Message /\ Started' = Started /\ NeedMore \in Message
  BY <1>1 DEF Message, Started
<1>3. /\ from' \in Seq(Message) /\ HeldOnce(from')
      /\ InQueue(from') \in {InQueue(from), InQueue(from) \cup {NeedMore}}
  BY <1>1, <1>2, QueueSent, Kinds DEF IInv, TypeOK, OnePlace
<1>4. TypeOK'
  BY <1>1, <1>2, <1>3 DEF IInv, TypeOK, engineVars
<1>5. Outstanding' = Outstanding
  BY <1>1, <1>3, Kinds DEF Outstanding, Mutating
<1>6. OnePlace'
  BY <1>1, <1>3, <1>5, Kinds DEF IInv, OnePlace, Mutating, HeldOnce
<1>7. /\ PendingIsExact' /\ InHandIsFirst' /\ WrittenIsWhole' /\ NoEditDuringSave'
      /\ CleanHasMissedNoEdit'
  BY <1>1, <1>5
  DEF IInv, PendingIsExact, InHandIsFirst, WrittenIsWhole, NoEditDuringSave,
      CleanHasMissedNoEdit, engineVars
<1> QED BY <1>4, <1>6, <1>7 DEF IInv

\* What a recording does to its clips is no change that is counted.
LEMMA TakeKeeps ==
  ASSUME IInv, BeginTake \/ EndTake \/ FinishTake
  PROVE  IInv'
<1>1. /\ UNCHANGED <<to, from, lost, issued, pending, dawPC, broken, uiDirty,
                     inHand, unsavedEdit>>
      /\ enginePC' \in {enginePC, "run", "changing"}
  BY DEF BeginTake, EndTake, FinishTake, queues, dawVars
<1>2. OnePlace' /\ PendingIsExact' /\ Outstanding' = Outstanding
  BY <1>1, QueuesKept
<1>3. /\ TypeOK' /\ InHandIsFirst' /\ WrittenIsWhole' /\ NoEditDuringSave'
      /\ CleanHasMissedNoEdit'
  BY <1>1, <1>2 DEF IInv, TypeOK, InHandIsFirst, WrittenIsWhole, NoEditDuringSave,
                    CleanHasMissedNoEdit, Message, Started
<1> QED BY <1>2, <1>3 DEF IInv

-----------------------------------------------------------------------------
LEMMA NextIInv == IInv /\ [Next]_vars => IInv'
<1> SUFFICES ASSUME IInv, [Next]_vars
             PROVE  IInv'
  OBVIOUS
<1>1. CASE \E k \in Kind : Request(k)
  BY <1>1, RequestKeeps
<1>2. CASE Handle
  BY <1>2, TakeProcessKeeps, TakeNeedMoreKeeps, LoopKeeps DEF Handle
<1>3. CASE Tick \/ SaveProject \/ Save
  BY <1>3, LoopKeeps, SaveKeeps DEF Save
<1>4. CASE Engine
  BY <1>4, BeginNextKeeps, EndNextKeeps, AskKeeps, TakeKeeps DEF Engine
<1>5. CASE UNCHANGED vars
  <2>1. OnePlace' /\ PendingIsExact' /\ Outstanding' = Outstanding
    BY <1>5, QueuesKept DEF vars
  <2>2. /\ TypeOK' /\ InHandIsFirst' /\ WrittenIsWhole' /\ NoEditDuringSave'
        /\ CleanHasMissedNoEdit'
    BY <1>5, <2>1 DEF vars, IInv, TypeOK, InHandIsFirst, WrittenIsWhole,
                      NoEditDuringSave, CleanHasMissedNoEdit, Message, Started
  <2> QED BY <2>1, <2>2 DEF IInv
<1> QED BY <1>1, <1>2, <1>3, <1>4, <1>5 DEF Next

LEMMA Invariant == Spec => []IInv
BY InitIInv, NextIInv, PTL DEF Spec

\* pending_mutations is at all times the number of changes that have been asked
\* for and not acknowledged, those among them that a full queue has dropped or
\* whose reply has failed (MutatingProcess, DAW::handle_messages_from_engine()).
THEOREM PendingCounts == Spec => []PendingIsExact
BY Invariant, PTL DEF IInv

\* While the project is being written no change is on its way to the engine or
\* being made: the wait of save-project is enough, whatever comes in meanwhile
\* (DAW::save_project()).
THEOREM SaveMeetsNoEdit == Spec => []NoEditDuringSave
BY Invariant, PTL DEF IInv

\* A UI that believes the project to be clean and can be reached has missed no
\* edit up to the last save, unless the report is still to come, whether or not
\* that save has written anything (DAW::mutation_complete() against
\* DAW::handle_ui_message()).
THEOREM CleanUIMissesNoEdit == Spec => []CleanHasMissedNoEdit
BY Invariant, PTL DEF IInv
=============================================================================
