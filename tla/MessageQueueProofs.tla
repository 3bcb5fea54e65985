------------------------- MODULE MessageQueueProofs -------------------------
(***************************************************************************)
(* The ring of any capacity, for any messages: its types, the exclusive    *)
(* use of its slots, and that it implements BoundedQueue.                  *)
(***************************************************************************)
EXTENDS MessageQueue, SequenceTheorems, TLAPS

\* Following() steps to the next slot and from the last one to the first.
LEMMA FollowingSlot ==
  ASSUME NEW i \in Slot
  PROVE  /\ Following(i) = IF i + 1 = Capacity THEN 0 ELSE i + 1
         /\ Following(i) \in Slot
<1>1. CASE i + 1 = Capacity
  BY <1>1, CapacityAssumption DEF Following, Slot
<1>2. CASE i + 1 < Capacity
  BY <1>2, CapacityAssumption DEF Following, Slot
<1>. QED
  BY <1>1, <1>2, CapacityAssumption DEF Slot

\* A message is never None, a plain type has no parameter.
LEMMA MessageFields ==
  ASSUME NEW m \in Message
  PROVE  /\ m # None
         /\ m.type \in Type
         /\ m.type \in ParamType => m.param \in Param
         /\ m.type \notin ParamType => m.param = NoParam
         /\ m = [type |-> m.type, param |-> m.param]
BY MessageAssumption DEF Message, Type

\* The content of a slot is a message.
LEMMA ContentIsMessage ==
  ASSUME NEW s \in [type : Type, param : Param]
  PROVE  Content(s) \in Message
BY MessageAssumption DEF Content, Message, Type

\* The inductive invariant holds in every initial state.
LEMMA InitIInv == Init => IInv
<1>. SUFFICES ASSUME Init PROVE IInv
  OBVIOUS
<1>1. TypeOK
  BY CapacityAssumption DEF Init, TypeOK, Slot
<1>2. SenderInv /\ ReceiverInv
  BY DEF Init, SenderInv, ReceiverInv
<1>. QED
  BY <1>1, <1>2 DEF IInv

\* Every step of either thread preserves the inductive invariant.
LEMMA NextIInv == IInv /\ [Next]_vars => IInv'
<1>. SUFFICES ASSUME IInv, [Next]_vars PROVE IInv'
  OBVIOUS
<1>. USE DEF IInv
<1>0. /\ head \in Slot /\ tail \in Slot
      /\ Following(head) \in Slot /\ Following(tail) \in Slot
  BY FollowingSlot DEF TypeOK
<1>1. ASSUME NEW m \in Message, Send(m) PROVE IInv'
  BY <1>1, MessageFields
     DEF Send, TypeOK, SenderInv, ReceiverInv, receiverVars, IsEmpty, IsFull
<1>2. CASE BackFull
  BY <1>2 DEF BackFull, TypeOK, SenderInv, ReceiverInv, receiverVars,
              IsEmpty, IsFull
<1>3. CASE Back
  BY <1>3, <1>0 DEF Back, TypeOK, SenderInv, ReceiverInv, receiverVars,
              IsEmpty, IsFull
<1>4. CASE WriteType
  <2>1. sending \in Message /\ backSlot = tail
    BY <1>4 DEF WriteType, TypeOK, SenderInv
  <2>2. sending.type \in Type
    BY <2>1, MessageFields
  <2>3. TypeOK'
    BY <1>4, <2>2 DEF WriteType, TypeOK, receiverVars
  <2>4. ring'[tail].type = sending.type
    BY <1>4, <2>1, <1>0 DEF WriteType, TypeOK
  <2>5. sending.type \notin ParamType => Content(ring'[tail]) = sending
    BY <2>1, <2>4, MessageFields DEF Content
  <2>6. SenderInv'
    BY <1>4, <2>1, <2>4, <2>5, MessageFields
       DEF WriteType, SenderInv, receiverVars, IsFull
  <2>7. ~IsEmpty => ring'[head] = ring[head]
    BY <1>4, <2>1, <1>0 DEF WriteType, TypeOK, IsEmpty
  <2>8. ReceiverInv'
    BY <1>4, <2>7 DEF WriteType, ReceiverInv, receiverVars, IsEmpty
  <2>. QED
    BY <2>3, <2>6, <2>8
<1>5. CASE WriteParam
  <2>1. /\ sending \in Message /\ backSlot = tail
        /\ sending.type \in ParamType /\ ring[tail].type = sending.type
    BY <1>5 DEF WriteParam, TypeOK, SenderInv
  <2>2. sending.param \in Param
    BY <2>1, MessageFields
  <2>3. TypeOK'
    BY <1>5, <2>2 DEF WriteParam, TypeOK, receiverVars
  <2>4. /\ ring'[tail].type = sending.type
        /\ ring'[tail].param = sending.param
    BY <1>5, <2>1, <1>0 DEF WriteParam, TypeOK
  <2>5. Content(ring'[tail]) = sending
    BY <2>1, <2>4, MessageFields DEF Content
  <2>6. SenderInv'
    BY <1>5, <2>1, <2>5, MessageFields
       DEF WriteParam, SenderInv, receiverVars, IsFull
  <2>7. ~IsEmpty => ring'[head] = ring[head]
    BY <1>5, <2>1, <1>0 DEF WriteParam, TypeOK, IsEmpty
  <2>8. ReceiverInv'
    BY <1>5, <2>7 DEF WriteParam, ReceiverInv, receiverVars, IsEmpty
  <2>. QED
    BY <2>3, <2>6, <2>8
<1>6. CASE Push
  <2>1. ~IsFull
    BY <1>6 DEF Push, SenderInv
  <2>2. TypeOK'
    BY <1>6, <1>0 DEF Push, TypeOK, receiverVars
  <2>3. SenderInv'
    BY <1>6 DEF Push, SenderInv
  <2>4. ~IsEmpty'
    BY <1>6, <2>1 DEF Push, IsFull, IsEmpty, receiverVars
  <2>5. ReceiverInv'
    BY <1>6, <2>4 DEF Push, ReceiverInv, receiverVars
  <2>. QED
    BY <2>2, <2>3, <2>5
<1>7. CASE Front
  BY <1>7, <1>0 DEF Front, TypeOK, SenderInv, ReceiverInv, senderVars,
              IsEmpty, IsFull
<1>8. CASE ReadType
  <2>1. ring[frontSlot] \in [type : Type, param : Param] /\ frontSlot = head
    BY <1>8 DEF ReadType, TypeOK, ReceiverInv
  <2>2. TypeOK'
    BY <1>8, <2>1 DEF ReadType, TypeOK, senderVars
  <2>3. SenderInv'
    BY <1>8 DEF ReadType, SenderInv, senderVars, IsFull
  <2>4. got'.type = ring[head].type
    BY <1>8, <2>1 DEF ReadType, TypeOK
  <2>5. ReceiverInv'
    BY <1>8, <2>1, <2>4 DEF ReadType, ReceiverInv, senderVars, IsEmpty, Content
  <2>. QED
    BY <2>2, <2>3, <2>5
<1>9. CASE ReadParam
  <2>1. ring[frontSlot] \in [type : Type, param : Param] /\ frontSlot = head
    BY <1>9 DEF ReadParam, TypeOK, ReceiverInv
  <2>2. TypeOK'
    BY <1>9, <2>1 DEF ReadParam, TypeOK, senderVars
  <2>3. SenderInv'
    BY <1>9 DEF ReadParam, SenderInv, senderVars, IsFull
  <2>4. got'.type = ring[head].type /\ got'.param = ring[head].param
    BY <1>9, <2>1 DEF ReadParam, TypeOK, ReceiverInv
  <2>5. ReceiverInv'
    BY <1>9, <2>1, <2>4 DEF ReadParam, ReceiverInv, senderVars, IsEmpty, Content
  <2>. QED
    BY <2>2, <2>3, <2>5
<1>10. CASE Pop
  <2>1. Content(got) \in Message
    BY ContentIsMessage DEF TypeOK
  <2>2. TypeOK'
    BY <1>10, <1>0, <2>1 DEF Pop, TypeOK, senderVars
  <2>3. head # tail
    BY <1>10 DEF Pop, ReceiverInv, IsEmpty
  <2>4. Following(tail) # Following(head)
    BY <1>0, <2>3, FollowingSlot, CapacityAssumption DEF Slot
  <2>5. SenderInv'
    BY <1>10, <2>4 DEF Pop, SenderInv, senderVars, IsFull
  <2>6. ReceiverInv'
    BY <1>10 DEF Pop, ReceiverInv
  <2>. QED
    BY <2>2, <2>5, <2>6
<1>11. CASE UNCHANGED vars
  BY <1>11 DEF vars, TypeOK, SenderInv, ReceiverInv, IsEmpty, IsFull
<1>. QED
  BY <1>1, <1>2, <1>3, <1>4, <1>5, <1>6, <1>7, <1>8, <1>9, <1>10, <1>11
     DEF Next, Sender, Receiver

\* The inductive invariant holds throughout.
LEMMA Invariant == Spec => []IInv
BY InitIInv, NextIInv, PTL DEF Spec

\* Every variable of the ring keeps its type: head and tail stay inside it.
THEOREM TypeCorrect == Spec => []TypeOK
<1>1. IInv => TypeOK
  BY DEF IInv
<1>. QED
  BY <1>1, Invariant, PTL

\* The two threads never have the same slot in hand.
THEOREM SlotsExclusive == Spec => []NoSlotShared
<1>1. IInv => NoSlotShared
  BY DEF IInv, NoSlotShared, SenderHolds, ReceiverHolds, SenderInv,
         ReceiverInv, IsEmpty
<1>. QED
  BY <1>1, Invariant, PTL

-----------------------------------------------------------------------------
(* The ring implements the bounded FIFO.                                   *)

\* The occupied slots run from head to just before tail, and number at most
\* Capacity - 1.
LEMMA HeldRange ==
  ASSUME TypeOK
  PROVE  /\ Held \in 0 .. Capacity - 1
         /\ Held = 0 <=> IsEmpty
         /\ Held = Capacity - 1 <=> IsFull
         /\ \A i \in 1 .. Held : SlotAt(i) \in Slot /\ SlotAt(i) # tail
         /\ Held > 0 => SlotAt(1) = head
         /\ Held < Capacity - 1 => SlotAt(Held + 1) = tail
<1>1. /\ head \in Slot /\ tail \in Slot
      /\ Following(tail) = IF tail + 1 = Capacity THEN 0 ELSE tail + 1
  BY FollowingSlot DEF TypeOK
<1>. QED
  BY <1>1, CapacityAssumption DEF Held, SlotAt, IsEmpty, IsFull, Slot

\* The queue is a sequence of messages, as long as the ring is filled.
LEMMA QueueIsSequence ==
  ASSUME TypeOK
  PROVE  /\ Queue \in Seq(Message)
         /\ Len(Queue) = Held
         /\ \A i \in 1 .. Held : Queue[i] = Content(ring[SlotAt(i)])
<1>1. \A i \in 1 .. Held : Content(ring[SlotAt(i)]) \in Message
  BY HeldRange, ContentIsMessage DEF TypeOK
<1>2. Held \in Nat
  BY HeldRange, CapacityAssumption
<1>. QED
  BY <1>1, <1>2 DEF Queue

\* A step that keeps head, tail and every slot but the free one keeps the
\* queue.
LEMMA QueueKept ==
  ASSUME TypeOK, head' = head, tail' = tail,
         \A i \in Slot : i # tail => ring'[i] = ring[i]
  PROVE  Queue' = Queue
<1>1. Held' = Held /\ \A i \in 1 .. Held : SlotAt(i)' = SlotAt(i)
  BY DEF Held, SlotAt
<1>2. \A i \in 1 .. Held : ring'[SlotAt(i)] = ring[SlotAt(i)]
  BY HeldRange
<1>. QED
  BY <1>1, <1>2 DEF Queue, Content, Held, SlotAt

LEMMA InitRefines == Init => Abstract!Init
<1>. SUFFICES ASSUME Init PROVE Abstract!Init
  OBVIOUS
<1>1. TypeOK
  BY InitIInv DEF IInv
<1>2. Held = 0
  BY DEF Init, Held
<1>3. Queue = << >>
  BY <1>1, <1>2, QueueIsSequence
<1>. QED
  BY <1>3 DEF Init, Abstract!Init

LEMMA NextRefines ==
  IInv /\ [Next]_vars => [Abstract!Next]_(Abstract!vars)
<1>. SUFFICES ASSUME IInv, [Next]_vars
              PROVE  [Abstract!Next]_(Abstract!vars)
  OBVIOUS
<1>0. TypeOK /\ SenderInv /\ ReceiverInv /\ IInv'
  BY NextIInv DEF IInv
<1>1. ASSUME NEW m \in Message, Send(m) PROVE Abstract!Next
  <2>1. Queue' = Queue
    BY <1>1, <1>0, QueueKept DEF Send, receiverVars
  <2>. QED
    BY <1>1, <1>0, <2>1 DEF Send, SenderInv, receiverVars,
                            Abstract!Next, Abstract!Offer
<1>2. CASE BackFull
  <2>1. Queue' = Queue
    BY <1>2, <1>0, QueueKept DEF BackFull, receiverVars
  <2>2. Len(Queue) = Capacity - 1
    BY <1>2, <1>0, HeldRange, QueueIsSequence DEF BackFull
  <2>. QED
    BY <1>2, <1>0, <2>1, <2>2 DEF BackFull, SenderInv, receiverVars,
                                  Abstract!Next, Abstract!Drop
<1>3. ASSUME Back \/ WriteType \/ WriteParam \/ Front \/ ReadType \/ ReadParam
      PROVE  UNCHANGED Abstract!vars
  <2>1. head' = head /\ tail' = tail /\ sending' = sending
        /\ received' = received
    BY <1>3 DEF Back, WriteType, WriteParam, Front, ReadType, ReadParam,
                senderVars, receiverVars
  <2>2. \A i \in Slot : i # tail => ring'[i] = ring[i]
    BY <1>3, <1>0 DEF TypeOK, SenderInv, Back, WriteType, WriteParam, Front,
                     ReadType, ReadParam
  <2>. QED
    BY <1>0, <2>1, <2>2, QueueKept DEF Abstract!vars
<1>4. CASE Push
  <2>1. /\ ~IsFull /\ sending \in Message /\ Content(ring[tail]) = sending
        /\ head' = head /\ tail' = Following(tail) /\ ring' = ring
    BY <1>4, <1>0, MessageFields
       DEF Push, SenderInv, TypeOK, receiverVars
  <2>2. Held < Capacity - 1 /\ Held \in Nat
    BY <2>1, <1>0, HeldRange, CapacityAssumption
  <2>3. Held' = Held + 1 /\ \A i \in 1 .. Held + 1 : SlotAt(i)' = SlotAt(i)
    <3>1. Following(tail) = IF tail + 1 = Capacity THEN 0 ELSE tail + 1
      BY <1>0, FollowingSlot DEF TypeOK
    <3>2. head \in Slot /\ tail \in Slot /\ Following(tail) # head
      BY <1>0, <2>1 DEF TypeOK, IsFull
    <3>. QED
      BY <2>1, <3>1, <3>2, CapacityAssumption DEF Held, SlotAt, Slot
  <2>4. \A i \in 1 .. Held + 1 : Queue'[i] = Content(ring[SlotAt(i)])
    BY <1>0, <2>1, <2>3, QueueIsSequence DEF Queue, Content
  <2>5. /\ Queue' \in Seq(Message) /\ Len(Queue') = Held + 1
    <3>1. TypeOK'
      BY <1>0 DEF IInv
    <3>2. \A i \in 1 .. Held + 1 : Content(ring[SlotAt(i)]) \in Message
      BY <1>0, <2>2, HeldRange, ContentIsMessage DEF TypeOK
    <3>3. Queue' = [i \in 1 .. Held + 1 |-> Content(ring[SlotAt(i)])]
      BY <2>1, <2>3 DEF Queue, Content
    <3>. QED
      BY <2>2, <3>2, <3>3
  <2>6. Queue' = Append(Queue, sending)
    <3>1. SlotAt(Held + 1) = tail
      BY <1>0, <2>2, HeldRange
    <3>. QED
      BY <1>0, <2>1, <2>2, <2>4, <2>5, <3>1, QueueIsSequence
  <2>7. Len(Queue) < Capacity - 1 /\ sending # None
    BY <1>0, <2>1, <2>2, QueueIsSequence, MessageFields
  <2>. QED
    BY <1>4, <2>6, <2>7 DEF Push, receiverVars, Abstract!Next, Abstract!Accept
<1>5. CASE Pop
  <2>1. /\ ~IsEmpty /\ Content(got) = Content(ring[head])
        /\ head' = Following(head) /\ tail' = tail /\ ring' = ring
    BY <1>5, <1>0 DEF Pop, ReceiverInv, senderVars
  <2>2. Held > 0 /\ Held \in Nat
    BY <2>1, <1>0, HeldRange, CapacityAssumption
  <2>3. /\ Held' = Held - 1
        /\ \A i \in 1 .. Held - 1 : SlotAt(i)' = SlotAt(i + 1)
    <3>1. Following(head) = IF head + 1 = Capacity THEN 0 ELSE head + 1
      BY <1>0, FollowingSlot DEF TypeOK
    <3>2. head \in Slot /\ tail \in Slot /\ tail # head
      BY <1>0, <2>1 DEF TypeOK, IsEmpty
    <3>. QED
      BY <2>1, <3>1, <3>2, CapacityAssumption DEF Held, SlotAt, Slot
  <2>4. Queue' = [i \in 1 .. Held - 1 |-> Content(ring[SlotAt(i + 1)])]
    BY <2>1, <2>3 DEF Queue, Content
  <2>5. Queue # << >> /\ Head(Queue) = Content(ring[head])
    BY <1>0, <2>2, QueueIsSequence, HeldRange
  <2>6. Queue' = Tail(Queue)
    <3>1. \A i \in 1 .. Held : Content(ring[SlotAt(i)]) \in Message
      BY <1>0, HeldRange, ContentIsMessage DEF TypeOK
    <3>2. /\ Queue' \in Seq(Message) /\ Len(Queue') = Held - 1
          /\ \A i \in 1 .. Held - 1 :
               Queue'[i] = Content(ring[SlotAt(i + 1)])
      BY <2>2, <2>4, <3>1
    <3>3. /\ Tail(Queue) \in Seq(Message) /\ Len(Tail(Queue)) = Held - 1
          /\ \A i \in 1 .. Held - 1 : Tail(Queue)[i] = Queue[i + 1]
      BY <1>0, <2>2, <2>5, QueueIsSequence, HeadTailProperties
    <3>4. \A i \in 1 .. Held - 1 : Queue[i + 1] = Content(ring[SlotAt(i + 1)])
      BY <1>0, <2>2, QueueIsSequence
    <3>. QED
      BY <3>2, <3>3, <3>4, SeqEqual
  <2>. QED
    BY <1>5, <2>1, <2>5, <2>6
       DEF Pop, senderVars, Abstract!Next, Abstract!Deliver
<1>6. CASE UNCHANGED vars
  BY <1>6, <1>0, QueueKept DEF vars, Abstract!vars
<1>. QED
  BY <1>1, <1>2, <1>3, <1>4, <1>5, <1>6 DEF Next, Sender, Receiver

\* For every capacity and every set of messages the ring is a bounded FIFO
\* that loses a message only when it is full: order, integrity and
\* exactly-once delivery of what it takes in.
THEOREM RingImplementsBoundedQueue == Spec => ImplementsBoundedQueue
BY InitRefines, NextRefines, Invariant, PTL
   DEF Spec, ImplementsBoundedQueue, Abstract!Spec
=============================================================================
