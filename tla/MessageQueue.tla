---------------------------- MODULE MessageQueue ----------------------------
(***************************************************************************)
(* The ring buffer of src/MessageQueue.cpp that carries messages to or     *)
(* from the realtime thread, at the grain of its memory accesses.  One     *)
(* thread sends (back(), fill the slot, push()), the other receives        *)
(* (front(), use the slot in place, pop()).  head and tail are             *)
(* std::atomic, the slots between them are plain memory: what makes that   *)
(* sound is that no slot is ever in the hands of both threads.             *)
(*                                                                         *)
(* A message is a type and, in the same slot, a parameter that send(int)   *)
(* does not write: a slot keeps the parameter of its earlier message, and  *)
(* the receiver reads it only for the types that carry one.                *)
(***************************************************************************)
EXTENDS Integers, Sequences

CONSTANTS PlainType,  \* message types sent without a parameter (Play, Stop...)
          ParamType,  \* message types with one (ContinueProcess)
          Param,      \* the parameters
          NoParam,    \* stands for "carries no parameter"
          None,       \* no message in hand
          Capacity    \* slots of the ring; defaultCapacity is 100

Type == PlainType \cup ParamType
Slot == 0 .. Capacity - 1

Message == [type : PlainType, param : {NoParam}]
             \cup [type : ParamType, param : Param]

\* A queue of Capacity slots holds Capacity - 1 messages; with one slot it
\* would be full and empty at once.
ASSUME CapacityAssumption == Capacity \in Nat /\ Capacity >= 2
ASSUME MessageAssumption == /\ PlainType \cap ParamType = {}
                            /\ NoParam \notin Param
                            /\ None \notin Message

VARIABLES ring,      \* slot |-> [type, param]
          head,      \* next slot to be received
          tail,      \* next slot to be filled
          sending,   \* the sender's message, or None
          senderPC,  \* "idle", "back", "type", "param" or "push"
          backSlot,  \* the sender's msg pointer: the slot back() returned
          recvPC,    \* "front", "type", "param" or "pop"
          frontSlot, \* the receiver's message pointer
          got,       \* what the receiver has read of the slot so far
          received   \* the message last received, or None

senderVars == <<sending, senderPC, backSlot>>
receiverVars == <<recvPC, frontSlot, got, received>>
vars == <<ring, head, tail, sending, senderPC, backSlot,
          recvPC, frontSlot, got, received>>

-----------------------------------------------------------------------------
\* The slot after a slot, around the ring.
Following(i) == (i + 1) % Capacity

IsEmpty == tail = head
\* Broken variant: send() does not ask whether there is room.
IsFullNeverSeen == FALSE
IsFull == Following(tail) = head

\* What the receiver makes of a slot: the parameter of a plain message is
\* left over from an earlier one and is not looked at.
Content(s) == [type |-> s.type,
               param |-> IF s.type \in ParamType THEN s.param ELSE NoParam]

\* new Message[capacity] leaves the slots uninitialised.
Init == /\ ring \in [Slot -> [type : Type, param : Param]]
        /\ head = 0
        /\ tail = 0
        /\ sending = None
        /\ senderPC = "idle"
        /\ backSlot = 0
        /\ recvPC = "front"
        /\ frontSlot = 0
        /\ got \in [type : Type, param : Param]
        /\ received = None

-----------------------------------------------------------------------------
(* The sender: send().                                                     *)

Send(m) == /\ senderPC = "idle"
           /\ sending' = m
           /\ senderPC' = "back"
           /\ UNCHANGED <<ring, head, tail, backSlot, receiverVars>>

\* back() finds no room and returns nullptr: send() returns.
BackFull == /\ senderPC = "back"
            /\ IsFull
            /\ sending' = None
            /\ senderPC' = "idle"
            /\ UNCHANGED <<ring, head, tail, backSlot, receiverVars>>

\* back() returns the slot at the tail.
Back == /\ senderPC = "back"
        /\ ~IsFull
        /\ backSlot' = tail
        /\ senderPC' = "type"
        /\ UNCHANGED <<ring, head, tail, sending, receiverVars>>

\* Broken variant: the parameter of the message is not written.
WriteTypeOnly == /\ senderPC = "type"
                 /\ ring' = [ring EXCEPT ![backSlot].type = sending.type]
                 /\ senderPC' = "push"
                 /\ UNCHANGED <<head, tail, sending, backSlot, receiverVars>>
WriteType == /\ senderPC = "type"
             /\ ring' = [ring EXCEPT ![backSlot].type = sending.type]
             /\ senderPC' = IF sending.type \in ParamType THEN "param"
                                                          ELSE "push"
             /\ UNCHANGED <<head, tail, sending, backSlot, receiverVars>>

WriteParam == /\ senderPC = "param"
              /\ ring' = [ring EXCEPT ![backSlot].param = sending.param]
              /\ senderPC' = "push"
              /\ UNCHANGED <<head, tail, sending, backSlot, receiverVars>>

Push == /\ senderPC = "push"
        /\ tail' = Following(tail)
        /\ sending' = None
        /\ senderPC' = "idle"
        /\ UNCHANGED <<ring, head, backSlot, receiverVars>>

-----------------------------------------------------------------------------
(* The receiver: one turn of the loops in AudioEngine::run() and           *)
(* DAW::handle_messages_from_engine().                                     *)

\* front() returns the slot at the head; on an empty queue it returns
\* nullptr and the loop tries again later.
Front == /\ recvPC = "front"
         /\ ~IsEmpty
         /\ frontSlot' = head
         /\ recvPC' = "type"
         /\ UNCHANGED <<ring, head, tail, senderVars, got, received>>

ReadType == /\ recvPC = "type"
            /\ got' = [got EXCEPT !.type = ring[frontSlot].type]
            /\ recvPC' = IF ring[frontSlot].type \in ParamType THEN "param"
                                                               ELSE "pop"
            /\ UNCHANGED <<ring, head, tail, senderVars, frontSlot, received>>

ReadParam == /\ recvPC = "param"
             /\ got' = [got EXCEPT !.param = ring[frontSlot].param]
             /\ recvPC' = "pop"
             /\ UNCHANGED <<ring, head, tail, senderVars, frontSlot, received>>

\* Broken variant: a message is handled but its slot is not given back.
PopForgotten == /\ recvPC = "pop"
                /\ received' = Content(got)
                /\ recvPC' = "front"
                /\ UNCHANGED <<ring, head, tail, senderVars, frontSlot, got>>
Pop == /\ recvPC = "pop"
       /\ head' = Following(head)
       /\ received' = Content(got)
       /\ recvPC' = "front"
       /\ UNCHANGED <<ring, tail, senderVars, frontSlot, got>>

-----------------------------------------------------------------------------
Sender == \/ \E m \in Message : Send(m)
          \/ BackFull
          \/ Back
          \/ WriteType
          \/ WriteParam
          \/ Push

Receiver == Front \/ ReadType \/ ReadParam \/ Pop

Next == Sender \/ Receiver

Spec == Init /\ [][Next]_vars

\* Both threads run the receiving loop for as long as they live; nothing is
\* assumed of the sender.
FairSpec == Spec /\ WF_vars(Receiver)

-----------------------------------------------------------------------------
TypeOK ==
  /\ ring \in [Slot -> [type : Type, param : Param]]
  /\ head \in Slot
  /\ tail \in Slot
  /\ sending \in Message \cup {None}
  /\ senderPC \in {"idle", "back", "type", "param", "push"}
  /\ backSlot \in Slot
  /\ recvPC \in {"front", "type", "param", "pop"}
  /\ frontSlot \in Slot
  /\ got \in [type : Type, param : Param]
  /\ received \in Message \cup {None}

SenderHolds(i) == senderPC \in {"type", "param", "push"} /\ backSlot = i
ReceiverHolds(i) == recvPC \in {"type", "param", "pop"} /\ frontSlot = i

\* What each thread relies on at each point of its loop: the sender's slot is
\* the free one at the tail and fills up field by field, the receiver's is
\* the occupied one at the head and keeps its content until pop().
SenderInv ==
  /\ (senderPC = "idle") <=> (sending = None)
  /\ senderPC \in {"type", "param", "push"} => backSlot = tail /\ ~IsFull
  /\ senderPC = "param" => /\ sending.type \in ParamType
                           /\ ring[tail].type = sending.type
  /\ senderPC = "push" => Content(ring[tail]) = sending
ReceiverInv ==
  /\ recvPC \in {"type", "param", "pop"} => frontSlot = head /\ ~IsEmpty
  /\ recvPC \in {"param", "pop"} => got.type = ring[head].type
  /\ recvPC = "param" => got.type \in ParamType
  /\ recvPC = "pop" => Content(got) = Content(ring[head])
IInv == TypeOK /\ SenderInv /\ ReceiverInv

\* No slot is in the hands of both threads: the sender never fills the slot
\* the receiver is using in place, however the two loops interleave and
\* however often the indices wrap (is_full() keeps one slot free).
NoSlotShared == \A i \in Slot : ~(SenderHolds(i) /\ ReceiverHolds(i))

\* How many messages the queue holds, and the queue as its users see it.
Held == IF tail >= head THEN tail - head ELSE tail - head + Capacity
SlotAt(i) == IF head + i - 1 < Capacity THEN head + i - 1
                                        ELSE head + i - 1 - Capacity
Queue == [i \in 1 .. Held |-> Content(ring[SlotAt(i)])]

Abstract == INSTANCE BoundedQueue WITH
              queue <- Queue, offered <- sending, Bound <- Capacity - 1

\* The ring is a lossy bounded FIFO: messages come out whole, once and in
\* the order they were sent, and only a full queue drops one.
ImplementsBoundedQueue == Abstract!Spec

\* A message in a slot does not stay there: the slot is freed again.
EverySlotIsFreed ==
  \A i \in Slot : (head = i /\ ~IsEmpty) ~> (head # i)
=============================================================================
