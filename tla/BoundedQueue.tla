---------------------------- MODULE BoundedQueue ----------------------------
(***************************************************************************)
(* What a MessageQueue promises to the two threads it joins: a FIFO that   *)
(* holds at most Bound messages between one sender and one receiver.  A    *)
(* message offered to a full queue is dropped without a word (send() has   *)
(* no result); a message that was taken in is handed out once, whole and   *)
(* in the order of the sends.                                              *)
(***************************************************************************)
EXTENDS Naturals, Sequences

CONSTANTS Message,  \* what can be sent
          None,     \* no message in hand
          Bound     \* messages the queue holds

VARIABLES queue,    \* the messages taken in and not yet handed out
          offered,  \* the message the sender is sending, or None
          received  \* the message handed out last, or None

vars == <<queue, offered, received>>

Init == /\ queue = << >>
        /\ offered = None
        /\ received = None

\* The sender starts a send().
Offer(m) == /\ offered = None
            /\ offered' = m
            /\ UNCHANGED <<queue, received>>

\* The message in hand joins the queue.
Accept == /\ offered # None
          /\ Len(queue) < Bound
          /\ queue' = Append(queue, offered)
          /\ offered' = None
          /\ UNCHANGED received

\* The queue is full: the message is lost.
Drop == /\ offered # None
        /\ Len(queue) = Bound
        /\ offered' = None
        /\ UNCHANGED <<queue, received>>

\* The receiver gets the oldest message.
Deliver == /\ queue # << >>
           /\ received' = Head(queue)
           /\ queue' = Tail(queue)
           /\ UNCHANGED offered

Next == \/ \E m \in Message : Offer(m)
        \/ Accept
        \/ Drop
        \/ Deliver

Spec == Init /\ [][Next]_vars
=============================================================================
