------------------------------- MODULE Channel -------------------------------
(***************************************************************************)
(* A MessageQueue as the modules of the two threads use it: the sequence   *)
(* of its messages (MessageQueue.tla is shown to implement such a queue).  *)
(***************************************************************************)
EXTENDS Naturals, Sequences

\* send(): a full queue drops the message and the sender does not notice.
Sent(queue, message, bound) ==
  IF Len(queue) < bound THEN Append(queue, message) ELSE queue

Occurrences(queue, message) ==
  {i \in DOMAIN queue : queue[i] = message}

Mentions(queue, message) == Occurrences(queue, message) # {}
=============================================================================
