------------------------------ MODULE TrackOrder ------------------------------
(***************************************************************************)
(* What docs/api promises of POST and DELETE /api/track: under each parent *)
(* the tracks stand in an order; a new track comes after the track that is *)
(* named, or last; a deleted one leaves its place; a restored one comes    *)
(* back before the track that is named, or last.                           *)
(***************************************************************************)
EXTENDS SequencesExt

CONSTANTS Track, Master, None

Parent == Track \cup {Master}

VARIABLES order, \* parent |-> its children, in order
          asked  \* the requests not yet carried out

vars == <<order, asked>>

Request == [type : {"new", "restore"}, track : Track, parent : Parent,
            near : Track \cup {None}]
             \cup [type : {"delete"}, track : Track, parent : Parent]

Init == /\ order \in [Parent -> SeqOf(Track, Cardinality(Track))]
        /\ asked = << >>

Ask(r) == asked' = Append(asked, r) /\ UNCHANGED order

\* The children of a parent once a request is carried out.
Place(list, t) == CHOOSE i \in DOMAIN list : list[i] = t
Outcome(list, r) ==
  CASE r.type = "delete" -> Remove(list, r.track)
    [] r.type # "delete" /\ r.near = None -> Append(list, r.track)
    [] r.type = "new" /\ r.near # None ->
         InsertAt(list, Place(list, r.near) + 1, r.track)
    [] r.type = "restore" /\ r.near # None ->
         InsertAt(list, Place(list, r.near), r.track)

CarryOut == /\ asked # << >>
            /\ order' = [order EXCEPT ![Head(asked).parent] =
                           Outcome(@, Head(asked))]
            /\ asked' = Tail(asked)

Next == (\E r \in Request : Ask(r)) \/ CarryOut

Spec == Init /\ [][Next]_vars
=============================================================================
