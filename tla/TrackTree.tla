------------------------------ MODULE TrackTree ------------------------------
(***************************************************************************)
(* The tracks of a project: the singly linked lists of children            *)
(* (src/List.h), the maps of tracks and deleted tracks (src/Project.cpp),  *)
(* and the processes that make, delete and restore a track.  The DAW       *)
(* thread looks a track up when the request comes in; the engine changes   *)
(* the lists later, when it gets to the process.                           *)
(*                                                                         *)
(* A list does not clear `next' of what leaves it, and push_back() does    *)
(* not set `next' of what joins it: whether that matters depends on what   *)
(* clients ask for.                                                        *)
(***************************************************************************)
EXTENDS SequencesExt

CONSTANTS MaxTracks,   \* bound: tracks ever made
          Loaded,      \* tracks of the project file
          MaxDeletes,  \* bound: deletions
          MaxInFlight, \* requests a client makes before it has an answer
          Master, None

ASSUME TrackAssumption == /\ MaxTracks \in Nat
                          /\ Loaded \in 1 .. MaxTracks
                          /\ MaxDeletes \in Nat
                          /\ MaxInFlight \in Nat \ {0}
                          /\ Master \notin Nat /\ None \notin Nat
                          /\ Master # None

Track == 1 .. MaxTracks
Parent == Track \cup {Master}
Link == Track \cup {None}

VARIABLES head, last, \* parent |-> the ends of its list of children
          next,       \* track |-> its next pointer
          parent,     \* track |-> the parent it was made with
          live,       \* tracks_by_id
          gone,       \* deleted_tracks
          between,    \* the track the engine has between the two, or None
          made,       \* next_new_id - 1: tracks made so far
          to, from,   \* processes on their way to the engine and back
          deletes,    \* deletions asked for so far
          undo        \* what the client has deleted, and from before what

listVars == <<head, last, next>>
mapVars == <<live, gone, between>>
vars == <<head, last, next, parent, live, gone, between, made, to, from,
          deletes, undo>>

NewProcess(t, p, after) ==
  [type |-> "new", track |-> t, parent |-> p, near |-> after]
RestoreProcess(t, p, before) ==
  [type |-> "restore", track |-> t, parent |-> p, near |-> before]
DeleteProcess(t, p) == [type |-> "delete", track |-> t, parent |-> p]

\* The file is read in order: children after their parent, siblings in the
\* order they were written, each pushed to the back of its parent's list.
Siblings(p) == {t \in 1 .. Loaded : parent[t] = p}
Init == /\ made = Loaded
        /\ parent \in {f \in [Track -> Parent] :
                         /\ \A t \in 1 .. Loaded :
                              f[t] \in (1 .. t - 1) \cup {Master}
                         /\ \A t \in Loaded + 1 .. MaxTracks : f[t] = Master}
        /\ next = [t \in Track |->
                     IF t > Loaded \/ \A s \in Siblings(parent[t]) : s <= t
                     THEN None
                     ELSE Min({s \in Siblings(parent[t]) : s > t})]
        /\ head = [p \in Parent |-> IF Siblings(p) = {} THEN None
                                                       ELSE Min(Siblings(p))]
        /\ last = [p \in Parent |-> IF Siblings(p) = {} THEN None
                                                       ELSE Max(Siblings(p))]
        /\ live = 1 .. Loaded
        /\ gone = {}
        /\ between = None
        /\ to = << >>
        /\ from = << >>
        /\ deletes = 0
        /\ undo = << >>

-----------------------------------------------------------------------------
(* Requests, on the DAW thread.                                            *)

MayAsk == Len(to) + Len(from) < MaxInFlight

\* POST /api/track, without or with "after": the constructor of the process
\* makes the track and enters it in the map.
New(after) ==
  /\ MayAsk
  /\ made < MaxTracks
  /\ after \in live \cup {None}
  /\ LET t == made + 1
         p == IF after = None THEN Master ELSE parent[after]
     IN  /\ made' = t
         /\ parent' = [parent EXCEPT ![t] = p]
         /\ live' = live \cup {t}
         /\ to' = Append(to, NewProcess(t, p, after))
  /\ UNCHANGED <<listVars, gone, between, from, deletes, undo>>

\* Track::child_after(), which the client's own list mirrors.
ChildAfter(t) == next[t]

\* DELETE /api/track/<id>.
Delete(t) ==
  /\ MayAsk
  /\ deletes < MaxDeletes
  /\ t \in live
  /\ deletes' = deletes + 1
  /\ undo' = Append(undo, [track |-> t, before |-> ChildAfter(t)])
  /\ to' = Append(to, DeleteProcess(t, parent[t]))
  /\ UNCHANGED <<listVars, parent, mapVars, made, from>>

\* POST /api/track?restore=...;parent=...[;before=...], as the client undoes
\* its last deletion: to where the track stood.
RestoreLast ==
  /\ MayAsk
  /\ undo # << >>
  /\ LET d == Last(undo)
     IN  /\ d.track \in gone
         /\ parent[d.track] \in live \cup {Master}
         /\ d.before \in live \cup {None}
         /\ to' = Append(to,
                         RestoreProcess(d.track, parent[d.track], d.before))
  /\ undo' = Front(undo)
  /\ UNCHANGED <<listVars, parent, mapVars, made, from, deletes>>

\* The same request as docs/api allows it: any deleted track, before any
\* track of its parent or at the end.
RestoreAny(t, before) ==
  /\ MayAsk
  /\ t \in gone
  /\ parent[t] \in live \cup {Master}
  /\ before \in {s \in live : parent[s] = parent[t]} \cup {None}
  /\ to' = Append(to, RestoreProcess(t, parent[t], before))
  /\ UNCHANGED <<listVars, parent, mapVars, made, from, deletes, undo>>

\* back_in_daw(): the answer goes out.
Answer == /\ from # << >>
          /\ from' = Tail(from)
          /\ UNCHANGED <<listVars, parent, mapVars, made, to, deletes, undo>>

-----------------------------------------------------------------------------
(* The lists, on the engine's thread.                                      *)

PushBack(p, t) ==
  /\ IF last[p] # None
     THEN next' = [next EXCEPT ![last[p]] = t] /\ UNCHANGED head
     ELSE head' = [head EXCEPT ![p] = t] /\ UNCHANGED next
  /\ last' = [last EXCEPT ![p] = t]

PushFront(p, t) ==
  /\ next' = [next EXCEPT ![t] = head[p]]
  /\ head' = [head EXCEPT ![p] = t]
  /\ last' = IF last[p] = None THEN [last EXCEPT ![p] = t] ELSE last

InsertAfter(t, x) ==
  /\ next' = [next EXCEPT ![t] = next[x], ![x] = t]
  /\ UNCHANGED <<head, last>>

\* The members of a list, as a loop over it from the head meets them.
Reach == [p \in Parent |->
  LET Met[n \in Nat] == IF n = 0 THEN {head[p]} \ {None}
                        ELSE Met[n - 1] \cup ({next[t] : t \in Met[n - 1]}
                                              \ {None})
  IN  Met[MaxTracks]]

\* Broken variant: the end of the list is not taken care of.
AddChildAnywhere(p, t, after) ==
  IF after = None THEN PushBack(p, t) ELSE InsertAfter(t, after)
AddChild(p, t, after) ==
  IF after = None \/ after = last[p] THEN PushBack(p, t)
                                     ELSE InsertAfter(t, after)

\* Broken variant: the front of the list is searched like the rest.
AddBeforeFrontLost(p, t, before) ==
  IF \E x \in Reach[p] : before # None /\ next[x] = before
  THEN \E x \in Reach[p] : next[x] = before /\ InsertAfter(t, x)
  ELSE PushBack(p, t)
AddChildBefore(p, t, before) ==
  IF before = None THEN PushBack(p, t)
  ELSE IF before = head[p] THEN PushFront(p, t)
  ELSE IF \E x \in Reach[p] : next[x] = before
  THEN \E x \in Reach[p] : next[x] = before /\ InsertAfter(t, x)
  ELSE PushBack(p, t)

PopFront(p) ==
  /\ head' = [head EXCEPT ![p] = next[head[p]]]
  /\ last' = IF last[p] = head[p] THEN [last EXCEPT ![p] = None] ELSE last
  /\ UNCHANGED next

\* Broken variant: removing the last track leaves `last' pointing at it.
RemoveKeepsLast(p, t) ==
  IF t = head[p] THEN PopFront(p)
  ELSE /\ next' = [x \in Track |->
                     IF x \in Reach[p] /\ next[x] = t THEN next[t] ELSE next[x]]
       /\ UNCHANGED <<head, last>>
RemoveChild(p, t) ==
  IF t = head[p] THEN PopFront(p)
  ELSE IF \E x \in Reach[p] : next[x] = t
  THEN \E x \in Reach[p] :
         /\ next[x] = t
         /\ next' = [next EXCEPT ![x] = next[t]]
         /\ last' = IF last[p] = t THEN [last EXCEPT ![p] = x] ELSE last
         /\ UNCHANGED head
  ELSE UNCHANGED listVars

\* in_engine() of the three processes.  The process keeps its place in the
\* queue until next() returns and it goes back.
Arrived(type) == to # << >> /\ Head(to).type = type
InEngine(type) == /\ Arrived(type)
                  /\ to' = Tail(to)
                  /\ from' = Append(from, Head(to))
                  /\ UNCHANGED <<parent, made, deletes, undo>>

NewInEngine == /\ InEngine("new")
               /\ AddChild(Head(to).parent, Head(to).track, Head(to).near)
               /\ UNCHANGED mapVars

\* A step of in_engine() after which the DAW thread finds the track in
\* neither map: Project::remove_track() and restore_track_id() take no lock.
HalfWay(type) == /\ Arrived(type)
                 /\ between = None
                 /\ between' = Head(to).track
                 /\ UNCHANGED <<parent, made, to, from, deletes, undo>>

\* Broken variant: the track stays in the map.
DeleteKeepsId == /\ HalfWay("delete")
                 /\ UNCHANGED <<listVars, live, gone>>
\* remove_track(): tracks_by_id.erase() ...
DeleteErases == /\ HalfWay("delete")
                /\ live' = live \ {Head(to).track}
                /\ UNCHANGED <<listVars, gone>>
\* ... and deleted_tracks[] and remove_child().
DeleteInEngine == /\ between # None
                  /\ InEngine("delete")
                  /\ gone' = gone \cup {Head(to).track}
                  /\ RemoveChild(Head(to).parent, Head(to).track)
                  /\ between' = None
                  /\ UNCHANGED live

\* add_child_before(), and restore_track_id(): deleted_tracks.erase() ...
RestoreErases ==
  /\ HalfWay("restore")
  /\ AddChildBefore(Head(to).parent, Head(to).track, Head(to).near)
  /\ gone' = gone \ {Head(to).track}
  /\ UNCHANGED live
\* ... and tracks_by_id[].
RestoreInEngine == /\ between # None
                   /\ InEngine("restore")
                   /\ live' = live \cup {Head(to).track}
                   /\ between' = None
                   /\ UNCHANGED <<listVars, gone>>

-----------------------------------------------------------------------------
Serve == \/ NewInEngine
         \/ DeleteErases \/ DeleteInEngine
         \/ RestoreErases \/ RestoreInEngine
         \/ Answer

Ask == \/ \E x \in Link : New(x)
       \/ \E t \in Track : Delete(t)

\* A client that undoes its deletions in reverse order.
Next == Ask \/ RestoreLast \/ Serve
Spec == Init /\ [][Next]_vars

\* Any client of the API.
ApiNext == \/ Ask
           \/ \E t \in Track, x \in Link : RestoreAny(t, x)
           \/ Serve
ApiSpec == Init /\ [][ApiNext]_vars

-----------------------------------------------------------------------------
TypeOK == /\ head \in [Parent -> Link]
          /\ last \in [Parent -> Link]
          /\ next \in [Track -> Link]
          /\ parent \in [Track -> Parent]
          /\ live \subseteq Track
          /\ gone \subseteq Track
          /\ between \in Link
          /\ made \in 0 .. MaxTracks
          /\ deletes \in 0 .. MaxDeletes

\* The children of p as a loop over the list meets them: the order the
\* pointers make, as long as they make one.
Chain(p) ==
  LET Walk[n \in 0 .. MaxTracks] ==
        IF n = 0 THEN IF head[p] = None THEN << >> ELSE <<head[p]>>
        ELSE IF Walk[n - 1] = << >> \/ next[Last(Walk[n - 1])] = None
        THEN Walk[n - 1]
        ELSE Append(Walk[n - 1], next[Last(Walk[n - 1])])
  IN  Walk[MaxTracks]

\* Tracks the engine is still to put in their place.
Unplaced == {to[i].track : i \in {j \in DOMAIN to : to[j].type = "new"}}

\* Every list is whole: it ends, at `last', and holds the children of its
\* parent that have been placed and not deleted, and nothing else.
ListIsWhole ==
  \A p \in Parent :
    /\ IsInjective(Chain(p))
    /\ last[p] = IF Chain(p) = << >> THEN None ELSE Last(Chain(p))
    /\ ToSet(Chain(p)) = {t \in (1 .. made) \ (gone \cup Unplaced) : parent[t] = p}

\* A track is never both known by its id and kept for a restore, and it is
\* neither only while the engine is between the two changes of the maps.
Between == {between} \ {None}
IdsAgree == live \cap gone = {} /\ live \cup gone \cup Between = 1 .. made

\* A restore has put the track in its list before it is done with the maps.
Unserved == IF Arrived("restore") /\ between # None THEN Tail(to) ELSE to
Order == [p \in Parent |-> Chain(p)]
Abstract == INSTANCE TrackOrder WITH order <- Order, asked <- Unserved

\* The pointers keep the order the requests ask for.
ImplementsTrackOrder == Abstract!Spec

\* docs/api: POST makes a track or restores a deleted one.  Once that is
\* answered the track stands in its parent's list, once.
AnsweredIsListed ==
  to = << >> => \A t \in live :
    Cardinality({i \in DOMAIN Chain(parent[t]) : Chain(parent[t])[i] = t}) = 1
=============================================================================
