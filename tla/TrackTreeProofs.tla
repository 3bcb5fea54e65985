--------------------------- MODULE TrackTreeProofs ---------------------------
(***************************************************************************)
(* For any number of tracks and deletions: a client that waits for its     *)
(* answers and undoes its deletions in reverse order never meets a stale   *)
(* next pointer, so that each list of children ends, at `last', and has    *)
(* the children that it should.                                            *)
(***************************************************************************)
EXTENDS TrackTree, Integers, FiniteSetTheorems, SequenceTheorems,
        WellFoundedInduction, TLAPS

\* What is on its way, as the three processes make it.
Request == [type : {"new", "restore"}, track : Track, parent : Parent, near : Link]
             \cup [type : {"delete"}, track : Track, parent : Parent]
Types == /\ TypeOK
         /\ to \in Seq(Request) /\ from \in Seq(Request)
         /\ undo \in Seq([track : Track, before : Link])

\* The pointers h, l and N make the list c, and its tracks are those of S.
ListOf(c, h, l, N, S) ==
  /\ c \in Seq(Track)
  /\ \A i, j \in 1 .. Len(c) : c[i] = c[j] => i = j
  /\ h = IF Len(c) = 0 THEN None ELSE c[1]
  /\ l = IF Len(c) = 0 THEN None ELSE c[Len(c)]
  /\ \A i \in 1 .. Len(c) : N[c[i]] = IF i = Len(c) THEN None ELSE c[i + 1]
  /\ S = {c[i] : i \in 1 .. Len(c)}

-----------------------------------------------------------------------------
(* What is inductive.                                                      *)

\* The maps: what a request on its way is about has been made.
\* What the engine has between them is what the request it is at is about.
BetweenInHand ==
  between # None =>
    /\ to # << >> /\ between = Head(to).track
    /\ \/ Head(to).type = "delete" /\ between \notin live
       \/ Head(to).type = "restore" /\ between \notin gone
Ids == /\ Types /\ IdsAgree /\ BetweenInHand
       /\ \A i \in DOMAIN to : to[i].track \in 1 .. made

\* A client that waits for its answers has one request on its way.
OneRequest == Len(to) + Len(from) <= 1

\* Nothing has happened since the client asked, but for what the engine is at.
Sound(m) ==
  /\ m.parent = parent[m.track]
  /\ m.type # "restore" => m.track \in (1 .. made) \ gone
  /\ m.type = "restore" /\ between = None =>
       m.track \in gone /\ next[m.track] = m.near
  /\ m.type # "delete" /\ between = None /\ m.near # None =>
       m.near \in (1 .. made) \ (gone \cup Unplaced) /\ parent[m.near] = m.parent
RequestsSound == \A i \in DOMAIN to : Sound(to[i])

\* A track that joins a list for the first time has no next one.
NewHaveNoNext == \A t \in Track : t > made \/ t \in Unplaced => next[t] = None

\* What the client can restore still points at what it was deleted before.
Deleting(t) == \E i \in DOMAIN to : to[i].type = "delete" /\ to[i].track = t
Restoring(t) == \E i \in DOMAIN to : to[i].type = "restore" /\ to[i].track = t
UndoFits ==
  /\ \A i \in DOMAIN undo :
       LET t == undo[i].track
           before == undo[i].before
       IN  /\ t \in gone \/ Deleting(t)
           /\ ~Restoring(t)
           /\ t \in 1 .. made
           /\ next[t] = before
           /\ before # None => before \in 1 .. made /\ parent[before] = parent[t]
  /\ \A i, j \in DOMAIN undo : undo[i].track = undo[j].track => i = j

\* The pointers make a list of the children of each parent.
Children(p) == {t \in (1 .. made) \ (gone \cup Unplaced) : parent[t] = p}
Lists == \A p \in Parent : \E c \in Seq(Track) :
           ListOf(c, head[p], last[p], next, Children(p))

IInv == /\ Ids /\ OneRequest /\ RequestsSound /\ NewHaveNoNext /\ UndoFits
        /\ Lists

-----------------------------------------------------------------------------
(* Lists.                                                                  *)

\* What makes a list, without its definition.
LEMMA FormList ==
  ASSUME NEW c \in Seq(Track), NEW h, NEW l, NEW N, NEW S,
         \A i, j \in 1 .. Len(c) : c[i] = c[j] => i = j,
         h = IF Len(c) = 0 THEN None ELSE c[1],
         l = IF Len(c) = 0 THEN None ELSE c[Len(c)],
         \A i \in 1 .. Len(c) : N[c[i]] = IF i = Len(c) THEN None ELSE c[i + 1],
         S = {c[i] : i \in 1 .. Len(c)}
  PROVE  ListOf(c, h, l, N, S)
BY DEF ListOf

\* Every set of natural numbers has a least one: the induction of this module.
LEMMA LeastNat ==
  ASSUME NEW T, T \subseteq Nat, T # {}
  PROVE  \E x \in T : \A y \in T : x <= y
<1> DEFINE R == OpToRel(<, Nat)
<1>1. IsWellFoundedOn(R, Nat)
  BY NatLessThanWellFounded
<1>2. \A x, y \in Nat : y < x => <<y, x>> \in R
  BY DEF OpToRel
<1> HIDE DEF R
<1>3. PICK x \in T : \A y \in T : ~(<<y, x>> \in R)
  BY <1>1, WFMin
<1>4. \A y \in T : ~(y < x)
  BY <1>2, <1>3, Zenon
<1>5. \A y \in T : x <= y
  BY <1>4
<1> QED BY <1>5

\* Induction, as a set of numbers.
LEMMA AllNat ==
  ASSUME NEW T, 0 \in T, \A n \in Nat : n \in T => n + 1 \in T
  PROVE  \A n \in Nat : n \in T
<1> SUFFICES ASSUME Nat \ T # {} PROVE FALSE
  OBVIOUS
<1>1. PICK n \in Nat \ T : \A m \in Nat \ T : n <= m
  BY LeastNat
<1>2. n - 1 \in Nat /\ n - 1 \in T
  BY <1>1
<1> QED BY <1>1, <1>2

\* The names of tracks are numbers; that of no track is none.
LEMMA TracksAre == None \notin Track /\ Track \subseteq Nat \ {0} /\ MaxTracks \in Nat
                   /\ Master \notin Track
BY TrackAssumption DEF Track

\* A list is no longer than there are tracks.
LEMMA ListIsShort ==
  ASSUME NEW c, NEW h, NEW l, NEW N, NEW S, ListOf(c, h, l, N, S)
  PROVE  Len(c) \in 0 .. MaxTracks
<1>1. c \in Seq(Track) /\ Len(c) \in Nat /\ c \in [1 .. Len(c) -> Track]
  BY DEF ListOf
<1>2. c \in Injection(1 .. Len(c), Track)
  BY <1>1 DEF ListOf, Injection, IsInjective
<1>3. IsFiniteSet(Track) /\ Cardinality(Track) = MaxTracks
  BY TracksAre, FS_Interval DEF Track
<1>4. Cardinality(1 .. Len(c)) = Len(c)
  BY <1>1, FS_Interval
<1>5. Cardinality(1 .. Len(c)) <= Cardinality(Track)
  BY <1>2, <1>3, FS_Injection DEF ExistsInjection
<1> QED BY <1>1, <1>3, <1>4, <1>5, TracksAre

\* What Chain and Reach compute, step by step.
Walked(h, N, W) ==
  [n \in 0 .. MaxTracks |->
     IF n = 0 THEN IF h = None THEN << >> ELSE <<h>>
     ELSE IF W[n - 1] = << >> \/ N[Last(W[n - 1])] = None
     THEN W[n - 1]
     ELSE Append(W[n - 1], N[Last(W[n - 1])])]
Met(h, N, W) ==
  [n \in Nat |-> IF n = 0 THEN {h} \ {None}
                 ELSE W[n - 1] \cup ({N[t] : t \in W[n - 1]} \ {None})]

\* Of a list of n tracks, what has been met after k steps.
Upto(k, n) == IF k < n THEN k + 1 ELSE n

\* The first tracks of a list, and the set of them.
Part(c, k) == [i \in 1 .. Upto(k, Len(c)) |-> c[i]]
PartSet(c, k) == {c[i] : i \in 1 .. Upto(k, Len(c))}

\* A list is a sequence of tracks, of which there are not more.
LEMMA ListElements ==
  ASSUME NEW c, NEW h, NEW l, NEW N, NEW S, ListOf(c, h, l, N, S)
  PROVE  /\ c \in Seq(Track) /\ Len(c) \in Nat /\ Len(c) <= MaxTracks /\ MaxTracks \in Nat
         /\ \A i \in 1 .. Len(c) : c[i] \in Track /\ c[i] # None
         /\ c = [i \in 1 .. Len(c) |-> c[i]]
<1>1. Len(c) \in 0 .. MaxTracks
  BY ListIsShort
<1>2. c \in Seq(Track)
  BY DEF ListOf
<1> QED BY <1>1, <1>2, TracksAre

\* A loop over a list goes one track further with each step, to its end.
LEMMA WalkSteps ==
  ASSUME NEW c, NEW h, NEW l, NEW N, NEW S, ListOf(c, h, l, N, S)
  PROVE  /\ Part(c, 0) = IF h = None THEN << >> ELSE <<h>>
         /\ \A k \in Nat :
              Part(c, k + 1) =
                IF Part(c, k) = << >> \/ N[Last(Part(c, k))] = None
                THEN Part(c, k) ELSE Append(Part(c, k), N[Last(Part(c, k))])
         /\ Part(c, MaxTracks) = c
<1>1. /\ c \in Seq(Track) /\ Len(c) \in Nat /\ Len(c) <= MaxTracks /\ MaxTracks \in Nat
      /\ \A i \in 1 .. Len(c) : c[i] \in Track /\ c[i] # None
      /\ c = [i \in 1 .. Len(c) |-> c[i]]
  BY ListElements
<1>2. Part(c, 0) = IF h = None THEN << >> ELSE <<h>>
  <2>1. CASE Len(c) = 0
    BY <1>1, <2>1 DEF Part, Upto, ListOf
  <2>2. CASE Len(c) # 0
    <3>1. Upto(0, Len(c)) = 1 /\ h = c[1] /\ h # None
      BY <1>1, <2>2 DEF Upto, ListOf
    <3>2. <<h>> = [i \in 1 .. 1 |-> c[i]]
      BY <1>1, <3>1
    <3> QED BY <1>1, <3>1, <3>2 DEF Part
  <2> QED BY <2>1, <2>2
<1>3. ASSUME NEW k \in Nat
      PROVE  Part(c, k + 1) =
               IF Part(c, k) = << >> \/ N[Last(Part(c, k))] = None
               THEN Part(c, k) ELSE Append(Part(c, k), N[Last(Part(c, k))])
  <2>1. CASE Len(c) = 0
    <3>1. Part(c, k) = << >> /\ Part(c, k + 1) = << >>
      BY <1>1, <2>1 DEF Part, Upto
    <3> QED BY <3>1
  <2>2. CASE Len(c) > 0 /\ k + 1 >= Len(c)
    <3>1. Part(c, k) = c /\ Part(c, k + 1) = c
      BY <1>1, <2>2 DEF Part, Upto
    <3>2. Last(c) = c[Len(c)] /\ N[c[Len(c)]] = None
      BY <1>1, <2>2 DEF ListOf, Last
    <3> QED BY <3>1, <3>2
  <2>3. CASE k + 1 < Len(c)
    <3>1. Upto(k, Len(c)) = k + 1 /\ Upto(k + 1, Len(c)) = k + 2
      BY <1>1, <2>3 DEF Upto
    <3>2. /\ Part(c, k) \in Seq(Track) /\ Len(Part(c, k)) = k + 1
          /\ \A i \in 1 .. k + 1 : Part(c, k)[i] = c[i]
      BY <1>1, <2>3, <3>1 DEF Part
    <3>3. Part(c, k) # << >> /\ Last(Part(c, k)) = c[k + 1]
      BY <3>2 DEF Last
    <3>4. N[c[k + 1]] = c[k + 2] /\ c[k + 2] # None /\ c[k + 2] \in Track
      BY <1>1, <2>3 DEF ListOf
    <3>5. Append(Part(c, k), c[k + 2]) = Part(c, k + 1)
      <4>1. Part(c, k + 1) = [i \in 1 .. k + 2 |-> c[i]]
        BY <3>1 DEF Part
      <4>2. /\ Append(Part(c, k), c[k + 2]) \in Seq(Track)
            /\ Len(Append(Part(c, k), c[k + 2])) = k + 2
        BY <3>2, <3>4
      <4>3. \A i \in 1 .. k + 2 : Append(Part(c, k), c[k + 2])[i] = c[i]
        BY <3>2, <3>4
      <4>4. Append(Part(c, k), c[k + 2]) = [i \in 1 .. k + 2 |-> c[i]]
        BY <4>2, <4>3
      <4> QED BY <4>1, <4>4
    <3> QED BY <3>3, <3>4, <3>5
  <2> QED BY <1>1, <2>1, <2>2, <2>3
<1>4. Part(c, MaxTracks) = c
  BY <1>1 DEF Part, Upto
<1> QED BY <1>2, <1>3, <1>4

\* So does the set of what the loop has met.
LEMMA MetSteps ==
  ASSUME NEW c, NEW h, NEW l, NEW N, NEW S, ListOf(c, h, l, N, S)
  PROVE  /\ PartSet(c, 0) = {h} \ {None}
         /\ \A k \in Nat : PartSet(c, k + 1) = PartSet(c, k) \cup
                              ({N[t] : t \in PartSet(c, k)} \ {None})
         /\ PartSet(c, MaxTracks) = S
<1>1. /\ c \in Seq(Track) /\ Len(c) \in Nat /\ Len(c) <= MaxTracks /\ MaxTracks \in Nat
      /\ \A i \in 1 .. Len(c) : c[i] \in Track /\ c[i] # None
  BY ListElements
<1>2. PartSet(c, 0) = {h} \ {None}
  <2>1. CASE Len(c) = 0
    BY <2>1 DEF PartSet, Upto, ListOf
  <2>2. CASE Len(c) # 0
    <3>1. Upto(0, Len(c)) = 1 /\ h = c[1] /\ h # None
      BY <1>1, <2>2 DEF Upto, ListOf
    <3> QED BY <3>1 DEF PartSet
  <2> QED BY <2>1, <2>2
<1>3. ASSUME NEW k \in Nat
      PROVE  PartSet(c, k + 1) = PartSet(c, k) \cup ({N[t] : t \in PartSet(c, k)} \ {None})
  <2>1. ASSUME NEW x \in {N[t] : t \in PartSet(c, k)} \ {None} PROVE x \in PartSet(c, k + 1)
    <3>1. PICK i \in 1 .. Upto(k, Len(c)) : x = N[c[i]] /\ x # None
      BY <2>1 DEF PartSet
    <3>2. /\ i \in 1 .. Len(c) /\ i # Len(c) /\ i + 1 \in 1 .. Upto(k + 1, Len(c))
          /\ x = c[i + 1]
      BY <1>1, <3>1 DEF Upto, ListOf
    <3> QED BY <3>2 DEF PartSet
  <2>2. ASSUME NEW i \in 1 .. Upto(k + 1, Len(c)), i \notin 1 .. Upto(k, Len(c))
        PROVE  c[i] \in {N[t] : t \in PartSet(c, k)} \ {None}
    <3>1. /\ i \in 1 .. Len(c) /\ i - 1 \in 1 .. Upto(k, Len(c))
          /\ i - 1 \in 1 .. Len(c) /\ i - 1 # Len(c) /\ (i - 1) + 1 = i
      BY <1>1, <2>2 DEF Upto
    <3>2. N[c[i - 1]] = c[i] /\ c[i] # None
      BY <1>1, <3>1 DEF ListOf
    <3> QED BY <3>1, <3>2 DEF PartSet
  <2>3. PartSet(c, k) \subseteq PartSet(c, k + 1)
    BY <1>1 DEF PartSet, Upto
  <2> QED BY <2>1, <2>2, <2>3 DEF PartSet
<1>4. PartSet(c, MaxTracks) = S
  BY <1>1 DEF PartSet, Upto, ListOf
<1> QED BY <1>2, <1>3, <1>4

\* The function that Chain chooses exists, and ends with the list.
LEMMA WalkAlong ==
  ASSUME NEW c, NEW h, NEW l, NEW N, NEW S, ListOf(c, h, l, N, S)
  PROVE  /\ \E W : W = Walked(h, N, W)
         /\ \A W : W = Walked(h, N, W) => W[MaxTracks] = c
<1>1. /\ Part(c, 0) = IF h = None THEN << >> ELSE <<h>>
      /\ \A k \in Nat :
           Part(c, k + 1) =
             IF Part(c, k) = << >> \/ N[Last(Part(c, k))] = None
             THEN Part(c, k) ELSE Append(Part(c, k), N[Last(Part(c, k))])
      /\ Part(c, MaxTracks) = c
  BY WalkSteps
<1>2. MaxTracks \in Nat
  BY TracksAre
<1>3. \E W : W = Walked(h, N, W)
  <2> DEFINE W == [k \in 0 .. MaxTracks |-> Part(c, k)]
  <2>1. ASSUME NEW k \in 0 .. MaxTracks PROVE W[k] = Walked(h, N, W)[k]
    <3>1. CASE k = 0
      BY <1>1, <3>1 DEF Walked
    <3>2. CASE k # 0
      <4>1. k - 1 \in 0 .. MaxTracks /\ k - 1 \in Nat /\ (k - 1) + 1 = k
        BY <1>2, <3>2
      <4>2. W[k - 1] = Part(c, k - 1) /\ W[k] = Part(c, k)
        BY <4>1
      <4>3. Part(c, k) = IF Part(c, k - 1) = << >> \/ N[Last(Part(c, k - 1))] = None
                         THEN Part(c, k - 1)
                         ELSE Append(Part(c, k - 1), N[Last(Part(c, k - 1))])
        BY <1>1, <4>1
      <4> HIDE DEF W
      <4>4. Walked(h, N, W)[k] = IF W[k - 1] = << >> \/ N[Last(W[k - 1])] = None
                                 THEN W[k - 1] ELSE Append(W[k - 1], N[Last(W[k - 1])])
        BY <3>2 DEF Walked
      <4> QED BY <4>2, <4>3, <4>4, Zenon
    <3> QED BY <3>1, <3>2
  <2>2. W = Walked(h, N, W)
    BY <2>1 DEF Walked
  <2> HIDE DEF W
  <2> QED BY <2>2
<1>4. ASSUME NEW W, W = Walked(h, N, W) PROVE W[MaxTracks] = c
  <2> DEFINE T == {k \in Nat : k <= MaxTracks => W[k] = Part(c, k)}
  <2>1. 0 \in T
    BY <1>1, <1>2, <1>4 DEF Walked
  <2>2. ASSUME NEW k \in Nat, k \in T PROVE k + 1 \in T
    <3> SUFFICES ASSUME k + 1 <= MaxTracks PROVE W[k + 1] = Part(c, k + 1)
      OBVIOUS
    <3>1. W[k] = Part(c, k) /\ k + 1 \in 0 .. MaxTracks /\ k + 1 # 0 /\ (k + 1) - 1 = k
      BY <1>2, <2>2
    <3>2. Walked(h, N, W)[k + 1] =
            IF W[(k + 1) - 1] = << >> \/ N[Last(W[(k + 1) - 1])] = None
            THEN W[(k + 1) - 1] ELSE Append(W[(k + 1) - 1], N[Last(W[(k + 1) - 1])])
      BY <3>1 DEF Walked
    <3> QED BY <1>1, <1>4, <3>1, <3>2, Zenon
  <2> HIDE DEF T
  <2>3. MaxTracks \in T
    BY <1>2, <2>1, <2>2, AllNat
  <2>4. W[MaxTracks] = Part(c, MaxTracks)
    BY <1>2, <2>3 DEF T
  <2> QED BY <1>1, <2>4
<1> QED BY <1>3, <1>4

\* The function that Reach chooses exists, and ends with its members.
LEMMA MeetAll ==
  ASSUME NEW c, NEW h, NEW l, NEW N, NEW S, ListOf(c, h, l, N, S)
  PROVE  /\ \E W : W = Met(h, N, W)
         /\ \A W : W = Met(h, N, W) => W[MaxTracks] = S
<1>1. /\ PartSet(c, 0) = {h} \ {None}
      /\ \A k \in Nat : PartSet(c, k + 1) = PartSet(c, k) \cup
                           ({N[t] : t \in PartSet(c, k)} \ {None})
      /\ PartSet(c, MaxTracks) = S
  BY MetSteps
<1>2. MaxTracks \in Nat
  BY TracksAre
<1>3. \E W : W = Met(h, N, W)
  <2> DEFINE W == [k \in Nat |-> PartSet(c, k)]
  <2>1. ASSUME NEW k \in Nat PROVE W[k] = Met(h, N, W)[k]
    <3>1. CASE k = 0
      BY <1>1, <3>1 DEF Met
    <3>2. CASE k # 0
      <4>1. k - 1 \in Nat /\ (k - 1) + 1 = k
        BY <3>2
      <4>2. W[k - 1] = PartSet(c, k - 1) /\ W[k] = PartSet(c, k)
        BY <4>1
      <4>3. PartSet(c, k) = PartSet(c, k - 1) \cup
                              ({N[t] : t \in PartSet(c, k - 1)} \ {None})
        BY <1>1, <4>1
      <4> HIDE DEF W
      <4>4. Met(h, N, W)[k] = W[k - 1] \cup ({N[t] : t \in W[k - 1]} \ {None})
        BY <3>2 DEF Met
      <4> QED BY <4>2, <4>3, <4>4, Zenon
    <3> QED BY <3>1, <3>2
  <2>2. W = Met(h, N, W)
    BY <2>1 DEF Met
  <2> HIDE DEF W
  <2> QED BY <2>2
<1>4. ASSUME NEW W, W = Met(h, N, W) PROVE W[MaxTracks] = S
  <2> DEFINE T == {k \in Nat : W[k] = PartSet(c, k)}
  <2>1. 0 \in T
    BY <1>1, <1>4 DEF Met
  <2>2. ASSUME NEW k \in Nat, k \in T PROVE k + 1 \in T
    <3>1. W[k] = PartSet(c, k) /\ k + 1 \in Nat /\ k + 1 # 0 /\ (k + 1) - 1 = k
      BY <2>2
    <3>2. Met(h, N, W)[k + 1] =
            W[(k + 1) - 1] \cup ({N[t] : t \in W[(k + 1) - 1]} \ {None})
      BY <3>1 DEF Met
    <3>3. W[k + 1] = PartSet(c, k + 1)
      BY <1>1, <1>4, <3>1, <3>2, Zenon
    <3> QED BY <3>3
  <2> HIDE DEF T
  <2>3. MaxTracks \in T
    BY <1>2, <2>1, <2>2, AllNat
  <2>4. W[MaxTracks] = PartSet(c, MaxTracks)
    BY <2>3 DEF T
  <2> QED BY <1>1, <2>4
<1> QED BY <1>3, <1>4

\* Chain reads off the list that the pointers make, and Reach its members: the
\* functions that their definitions choose exist.
LEMMA ChainIsList ==
  ASSUME NEW p \in Parent, NEW c, NEW S, ListOf(c, head[p], last[p], next, S)
  PROVE  Chain(p) = c /\ Reach[p] = S
<1> DEFINE W == CHOOSE w : w = Walked(head[p], next, w)
           M == CHOOSE m : m = Met(head[p], next, m)
<1>1. Chain(p) = W[MaxTracks]
  BY Zenon DEF Chain, Walked
<1>2. Reach[p] = M[MaxTracks]
  BY Zenon DEF Reach, Met
<1>3. /\ \E w : w = Walked(head[p], next, w)
      /\ \A w : w = Walked(head[p], next, w) => w[MaxTracks] = c
  <2> HIDE DEF W
  <2> QED BY WalkAlong
<1>4. /\ \E m : m = Met(head[p], next, m)
      /\ \A m : m = Met(head[p], next, m) => m[MaxTracks] = S
  <2> HIDE DEF M
  <2> QED BY MeetAll
<1>5. W = Walked(head[p], next, W)
  BY <1>3, Zenon
<1>6. M = Met(head[p], next, M)
  BY <1>4, Zenon
<1> HIDE DEF W, M
<1>7. W[MaxTracks] = c
  BY <1>3, <1>5, Zenon
<1>8. M[MaxTracks] = S
  BY <1>4, <1>6, Zenon
<1> QED BY <1>1, <1>2, <1>7, <1>8, Zenon

\* A track joins a list behind its first k tracks: PushFront, InsertAfter and
\* PushBack are one.
Joins(c, k, t, h, l, N, g, m, M) ==
  /\ g = IF k = 0 THEN t ELSE h
  /\ m = IF k = Len(c) THEN t ELSE l
  /\ M[t] = IF k = Len(c) THEN None ELSE c[k + 1]
  /\ k # 0 => M[c[k]] = t
  /\ \A i \in 1 .. Len(c) : i # k => M[c[i]] = N[c[i]]

LEMMA ListGains ==
  ASSUME NEW c, NEW h, NEW l, NEW N, NEW S, ListOf(c, h, l, N, S),
         NEW k \in 0 .. Len(c), NEW t \in Track, t \notin S,
         NEW g, NEW m, NEW M, Joins(c, k, t, h, l, N, g, m, M)
  PROVE  \E d : ListOf(d, g, m, M, S \cup {t})
<1>0. /\ g = IF k = 0 THEN t ELSE h
      /\ m = IF k = Len(c) THEN t ELSE l
      /\ M[t] = IF k = Len(c) THEN None ELSE c[k + 1]
      /\ k # 0 => M[c[k]] = t
      /\ \A i \in 1 .. Len(c) : i # k => M[c[i]] = N[c[i]]
  BY DEF Joins
<1>1. /\ c \in Seq(Track) /\ Len(c) \in Nat /\ k \in Nat /\ k <= Len(c)
      /\ \A i \in 1 .. Len(c) : c[i] \in Track /\ c[i] # None /\ c[i] \in S
  <2>1. /\ c \in Seq(Track) /\ Len(c) \in Nat
        /\ \A i \in 1 .. Len(c) : c[i] \in Track /\ c[i] # None
    BY ListElements
  <2>2. \A i \in 1 .. Len(c) : c[i] \in S
    BY DEF ListOf
  <2> QED BY <2>1, <2>2
<1> DEFINE d == [i \in 1 .. Len(c) + 1 |-> IF i <= k THEN c[i]
                                          ELSE IF i = k + 1 THEN t ELSE c[i - 1]]
<1>2. d \in Seq(Track) /\ Len(d) = Len(c) + 1
  <2>1. d \in [1 .. Len(c) + 1 -> Track]
    BY <1>1
  <2> QED BY <1>1, <2>1
<1>3. /\ \A i \in 1 .. k : d[i] = c[i]
      /\ d[k + 1] = t
      /\ \A i \in k + 2 .. Len(c) + 1 : d[i] = c[i - 1]
  BY <1>1
<1> HIDE DEF d
<1>4. \A i, j \in 1 .. Len(d) : d[i] = d[j] => i = j
  <2> SUFFICES ASSUME NEW i \in 1 .. Len(d), NEW j \in 1 .. Len(d), d[i] = d[j], i < j
               PROVE  FALSE
    BY <1>1, <1>2
  <2>1. \A a, b \in 1 .. Len(c) : c[a] = c[b] => a = b
    BY DEF ListOf
  <2>2. CASE i = k + 1
    BY <1>1, <1>2, <1>3, <2>2
  <2>3. CASE j = k + 1
    BY <1>1, <1>2, <1>3, <2>3
  <2>4. CASE i # k + 1 /\ j # k + 1 /\ j <= k
    BY <1>1, <1>2, <1>3, <2>1, <2>4
  <2>5. CASE i # k + 1 /\ j # k + 1 /\ j > k /\ i <= k
    <3>1. /\ i \in 1 .. k /\ j \in k + 2 .. Len(c) + 1
          /\ i \in 1 .. Len(c) /\ j - 1 \in 1 .. Len(c) /\ i # j - 1
      BY <1>1, <1>2, <2>5
    <3>2. d[i] = c[i] /\ d[j] = c[j - 1]
      BY <1>3, <3>1
    <3> QED BY <2>1, <3>1, <3>2
  <2>6. CASE i > k + 1
    <3>1. /\ i \in k + 2 .. Len(c) + 1 /\ j \in k + 2 .. Len(c) + 1
          /\ i - 1 \in 1 .. Len(c) /\ j - 1 \in 1 .. Len(c) /\ i - 1 # j - 1
      BY <1>1, <1>2, <2>6
    <3>2. d[i] = c[i - 1] /\ d[j] = c[j - 1]
      BY <1>3, <3>1
    <3> QED BY <2>1, <3>1, <3>2
  <2> QED BY <1>1, <1>2, <2>2, <2>3, <2>4, <2>5, <2>6
<1>5. /\ g = d[1] /\ m = d[Len(d)]
  <2> USE <1>0
  <2>1. g = d[1]
    <3>1. CASE k = 0
      BY <1>3, <3>1
    <3>2. CASE k # 0
      <4>1. Len(c) # 0 /\ 1 \in 1 .. k
        BY <1>1, <3>2
      <4> QED BY <1>3, <3>2, <4>1 DEF ListOf
    <3> QED BY <3>1, <3>2
  <2>2. m = d[Len(d)]
    <3>1. CASE k = Len(c)
      BY <1>2, <1>3, <3>1
    <3>2. CASE k # Len(c)
      <4>1. Len(c) # 0 /\ Len(d) \in k + 2 .. Len(c) + 1 /\ Len(d) - 1 = Len(c)
        BY <1>1, <1>2, <3>2
      <4>2. d[Len(d)] = c[Len(c)]
        BY <1>3, <4>1
      <4> QED BY <3>2, <4>1, <4>2 DEF ListOf
    <3> QED BY <3>1, <3>2
  <2> QED BY <2>1, <2>2
<1>6. ASSUME NEW i \in 1 .. Len(d)
      PROVE  M[d[i]] = IF i = Len(d) THEN None ELSE d[i + 1]
  <2> USE <1>0
  <2>1. \A a \in 1 .. Len(c) : N[c[a]] = IF a = Len(c) THEN None ELSE c[a + 1]
    BY DEF ListOf
  <2>2. CASE i < k
    <3>1. /\ i \in 1 .. Len(c) /\ i # k /\ i # Len(c) /\ i # Len(d)
          /\ i \in 1 .. k /\ i + 1 \in 1 .. k
      BY <1>1, <1>2, <2>2
    <3> QED BY <1>3, <2>1, <3>1
  <2>3. CASE i = k
    <3>1. k # 0 /\ i # Len(d) /\ k \in 1 .. k
      BY <1>1, <1>2, <2>3
    <3> QED BY <1>3, <2>3, <3>1
  <2>4. CASE i = k + 1
    <3>1. CASE k = Len(c)
      BY <1>2, <1>3, <2>4, <3>1
    <3>2. CASE k # Len(c)
      <4>1. i # Len(d) /\ k + 2 \in k + 2 .. Len(c) + 1 /\ i + 1 = k + 2 /\ (k + 2) - 1 = k + 1
        BY <1>1, <1>2, <2>4, <3>2
      <4>2. d[k + 2] = c[k + 1]
        BY <1>3, <4>1
      <4> QED BY <1>3, <2>4, <3>2, <4>1, <4>2
    <3> QED BY <3>1, <3>2
  <2>5. CASE i > k + 1
    <3>1. /\ i \in k + 2 .. Len(c) + 1 /\ i - 1 \in 1 .. Len(c) /\ i - 1 # k
          /\ (i = Len(d) <=> i - 1 = Len(c)) /\ (i - 1) + 1 = i
          /\ (i # Len(d) => i + 1 \in k + 2 .. Len(c) + 1 /\ (i + 1) - 1 = i)
      BY <1>1, <1>2, <2>5
    <3>2. d[i] = c[i - 1] /\ (i # Len(d) => d[i + 1] = c[i])
      BY <1>3, <3>1
    <3>3. M[c[i - 1]] = N[c[i - 1]]
      BY <3>1
    <3>4. N[c[i - 1]] = IF i - 1 = Len(c) THEN None ELSE c[i]
      BY <2>1, <3>1
    <3> QED BY <3>1, <3>2, <3>3, <3>4
  <2> QED BY <1>1, <1>2, <2>2, <2>3, <2>4, <2>5
<1>7. S \cup {t} = {d[i] : i \in 1 .. Len(d)}
  <2>1. S = {c[i] : i \in 1 .. Len(c)}
    BY DEF ListOf
  <2>2. ASSUME NEW i \in 1 .. Len(c) PROVE \E j \in 1 .. Len(d) : d[j] = c[i]
    <3>1. CASE i <= k
      BY <1>1, <1>2, <1>3, <3>1
    <3>2. CASE i > k
      <4>1. i + 1 \in k + 2 .. Len(c) + 1 /\ i + 1 \in 1 .. Len(d) /\ (i + 1) - 1 = i
        BY <1>1, <1>2, <3>2
      <4> QED BY <1>3, <4>1
    <3> QED BY <1>1, <3>1, <3>2
  <2>3. ASSUME NEW j \in 1 .. Len(d) PROVE d[j] = t \/ \E i \in 1 .. Len(c) : d[j] = c[i]
    <3>1. CASE j <= k
      BY <1>1, <1>2, <1>3, <3>1
    <3>2. CASE j = k + 1
      BY <1>3, <3>2
    <3>3. CASE j > k + 1
      <4>1. j \in k + 2 .. Len(c) + 1 /\ j - 1 \in 1 .. Len(c)
        BY <1>1, <1>2, <3>3
      <4> QED BY <1>3, <4>1
    <3> QED BY <1>1, <1>2, <3>1, <3>2, <3>3
  <2>4. k + 1 \in 1 .. Len(d) /\ d[k + 1] = t
    BY <1>1, <1>2, <1>3
  <2>5. S \cup {t} \subseteq {d[i] : i \in 1 .. Len(d)}
    BY <2>1, <2>2, <2>4
  <2>6. {d[i] : i \in 1 .. Len(d)} \subseteq S \cup {t}
    BY <2>1, <2>3
  <2> QED BY <2>5, <2>6
<1>8. ListOf(d, g, m, M, S \cup {t})
  <2>1. Len(d) # 0
    BY <1>1, <1>2
  <2>2. /\ g = IF Len(d) = 0 THEN None ELSE d[1]
        /\ m = IF Len(d) = 0 THEN None ELSE d[Len(d)]
    BY <1>5, <2>1
  <2> QED BY <1>2, <1>4, <1>6, <1>7, <2>2, FormList
<1> QED BY <1>8

\* The k-th track leaves a list: PopFront and the rest of remove() are one.
Leaves(c, k, h, l, N, g, m, M) ==
  /\ g = IF k = 1 THEN N[c[1]] ELSE h
  /\ m = IF k # Len(c) THEN l ELSE IF k = 1 THEN None ELSE c[k - 1]
  /\ k # 1 => M[c[k - 1]] = N[c[k]]
  /\ \A i \in 1 .. Len(c) : i # k - 1 => M[c[i]] = N[c[i]]

LEMMA ListLoses ==
  ASSUME NEW c, NEW h, NEW l, NEW N, NEW S, ListOf(c, h, l, N, S),
         NEW k \in 1 .. Len(c),
         NEW g, NEW m, NEW M, Leaves(c, k, h, l, N, g, m, M)
  PROVE  \E d : ListOf(d, g, m, M, S \ {c[k]})
<1>0. /\ g = IF k = 1 THEN N[c[1]] ELSE h
      /\ m = IF k # Len(c) THEN l ELSE IF k = 1 THEN None ELSE c[k - 1]
      /\ k # 1 => M[c[k - 1]] = N[c[k]]
      /\ \A i \in 1 .. Len(c) : i # k - 1 => M[c[i]] = N[c[i]]
  BY DEF Leaves
<1>1. /\ c \in Seq(Track) /\ Len(c) \in Nat \ {0} /\ k \in Nat /\ k <= Len(c)
      /\ \A i \in 1 .. Len(c) : c[i] \in Track /\ c[i] # None
      /\ \A i, j \in 1 .. Len(c) : c[i] = c[j] => i = j
      /\ \A i \in 1 .. Len(c) : N[c[i]] = IF i = Len(c) THEN None ELSE c[i + 1]
      /\ S = {c[i] : i \in 1 .. Len(c)}
      /\ h = c[1] /\ l = c[Len(c)]
  <2>1. /\ c \in Seq(Track) /\ Len(c) \in Nat
        /\ \A i \in 1 .. Len(c) : c[i] \in Track /\ c[i] # None
    BY ListElements
  <2>2. Len(c) # 0
    BY <2>1
  <2> QED BY <2>1, <2>2 DEF ListOf
<1> USE <1>0
<1> DEFINE d == [i \in 1 .. Len(c) - 1 |-> IF i < k THEN c[i] ELSE c[i + 1]]
<1>2. d \in Seq(Track) /\ Len(d) = Len(c) - 1 /\ Len(d) \in Nat
  <2>1. d \in [1 .. Len(c) - 1 -> Track]
    BY <1>1
  <2> QED BY <1>1, <2>1
<1>3. \A i \in 1 .. Len(d) : d[i] = IF i < k THEN c[i] ELSE c[i + 1]
  BY <1>1, <1>2
<1> HIDE DEF d
<1>4. ASSUME NEW i \in 1 .. Len(d), NEW j \in 1 .. Len(d), d[i] = d[j] PROVE i = j
  <2>1. /\ i \in 1 .. Len(c) /\ i + 1 \in 1 .. Len(c)
        /\ j \in 1 .. Len(c) /\ j + 1 \in 1 .. Len(c)
    BY <1>1, <1>2
  <2>2. CASE i < k /\ j < k
    BY <1>1, <1>3, <1>4, <2>1, <2>2
  <2>3. CASE i < k /\ ~(j < k)
    <3>1. i = j + 1
      BY <1>1, <1>3, <1>4, <2>1, <2>3
    <3> QED BY <1>1, <2>3, <3>1
  <2>4. CASE ~(i < k) /\ j < k
    <3>1. i + 1 = j
      BY <1>1, <1>3, <1>4, <2>1, <2>4
    <3> QED BY <1>1, <2>4, <3>1
  <2>5. CASE ~(i < k) /\ ~(j < k)
    <3>1. i + 1 = j + 1
      BY <1>1, <1>3, <1>4, <2>1, <2>5
    <3> QED BY <1>2, <3>1
  <2> QED BY <2>2, <2>3, <2>4, <2>5
<1>5. g = IF Len(d) = 0 THEN None ELSE d[1]
  <2>1. CASE k = 1
    <3>1. g = IF Len(c) = 1 THEN None ELSE c[2]
      <4>1. 1 \in 1 .. Len(c) /\ 1 + 1 = 2 /\ g = N[c[1]]
        BY <1>1, <2>1
      <4>2. N[c[1]] = IF 1 = Len(c) THEN None ELSE c[1 + 1]
        BY <1>1, <4>1
      <4> QED BY <4>1, <4>2
    <3>2. Len(d) # 0 => 1 \in 1 .. Len(d) /\ d[1] = c[2]
      BY <1>2, <1>3, <2>1
    <3>3. Len(d) = 0 <=> Len(c) = 1
      BY <1>1, <1>2
    <3> QED BY <3>1, <3>2, <3>3
  <2>2. CASE k # 1
    <3>1. Len(d) # 0 /\ 1 \in 1 .. Len(d) /\ 1 < k
      BY <1>1, <1>2, <2>2
    <3> QED BY <1>1, <1>3, <2>2, <3>1
  <2> QED BY <2>1, <2>2
<1>6. m = IF Len(d) = 0 THEN None ELSE d[Len(d)]
  <2>1. CASE k # Len(c)
    <3>1. Len(d) # 0 /\ Len(d) \in 1 .. Len(d) /\ ~(Len(d) < k) /\ Len(d) + 1 = Len(c)
      BY <1>1, <1>2, <2>1
    <3> QED BY <1>1, <1>3, <2>1, <3>1
  <2>2. CASE k = Len(c) /\ k = 1
    BY <1>2, <2>2
  <2>3. CASE k = Len(c) /\ k # 1
    <3>1. Len(d) # 0 /\ Len(d) \in 1 .. Len(d) /\ Len(d) < k /\ Len(d) = k - 1
      BY <1>1, <1>2, <2>3
    <3>2. d[Len(d)] = c[k - 1]
      BY <1>3, <3>1
    <3> QED BY <2>3, <3>1, <3>2
  <2> QED BY <2>1, <2>2, <2>3
<1>7. ASSUME NEW i \in 1 .. Len(d)
      PROVE  M[d[i]] = IF i = Len(d) THEN None ELSE d[i + 1]
  <2>1. CASE i < k - 1
    <3>1. /\ i < k /\ i + 1 < k /\ i \in 1 .. Len(c) /\ i # k - 1 /\ i # Len(c)
          /\ i # Len(d) /\ i + 1 \in 1 .. Len(d)
      BY <1>1, <1>2, <2>1
    <3>2. d[i] = c[i] /\ d[i + 1] = c[i + 1]
      BY <1>3, <3>1
    <3> QED BY <1>1, <3>1, <3>2
  <2>2. CASE i = k - 1
    <3>1. /\ i < k /\ k # 1 /\ (k = Len(c) <=> i = Len(d))
          /\ (i # Len(d) => i + 1 \in 1 .. Len(d) /\ ~(i + 1 < k) /\ (i + 1) + 1 = k + 1)
      BY <1>1, <1>2, <2>2
    <3>2. d[i] = c[k - 1] /\ (i # Len(d) => d[i + 1] = c[k + 1])
      BY <1>3, <2>2, <3>1
    <3>3. M[d[i]] = N[c[k]]
      BY <3>1, <3>2
    <3> QED BY <1>1, <3>1, <3>2, <3>3
  <2>3. CASE i > k - 1
    <3>1. /\ ~(i < k) /\ i + 1 \in 1 .. Len(c) /\ i + 1 # k - 1
          /\ (i + 1 = Len(c) <=> i = Len(d))
          /\ (i # Len(d) => i + 1 \in 1 .. Len(d) /\ ~(i + 1 < k))
      BY <1>1, <1>2, <2>3
    <3>2. d[i] = c[i + 1] /\ (i # Len(d) => d[i + 1] = c[(i + 1) + 1])
      BY <1>3, <3>1
    <3>3. M[c[i + 1]] = N[c[i + 1]]
      BY <3>1
    <3>4. N[c[i + 1]] = IF i + 1 = Len(c) THEN None ELSE c[(i + 1) + 1]
      BY <1>1, <3>1
    <3> QED BY <3>1, <3>2, <3>3, <3>4
  <2> QED BY <1>1, <1>2, <2>1, <2>2, <2>3
<1>8. S \ {c[k]} = {d[i] : i \in 1 .. Len(d)}
  <2>1. ASSUME NEW i \in 1 .. Len(c), c[i] # c[k] PROVE \E j \in 1 .. Len(d) : d[j] = c[i]
    <3>1. CASE i < k
      BY <1>1, <1>2, <1>3, <3>1
    <3>2. CASE i > k
      <4>1. i - 1 \in 1 .. Len(d) /\ ~(i - 1 < k) /\ (i - 1) + 1 = i
        BY <1>1, <1>2, <3>2
      <4> QED BY <1>3, <4>1
    <3>3. i # k
      BY <2>1
    <3> QED BY <1>1, <3>1, <3>2, <3>3
  <2>2. ASSUME NEW j \in 1 .. Len(d) PROVE \E i \in 1 .. Len(c) : d[j] = c[i] /\ i # k
    <3>1. j \in 1 .. Len(c) /\ j + 1 \in 1 .. Len(c)
      BY <1>1, <1>2
    <3>2. CASE j < k
      BY <1>1, <1>3, <3>1, <3>2
    <3>3. CASE ~(j < k)
      BY <1>1, <1>3, <3>1, <3>3
    <3> QED BY <3>2, <3>3
  <2>3. S \ {c[k]} \subseteq {d[i] : i \in 1 .. Len(d)}
    BY <1>1, <2>1
  <2>4. {d[i] : i \in 1 .. Len(d)} \subseteq S \ {c[k]}
    BY <1>1, <2>2
  <2> QED BY <2>3, <2>4
<1>9. ListOf(d, g, m, M, S \ {c[k]})
  BY <1>2, <1>4, <1>5, <1>6, <1>7, <1>8, FormList
<1> QED BY <1>9

-----------------------------------------------------------------------------
(* What the operations of List.h do to a list.                             *)

\* Of the pointers only those of the list of p and its tracks S are touched.
OthersKept(p, S) ==
  /\ head' \in [Parent -> Link] /\ last' \in [Parent -> Link] /\ next' \in [Track -> Link]
  /\ \A q \in Parent : q # p => head'[q] = head[q] /\ last'[q] = last[q]
  /\ \A x \in Track : x \notin S => next'[x] = next[x]

\* push_back() makes t the last, if its next pointer is clear.
LEMMA PushBackGains ==
  ASSUME TypeOK, NEW p \in Parent, NEW t \in Track, NEW c, NEW S,
         ListOf(c, head[p], last[p], next, S), t \notin S, next[t] = None,
         PushBack(p, t)
  PROVE  /\ OthersKept(p, S \cup {t})
         /\ \E d : ListOf(d, head'[p], last'[p], next', S \cup {t})
<1>1. /\ c \in Seq(Track) /\ Len(c) \in Nat
      /\ \A i \in 1 .. Len(c) : c[i] \in Track /\ c[i] # None /\ c[i] \in S
      /\ \A i, j \in 1 .. Len(c) : c[i] = c[j] => i = j
      /\ head[p] = IF Len(c) = 0 THEN None ELSE c[1]
      /\ last[p] = IF Len(c) = 0 THEN None ELSE c[Len(c)]
  <2>1. /\ c \in Seq(Track) /\ Len(c) \in Nat
        /\ \A i \in 1 .. Len(c) : c[i] \in Track /\ c[i] # None
    BY ListElements
  <2>2. \A i \in 1 .. Len(c) : c[i] \in S
    BY DEF ListOf
  <2> QED BY <2>1, <2>2 DEF ListOf
<1>2. /\ head \in [Parent -> Link] /\ last \in [Parent -> Link] /\ next \in [Track -> Link]
      /\ t \in Link /\ None \notin Track
  BY TracksAre DEF TypeOK, Link
<1>3. last' = [last EXCEPT ![p] = t]
  BY DEF PushBack
<1>4. CASE Len(c) = 0
  <2>1. head' = [head EXCEPT ![p] = t] /\ next' = next
    BY <1>1, <1>4 DEF PushBack
  <2>2. OthersKept(p, S \cup {t})
    BY <1>2, <1>3, <2>1 DEF OthersKept
  <2>3. \A i \in 1 .. Len(c) : FALSE
    BY <1>4
  <2>4. head'[p] = t /\ last'[p] = t /\ next'[t] = None
    BY <1>2, <1>3, <2>1
  <2>5. \E d : ListOf(d, head'[p], last'[p], next', S \cup {t})
    <3>1. Len(c) \in 0 .. Len(c)
      BY <1>1
    <3>2. Joins(c, Len(c), t, head[p], last[p], next, head'[p], last'[p], next')
      BY <1>1, <1>4, <2>4 DEF Joins
    <3> QED BY <3>1, <3>2, ListGains
  <2> QED BY <2>2, <2>5
<1>5. CASE Len(c) # 0
  <2>1. last[p] = c[Len(c)] /\ last[p] # None /\ Len(c) \in 1 .. Len(c) /\ last[p] \in S
    BY <1>1, <1>5
  <2>2. head' = head /\ next' = [next EXCEPT ![last[p]] = t]
    BY <2>1 DEF PushBack
  <2>3. OthersKept(p, S \cup {t})
    BY <1>2, <1>3, <2>1, <2>2 DEF OthersKept
  <2>4. /\ head'[p] = head[p] /\ last'[p] = t /\ next'[t] = None
        /\ next'[c[Len(c)]] = t
        /\ \A i \in 1 .. Len(c) : i # Len(c) => next'[c[i]] = next[c[i]]
    BY <1>1, <1>2, <1>3, <2>1, <2>2
  <2>5. \E d : ListOf(d, head'[p], last'[p], next', S \cup {t})
    <3>1. Len(c) \in 0 .. Len(c)
      BY <1>1
    <3>2. Joins(c, Len(c), t, head[p], last[p], next, head'[p], last'[p], next')
      BY <1>1, <1>5, <2>4 DEF Joins
    <3> QED BY <3>1, <3>2, ListGains
  <2> QED BY <2>3, <2>5
<1> QED BY <1>4, <1>5

\* push_front() makes t the first of a list that is not empty.
LEMMA PushFrontGains ==
  ASSUME TypeOK, NEW p \in Parent, NEW t \in Track, NEW c, NEW S,
         ListOf(c, head[p], last[p], next, S), t \notin S, head[p] # None,
         PushFront(p, t)
  PROVE  /\ OthersKept(p, S \cup {t})
         /\ \E d : ListOf(d, head'[p], last'[p], next', S \cup {t})
<1>1. /\ c \in Seq(Track) /\ Len(c) \in Nat \ {0}
      /\ \A i \in 1 .. Len(c) : c[i] \in Track /\ c[i] # None /\ c[i] \in S
      /\ head[p] = c[1] /\ last[p] = c[Len(c)] /\ last[p] # None
  <2>1. /\ c \in Seq(Track) /\ Len(c) \in Nat
        /\ \A i \in 1 .. Len(c) : c[i] \in Track /\ c[i] # None
    BY ListElements
  <2>2. \A i \in 1 .. Len(c) : c[i] \in S
    BY DEF ListOf
  <2>3. Len(c) # 0 /\ head[p] = c[1] /\ last[p] = c[Len(c)]
    BY DEF ListOf
  <2> QED BY <2>1, <2>2, <2>3
<1>2. /\ head \in [Parent -> Link] /\ last \in [Parent -> Link] /\ next \in [Track -> Link]
      /\ t \in Link
  BY DEF TypeOK, Link
<1>3. head' = [head EXCEPT ![p] = t] /\ next' = [next EXCEPT ![t] = head[p]] /\ last' = last
  BY <1>1 DEF PushFront
<1>4. OthersKept(p, S \cup {t})
  BY <1>2, <1>3 DEF OthersKept
<1>5. /\ head'[p] = t /\ last'[p] = last[p] /\ next'[t] = c[0 + 1]
      /\ \A i \in 1 .. Len(c) : next'[c[i]] = next[c[i]]
  BY <1>1, <1>2, <1>3
<1>6. \E d : ListOf(d, head'[p], last'[p], next', S \cup {t})
  <2>1. 0 \in 0 .. Len(c) /\ 0 # Len(c)
    BY <1>1
  <2>2. Joins(c, 0, t, head[p], last[p], next, head'[p], last'[p], next')
    BY <1>1, <1>5, <2>1 DEF Joins
  <2> QED BY <2>1, <2>2, ListGains
<1> QED BY <1>4, <1>6

\* insert_after() puts t behind x, which is not the last.
LEMMA InsertGains ==
  ASSUME TypeOK, NEW p \in Parent, NEW t \in Track, NEW c, NEW S,
         ListOf(c, head[p], last[p], next, S), t \notin S,
         NEW x \in S, x # last[p], InsertAfter(t, x)
  PROVE  /\ OthersKept(p, S \cup {t})
         /\ \E d : ListOf(d, head'[p], last'[p], next', S \cup {t})
<1>1. /\ c \in Seq(Track) /\ Len(c) \in Nat
      /\ \A i \in 1 .. Len(c) : c[i] \in Track /\ c[i] # None /\ c[i] \in S
      /\ \A i, j \in 1 .. Len(c) : c[i] = c[j] => i = j
      /\ S = {c[i] : i \in 1 .. Len(c)}
      /\ \A i \in 1 .. Len(c) : next[c[i]] = IF i = Len(c) THEN None ELSE c[i + 1]
      /\ last[p] = IF Len(c) = 0 THEN None ELSE c[Len(c)]
  <2>1. /\ c \in Seq(Track) /\ Len(c) \in Nat
        /\ \A i \in 1 .. Len(c) : c[i] \in Track /\ c[i] # None
    BY ListElements
  <2>2. \A i \in 1 .. Len(c) : c[i] \in S
    BY DEF ListOf
  <2> QED BY <2>1, <2>2 DEF ListOf
<1>2. /\ head \in [Parent -> Link] /\ last \in [Parent -> Link] /\ next \in [Track -> Link]
      /\ t \in Link
  BY DEF TypeOK, Link
<1>3. PICK k \in 1 .. Len(c) : x = c[k]
  BY <1>1
<1>4. k # Len(c) /\ k # 0 /\ k \in 0 .. Len(c) /\ x \in Track /\ x # t
  BY <1>1, <1>3
<1>5. head' = head /\ last' = last /\ next' = [next EXCEPT ![t] = next[x], ![x] = t]
  BY DEF InsertAfter
<1>6. /\ next'[t] = c[k + 1] /\ next'[x] = t
      /\ \A y \in Track : y # t /\ y # x => next'[y] = next[y]
      /\ next' \in [Track -> Link]
  BY <1>1, <1>2, <1>3, <1>4, <1>5
<1>7. OthersKept(p, S \cup {t})
  BY <1>2, <1>5, <1>6 DEF OthersKept
<1>8. \A i \in 1 .. Len(c) : i # k => next'[c[i]] = next[c[i]]
  BY <1>1, <1>3, <1>6
<1>9. \E d : ListOf(d, head'[p], last'[p], next', S \cup {t})
  <2>1. Joins(c, k, t, head[p], last[p], next, head'[p], last'[p], next')
    BY <1>3, <1>4, <1>5, <1>6, <1>8 DEF Joins
  <2> QED BY <1>4, <2>1, ListGains
<1> QED BY <1>7, <1>9

\* Track::add_child() puts a track that has no next one behind a child.
LEMMA AddChildGains ==
  ASSUME TypeOK, NEW p \in Parent, NEW t \in Track, NEW c, NEW S,
         ListOf(c, head[p], last[p], next, S), t \notin S, next[t] = None,
         NEW after \in S \cup {None}, AddChild(p, t, after)
  PROVE  /\ OthersKept(p, S \cup {t})
         /\ \E d : ListOf(d, head'[p], last'[p], next', S \cup {t})
<1>1. CASE after = None \/ after = last[p]
  <2>1. PushBack(p, t)
    BY <1>1 DEF AddChild
  <2> QED BY <2>1, PushBackGains
<1>2. CASE ~(after = None \/ after = last[p])
  <2>1. InsertAfter(t, after) /\ after \in S /\ after # last[p]
    BY <1>2 DEF AddChild
  <2> QED BY <2>1, InsertGains
<1> QED BY <1>1, <1>2

\* Where a next pointer of the list leads.
LEMMA ListNext ==
  ASSUME NEW c, NEW h, NEW l, NEW N, NEW S, ListOf(c, h, l, N, S)
  PROVE  /\ \A x \in S : (N[x] = None <=> x = l) /\ x # None /\ x \in Track
         /\ \A t \in S : t # h => \E x \in S : N[x] = t
         /\ h = None <=> S = {}
         /\ h # None => h \in S
         /\ l # None => l \in S /\ N[l] = None
         /\ \A x \in S : N[x] \in S \cup {None}
<1>1. /\ c \in Seq(Track) /\ Len(c) \in Nat
      /\ \A i \in 1 .. Len(c) : c[i] \in Track /\ c[i] # None
  BY ListElements
<1>2. /\ \A i, j \in 1 .. Len(c) : c[i] = c[j] => i = j
      /\ h = IF Len(c) = 0 THEN None ELSE c[1]
      /\ l = IF Len(c) = 0 THEN None ELSE c[Len(c)]
      /\ \A i \in 1 .. Len(c) : N[c[i]] = IF i = Len(c) THEN None ELSE c[i + 1]
      /\ S = {c[i] : i \in 1 .. Len(c)}
  BY DEF ListOf
<1>3. ASSUME NEW x \in S
      PROVE  (N[x] = None <=> x = l) /\ x # None /\ x \in Track
  <2>1. PICK i \in 1 .. Len(c) : x = c[i]
    BY <1>2
  <2>2. i # Len(c) => i + 1 \in 1 .. Len(c)
    BY <1>1
  <2>3. Len(c) \in 1 .. Len(c) /\ l = c[Len(c)]
    BY <1>1, <1>2
  <2> QED BY <1>1, <1>2, <2>1, <2>2, <2>3
<1>4. ASSUME NEW t \in S, t # h PROVE \E x \in S : N[x] = t
  <2>1. PICK i \in 1 .. Len(c) : t = c[i]
    BY <1>2
  <2>2. i # 1 /\ Len(c) # 0
    BY <1>1, <1>2, <1>4, <2>1
  <2>3. i - 1 \in 1 .. Len(c) /\ i - 1 # Len(c) /\ (i - 1) + 1 = i
    BY <1>1, <2>2
  <2>4. N[c[i - 1]] = t /\ c[i - 1] \in S
    BY <1>2, <2>1, <2>3
  <2> QED BY <2>4
<1>5. h = None <=> S = {}
  <2>1. CASE Len(c) = 0
    BY <1>2, <2>1
  <2>2. CASE Len(c) # 0
    <3>1. 1 \in 1 .. Len(c)
      BY <1>1, <2>2
    <3>2. h = c[1] /\ c[1] # None
      BY <1>1, <1>2, <2>2, <3>1
    <3>3. c[1] \in S
      BY <1>2, <3>1
    <3> QED BY <3>2, <3>3
  <2> QED BY <2>1, <2>2
<1>6. h # None => h \in S
  <2>1. SUFFICES ASSUME Len(c) # 0 PROVE h \in S
    BY <1>2
  <2>2. 1 \in 1 .. Len(c)
    BY <1>1, <2>1
  <2> QED BY <1>2, <2>1, <2>2
<1>7. l # None => l \in S /\ N[l] = None
  <2>1. SUFFICES ASSUME Len(c) # 0 PROVE l \in S /\ N[l] = None
    BY <1>2
  <2>2. Len(c) \in 1 .. Len(c)
    BY <1>1, <2>1
  <2> QED BY <1>2, <2>1, <2>2
<1>8. ASSUME NEW x \in S PROVE N[x] \in S \cup {None}
  <2>1. PICK i \in 1 .. Len(c) : x = c[i]
    BY <1>2
  <2>2. i # Len(c) => i + 1 \in 1 .. Len(c)
    BY <1>1
  <2> QED BY <1>2, <2>1, <2>2
<1> QED BY <1>3, <1>4, <1>5, <1>6, <1>7, <1>8

\* Track::add_child_before() puts a track back before the one it points at.
LEMMA AddChildBeforeGains ==
  ASSUME TypeOK, NEW p \in Parent, NEW t \in Track, NEW c, NEW S,
         ListOf(c, head[p], last[p], next, S), t \notin S,
         NEW before \in S \cup {None}, next[t] = before,
         AddChildBefore(p, t, before)
  PROVE  /\ OthersKept(p, S \cup {t})
         /\ \E d : ListOf(d, head'[p], last'[p], next', S \cup {t})
<1>1. Reach[p] = S
  BY ChainIsList
<1>2. /\ \A x \in S : (next[x] = None <=> x = last[p]) /\ x # None
      /\ \A y \in S : y # head[p] => \E x \in S : next[x] = y
  BY ListNext
<1>3. CASE before = None
  <2>1. PushBack(p, t) /\ next[t] = None
    BY <1>3 DEF AddChildBefore
  <2> QED BY <2>1, PushBackGains
<1>4. CASE before # None /\ before = head[p]
  <2>1. PushFront(p, t) /\ head[p] # None
    BY <1>4 DEF AddChildBefore
  <2> QED BY <2>1, PushFrontGains
<1>5. CASE before # None /\ before # head[p]
  <2>1. before \in S /\ \E x \in S : next[x] = before
    BY <1>2, <1>5
  <2>2. \E x \in S : next[x] = before /\ InsertAfter(t, x)
    BY <1>1, <1>5, <2>1 DEF AddChildBefore
  <2>3. PICK x \in S : next[x] = before /\ InsertAfter(t, x)
    BY <2>2
  <2>4. x # last[p]
    BY <1>2, <1>5, <2>3
  <2>5. InsertAfter(t, x)
    BY <2>3
  <2> QED BY <2>4, <2>5, InsertGains
<1> QED BY <1>3, <1>4, <1>5

\* Track::remove_child() takes a child out, and leaves its next pointer.
LEMMA RemoveLoses ==
  ASSUME TypeOK, NEW p \in Parent, NEW c, NEW S,
         ListOf(c, head[p], last[p], next, S), NEW t \in S, RemoveChild(p, t)
  PROVE  /\ OthersKept(p, S)
         /\ next'[t] = next[t]
         /\ \E d : ListOf(d, head'[p], last'[p], next', S \ {t})
<1>1. /\ c \in Seq(Track) /\ Len(c) \in Nat \ {0}
      /\ \A i \in 1 .. Len(c) : c[i] \in Track /\ c[i] # None /\ c[i] \in S
      /\ \A i, j \in 1 .. Len(c) : c[i] = c[j] => i = j
      /\ S = {c[i] : i \in 1 .. Len(c)}
      /\ \A i \in 1 .. Len(c) : next[c[i]] = IF i = Len(c) THEN None ELSE c[i + 1]
      /\ head[p] = c[1] /\ last[p] = c[Len(c)]
      /\ 1 \in 1 .. Len(c) /\ Len(c) \in 1 .. Len(c)
  <2>1. /\ c \in Seq(Track) /\ Len(c) \in Nat
        /\ \A i \in 1 .. Len(c) : c[i] \in Track /\ c[i] # None
    BY ListElements
  <2>2. \A i \in 1 .. Len(c) : c[i] \in S
    BY DEF ListOf
  <2>3. Len(c) # 0
    BY <2>1 DEF ListOf
  <2> QED BY <2>1, <2>2, <2>3 DEF ListOf
<1>2. /\ head \in [Parent -> Link] /\ last \in [Parent -> Link] /\ next \in [Track -> Link]
      /\ Track \subseteq Link /\ None \in Link
  BY DEF TypeOK, Link
<1>3. PICK k \in 1 .. Len(c) : t = c[k]
  BY <1>1
<1>6. Reach[p] = S
  BY ChainIsList
<1>4. CASE k = 1
  <2>1. PopFront(p)
    BY <1>1, <1>3, <1>4 DEF RemoveChild
  <2>2. /\ head' = [head EXCEPT ![p] = next[t]] /\ next' = next
        /\ last' = IF last[p] = t THEN [last EXCEPT ![p] = None] ELSE last
    BY <1>1, <1>3, <1>4, <2>1 DEF PopFront
  <2>3. OthersKept(p, S)
    BY <1>1, <1>2, <1>3, <2>2 DEF OthersKept
  <2>4. last[p] = t <=> Len(c) = 1
    BY <1>1, <1>3, <1>4
  <2>5. Leaves(c, k, head[p], last[p], next, head'[p], last'[p], next')
    <3>1. head'[p] = next[c[1]]
      BY <1>2, <1>3, <1>4, <2>2
    <3>2. last'[p] = IF k # Len(c) THEN last[p] ELSE None
      BY <1>2, <1>4, <2>2, <2>4
    <3> QED BY <1>4, <2>2, <3>1, <3>2 DEF Leaves
  <2>6. \E d : ListOf(d, head'[p], last'[p], next', S \ {c[k]})
    BY <2>5, ListLoses
  <2> QED BY <1>3, <2>2, <2>3, <2>6
<1>5. CASE k # 1
  <2>1. /\ k - 1 \in 1 .. Len(c) /\ k - 1 # Len(c) /\ (k - 1) + 1 = k
        /\ t # head[p]
    BY <1>1, <1>3, <1>5
  <2>2. next[c[k - 1]] = t /\ c[k - 1] \in Reach[p]
    BY <1>1, <1>3, <1>6, <2>1
  <2>3. PICK x \in Reach[p] :
          /\ next[x] = t
          /\ next' = [next EXCEPT ![x] = next[t]]
          /\ last' = IF last[p] = t THEN [last EXCEPT ![p] = x] ELSE last
          /\ head' = head
    BY <2>1, <2>2 DEF RemoveChild
  <2>4. x = c[k - 1]
    <3>1. PICK i \in 1 .. Len(c) : x = c[i]
      BY <1>1, <1>6, <2>3
    <3>2. i # Len(c) /\ i + 1 \in 1 .. Len(c) /\ c[i + 1] = c[k]
      BY <1>1, <1>3, <2>3, <3>1
    <3>3. i + 1 = k
      BY <1>1, <3>2
    <3> QED BY <3>1, <3>3
  <2>5. c[k - 1] # t
    BY <1>1, <1>3, <2>1
  <2>6. c[k - 1] \in Track /\ t \in Track /\ c[k - 1] \in S
    BY <1>1, <1>3, <2>1
  <2>7. OthersKept(p, S) /\ next'[t] = next[t]
    BY <1>2, <2>3, <2>4, <2>5, <2>6 DEF OthersKept
  <2>8. last[p] = t <=> k = Len(c)
    BY <1>1, <1>3
  <2>9. Leaves(c, k, head[p], last[p], next, head'[p], last'[p], next')
    <3>1. last'[p] = IF k # Len(c) THEN last[p] ELSE c[k - 1]
      BY <1>2, <2>3, <2>4, <2>8
    <3>2. next'[c[k - 1]] = next[c[k]] /\ head'[p] = head[p]
      BY <1>2, <1>3, <2>3, <2>4, <2>6
    <3>3. \A i \in 1 .. Len(c) : i # k - 1 => next'[c[i]] = next[c[i]]
      BY <1>1, <1>2, <2>1, <2>3, <2>4
    <3> QED BY <1>5, <3>1, <3>2, <3>3 DEF Leaves
  <2>10. \E d : ListOf(d, head'[p], last'[p], next', S \ {c[k]})
    BY <2>9, ListLoses
  <2> QED BY <1>3, <2>7, <2>10
<1> QED BY <1>4, <1>5

\* A list is made by the pointers of its own tracks.
LEMMA ListSame ==
  ASSUME NEW c, NEW h, NEW l, NEW N, NEW S, ListOf(c, h, l, N, S),
         NEW M, \A x \in S : M[x] = N[x]
  PROVE  ListOf(c, h, l, M, S)
<1>1. \A i \in 1 .. Len(c) : c[i] \in S
  BY DEF ListOf
<1> QED BY <1>1 DEF ListOf

-----------------------------------------------------------------------------
(* The lists of a project file.                                            *)

\* The least element of a set of numbers, and the greatest.
LEMMA MinIs ==
  ASSUME NEW S \in SUBSET Nat, NEW x \in S, \A y \in S : x <= y
  PROVE  Min(S) = x
<1>1. Min(S) \in S /\ \A y \in S : Min(S) <= y
  BY DEF Min
<1>2. x \in Nat /\ Min(S) \in Nat /\ x <= Min(S) /\ Min(S) <= x
  BY <1>1
<1> QED BY <1>2

LEMMA MinOf ==
  ASSUME NEW S \in SUBSET Nat, S # {}
  PROVE  Min(S) \in S /\ \A y \in S : Min(S) <= y
BY LeastNat DEF Min

LEMMA MaxIs ==
  ASSUME NEW S \in SUBSET Nat, NEW x \in S, \A y \in S : x >= y
  PROVE  Max(S) = x
<1>1. Max(S) \in S /\ \A y \in S : Max(S) >= y
  BY DEF Max
<1>2. x \in Nat /\ Max(S) \in Nat /\ x >= Max(S) /\ Max(S) >= x
  BY <1>1
<1> QED BY <1>2

LEMMA MaxOf ==
  ASSUME NEW S \in SUBSET Track, S # {}
  PROVE  Max(S) \in S /\ \A y \in S : Max(S) >= y
<1> DEFINE T == {MaxTracks - y : y \in S}
<1>1. \A y \in S : y \in Nat /\ y <= MaxTracks
  BY TracksAre DEF Track
<1>2. T \subseteq Nat /\ T # {}
  <2>1. \A y \in S : MaxTracks - y \in Nat
    BY <1>1, TracksAre
  <2> QED BY <2>1
<1>3. PICK x \in T : \A y \in T : x <= y
  BY <1>2, LeastNat
<1>4. PICK m \in S : x = MaxTracks - m
  BY <1>3
<1>5. \A y \in S : MaxTracks - m <= MaxTracks - y
  BY <1>3, <1>4
<1>6. \A y \in S : m >= y
  BY <1>1, <1>5, TracksAre
<1> HIDE DEF T
<1> QED BY <1>6 DEF Max

\* The next one up, in a set of tracks.
Succ(S) == [t \in Track |-> IF \A s \in S : s <= t THEN None
                                                  ELSE Min({s \in S : s > t})]
\* The ends of a list of tracks in order.
MinOrNone(S) == IF S = {} THEN None ELSE Min(S)
MaxOrNone(S) == IF S = {} THEN None ELSE Max(S)

\* A track after all others joins at the end.
LEMMA SortedGains ==
  ASSUME NEW S \in SUBSET Track, NEW t \in Track, \A s \in S : s < t,
         NEW c, ListOf(c, MinOrNone(S), MaxOrNone(S), Succ(S), S)
  PROVE  \E d : ListOf(d, MinOrNone(S \cup {t}), MaxOrNone(S \cup {t}),
                       Succ(S \cup {t}), S \cup {t})
<1>1. /\ c \in Seq(Track) /\ Len(c) \in Nat /\ t \in Nat /\ t # None
      /\ \A i \in 1 .. Len(c) : c[i] \in Track /\ c[i] # None /\ c[i] \in S
      /\ \A i, j \in 1 .. Len(c) : c[i] = c[j] => i = j
      /\ Len(c) = 0 <=> S = {}
      /\ MaxOrNone(S) = IF Len(c) = 0 THEN None ELSE c[Len(c)]
  <2>1. /\ c \in Seq(Track) /\ Len(c) \in Nat
        /\ \A i \in 1 .. Len(c) : c[i] \in Track /\ c[i] # None
    BY ListElements
  <2>2. \A i \in 1 .. Len(c) : c[i] \in S
    BY DEF ListOf
  <2>3. Len(c) = 0 <=> S = {}
    <3>1. S = {c[i] : i \in 1 .. Len(c)}
      BY DEF ListOf
    <3>2. Len(c) # 0 => 1 \in 1 .. Len(c)
      BY <2>1
    <3>3. Len(c) = 0 => 1 .. Len(c) = {}
      BY <2>1
    <3> QED BY <3>1, <3>2, <3>3
  <2> QED BY <2>1, <2>2, <2>3, TracksAre DEF ListOf
<1>2. /\ S \subseteq Nat /\ S \in SUBSET Nat /\ S \cup {t} \in SUBSET Nat
      /\ \A s \in S : s \in Nat /\ s < t /\ s <= t /\ s # t
  BY TracksAre
<1>3. Max(S \cup {t}) = t
  BY <1>1, <1>2, MaxIs
<1>4. S # {} => Min(S \cup {t}) = Min(S)
  <2> SUFFICES ASSUME S # {} PROVE Min(S \cup {t}) = Min(S)
    OBVIOUS
  <2>1. Min(S) \in S /\ \A y \in S : Min(S) <= y
    BY <1>2, MinOf
  <2>2. \A y \in S \cup {t} : Min(S) <= y
    <3>1. Min(S) <= t
      BY <1>2, <2>1
    <3> QED BY <2>1, <3>1
  <2>3. Min(S) \in S \cup {t}
    BY <2>1
  <2> HIDE <2>1
  <2> QED BY <1>2, <2>2, <2>3, MinIs
<1>5. S = {} => Min(S \cup {t}) = t
  <2> SUFFICES ASSUME S = {} PROVE Min(S \cup {t}) = t
    OBVIOUS
  <2>1. \A y \in S \cup {t} : t <= y
    BY <1>1
  <2> QED BY <1>2, <2>1, MinIs
<1>6. Succ(S \cup {t})[t] = None
  <2>1. \A s \in S \cup {t} : s <= t
    BY <1>1, <1>2
  <2> QED BY <2>1 DEF Succ
<1>7. ASSUME NEW x \in S, \A s \in S : s <= x PROVE Succ(S \cup {t})[x] = t
  <2>1. {s \in S \cup {t} : s > x} = {t}
    <3>1. x \in Nat /\ t > x
      BY <1>1, <1>2
    <3>2. \A s \in S : ~(s > x)
      BY <1>2, <1>7, <3>1
    <3> QED BY <3>1, <3>2
  <2>2. Min({t}) = t
    BY <1>1, MinIs
  <2>3. ~ \A s \in S \cup {t} : s <= x
    BY <1>1, <1>2
  <2> QED BY <2>1, <2>2, <2>3 DEF Succ
<1>8. ASSUME NEW x \in S, ~ \A s \in S : s <= x
      PROVE  Succ(S \cup {t})[x] = Succ(S)[x]
  <2> DEFINE A == {s \in S : s > x}
             B == {s \in S \cup {t} : s > x}
  <2>1. A # {} /\ A \in SUBSET Nat /\ B \in SUBSET Nat /\ B = A \cup {t}
    <3>1. x \in Nat /\ t > x
      BY <1>1, <1>2
    <3>2. \E s \in S : s > x
      BY <1>2, <1>8, <3>1
    <3>3. A # {}
      BY <3>2
    <3>4. A \subseteq Nat /\ B \subseteq Nat
      BY <1>1, <1>2
    <3>5. B = A \cup {t}
      BY <3>1
    <3> QED BY <3>3, <3>4, <3>5
  <2> HIDE DEF A, B
  <2>2. Min(A) \in A /\ \A y \in A : Min(A) <= y
    BY <2>1, MinOf
  <2>3. Min(A) \in B /\ Min(A) <= t
    BY <1>1, <1>2, <2>1, <2>2 DEF A
  <2>4. \A y \in B : Min(A) <= y
    BY <2>1, <2>2, <2>3
  <2>5. Min(B) = Min(A)
    BY <2>1, <2>3, <2>4, MinIs
  <2>6. ~ \A s \in S \cup {t} : s <= x
    BY <1>8
  <2> QED BY <1>8, <2>5, <2>6 DEF Succ, A, B
<1>9. Joins(c, Len(c), t, MinOrNone(S), MaxOrNone(S), Succ(S),
            MinOrNone(S \cup {t}), MaxOrNone(S \cup {t}), Succ(S \cup {t}))
  <2>1. MinOrNone(S \cup {t}) = IF Len(c) = 0 THEN t ELSE MinOrNone(S)
    BY <1>1, <1>4, <1>5 DEF MinOrNone
  <2>2. MaxOrNone(S \cup {t}) = t
    BY <1>3 DEF MaxOrNone
  <2>3. Len(c) # 0 => Succ(S \cup {t})[c[Len(c)]] = t
    <3> SUFFICES ASSUME Len(c) # 0 PROVE Succ(S \cup {t})[c[Len(c)]] = t
      OBVIOUS
    <3>1. c[Len(c)] = Max(S) /\ S # {}
      BY <1>1 DEF MaxOrNone
    <3>2. Max(S) \in S /\ \A s \in S : Max(S) >= s
      BY <3>1, MaxOf
    <3>3. \A s \in S : s <= Max(S)
      BY <1>2, <3>2
    <3> QED BY <1>7, <3>1, <3>2, <3>3
  <2>4. ASSUME NEW i \in 1 .. Len(c), i # Len(c)
        PROVE  Succ(S \cup {t})[c[i]] = Succ(S)[c[i]]
    <3>1. Succ(S)[c[i]] = c[i + 1] /\ c[i + 1] # None /\ c[i] \in S
      <4>1. Succ(S)[c[i]] = c[i + 1]
        BY <2>4 DEF ListOf
      <4>2. i \in 1 .. Len(c) /\ i + 1 \in 1 .. Len(c)
        BY <1>1, <2>4
      <4> QED BY <1>1, <4>1, <4>2
    <3>2. ~ \A s \in S : s <= c[i]
      BY <3>1 DEF Succ
    <3> QED BY <1>8, <3>1, <3>2
  <2> QED BY <1>6, <2>1, <2>2, <2>3, <2>4 DEF Joins
<1>10. t \notin S /\ Len(c) \in 0 .. Len(c)
  BY <1>1, <1>2
<1> QED BY <1>9, <1>10, ListGains

\* Tracks in the order of their numbers make a list.
LEMMA SortedList ==
  ASSUME NEW S \in SUBSET Track
  PROVE  \E c : ListOf(c, MinOrNone(S), MaxOrNone(S), Succ(S), S)
<1> DEFINE Made(R) == \E c : ListOf(c, MinOrNone(R), MaxOrNone(R), Succ(R), R)
           T == {n \in Nat : \A R \in SUBSET Track : R \subseteq 1 .. n => Made(R)}
<1>1. 0 \in T
  <2> SUFFICES Made({})
    BY DEF T
  <2>1. << >> \in Seq(Track) /\ Len(<< >>) = 0
    OBVIOUS
  <2>2. ListOf(<< >>, MinOrNone({}), MaxOrNone({}), Succ({}), {})
    BY <2>1 DEF ListOf, MinOrNone, MaxOrNone
  <2> QED BY <2>2
<1>2. ASSUME NEW n \in Nat, n \in T PROVE n + 1 \in T
  <2> SUFFICES ASSUME NEW R \in SUBSET Track, R \subseteq 1 .. n + 1 PROVE Made(R)
    OBVIOUS
  <2>1. CASE n + 1 \notin R
    <3>1. R \subseteq 1 .. n
      BY <2>1
    <3> QED BY <1>2, <3>1
  <2>2. CASE n + 1 \in R
    <3> DEFINE Q == R \ {n + 1}
    <3>1. /\ Q \in SUBSET Track /\ Q \subseteq 1 .. n /\ R = Q \cup {n + 1}
          /\ n + 1 \in Track /\ \A s \in Q : s < n + 1
      BY <2>2
    <3>2. Made(Q)
      BY <1>2, <3>1
    <3> HIDE DEF Q
    <3>3. PICK c : ListOf(c, MinOrNone(Q), MaxOrNone(Q), Succ(Q), Q)
      BY <3>2
    <3>4. \E d : ListOf(d, MinOrNone(Q \cup {n + 1}), MaxOrNone(Q \cup {n + 1}),
                        Succ(Q \cup {n + 1}), Q \cup {n + 1})
      BY <3>1, <3>3, SortedGains
    <3> QED BY <3>1, <3>4
  <2> QED BY <2>1, <2>2
<1>3. MaxTracks \in Nat /\ S \subseteq 1 .. MaxTracks
  BY TracksAre DEF Track
<1> HIDE DEF T
<1>4. MaxTracks \in T
  BY <1>1, <1>2, <1>3, AllNat
<1> QED BY <1>3, <1>4 DEF T

-----------------------------------------------------------------------------
(* Types, and the maps of tracks.                                          *)

\* Append, Head and Tail, by index.
LEMMA SequenceSteps ==
  ASSUME NEW R, NEW s \in Seq(R)
  PROVE  /\ DOMAIN s = 1 .. Len(s) /\ Len(s) \in Nat
         /\ \A e \in R : /\ Append(s, e) \in Seq(R)
                         /\ DOMAIN Append(s, e) = 1 .. Len(s) + 1
                         /\ Len(Append(s, e)) = Len(s) + 1
                         /\ Append(s, e)[Len(s) + 1] = e
                         /\ \A i \in 1 .. Len(s) : Append(s, e)[i] = s[i]
         /\ s # << >> => /\ Head(s) \in R /\ Head(s) = s[1] /\ 1 \in DOMAIN s
                         /\ Tail(s) \in Seq(R)
                         /\ Len(Tail(s)) = Len(s) - 1 /\ Len(s) >= 1
                         /\ DOMAIN Tail(s) = 1 .. Len(s) - 1
                         /\ \A i \in 1 .. Len(s) - 1 :
                              Tail(s)[i] = s[i + 1] /\ i + 1 \in 1 .. Len(s)
OBVIOUS

\* Front and Last, by index.
LEMMA FrontAndLast ==
  ASSUME NEW R, NEW s \in Seq(R), s # << >>
  PROVE  /\ Len(s) \in DOMAIN s /\ Len(s) \in Nat /\ DOMAIN s = 1 .. Len(s)
         /\ Last(s) \in R /\ Last(s) = s[Len(s)]
         /\ Front(s) \in Seq(R) /\ Len(Front(s)) = Len(s) - 1
         /\ DOMAIN Front(s) = 1 .. Len(s) - 1
         /\ \A i \in 1 .. Len(s) - 1 : Front(s)[i] = s[i] /\ i \in DOMAIN s
<1>1. Len(s) \in Nat /\ Len(s) >= 1 /\ DOMAIN s = 1 .. Len(s)
  OBVIOUS
<1>2. Last(s) = s[Len(s)] /\ Last(s) \in R
  BY <1>1 DEF Last
<1>3. Front(s) = [i \in 1 .. Len(s) - 1 |-> s[i]]
  BY <1>1 DEF Front
<1>4. Front(s) \in Seq(R) /\ Len(Front(s)) = Len(s) - 1
  BY <1>1, <1>3
<1> QED BY <1>1, <1>2, <1>3, <1>4

\* Where h and then N lead in up to n steps.
Path(h, N, k, x) == \E f \in [0 .. k -> Track] :
                      /\ f[0] = h /\ f[k] = x
                      /\ \A i \in 1 .. k : f[i] = N[f[i - 1]]
Ball(h, N, n) == {x \in Track : \E k \in 0 .. n : Path(h, N, k, x)}

\* What is met in n + 1 steps is what is met in n, and what that points at.
LEMMA BallGrows ==
  ASSUME NEW h \in Link, NEW N \in [Track -> Link], NEW n \in Nat
  PROVE  /\ Ball(h, N, 0) = {h} \ {None}
         /\ Ball(h, N, n + 1) = Ball(h, N, n) \cup ({N[t] : t \in Ball(h, N, n)} \ {None})
<1>1. Ball(h, N, 0) = {h} \ {None}
  <2>1. ASSUME NEW x \in Ball(h, N, 0) PROVE x = h /\ x # None
    BY TracksAre DEF Ball, Path
  <2>2. ASSUME h # None PROVE h \in Ball(h, N, 0)
    <3>1. h \in Track
      BY <2>2 DEF Link
    <3> DEFINE f == [i \in 0 .. 0 |-> h]
    <3>2. f \in [0 .. 0 -> Track] /\ f[0] = h /\ \A i \in 1 .. 0 : f[i] = N[f[i - 1]]
      BY <3>1
    <3>3. Path(h, N, 0, h)
      BY <3>2 DEF Path
    <3> QED BY <3>1, <3>3 DEF Ball
  <2> QED BY <2>1, <2>2
<1>2. Ball(h, N, n) \subseteq Ball(h, N, n + 1)
  BY DEF Ball
<1>3. ASSUME NEW t \in Ball(h, N, n), N[t] # None PROVE N[t] \in Ball(h, N, n + 1)
  <2>1. PICK k \in 0 .. n : Path(h, N, k, t)
    BY DEF Ball
  <2>2. PICK f \in [0 .. k -> Track] : /\ f[0] = h /\ f[k] = t
                                       /\ \A i \in 1 .. k : f[i] = N[f[i - 1]]
    BY <2>1 DEF Path
  <2>3. N[t] \in Track /\ k \in Nat /\ k + 1 \in 0 .. n + 1
    BY <1>3 DEF Ball, Link
  <2> DEFINE g == [i \in 0 .. k + 1 |-> IF i = k + 1 THEN N[t] ELSE f[i]]
  <2>4. g \in [0 .. k + 1 -> Track]
    BY <2>3
  <2>5. g[k + 1] = N[t] /\ \A i \in 0 .. k : g[i] = f[i]
    BY <2>3
  <2> HIDE DEF g
  <2>6. ASSUME NEW i \in 1 .. k + 1 PROVE g[i] = N[g[i - 1]]
    <3>1. CASE i = k + 1
      BY <2>2, <2>3, <2>5, <3>1
    <3>2. CASE i # k + 1
      <4>1. i \in 1 .. k /\ i \in 0 .. k /\ i - 1 \in 0 .. k
        BY <2>3, <3>2
      <4> QED BY <2>2, <2>5, <4>1
    <3> QED BY <3>1, <3>2
  <2>7. g[0] = h
    BY <2>2, <2>3, <2>5
  <2>8. Path(h, N, k + 1, N[t])
    BY <2>4, <2>5, <2>6, <2>7 DEF Path
  <2> QED BY <2>3, <2>8 DEF Ball
<1>4. ASSUME NEW x \in Ball(h, N, n + 1), x \notin Ball(h, N, n)
      PROVE  \E t \in Ball(h, N, n) : x = N[t]
  <2>1. Path(h, N, n + 1, x) /\ x \in Track
    <3>1. PICK k \in 0 .. n + 1 : Path(h, N, k, x)
      BY DEF Ball
    <3>2. x \in Track /\ k \notin 0 .. n
      BY <1>4, <3>1 DEF Ball
    <3>3. k = n + 1
      BY <3>2
    <3> QED BY <3>1, <3>2, <3>3
  <2>2. PICK f \in [0 .. n + 1 -> Track] :
          /\ f[0] = h /\ f[n + 1] = x
          /\ \A i \in 1 .. n + 1 : f[i] = N[f[i - 1]]
    BY <2>1 DEF Path
  <2> DEFINE g == [i \in 0 .. n |-> f[i]]
  <2>3. g \in [0 .. n -> Track] /\ \A i \in 0 .. n : g[i] = f[i]
    OBVIOUS
  <2> HIDE DEF g
  <2>4. ASSUME NEW i \in 1 .. n PROVE g[i] = N[g[i - 1]]
    <3>1. i \in 0 .. n /\ i - 1 \in 0 .. n /\ i \in 1 .. n + 1
      OBVIOUS
    <3> QED BY <2>2, <2>3, <3>1
  <2>5. g[0] = h /\ g[n] = f[n] /\ f[n] \in Track
    BY <2>2, <2>3
  <2>6. Path(h, N, n, f[n])
    BY <2>3, <2>4, <2>5 DEF Path
  <2>7. f[n] \in Ball(h, N, n)
    BY <2>5, <2>6 DEF Ball
  <2>8. x = N[f[n]]
    <3>1. n + 1 \in 1 .. n + 1 /\ (n + 1) - 1 = n
      OBVIOUS
    <3> QED BY <2>2, <3>1
  <2> QED BY <2>7, <2>8
<1>5. None \notin Ball(h, N, n + 1)
  BY TracksAre DEF Ball
<1> QED BY <1>1, <1>2, <1>3, <1>4, <1>5

\* Whatever the pointers are, a loop over a list meets tracks.
LEMMA ReachIsTracks ==
  ASSUME TypeOK, NEW p \in Parent
  PROVE  Reach[p] \subseteq Track
<1> DEFINE M == CHOOSE m : m = Met(head[p], next, m)
           B == [n \in Nat |-> Ball(head[p], next, n)]
<1>1. Reach[p] = M[MaxTracks]
  BY Zenon DEF Reach, Met
<1>2. head[p] \in Link /\ next \in [Track -> Link]
  BY DEF TypeOK
<1>3. \E m : m = Met(head[p], next, m)
  <2> HIDE DEF M
  <2>1. ASSUME NEW n \in Nat PROVE B[n] = Met(head[p], next, B)[n]
    <3>1. CASE n = 0
      BY <1>2, <3>1, BallGrows DEF Met
    <3>2. CASE n # 0
      <4>1. n - 1 \in Nat /\ (n - 1) + 1 = n
        BY <3>2
      <4>2. B[n] = Ball(head[p], next, n) /\ B[n - 1] = Ball(head[p], next, n - 1)
        BY <4>1
      <4> HIDE DEF B
      <4>3. Ball(head[p], next, (n - 1) + 1) =
              Ball(head[p], next, n - 1) \cup
                ({next[t] : t \in Ball(head[p], next, n - 1)} \ {None})
        BY <1>2, <4>1, BallGrows
      <4>4. Met(head[p], next, B)[n] = B[n - 1] \cup ({next[t] : t \in B[n - 1]} \ {None})
        BY <3>2 DEF Met
      <4> QED BY <4>1, <4>2, <4>3, <4>4, Zenon
    <3> QED BY <3>1, <3>2
  <2>2. B = Met(head[p], next, B)
    BY <2>1 DEF Met
  <2> HIDE DEF B
  <2> QED BY <2>2
<1>4. M = Met(head[p], next, M)
  BY <1>3, Zenon
<1> HIDE DEF M, B
<1> DEFINE T == {n \in Nat : M[n] \subseteq Track}
<1>5. 0 \in T
  BY <1>2, <1>4 DEF Met, Link
<1>6. ASSUME NEW n \in Nat, n \in T PROVE n + 1 \in T
  <2>1. M[n] \subseteq Track /\ n + 1 \in Nat /\ n + 1 # 0 /\ (n + 1) - 1 = n
    BY <1>6
  <2>2. Met(head[p], next, M)[n + 1] =
          M[(n + 1) - 1] \cup ({next[t] : t \in M[(n + 1) - 1]} \ {None})
    BY <2>1 DEF Met
  <2>3. M[n + 1] = M[n] \cup ({next[t] : t \in M[n]} \ {None})
    BY <1>4, <2>1, <2>2, Zenon
  <2> QED BY <1>2, <2>1, <2>3 DEF Link
<1> HIDE DEF T
<1>7. MaxTracks \in T
  BY <1>5, <1>6, TracksAre, AllNat
<1> QED BY <1>1, <1>7 DEF T

\* The types of the pointers.
ListTypes == /\ head \in [Parent -> Link] /\ last \in [Parent -> Link]
             /\ next \in [Track -> Link]

\* The operations keep the types of the pointers, whatever these are.
LEMMA PushTypes ==
  ASSUME TypeOK, NEW p \in Parent, NEW t \in Track,
         \/ PushBack(p, t)
         \/ PushFront(p, t)
         \/ \E x \in Track : InsertAfter(t, x)
  PROVE  ListTypes'
<1>1. /\ head \in [Parent -> Link] /\ last \in [Parent -> Link]
      /\ next \in [Track -> Link] /\ t \in Link
  BY DEF TypeOK, Link
<1>2. CASE PushBack(p, t)
  BY <1>1, <1>2 DEF PushBack, ListTypes
<1>3. CASE PushFront(p, t)
  BY <1>1, <1>3 DEF PushFront, ListTypes
<1>4. CASE \E x \in Track : InsertAfter(t, x)
  <2>1. PICK x \in Track : InsertAfter(t, x)
    BY <1>4
  <2>2. next' = [next EXCEPT ![t] = next[x], ![x] = t] /\ head' = head /\ last' = last
    BY <2>1 DEF InsertAfter
  <2>3. next[x] \in Link
    BY <1>1
  <2> QED BY <1>1, <2>2, <2>3 DEF ListTypes
<1> QED BY <1>2, <1>3, <1>4

LEMMA AddTypes ==
  ASSUME TypeOK, NEW p \in Parent, NEW t \in Track, NEW x \in Link,
         AddChild(p, t, x) \/ AddChildBefore(p, t, x)
  PROVE  ListTypes'
<1>1. Reach[p] \subseteq Track
  BY ReachIsTracks
<1>2. \/ PushBack(p, t)
      \/ PushFront(p, t)
      \/ \E y \in Track : InsertAfter(t, y)
  <2>1. CASE AddChild(p, t, x)
    BY <2>1 DEF AddChild, Link
  <2>2. CASE AddChildBefore(p, t, x)
    BY <1>1, <2>2 DEF AddChildBefore
  <2> QED BY <2>1, <2>2
<1> QED BY <1>2, PushTypes

LEMMA RemoveTypes ==
  ASSUME TypeOK, NEW p \in Parent, NEW t \in Track, RemoveChild(p, t)
  PROVE  ListTypes'
<1>1. /\ head \in [Parent -> Link] /\ last \in [Parent -> Link]
      /\ next \in [Track -> Link] /\ None \in Link
  BY DEF TypeOK, Link
<1>2. CASE t = head[p]
  <2>1. /\ head' = [head EXCEPT ![p] = next[t]] /\ next' = next
        /\ last' = IF last[p] = head[p] THEN [last EXCEPT ![p] = None] ELSE last
    BY <1>2 DEF RemoveChild, PopFront
  <2> QED BY <1>1, <2>1 DEF ListTypes
<1>3. CASE t # head[p] /\ \E x \in Reach[p] : next[x] = t
  <2>1. PICK x \in Reach[p] :
          /\ next' = [next EXCEPT ![x] = next[t]]
          /\ last' = IF last[p] = t THEN [last EXCEPT ![p] = x] ELSE last
          /\ head' = head
    BY <1>3 DEF RemoveChild
  <2>2. x \in Track /\ x \in Link /\ next[t] \in Link
    BY <1>1, ReachIsTracks DEF Link
  <2> QED BY <1>1, <2>1, <2>2 DEF ListTypes
<1>4. CASE t # head[p] /\ ~ \E x \in Reach[p] : next[x] = t
  <2>1. head' = head /\ last' = last /\ next' = next
    BY <1>4 DEF RemoveChild, listVars
  <2> QED BY <1>1, <2>1 DEF ListTypes
<1> QED BY <1>2, <1>3, <1>4

\* What the fields of a request are.
LEMMA RequestFields ==
  ASSUME NEW r \in Request
  PROVE  /\ r.track \in Track /\ r.parent \in Parent
         /\ r.type \in {"new", "restore", "delete"}
         /\ r.type # "delete" => r.near \in Link
BY DEF Request

\* The request that the engine is at.
LEMMA AtHand ==
  ASSUME Ids, NEW type, Arrived(type)
  PROVE  /\ Head(to) \in Request /\ Head(to) = to[1] /\ 1 \in DOMAIN to
         /\ Head(to).type = type /\ type \in {"new", "restore", "delete"}
         /\ Head(to).track \in Track /\ Head(to).parent \in Parent
         /\ type # "delete" => Head(to).near \in Link
         /\ Head(to).track \in 1 .. made
<1>1. to \in Seq(Request) /\ to # << >> /\ Head(to).type = type
  BY DEF Ids, Types, Arrived
<1>2. Head(to) \in Request /\ Head(to) = to[1] /\ 1 \in DOMAIN to
  BY <1>1, SequenceSteps
<1>3. Head(to).track \in 1 .. made
  BY <1>2 DEF Ids
<1> QED BY <1>1, <1>2, <1>3, RequestFields

\* What the engine does to the requests, whatever else it does.
LEMMA Served ==
  ASSUME Ids, NEW type, InEngine(type)
  PROVE  /\ Head(to) \in Request /\ Head(to) = to[1] /\ 1 \in DOMAIN to
         /\ Head(to).type = type
         /\ Head(to).track \in Track /\ Head(to).parent \in Parent
         /\ type # "delete" => Head(to).near \in Link
         /\ to' \in Seq(Request) /\ from' \in Seq(Request)
         /\ \A i \in DOMAIN to' : to'[i].track \in 1 .. made
         /\ Head(to).track \in 1 .. made
         /\ parent' = parent /\ made' = made /\ deletes' = deletes /\ undo' = undo
         /\ Len(to') = Len(to) - 1 /\ Len(from') = Len(from) + 1
<1>1. to \in Seq(Request) /\ from \in Seq(Request) /\ to # << >>
  BY DEF Ids, Types, InEngine, Arrived
<1>2. /\ Head(to) \in Request /\ Head(to) = to[1] /\ 1 \in DOMAIN to
      /\ Tail(to) \in Seq(Request) /\ Len(Tail(to)) = Len(to) - 1
      /\ DOMAIN Tail(to) = 1 .. Len(to) - 1 /\ DOMAIN to = 1 .. Len(to)
      /\ \A i \in 1 .. Len(to) - 1 : Tail(to)[i] = to[i + 1] /\ i + 1 \in 1 .. Len(to)
  BY <1>1, SequenceSteps
<1>3. Append(from, Head(to)) \in Seq(Request) /\ Len(Append(from, Head(to))) = Len(from) + 1
  BY <1>1, <1>2
<1>4. to' = Tail(to) /\ from' = Append(from, Head(to)) /\ Head(to).type = type
  BY DEF InEngine, Arrived
<1>5. \A i \in DOMAIN Tail(to) : Tail(to)[i].track \in 1 .. made
  BY <1>2 DEF Ids
<1>6. Head(to).track \in 1 .. made
  BY <1>2 DEF Ids
<1>7. parent' = parent /\ made' = made /\ deletes' = deletes /\ undo' = undo
  BY DEF InEngine
<1>8. /\ Head(to).track \in Track /\ Head(to).parent \in Parent
      /\ type # "delete" => Head(to).near \in Link
  BY <1>2, <1>4, RequestFields
<1> QED BY <1>2, <1>3, <1>4, <1>5, <1>6, <1>7, <1>8

\* One request more, on its way to the engine.
LEMMA Asked ==
  ASSUME Ids, NEW r \in Request, r.track \in 1 .. made', made' \in 0 .. MaxTracks,
         made <= made', to' = Append(to, r), between' = between,
         live' \subseteq live \cup (made + 1 .. made'), gone' = gone
  PROVE  /\ to' \in Seq(Request) /\ \A i \in DOMAIN to' : to'[i].track \in 1 .. made'
         /\ BetweenInHand'
<1>1. to \in Seq(Request) /\ made \in Nat
  BY TracksAre DEF Ids, Types, TypeOK
<1>2. /\ to' \in Seq(Request) /\ DOMAIN to' = 1 .. Len(to) + 1
      /\ DOMAIN to = 1 .. Len(to) /\ Len(to) \in Nat
      /\ to'[Len(to) + 1] = r /\ \A i \in 1 .. Len(to) : to'[i] = to[i]
  BY <1>1, SequenceSteps
<1>3. ASSUME NEW i \in DOMAIN to' PROVE to'[i].track \in 1 .. made'
  <2>1. CASE i = Len(to) + 1
    BY <1>2, <2>1
  <2>2. CASE i # Len(to) + 1
    <3>1. i \in DOMAIN to /\ to'[i] = to[i]
      BY <1>2, <2>2
    <3>2. to[i].track \in 1 .. made
      BY <3>1 DEF Ids
    <3> QED BY <1>1, <3>1, <3>2, TracksAre
  <2> QED BY <2>1, <2>2
<1>4. ASSUME between # None PROVE BetweenInHand'
  <2>1. to # << >> /\ between = Head(to).track /\ Head(to) = to[1] /\ 1 \in DOMAIN to
    BY <1>1, <1>4, SequenceSteps DEF Ids, BetweenInHand
  <2>2. to' # << >> /\ Head(to') = to'[1] /\ to'[1] = to[1]
    BY <1>2, <2>1, SequenceSteps
  <2>3. between \in 1 .. made
    BY <2>1 DEF Ids
  <2>4. between \notin made + 1 .. made'
    BY <1>1, <2>3, TracksAre
  <2> QED BY <1>4, <2>1, <2>2, <2>4 DEF Ids, BetweenInHand
<1>5. BetweenInHand'
  BY <1>4 DEF BetweenInHand
<1> QED BY <1>2, <1>3, <1>5

\* The pointers of a project just read are those of its tracks in order.
LEMMA SiblingsSorted ==
  ASSUME Init, NEW p \in Parent
  PROVE  /\ Siblings(p) \in SUBSET Track
         /\ head[p] = MinOrNone(Siblings(p)) /\ last[p] = MaxOrNone(Siblings(p))
         /\ \A t \in Siblings(p) : next[t] = Succ(Siblings(p))[t]
<1>1. Siblings(p) \in SUBSET Track /\ Loaded \in Nat
  BY TracksAre, TrackAssumption DEF Siblings, Track
<1>2. head[p] = MinOrNone(Siblings(p)) /\ last[p] = MaxOrNone(Siblings(p))
  BY DEF Init, MinOrNone, MaxOrNone
<1>3. ASSUME NEW t \in Siblings(p) PROVE next[t] = Succ(Siblings(p))[t]
  <2>1. t \in Track /\ parent[t] = p /\ ~(t > Loaded)
    BY <1>1 DEF Siblings
  <2>2. next[t] = IF t > Loaded \/ \A s \in Siblings(parent[t]) : s <= t
                  THEN None ELSE Min({s \in Siblings(parent[t]) : s > t})
    BY <2>1 DEF Init
  <2> QED BY <2>1, <2>2 DEF Succ
<1> QED BY <1>1, <1>2, <1>3

\* They point at tracks.
LEMMA SortedTypes ==
  ASSUME NEW S \in SUBSET Track
  PROVE  /\ MinOrNone(S) \in Link /\ MaxOrNone(S) \in Link
         /\ \A t \in Track : Succ(S)[t] \in Link
<1>1. \A R \in SUBSET Track : R # {} => Min(R) \in Track
  BY MinOf, TracksAre
<1>2. S # {} => Max(S) \in Track
  BY MaxOf
<1>3. ASSUME NEW t \in Track PROVE Succ(S)[t] \in Link
  <2>1. CASE \A s \in S : s <= t
    BY <2>1 DEF Succ, Link
  <2>2. CASE ~ \A s \in S : s <= t
    <3>1. \E s \in S : s > t
      BY <2>2, TracksAre
    <3>2. {s \in S : s > t} # {} /\ {s \in S : s > t} \in SUBSET Track
      BY <3>1
    <3> QED BY <1>1, <2>2, <3>2 DEF Succ, Link
  <2> QED BY <2>1, <2>2
<1> QED BY <1>1, <1>2, <1>3 DEF MinOrNone, MaxOrNone, Link

\* The maps of a project just read agree.
LEMMA IdsInit == Init => Ids
<1> SUFFICES ASSUME Init PROVE Ids
  OBVIOUS
<1>1. /\ Loaded \in Nat /\ Loaded <= MaxTracks /\ MaxTracks \in Nat /\ MaxDeletes \in Nat
  BY TrackAssumption
<1>2. /\ made = Loaded /\ live = 1 .. Loaded /\ gone = {} /\ between = None
      /\ to = << >> /\ from = << >> /\ deletes = 0 /\ undo = << >>
      /\ parent \in [Track -> Parent]
  BY DEF Init
<1>3. head \in [Parent -> Link] /\ last \in [Parent -> Link]
  <2>1. DOMAIN head = Parent /\ DOMAIN last = Parent
    BY DEF Init
  <2>2. \A p \in Parent : head[p] \in Link /\ last[p] \in Link
    BY SiblingsSorted, SortedTypes
  <2>3. head = [p \in Parent |-> head[p]] /\ last = [p \in Parent |-> last[p]]
    BY DEF Init
  <2> QED BY <2>2, <2>3
<1>4. next \in [Track -> Link]
  <2>1. ASSUME NEW t \in Track PROVE next[t] \in Link
    <3>1. CASE t > Loaded
      BY <3>1 DEF Init, Link
    <3>2. CASE ~(t > Loaded)
      <4>1. parent[t] \in Parent /\ t \in Siblings(parent[t])
        BY <1>1, <1>2, <3>2 DEF Siblings, Track
      <4> QED BY <4>1, SiblingsSorted, SortedTypes
    <3> QED BY <3>1, <3>2
  <2>2. next = [t \in Track |-> next[t]]
    BY DEF Init
  <2> QED BY <2>1, <2>2
<1>5. TypeOK
  BY <1>1, <1>2, <1>3, <1>4 DEF TypeOK, Track, Link
<1>6. Types
  BY <1>2, <1>5 DEF Types
<1>7. IdsAgree /\ BetweenInHand
  BY <1>2 DEF IdsAgree, Between, BetweenInHand
<1> QED BY <1>2, <1>6, <1>7 DEF Ids

\* A step of any client, or of the engine.
LEMMA IdsStep == Ids /\ [Next \/ ApiNext]_vars => Ids'
<1> SUFFICES ASSUME Ids, [Next \/ ApiNext]_vars PROVE Ids'
  OBVIOUS
<1>1. /\ TypeOK /\ to \in Seq(Request) /\ from \in Seq(Request)
      /\ undo \in Seq([track : Track, before : Link])
      /\ \A i \in DOMAIN to : to[i].track \in 1 .. made
      /\ live \cap gone = {} /\ live \cup gone \cup Between = 1 .. made
      /\ BetweenInHand /\ between \in Link
  BY DEF Ids, Types, IdsAgree, TypeOK
<1>2. /\ head \in [Parent -> Link] /\ last \in [Parent -> Link]
      /\ next \in [Track -> Link] /\ parent \in [Track -> Parent]
      /\ live \subseteq Track /\ gone \subseteq Track /\ made \in 0 .. MaxTracks
      /\ deletes \in 0 .. MaxDeletes /\ made \in Nat /\ made <= MaxTracks
      /\ MaxTracks \in Nat /\ MaxDeletes \in Nat
  BY <1>1, TracksAre, TrackAssumption DEF TypeOK
<1>3. Track \subseteq Link /\ None \in Link
  BY DEF Link
<1>4. ASSUME NEW x \in Link, New(x) PROVE Ids'
  <2> DEFINE t == made + 1
             p == IF x = None THEN Master ELSE parent[x]
             r == NewProcess(t, p, x)
  <2>1. /\ made' = t /\ parent' = [parent EXCEPT ![t] = p] /\ live' = live \cup {t}
        /\ to' = Append(to, r) /\ made < MaxTracks
        /\ head' = head /\ last' = last /\ next' = next /\ gone' = gone
        /\ between' = between /\ from' = from /\ deletes' = deletes /\ undo' = undo
    BY <1>4 DEF New, listVars
  <2>2. t \in Track /\ p \in Parent /\ t \in 1 .. made' /\ made' \in 0 .. MaxTracks
        /\ made <= made'
    BY <1>2, <2>1 DEF Link, Parent, Track
  <2>3. r \in Request /\ r.track = t
    BY <2>2 DEF NewProcess, Request
  <2> HIDE DEF r
  <2>7. live' \subseteq live \cup (made + 1 .. made')
    BY <1>2, <2>1
  <2>4. /\ to' \in Seq(Request) /\ \A i \in DOMAIN to' : to'[i].track \in 1 .. made'
        /\ BetweenInHand'
    BY <2>1, <2>2, <2>3, <2>7, Asked
  <2> HIDE DEF p
  <2>5. TypeOK'
    BY <1>1, <1>2, <2>1, <2>2 DEF TypeOK
  <2>6. IdsAgree'
    <3>1. t \notin gone /\ 1 .. made' = (1 .. made) \cup {t}
      BY <1>1, <1>2, <2>1
    <3> QED BY <1>1, <2>1, <3>1 DEF IdsAgree, Between
  <2> QED BY <1>1, <2>1, <2>4, <2>5, <2>6 DEF Ids, Types
<1>5. ASSUME NEW t \in Track, Delete(t) PROVE Ids'
  <2> DEFINE r == DeleteProcess(t, parent[t])
             u == [track |-> t, before |-> ChildAfter(t)]
  <2>1. /\ deletes < MaxDeletes /\ t \in live /\ deletes' = deletes + 1
        /\ undo' = Append(undo, u) /\ to' = Append(to, r)
        /\ head' = head /\ last' = last /\ next' = next /\ parent' = parent
        /\ live' = live /\ gone' = gone /\ between' = between
        /\ made' = made /\ from' = from
    BY <1>5 DEF Delete, listVars, mapVars
  <2>2. r \in Request /\ r.track = t /\ t \in 1 .. made
    BY <1>1, <1>2, <2>1 DEF DeleteProcess, Request
  <2>3. u \in [track : Track, before : Link]
    BY <1>2 DEF ChildAfter
  <2> HIDE DEF r, u
  <2>4. /\ to' \in Seq(Request) /\ \A i \in DOMAIN to' : to'[i].track \in 1 .. made'
        /\ BetweenInHand'
    BY <1>2, <2>1, <2>2, Asked
  <2>5. undo' \in Seq([track : Track, before : Link])
    BY <1>1, <2>1, <2>3, SequenceSteps
  <2>6. TypeOK'
    BY <1>1, <1>2, <2>1 DEF TypeOK
  <2> QED BY <1>1, <2>1, <2>4, <2>5, <2>6 DEF Ids, Types, IdsAgree, Between
<1>6. ASSUME RestoreLast PROVE Ids'
  <2> DEFINE d == Last(undo)
             r == RestoreProcess(d.track, parent[d.track], d.before)
  <2>1. /\ undo # << >> /\ d.track \in gone /\ to' = Append(to, r) /\ undo' = Front(undo)
        /\ head' = head /\ last' = last /\ next' = next /\ parent' = parent
        /\ live' = live /\ gone' = gone /\ between' = between
        /\ made' = made /\ from' = from /\ deletes' = deletes
    BY <1>6 DEF RestoreLast, listVars, mapVars
  <2>2. d \in [track : Track, before : Link]
    BY <1>1, <2>1, FrontAndLast
  <2>3. undo' \in Seq([track : Track, before : Link])
    BY <1>1, <2>1, FrontAndLast
  <2> HIDE DEF d
  <2>4. r \in Request /\ r.track = d.track /\ d.track \in 1 .. made
    BY <1>1, <1>2, <2>1, <2>2 DEF RestoreProcess, Request
  <2> HIDE DEF r
  <2>5. /\ to' \in Seq(Request) /\ \A i \in DOMAIN to' : to'[i].track \in 1 .. made'
        /\ BetweenInHand'
    BY <1>2, <2>1, <2>4, Asked
  <2>6. TypeOK'
    BY <1>1, <1>2, <2>1 DEF TypeOK
  <2> QED BY <1>1, <2>1, <2>3, <2>5, <2>6 DEF Ids, Types, IdsAgree, Between
<1>7. ASSUME NEW t \in Track, NEW x \in Link, RestoreAny(t, x) PROVE Ids'
  <2> DEFINE r == RestoreProcess(t, parent[t], x)
  <2>1. /\ t \in gone /\ to' = Append(to, r) /\ undo' = undo
        /\ head' = head /\ last' = last /\ next' = next /\ parent' = parent
        /\ live' = live /\ gone' = gone /\ between' = between
        /\ made' = made /\ from' = from /\ deletes' = deletes
    BY <1>7 DEF RestoreAny, listVars, mapVars
  <2>2. r \in Request /\ r.track = t /\ t \in 1 .. made
    BY <1>1, <1>2, <2>1 DEF RestoreProcess, Request
  <2> HIDE DEF r
  <2>3. /\ to' \in Seq(Request) /\ \A i \in DOMAIN to' : to'[i].track \in 1 .. made'
        /\ BetweenInHand'
    BY <1>2, <2>1, <2>2, Asked
  <2>4. TypeOK'
    BY <1>1, <1>2, <2>1 DEF TypeOK
  <2> QED BY <1>1, <2>1, <2>3, <2>4 DEF Ids, Types, IdsAgree, Between
<1>8. CASE Answer
  <2>1. /\ from # << >> /\ from' = Tail(from)
        /\ head' = head /\ last' = last /\ next' = next /\ parent' = parent
        /\ live' = live /\ gone' = gone /\ between' = between /\ made' = made /\ to' = to
        /\ deletes' = deletes /\ undo' = undo
    BY <1>8 DEF Answer, listVars, mapVars
  <2>2. from' \in Seq(Request)
    BY <1>1, <2>1, SequenceSteps
  <2>3. TypeOK'
    BY <1>1, <1>2, <2>1 DEF TypeOK
  <2> QED BY <1>1, <2>1, <2>2, <2>3 DEF Ids, Types, IdsAgree, Between, BetweenInHand
<1>9. CASE NewInEngine
  <2>1. /\ InEngine("new") /\ Arrived("new")
        /\ AddChild(Head(to).parent, Head(to).track, Head(to).near)
        /\ live' = live /\ gone' = gone /\ between' = between
    BY <1>9 DEF NewInEngine, InEngine, mapVars
  <2>2. /\ Head(to).track \in Track /\ Head(to).parent \in Parent /\ Head(to).near \in Link
        /\ to' \in Seq(Request) /\ from' \in Seq(Request)
        /\ \A i \in DOMAIN to' : to'[i].track \in 1 .. made
        /\ parent' = parent /\ made' = made /\ deletes' = deletes /\ undo' = undo
    BY <2>1, Served
  <2>3. ListTypes'
    BY <1>1, <2>1, <2>2, AddTypes
  <2>4. TypeOK'
    BY <1>1, <1>2, <2>1, <2>2, <2>3 DEF TypeOK, ListTypes
  <2>5. between = None
    BY <1>1, <2>1 DEF BetweenInHand, Arrived
  <2>6. IdsAgree' /\ BetweenInHand'
    BY <1>1, <2>1, <2>2, <2>5 DEF IdsAgree, Between, BetweenInHand
  <2> QED BY <1>1, <2>1, <2>2, <2>4, <2>6 DEF Ids, Types
<1>10. CASE DeleteErases
  <2>1. /\ Arrived("delete") /\ between = None /\ between' = Head(to).track
        /\ live' = live \ {Head(to).track} /\ gone' = gone
        /\ head' = head /\ last' = last /\ next' = next /\ parent' = parent
        /\ made' = made /\ to' = to /\ from' = from /\ deletes' = deletes /\ undo' = undo
    BY <1>10 DEF DeleteErases, HalfWay, listVars
  <2>2. Head(to).track \in Track /\ Head(to).track \in 1 .. made
    BY <2>1, AtHand
  <2>3. TypeOK'
    BY <1>1, <1>2, <1>3, <2>1, <2>2 DEF TypeOK
  <2>4. IdsAgree'
    <3>1. None \notin 1 .. made
      BY TrackAssumption
    <3> QED BY <1>1, <2>1, <2>2, <3>1 DEF IdsAgree, Between
  <2>5. BetweenInHand'
    BY <2>1 DEF BetweenInHand, Arrived
  <2> QED BY <1>1, <2>1, <2>3, <2>4, <2>5 DEF Ids, Types
<1>11. CASE DeleteInEngine
  <2>1. /\ InEngine("delete") /\ Arrived("delete")
        /\ RemoveChild(Head(to).parent, Head(to).track)
        /\ live' = live /\ gone' = gone \cup {Head(to).track}
        /\ between # None /\ between' = None
    BY <1>11 DEF DeleteInEngine, InEngine
  <2>2. /\ Head(to).track \in Track /\ Head(to).parent \in Parent
        /\ to' \in Seq(Request) /\ from' \in Seq(Request)
        /\ \A i \in DOMAIN to' : to'[i].track \in 1 .. made
        /\ Head(to).track \in 1 .. made
        /\ parent' = parent /\ made' = made /\ deletes' = deletes /\ undo' = undo
    BY <2>1, Served
  <2>3. ListTypes'
    BY <1>1, <2>1, <2>2, RemoveTypes
  <2>4. TypeOK'
    BY <1>2, <1>3, <2>1, <2>2, <2>3 DEF TypeOK, ListTypes
  <2>5. between = Head(to).track /\ between \notin live
    BY <1>1, <2>1 DEF BetweenInHand, Arrived
  <2>6. IdsAgree' /\ BetweenInHand'
    BY <1>1, <2>1, <2>2, <2>5 DEF IdsAgree, Between, BetweenInHand
  <2> QED BY <1>1, <2>1, <2>2, <2>4, <2>6 DEF Ids, Types
<1>13. CASE RestoreErases
  <2>1. /\ Arrived("restore") /\ between = None /\ between' = Head(to).track
        /\ AddChildBefore(Head(to).parent, Head(to).track, Head(to).near)
        /\ live' = live /\ gone' = gone \ {Head(to).track} /\ parent' = parent
        /\ made' = made /\ to' = to /\ from' = from /\ deletes' = deletes /\ undo' = undo
    BY <1>13 DEF RestoreErases, HalfWay
  <2>2. /\ Head(to).track \in Track /\ Head(to).parent \in Parent /\ Head(to).near \in Link
        /\ Head(to).track \in 1 .. made
    BY <2>1, AtHand
  <2>3. ListTypes'
    BY <1>1, <2>1, <2>2, AddTypes
  <2>4. TypeOK'
    BY <1>2, <1>3, <2>1, <2>2, <2>3 DEF TypeOK, ListTypes
  <2>5. IdsAgree'
    BY <1>1, <2>1, <2>2, TrackAssumption DEF IdsAgree, Between
  <2>6. BetweenInHand'
    BY <2>1 DEF BetweenInHand, Arrived
  <2> QED BY <1>1, <2>1, <2>4, <2>5, <2>6 DEF Ids, Types
<1>14. CASE RestoreInEngine
  <2>1. /\ InEngine("restore") /\ Arrived("restore")
        /\ live' = live \cup {Head(to).track} /\ gone' = gone
        /\ between # None /\ between' = None
        /\ head' = head /\ last' = last /\ next' = next
    BY <1>14 DEF RestoreInEngine, InEngine, listVars
  <2>2. /\ Head(to).track \in Track
        /\ to' \in Seq(Request) /\ from' \in Seq(Request)
        /\ \A i \in DOMAIN to' : to'[i].track \in 1 .. made
        /\ Head(to).track \in 1 .. made
        /\ parent' = parent /\ made' = made /\ deletes' = deletes /\ undo' = undo
    BY <2>1, Served
  <2>3. TypeOK'
    BY <1>2, <1>3, <2>1, <2>2 DEF TypeOK
  <2>4. between = Head(to).track /\ between \notin gone
    BY <1>1, <2>1 DEF BetweenInHand, Arrived
  <2>5. IdsAgree' /\ BetweenInHand'
    BY <1>1, <2>1, <2>2, <2>4 DEF IdsAgree, Between, BetweenInHand
  <2> QED BY <1>1, <2>1, <2>2, <2>3, <2>5 DEF Ids, Types
<1>12. CASE UNCHANGED vars
  BY <1>12 DEF vars, Ids, Types, TypeOK, IdsAgree, Between, BetweenInHand
<1> QED BY <1>4, <1>5, <1>6, <1>7, <1>8, <1>9, <1>10, <1>11, <1>12, <1>13, <1>14
        DEF Next, ApiNext, Ask, Serve

\* No track is both known by its id and kept for a restore, and one that is
\* neither is the one the engine has taken out of one map and not yet entered
\* in the other: however many requests are on their way, and wherever between
\* the two changes the DAW thread looks (Project::remove_track(),
\* restore_track_id()).
THEOREM IdsAlwaysAgree == Spec => []IdsAgree
<1>1. Init => Ids
  BY IdsInit
<1>2. Ids /\ [Next]_vars => Ids'
  BY IdsStep
<1>3. Ids => IdsAgree
  BY DEF Ids
<1> QED BY <1>1, <1>2, <1>3, PTL DEF Spec

\* The same for any client of the API.
THEOREM IdsAgreeForAnyClient == ApiSpec => []IdsAgree
<1>1. Init => Ids
  BY IdsInit
<1>2. Ids /\ [ApiNext]_vars => Ids'
  BY IdsStep
<1>3. Ids => IdsAgree
  BY DEF Ids
<1> QED BY <1>1, <1>2, <1>3, PTL DEF ApiSpec

-----------------------------------------------------------------------------
(* The lists of a client with one request on its way.                      *)

\* The list of one parent changes, the others do not.
LEMMA OneListChanges ==
  ASSUME Lists, NEW p \in Parent, NEW S, OthersKept(p, S),
         \A q \in Parent : q # p => S \cap Children(q) = {},
         \A q \in Parent : q # p => Children(q)' = Children(q),
         \E d : ListOf(d, head'[p], last'[p], next', Children(p)')
  PROVE  Lists'
<1>1. ASSUME NEW q \in Parent, q # p
      PROVE  \E d : ListOf(d, head'[q], last'[q], next', Children(q)')
  <2>1. PICK c : ListOf(c, head[q], last[q], next, Children(q))
    BY DEF Lists
  <2>2. \A x \in Children(q) : x \in Track
    BY <2>1, ListNext
  <2>3. \A x \in Children(q) : next'[x] = next[x]
    BY <1>1, <2>2 DEF OthersKept
  <2>4. ListOf(c, head[q], last[q], next', Children(q))
    BY <2>1, <2>3, ListSame
  <2>5. head'[q] = head[q] /\ last'[q] = last[q] /\ Children(q)' = Children(q)
    BY <1>1 DEF OthersKept
  <2> QED BY <2>4, <2>5
<1>2. ASSUME NEW q \in Parent
      PROVE  \E d : ListOf(d, head'[q], last'[q], next', Children(q)')
  BY <1>1
<1>3. ASSUME NEW q \in Parent
      PROVE  \E d \in Seq(Track) : ListOf(d, head'[q], last'[q], next', Children(q)')
  <2>1. PICK d : ListOf(d, head'[q], last'[q], next', Children(q)')
    BY <1>2
  <2>2. d \in Seq(Track)
    BY <2>1 DEF ListOf
  <2> QED BY <2>1, <2>2
<1> QED BY <1>3 DEF Lists

\* No list changes.
LEMMA ListsKept ==
  ASSUME Lists, head' = head, last' = last, next' = next,
         \A q \in Parent : Children(q)' = Children(q)
  PROVE  Lists'
BY DEF Lists

\* A project just read is whole, and its client has asked for nothing.
LEMMA IInvInit == Init => IInv
<1> SUFFICES ASSUME Init PROVE IInv
  OBVIOUS
<1>1. Ids
  BY IdsInit
<1>2. /\ to = << >> /\ from = << >> /\ undo = << >> /\ live = 1 .. Loaded /\ made = Loaded
      /\ DOMAIN to = {} /\ DOMAIN undo = {} /\ gone = {}
  BY DEF Init
<1>3. Unplaced = {}
  BY <1>2 DEF Unplaced
<1>4. OneRequest /\ RequestsSound /\ UndoFits
  BY <1>2 DEF OneRequest, RequestsSound, UndoFits
<1>5. NewHaveNoNext
  BY <1>2, <1>3 DEF Init, NewHaveNoNext
<1>6. ASSUME NEW p \in Parent
      PROVE  \E c \in Seq(Track) : ListOf(c, head[p], last[p], next, Children(p))
  <2>1. Children(p) = Siblings(p)
    BY <1>2, <1>3 DEF Children, Siblings
  <2>2. /\ Siblings(p) \in SUBSET Track
        /\ head[p] = MinOrNone(Siblings(p)) /\ last[p] = MaxOrNone(Siblings(p))
        /\ \A t \in Siblings(p) : next[t] = Succ(Siblings(p))[t]
    BY SiblingsSorted
  <2>3. PICK c : ListOf(c, MinOrNone(Siblings(p)), MaxOrNone(Siblings(p)),
                        Succ(Siblings(p)), Siblings(p))
    BY <2>2, SortedList
  <2>4. ListOf(c, MinOrNone(Siblings(p)), MaxOrNone(Siblings(p)), next, Siblings(p))
    BY <2>2, <2>3, ListSame
  <2>5. c \in Seq(Track)
    BY <2>4 DEF ListOf
  <2> QED BY <2>1, <2>2, <2>4, <2>5
<1> QED BY <1>1, <1>4, <1>5, <1>6 DEF IInv, Lists

\* A request is asked for: none is on its way, and then it alone is.
LEMMA AskedAlone ==
  ASSUME IInv, MaxInFlight = 1, MayAsk
  PROVE  /\ to = << >> /\ Len(from) = 0 /\ DOMAIN to = {} /\ Unplaced = {}
         /\ between = None
         /\ \A i \in DOMAIN undo : undo[i].track \in gone
         /\ \A r : to' = Append(to, r) =>
              /\ DOMAIN to' = {1} /\ to'[1] = r
              /\ from' = from => OneRequest'
              /\ Unplaced' = IF r.type = "new" THEN {r.track} ELSE {}
<1>1. to \in Seq(Request) /\ from \in Seq(Request)
  BY DEF IInv, Ids, Types
<1>2. Len(to) = 0 /\ Len(from) = 0
  BY <1>1 DEF MayAsk
<1>3. to = << >> /\ DOMAIN to = {}
  BY <1>1, <1>2
<1>8. between = None
  BY <1>3 DEF IInv, Ids, BetweenInHand
<1>4. Unplaced = {} /\ \A t : ~Deleting(t)
  BY <1>3 DEF Unplaced, Deleting
<1>5. \A i \in DOMAIN undo : undo[i].track \in gone
  BY <1>4 DEF IInv, UndoFits
<1>6. ASSUME NEW r, to' = Append(to, r)
      PROVE  /\ DOMAIN to' = {1} /\ to'[1] = r /\ Len(to') = 1
             /\ Unplaced' = IF r.type = "new" THEN {r.track} ELSE {}
  <2>1. DOMAIN to' = {1} /\ to'[1] = r /\ Len(to') = 1
    BY <1>3, <1>6
  <2>2. Unplaced' = {to'[i].track : i \in {j \in {1} : to'[j].type = "new"}}
    BY <2>1 DEF Unplaced
  <2>3. CASE r.type = "new"
    BY <2>1, <2>2, <2>3
  <2>4. CASE r.type # "new"
    BY <2>1, <2>2, <2>4
  <2> QED BY <2>1, <2>3, <2>4
<1>7. \A r : to' = Append(to, r) /\ from' = from => OneRequest'
  BY <1>2, <1>6 DEF OneRequest
<1> QED BY <1>2, <1>3, <1>4, <1>5, <1>6, <1>7, <1>8

\* A request arrives: it is the only one.
LEMMA ArrivesAlone ==
  ASSUME IInv, NEW type, Arrived(type)
  PROVE  /\ DOMAIN to = {1} /\ Len(to) = 1 /\ to[1] = Head(to) /\ Sound(Head(to))
         /\ Head(to).type = type
         /\ Unplaced = IF type = "new" THEN {Head(to).track} ELSE {}
         /\ \A y : Deleting(y) <=> type = "delete" /\ y = Head(to).track
         /\ \A y : Restoring(y) <=> type = "restore" /\ y = Head(to).track
<1>1. /\ Ids /\ OneRequest /\ to \in Seq(Request) /\ from \in Seq(Request)
      /\ Len(to) \in Nat /\ Len(from) \in Nat /\ DOMAIN to = 1 .. Len(to)
  BY DEF IInv, Ids, Types
<1>2. /\ Head(to) = to[1] /\ 1 \in DOMAIN to /\ Head(to).type = type
  BY <1>1, AtHand
<1>3. Len(to) = 1 /\ DOMAIN to = {1}
  BY <1>1, <1>2 DEF OneRequest
<1>4. Sound(Head(to))
  BY <1>2 DEF IInv, RequestsSound
<1>5. Unplaced = IF type = "new" THEN {Head(to).track} ELSE {}
  <2>1. Unplaced = {to[i].track : i \in {j \in {1} : to[j].type = "new"}}
    BY <1>3 DEF Unplaced
  <2>2. CASE type = "new"
    BY <1>2, <2>1, <2>2
  <2>3. CASE type # "new"
    BY <1>2, <2>1, <2>3
  <2> QED BY <2>2, <2>3
<1>6. /\ \A y : Deleting(y) <=> type = "delete" /\ y = Head(to).track
      /\ \A y : Restoring(y) <=> type = "restore" /\ y = Head(to).track
  BY <1>2, <1>3 DEF Deleting, Restoring
<1> QED BY <1>2, <1>3, <1>4, <1>5, <1>6

\* It goes back, and no other is on its way.
LEMMA ServedAlone ==
  ASSUME IInv, NEW type, InEngine(type)
  PROVE  /\ OneRequest' /\ RequestsSound' /\ Unplaced' = {}
         /\ \A y : ~Deleting(y)' /\ ~Restoring(y)'
<1>1. Ids /\ OneRequest /\ to \in Seq(Request) /\ from \in Seq(Request) /\ Arrived(type)
  BY DEF IInv, Ids, Types, InEngine
<1>2. /\ Len(to') = Len(to) - 1 /\ Len(from') = Len(from) + 1 /\ to' \in Seq(Request)
      /\ Len(to) = 1
  BY <1>1, Served, ArrivesAlone
<1>3. Len(from) \in Nat
  BY <1>1
<1>4. Len(to') = 0 /\ to' = << >> /\ DOMAIN to' = {} /\ OneRequest'
  BY <1>1, <1>2, <1>3 DEF OneRequest
<1> QED BY <1>4 DEF Unplaced, RequestsSound, Deleting, Restoring

\* What UndoFits says of one deletion.
UndoOf(i) == /\ undo[i].track \in gone \/ Deleting(undo[i].track)
             /\ ~Restoring(undo[i].track)
             /\ undo[i].track \in 1 .. made
             /\ next[undo[i].track] = undo[i].before
             /\ undo[i].before # None =>
                  /\ undo[i].before \in 1 .. made
                  /\ parent[undo[i].before] = parent[undo[i].track]

\* UndoFits, one deletion at a time.
LEMMA UndoIs ==
  UndoFits <=> /\ \A i \in DOMAIN undo : UndoOf(i)
               /\ \A i, j \in DOMAIN undo : undo[i].track = undo[j].track => i = j
BY DEF UndoFits, UndoOf

\* What the proofs of the steps start from.
LEMMA Known ==
  ASSUME IInv
  PROVE  /\ TypeOK /\ Ids /\ Lists /\ to \in Seq(Request)
         /\ live \cap gone = {} /\ live \subseteq 1 .. made /\ gone \subseteq 1 .. made
         /\ live \subseteq Track /\ gone \subseteq Track /\ made \in Nat
         /\ 1 .. made \subseteq Track
         /\ made <= MaxTracks /\ MaxTracks \in Nat
         /\ next \in [Track -> Link] /\ parent \in [Track -> Parent]
         /\ undo \in Seq([track : Track, before : Link])
         /\ DOMAIN undo = 1 .. Len(undo)
         /\ \A i \in DOMAIN undo : UndoOf(i)
         /\ \A i, j \in DOMAIN undo : undo[i].track = undo[j].track => i = j
<1>1. TypeOK /\ Ids /\ Lists /\ to \in Seq(Request) /\ IdsAgree
      /\ undo \in Seq([track : Track, before : Link])
  BY DEF IInv, Ids, Types
<1>2. made \in Nat /\ made <= MaxTracks /\ MaxTracks \in Nat
  BY <1>1, TracksAre DEF TypeOK
<1>3. 1 .. made \subseteq Track
  BY <1>2 DEF Track
<1>4. DOMAIN undo = 1 .. Len(undo)
  BY <1>1
<1>5. UndoFits
  BY DEF IInv
<1> QED BY <1>1, <1>2, <1>3, <1>4, <1>5, UndoIs DEF TypeOK, IdsAgree

\* A track made is entered in the map, and no list has it yet.
LEMMA NewStep ==
  ASSUME IInv, MaxInFlight = 1, NEW x \in Link, New(x), Ids'
  PROVE  IInv'
<1> DEFINE t == made + 1
           p == IF x = None THEN Master ELSE parent[x]
           r == NewProcess(t, p, x)
<1>1. /\ MayAsk /\ x \in live \cup {None}
      /\ made' = t /\ parent' = [parent EXCEPT ![t] = p] /\ live' = live \cup {t}
      /\ to' = Append(to, r) /\ made < MaxTracks
      /\ head' = head /\ last' = last /\ next' = next /\ gone' = gone
      /\ between' = between
      /\ from' = from /\ deletes' = deletes /\ undo' = undo
  BY DEF New, listVars
<1>2. /\ Lists /\ live \cap gone = {}
      /\ live \subseteq 1 .. made /\ gone \subseteq 1 .. made /\ made \in Nat /\ MaxTracks \in Nat
      /\ 1 .. made \subseteq Track
      /\ next \in [Track -> Link] /\ parent \in [Track -> Parent]
      /\ \A i \in DOMAIN undo : UndoOf(i)
      /\ \A i, j \in DOMAIN undo : undo[i].track = undo[j].track => i = j
  BY Known
<1>3. t \in Track /\ t \notin 1 .. made /\ t \notin live /\ t \notin gone /\ t > made
  BY <1>1, <1>2 DEF Track
<1>4. /\ r.type = "new" /\ r.track = t /\ r.parent = p /\ r.near = x
  BY DEF NewProcess
<1> HIDE DEF r
<1>5. /\ DOMAIN to' = {1} /\ to'[1] = r /\ OneRequest'
      /\ Unplaced = {} /\ Unplaced' = {t}
      /\ \A i \in DOMAIN undo : undo[i].track \in gone
  BY <1>1, <1>4, AskedAlone
<1>6. parent'[t] = p /\ \A y \in Track : y # t => parent'[y] = parent[y]
  BY <1>1, <1>2, <1>3
<1> HIDE DEF t, p
<1>7. RequestsSound'
  <2>1. r.near # None => /\ r.near \in (1 .. made') \ (gone' \cup Unplaced')
                         /\ parent'[r.near] = p
    <3> SUFFICES ASSUME x # None
                 PROVE  x \in (1 .. made') \ (gone' \cup Unplaced') /\ parent'[x] = p
      BY <1>4
    <3>1. x \in live /\ x # t /\ x \in Track /\ x \in 1 .. made' /\ x \notin gone
      BY <1>1, <1>2, <1>3 DEF t
    <3>2. parent'[x] = parent[x] /\ p = parent[x]
      BY <1>6, <3>1 DEF p
    <3> QED BY <1>1, <1>5, <3>1, <3>2
  <2>2. PICK m : m = r
    OBVIOUS
  <2>3. Sound(m)'
    <3>1. t \in (1 .. made') \ gone'
      BY <1>1, <1>2, <1>3 DEF t
    <3> QED BY <1>4, <1>6, <2>1, <2>2, <3>1 DEF Sound
  <2>4. DOMAIN to' = {1} /\ to'[1] = m
    BY <1>5, <2>2
  <2> QED BY <2>3, <2>4 DEF RequestsSound
<1>8. NewHaveNoNext'
  <2>1. ASSUME NEW y \in Track, y > made' \/ y \in Unplaced' PROVE next[y] = None
    <3>1. y > made
      BY <1>1, <1>2, <1>3, <1>5, <2>1, TracksAre DEF t
    <3> QED BY <3>1 DEF IInv, NewHaveNoNext
  <2> QED BY <1>1, <2>1 DEF NewHaveNoNext
<1>9. UndoFits'
  <2>1. ASSUME NEW i \in DOMAIN undo PROVE UndoOf(i)'
    <3>1. UndoOf(i) /\ undo[i].track \in gone
      BY <1>2, <1>5
    <3>2. ~Restoring(undo[i].track)'
      BY <1>1, <1>4, <1>5 DEF Restoring
    <3>3. /\ undo[i].track \in 1 .. made /\ undo[i].track # t /\ undo[i].track \in Track
          /\ undo[i].track \in 1 .. made'
      BY <1>1, <1>2, <1>3, <3>1 DEF UndoOf, t
    <3>4. ASSUME undo[i].before # None
          PROVE  undo[i].before \in 1 .. made' /\ parent'[undo[i].before] = parent'[undo[i].track]
      <4>1. undo[i].before \in 1 .. made /\ parent[undo[i].before] = parent[undo[i].track]
        BY <3>1, <3>4 DEF UndoOf
      <4>2. undo[i].before \in Track /\ undo[i].before # t /\ undo[i].before \in 1 .. made'
        BY <1>1, <1>2, <1>3, <4>1 DEF t
      <4> QED BY <1>6, <3>3, <4>1, <4>2
    <3> QED BY <1>1, <3>1, <3>2, <3>3, <3>4 DEF UndoOf
  <2> QED BY <1>1, <1>2, <2>1, UndoIs DEF UndoFits, UndoOf
<1>10. Lists'
  <2>1. ASSUME NEW q \in Parent PROVE Children(q)' = Children(q)
    <3>1. /\ (1 .. made') \ (gone' \cup Unplaced') = (1 .. made) \ (gone \cup Unplaced)
          /\ 1 .. made \subseteq Track
      BY <1>1, <1>2, <1>3, <1>5 DEF t
    <3>2. \A y \in 1 .. made : parent'[y] = parent[y]
      BY <1>3, <1>6, <3>1
    <3> QED BY <3>1, <3>2 DEF Children
  <2> QED BY <1>1, <1>2, <2>1, ListsKept
<1> QED BY <1>5, <1>7, <1>8, <1>9, <1>10 DEF IInv

\* The client notes what stands after the track it deletes.
LEMMA DeleteStep ==
  ASSUME IInv, MaxInFlight = 1, NEW t \in Track, Delete(t), Ids'
  PROVE  IInv'
<1> DEFINE r == DeleteProcess(t, parent[t])
           u == [track |-> t, before |-> next[t]]
           n == Len(undo) + 1
<1>1. /\ MayAsk /\ t \in live
      /\ undo' = Append(undo, u) /\ to' = Append(to, r)
      /\ head' = head /\ last' = last /\ next' = next /\ parent' = parent
      /\ live' = live /\ gone' = gone /\ made' = made /\ from' = from
  BY DEF Delete, ChildAfter, listVars, mapVars
<1>2. /\ Lists /\ live \cap gone = {} /\ live \subseteq 1 .. made
      /\ 1 .. made \subseteq Track
      /\ next \in [Track -> Link] /\ parent \in [Track -> Parent]
      /\ undo \in Seq([track : Track, before : Link])
      /\ \A i \in DOMAIN undo : UndoOf(i)
      /\ \A i, j \in DOMAIN undo : undo[i].track = undo[j].track => i = j
  BY Known
<1>3. r.type = "delete" /\ r.track = t /\ r.parent = parent[t]
  BY DEF DeleteProcess
<1>4. u.track = t /\ u.before = next[t] /\ u \in [track : Track, before : Link]
  BY <1>2
<1> HIDE DEF r, u
<1>5. /\ DOMAIN to' = {1} /\ to'[1] = r /\ OneRequest'
      /\ Unplaced = {} /\ Unplaced' = {}
      /\ \A i \in DOMAIN undo : undo[i].track \in gone
  BY <1>1, <1>3, AskedAlone
<1>6. /\ DOMAIN undo = 1 .. Len(undo) /\ Len(undo) \in Nat
      /\ DOMAIN undo' = 1 .. n /\ undo'[n] = u
      /\ \A i \in 1 .. Len(undo) : undo'[i] = undo[i]
  BY <1>1, <1>2, <1>4, SequenceSteps
<1>7. RequestsSound'
  BY <1>1, <1>2, <1>3, <1>5 DEF RequestsSound, Sound
<1>8. NewHaveNoNext'
  BY <1>1, <1>5 DEF IInv, NewHaveNoNext
<1>9. UndoFits'
  <2>1. \A y : ~Restoring(y)'
    BY <1>3, <1>5 DEF Restoring
  <2>2. ASSUME NEW i \in 1 .. Len(undo) PROVE UndoOf(i)'
    <3>1. UndoOf(i) /\ undo[i].track \in gone /\ undo'[i] = undo[i]
      BY <1>2, <1>5, <1>6
    <3> QED BY <1>1, <2>1, <3>1 DEF UndoOf
  <2> USE DEF n
  <2>6. PICK e : e = n
    OBVIOUS
  <2> HIDE DEF n
  <2>3. UndoOf(e)'
    <3>1. Deleting(t)'
      BY <1>3, <1>5 DEF Deleting
    <3>2. t \in 1 .. made
      BY <1>1, <1>2
    <3>3. ASSUME next[t] # None PROVE next[t] \in 1 .. made /\ parent[next[t]] = parent[t]
      <4>1. parent[t] \in Parent /\ t \in Children(parent[t])
        BY <1>1, <1>2, <1>5 DEF Children
      <4>2. PICK c : ListOf(c, head[parent[t]], last[parent[t]], next, Children(parent[t]))
        BY <1>2, <4>1 DEF Lists
      <4>3. next[t] \in Children(parent[t])
        BY <3>3, <4>1, <4>2, ListNext
      <4> QED BY <1>2, <4>3 DEF Children
    <3>4. undo'[n] = u /\ u.track = t /\ u.before = next[t]
      BY <1>4, <1>6
    <3>5. undo'[e].track = t /\ undo'[e].before = next[t]
      BY <2>6, <3>4
    <3> QED BY <1>1, <2>1, <3>1, <3>2, <3>3, <3>5 DEF UndoOf
  <2>4. ASSUME NEW i \in 1 .. n, NEW j \in 1 .. n, undo'[i].track = undo'[j].track
        PROVE  i = j
    <3>1. \A k \in 1 .. Len(undo) : undo'[k].track # t /\ undo'[k] = undo[k]
      BY <1>1, <1>2, <1>5, <1>6
    <3>2. undo'[n].track = t
      BY <1>4, <1>6
    <3>3. \A k \in 1 .. n : k = n \/ k \in 1 .. Len(undo)
      BY <1>6 DEF n
    <3> QED BY <1>2, <1>6, <2>4, <3>1, <3>2, <3>3
  <2>5. ASSUME NEW i \in 1 .. n PROVE UndoOf(i)'
    <3>1. i = e \/ i \in 1 .. Len(undo)
      BY <1>6, <2>6 DEF n
    <3> QED BY <2>2, <2>3, <3>1
  <2> QED BY <1>6, <2>4, <2>5 DEF UndoFits, UndoOf
<1>10. Lists'
  <2>1. \A q \in Parent : Children(q)' = Children(q)
    BY <1>1, <1>5 DEF Children
  <2> QED BY <1>1, <1>2, <2>1, ListsKept
<1> QED BY <1>5, <1>7, <1>8, <1>9, <1>10 DEF IInv

\* What the last deletion noted is still so when it is undone.
LEMMA RestoreStep ==
  ASSUME IInv, MaxInFlight = 1, RestoreLast, Ids'
  PROVE  IInv'
<1> DEFINE d == Last(undo)
           r == RestoreProcess(d.track, parent[d.track], d.before)
           n == Len(undo)
<1>1. /\ MayAsk /\ undo # << >> /\ d.track \in gone /\ d.before \in live \cup {None}
      /\ undo' = Front(undo) /\ to' = Append(to, r)
      /\ head' = head /\ last' = last /\ next' = next /\ parent' = parent
      /\ live' = live /\ gone' = gone /\ made' = made /\ from' = from
  BY DEF RestoreLast, listVars, mapVars
<1>2. /\ Lists /\ live \cap gone = {} /\ live \subseteq 1 .. made
      /\ undo \in Seq([track : Track, before : Link])
      /\ \A i \in DOMAIN undo : UndoOf(i)
      /\ \A i, j \in DOMAIN undo : undo[i].track = undo[j].track => i = j
  BY Known
<1>3. /\ r.type = "restore" /\ r.track = d.track /\ r.parent = parent[d.track]
      /\ r.near = d.before
  BY DEF RestoreProcess
<1>4. /\ n \in DOMAIN undo /\ n \in Nat /\ d = undo[n]
      /\ DOMAIN undo = 1 .. n /\ DOMAIN undo' = 1 .. n - 1
      /\ \A i \in 1 .. n - 1 : undo'[i] = undo[i] /\ i \in DOMAIN undo
  <2>1. undo \in Seq([track : Track, before : Link]) /\ undo # << >>
        /\ undo' = Front(undo)
    BY <1>1, <1>2
  <2>2. /\ Len(undo) \in DOMAIN undo /\ Len(undo) \in Nat
        /\ DOMAIN undo = 1 .. Len(undo) /\ Last(undo) = undo[Len(undo)]
        /\ DOMAIN Front(undo) = 1 .. Len(undo) - 1
        /\ \A i \in 1 .. Len(undo) - 1 : Front(undo)[i] = undo[i] /\ i \in DOMAIN undo
    BY <2>1, FrontAndLast
  <2> QED BY <2>1, <2>2
<1> HIDE DEF r, d, n
<1>5. /\ DOMAIN to' = {1} /\ to'[1] = r /\ OneRequest'
      /\ Unplaced = {} /\ Unplaced' = {}
      /\ \A i \in DOMAIN undo : undo[i].track \in gone
  BY <1>1, <1>3, AskedAlone
<1>6. /\ next[d.track] = d.before
      /\ d.before # None => parent[d.before] = parent[d.track]
  BY <1>2, <1>4 DEF UndoOf
<1>7. RequestsSound'
  <2>1. PICK m : m = r
    OBVIOUS
  <2>2. Sound(m)'
    BY <1>1, <1>2, <1>3, <1>5, <1>6, <2>1 DEF Sound
  <2>3. DOMAIN to' = {1} /\ to'[1] = m
    BY <1>5, <2>1
  <2> QED BY <2>2, <2>3 DEF RequestsSound
<1>8. NewHaveNoNext'
  BY <1>1, <1>5 DEF IInv, NewHaveNoNext
<1>9. UndoFits'
  <2>1. ASSUME NEW i \in 1 .. n - 1 PROVE UndoOf(i)'
    <3>1. UndoOf(i) /\ undo[i].track \in gone /\ undo'[i] = undo[i] /\ i \in DOMAIN undo
      BY <1>2, <1>4, <1>5
    <3>2. undo[i].track # d.track
      BY <1>2, <1>4, <3>1
    <3>3. ~Restoring(undo[i].track)'
      BY <1>3, <1>5, <3>1, <3>2 DEF Restoring
    <3> QED BY <1>1, <3>1, <3>3 DEF UndoOf
  <2>2. \A i, j \in 1 .. n - 1 : undo'[i].track = undo'[j].track => i = j
    BY <1>2, <1>4
  <2> QED BY <1>4, <2>1, <2>2 DEF UndoFits, UndoOf
<1>10. Lists'
  <2>1. \A q \in Parent : Children(q)' = Children(q)
    BY <1>1, <1>5 DEF Children
  <2> QED BY <1>1, <1>2, <2>1, ListsKept
<1> QED BY <1>5, <1>7, <1>8, <1>9, <1>10 DEF IInv

\* No list changes: what is on its way, or a map, does.
LEMMA NoListStep ==
  ASSUME IInv, Ids', OneRequest', RequestsSound', Unplaced' = Unplaced,
         head' = head, last' = last, next' = next, parent' = parent,
         gone' = gone, made' = made, undo' = undo,
         \A y : (Deleting(y) => Deleting(y)') /\ (Restoring(y)' => Restoring(y))
  PROVE  IInv'
<1>1. NewHaveNoNext'
  BY DEF IInv, NewHaveNoNext
<1>2. UndoFits'
  <2>1. \A i \in DOMAIN undo : UndoOf(i)
    BY Known
  <2>2. ASSUME NEW i \in DOMAIN undo PROVE UndoOf(i)'
    BY <2>1 DEF UndoOf
  <2> QED BY <2>2, Known DEF UndoFits, UndoOf
<1>3. Lists'
  <2>1. \A q \in Parent : Children(q)' = Children(q)
    BY DEF Children
  <2> QED BY <2>1, ListsKept DEF IInv
<1> QED BY <1>1, <1>2, <1>3 DEF IInv

\* An answer changes nothing but what is on its way.
LEMMA AnswerStep ==
  ASSUME IInv, Answer, Ids'
  PROVE  IInv'
<1>1. /\ from # << >> /\ from' = Tail(from)
      /\ head' = head /\ last' = last /\ next' = next /\ parent' = parent
      /\ live' = live /\ gone' = gone /\ between' = between
      /\ made' = made /\ to' = to /\ undo' = undo
  BY DEF Answer, listVars, mapVars
<1>2. from \in Seq(Request) /\ to \in Seq(Request)
  BY DEF IInv, Ids, Types
<1>3. OneRequest'
  <2>1. Len(from') = Len(from) - 1 /\ Len(from) \in Nat /\ Len(to) \in Nat
    BY <1>1, <1>2, SequenceSteps
  <2> QED BY <1>1, <2>1 DEF IInv, OneRequest
<1>4. /\ Unplaced' = Unplaced
      /\ \A y : (Deleting(y)' <=> Deleting(y)) /\ (Restoring(y)' <=> Restoring(y))
  BY <1>1 DEF Unplaced, Deleting, Restoring
<1>5. RequestsSound'
  BY <1>1, <1>4 DEF IInv, RequestsSound, Sound
<1> QED BY <1>1, <1>3, <1>4, <1>5, NoListStep

\* The engine changes the list of p, as the request for the track t says; S is
\* what its tracks have been.
LEMMA ListStep ==
  ASSUME IInv, Ids', OneRequest', RequestsSound', Unplaced' = {},
         parent' = parent, made' = made, undo' = undo,
         NEW t \in 1 .. made, NEW p \in Parent, NEW S \in SUBSET Track,
         OthersKept(p, S), S \subseteq Children(p) \cup {t},
         \A q \in Parent : q # p => S \cap Children(q) = {} /\ Children(q)' = Children(q),
         \E d : ListOf(d, head'[p], last'[p], next', Children(p)'),
         gone \ {t} \subseteq gone',
         \A y : (Deleting(y) => y = t) /\ (Restoring(y)' => Restoring(y)),
         (t \in gone \/ Deleting(t)) /\ ~Restoring(t) =>
           t \in gone' /\ next'[t] = next[t]
  PROVE  IInv'
<1>1. /\ Lists /\ made \in Nat /\ 1 .. made \subseteq Track
      /\ \A i \in DOMAIN undo : UndoOf(i)
      /\ \A i, j \in DOMAIN undo : undo[i].track = undo[j].track => i = j
  BY Known
<1>2. Lists'
  BY <1>1, OneListChanges
<1>3. \A y \in Children(p) : y \in 1 .. made /\ y \notin gone
  BY DEF Children
<1>4. NewHaveNoNext'
  <2>1. ASSUME NEW y \in Track, y > made PROVE next'[y] = None
    <3>1. y \notin 1 .. made
      BY <1>1, <2>1, TracksAre
    <3>2. y \notin S
      BY <1>3, <3>1
    <3>3. next'[y] = next[y]
      BY <3>2 DEF OthersKept
    <3> QED BY <2>1, <3>3 DEF IInv, NewHaveNoNext
  <2> QED BY <2>1 DEF NewHaveNoNext
<1>5. UndoFits'
  <2>1. ASSUME NEW i \in DOMAIN undo PROVE UndoOf(i)'
    <3>1. UndoOf(i) /\ ~Restoring(undo[i].track)'
      BY <1>1 DEF UndoOf
    <3>2. undo[i].track \in gone' /\ next'[undo[i].track] = next[undo[i].track]
      <4>1. CASE undo[i].track = t
        BY <3>1, <4>1 DEF UndoOf
      <4>2. CASE undo[i].track # t
        <5>1. undo[i].track \in gone /\ undo[i].track \in Track
          BY <1>1, <3>1, <4>2 DEF UndoOf
        <5>2. undo[i].track \notin S
          BY <1>3, <4>2, <5>1
        <5> QED BY <4>2, <5>1, <5>2 DEF OthersKept
      <4> QED BY <4>1, <4>2
    <3> QED BY <3>1, <3>2 DEF UndoOf
  <2> QED BY <1>1, <2>1 DEF UndoFits, UndoOf
<1> QED BY <1>2, <1>4, <1>5 DEF IInv

\* The engine puts a new track in its place.
LEMMA NewInEngineStep ==
  ASSUME IInv, NewInEngine, Ids'
  PROVE  IInv'
<1>0. PICK t, p, x : t = Head(to).track /\ p = Head(to).parent /\ x = Head(to).near
  OBVIOUS
<1> DEFINE S == Children(p)
<1>1. /\ InEngine("new") /\ Arrived("new") /\ AddChild(p, t, x)
      /\ gone' = gone /\ between' = between
  BY <1>0 DEF NewInEngine, InEngine, mapVars
<1>2. /\ p \in Parent /\ t \in Track /\ t \in 1 .. made
      /\ parent' = parent /\ made' = made /\ undo' = undo
  BY <1>0, <1>1, Served DEF IInv
<1>3. /\ Unplaced = {t} /\ Sound(Head(to)) /\ Head(to).type = "new"
      /\ \A y : ~Deleting(y) /\ ~Restoring(y)
  BY <1>0, <1>1, ArrivesAlone
<1>4. between = None
  BY <1>1, <1>3 DEF IInv, Ids, BetweenInHand
<1>5. /\ OneRequest' /\ RequestsSound' /\ Unplaced' = {}
      /\ \A y : ~Deleting(y)' /\ ~Restoring(y)'
  BY <1>1, ServedAlone
<1>6. /\ p = parent[t] /\ t \notin gone
      /\ x # None => x \in (1 .. made) \ (gone \cup Unplaced) /\ parent[x] = p
  BY <1>0, <1>3, <1>4 DEF Sound
<1>7. TypeOK /\ Lists /\ 1 .. made \subseteq Track
  BY Known
<1>8. t \notin S /\ x \in S \cup {None}
  BY <1>3, <1>6 DEF Children
<1>9. next[t] = None
  BY <1>2, <1>3 DEF IInv, NewHaveNoNext
<1>10. PICK c : ListOf(c, head[p], last[p], next, S)
  BY <1>2, <1>7 DEF Lists
<1>11. \A q \in Parent : Children(q) \in SUBSET Track
  BY <1>7 DEF Children
<1>12. Children(p)' = S \cup {t} /\ \A q \in Parent : q # p => Children(q)' = Children(q)
  <2>1. \A q \in Parent : Children(q)' = IF q = p THEN Children(q) \cup {t} ELSE Children(q)
    BY <1>1, <1>2, <1>3, <1>5, <1>6 DEF Children
  <2> QED BY <1>2, <2>1
<1>13. \A q \in Parent : q # p => (S \cup {t}) \cap Children(q) = {}
  BY <1>3, <1>6 DEF Children
<1> HIDE DEF S
<1>14. /\ OthersKept(p, S \cup {t})
       /\ \E d : ListOf(d, head'[p], last'[p], next', S \cup {t})
  BY <1>1, <1>2, <1>7, <1>8, <1>9, <1>10, AddChildGains
<1>15. S \cup {t} \in SUBSET Track /\ S \cup {t} \subseteq Children(p) \cup {t}
  BY <1>2, <1>11 DEF S
<1>16. \E d : ListOf(d, head'[p], last'[p], next', Children(p)')
  BY <1>12, <1>14
<1>17. /\ gone \ {t} \subseteq gone'
       /\ \A y : (Deleting(y) => y = t) /\ (Restoring(y)' => Restoring(y))
       /\ (t \in gone \/ Deleting(t)) /\ ~Restoring(t) => t \in gone' /\ next'[t] = next[t]
  BY <1>1, <1>3, <1>5, <1>6
<1> QED BY <1>2, <1>5, <1>12, <1>13, <1>14, <1>15, <1>16, <1>17, ListStep

\* The id of a track that is deleted is forgotten.
LEMMA DeleteErasesStep ==
  ASSUME IInv, DeleteErases, Ids'
  PROVE  IInv'
<1>1. /\ Arrived("delete") /\ between = None
      /\ head' = head /\ last' = last /\ next' = next /\ parent' = parent
      /\ gone' = gone /\ made' = made /\ to' = to /\ from' = from /\ undo' = undo
  BY DEF DeleteErases, HalfWay, listVars
<1>2. DOMAIN to = {1} /\ to[1] = Head(to) /\ Head(to).type = "delete" /\ Sound(Head(to))
  BY <1>1, ArrivesAlone
<1>3. OneRequest' /\ Unplaced' = Unplaced
  BY <1>1 DEF IInv, OneRequest, Unplaced
<1>4. RequestsSound'
  BY <1>1, <1>2 DEF RequestsSound, Sound
<1>5. \A y : (Deleting(y)' <=> Deleting(y)) /\ (Restoring(y)' <=> Restoring(y))
  BY <1>1 DEF Deleting, Restoring
<1> QED BY <1>1, <1>3, <1>4, <1>5, NoListStep

\* The engine keeps the track and takes it out of its list.
LEMMA DeleteInEngineStep ==
  ASSUME IInv, DeleteInEngine, Ids'
  PROVE  IInv'
<1>0. PICK t, p : t = Head(to).track /\ p = Head(to).parent
  OBVIOUS
<1> DEFINE S == Children(p)
<1>1. /\ InEngine("delete") /\ Arrived("delete") /\ RemoveChild(p, t)
      /\ gone' = gone \cup {t}
  BY <1>0 DEF DeleteInEngine, InEngine
<1>2. /\ p \in Parent /\ t \in Track /\ t \in 1 .. made
      /\ parent' = parent /\ made' = made /\ undo' = undo
  BY <1>0, <1>1, Served DEF IInv
<1>3. /\ Unplaced = {} /\ Sound(Head(to)) /\ Head(to).type = "delete"
      /\ \A y : Deleting(y) => y = t
  BY <1>0, <1>1, ArrivesAlone
<1>4. /\ OneRequest' /\ RequestsSound' /\ Unplaced' = {}
      /\ \A y : ~Deleting(y)' /\ ~Restoring(y)'
  BY <1>1, ServedAlone
<1>5. p = parent[t] /\ t \notin gone
  BY <1>0, <1>3 DEF Sound
<1>6. TypeOK /\ Lists /\ 1 .. made \subseteq Track
  BY Known
<1>7. t \in S
  BY <1>2, <1>3, <1>5 DEF Children
<1>8. PICK c : ListOf(c, head[p], last[p], next, S)
  BY <1>2, <1>6 DEF Lists
<1>9. \A q \in Parent : Children(q) \in SUBSET Track
  BY <1>6 DEF Children
<1>10. Children(p)' = S \ {t} /\ \A q \in Parent : q # p => Children(q)' = Children(q)
  <2>1. \A q \in Parent : Children(q)' = IF q = p THEN Children(q) \ {t} ELSE Children(q)
    BY <1>1, <1>2, <1>3, <1>4, <1>5 DEF Children
  <2> QED BY <1>2, <2>1
<1>11. \A q \in Parent : q # p => S \cap Children(q) = {}
  BY DEF Children
<1> HIDE DEF S
<1>12. /\ OthersKept(p, S) /\ next'[t] = next[t]
       /\ \E d : ListOf(d, head'[p], last'[p], next', S \ {t})
  BY <1>1, <1>2, <1>6, <1>7, <1>8, RemoveLoses
<1>13. S \in SUBSET Track /\ S \subseteq Children(p) \cup {t}
  BY <1>2, <1>9 DEF S
<1>14. \E d : ListOf(d, head'[p], last'[p], next', Children(p)')
  BY <1>10, <1>12
<1>15. /\ gone \ {t} \subseteq gone'
       /\ \A y : (Deleting(y) => y = t) /\ (Restoring(y)' => Restoring(y))
       /\ (t \in gone \/ Deleting(t)) /\ ~Restoring(t) => t \in gone' /\ next'[t] = next[t]
  BY <1>1, <1>3, <1>4, <1>12
<1> QED BY <1>2, <1>4, <1>10, <1>11, <1>12, <1>13, <1>14, <1>15, ListStep

\* The engine puts a restored track back, which is then no longer kept.
LEMMA RestoreErasesStep ==
  ASSUME IInv, RestoreErases, Ids'
  PROVE  IInv'
<1>0. PICK t, p, x : t = Head(to).track /\ p = Head(to).parent /\ x = Head(to).near
  OBVIOUS
<1> DEFINE S == Children(p)
<1>1. /\ Arrived("restore") /\ between = None /\ between' = t
      /\ AddChildBefore(p, t, x) /\ gone' = gone \ {t}
      /\ parent' = parent /\ made' = made /\ undo' = undo /\ to' = to /\ from' = from
  BY <1>0 DEF RestoreErases, HalfWay
<1>2. p \in Parent /\ t \in Track /\ t \in 1 .. made
  BY <1>0, <1>1, AtHand DEF IInv
<1>3. /\ Unplaced = {} /\ Sound(Head(to)) /\ Head(to).type = "restore"
      /\ DOMAIN to = {1} /\ to[1] = Head(to)
      /\ Restoring(t) /\ \A y : ~Deleting(y)
  BY <1>0, <1>1, ArrivesAlone
<1>4. /\ OneRequest' /\ Unplaced' = {}
      /\ \A y : Restoring(y)' <=> Restoring(y)
  BY <1>1, <1>3 DEF IInv, OneRequest, Unplaced, Restoring
<1>5. /\ p = parent[t] /\ t \in gone /\ next[t] = x
      /\ x # None => x \in (1 .. made) \ (gone \cup Unplaced) /\ parent[x] = p
  BY <1>0, <1>1, <1>3 DEF Sound
<1>6. RequestsSound'
  <2>1. between' # None
    BY <1>1, <1>2, TracksAre
  <2> QED BY <1>0, <1>1, <1>3, <1>5, <2>1 DEF RequestsSound, Sound
<1>7. TypeOK /\ Lists /\ 1 .. made \subseteq Track
  BY Known
<1>8. t \notin S /\ x \in S \cup {None}
  BY <1>5 DEF Children
<1>9. PICK c : ListOf(c, head[p], last[p], next, S)
  BY <1>2, <1>7 DEF Lists
<1>10. \A q \in Parent : Children(q) \in SUBSET Track
  BY <1>7 DEF Children
<1>11. Children(p)' = S \cup {t} /\ \A q \in Parent : q # p => Children(q)' = Children(q)
  <2>1. \A q \in Parent : Children(q)' = IF q = p THEN Children(q) \cup {t} ELSE Children(q)
    BY <1>1, <1>2, <1>3, <1>4, <1>5 DEF Children
  <2> QED BY <1>2, <2>1
<1>12. \A q \in Parent : q # p => (S \cup {t}) \cap Children(q) = {}
  BY <1>5 DEF Children
<1> HIDE DEF S
<1>13. /\ OthersKept(p, S \cup {t})
       /\ \E d : ListOf(d, head'[p], last'[p], next', S \cup {t})
  BY <1>1, <1>2, <1>5, <1>7, <1>8, <1>9, AddChildBeforeGains
<1>14. S \cup {t} \in SUBSET Track /\ S \cup {t} \subseteq Children(p) \cup {t}
  BY <1>2, <1>10 DEF S
<1>15. \E d : ListOf(d, head'[p], last'[p], next', Children(p)')
  BY <1>11, <1>13
<1> QED BY <1>1, <1>2, <1>3, <1>4, <1>6, <1>11, <1>12, <1>13, <1>14, <1>15, ListStep

\* The id of a restored track is known again.
LEMMA RestoreInEngineStep ==
  ASSUME IInv, RestoreInEngine, Ids'
  PROVE  IInv'
<1>1. /\ InEngine("restore") /\ Arrived("restore") /\ gone' = gone
      /\ head' = head /\ last' = last /\ next' = next
  BY DEF RestoreInEngine, InEngine, listVars
<1>2. parent' = parent /\ made' = made /\ undo' = undo
  BY <1>1, Served DEF IInv
<1>3. Unplaced = {} /\ \A y : ~Deleting(y)
  BY <1>1, ArrivesAlone
<1>4. /\ OneRequest' /\ RequestsSound' /\ Unplaced' = {}
      /\ \A y : ~Deleting(y)' /\ ~Restoring(y)'
  BY <1>1, ServedAlone
<1> QED BY <1>1, <1>2, <1>3, <1>4, NoListStep

\* A step of a client with one request on its way, or of the engine.
LEMMA IInvStep ==
  ASSUME MaxInFlight = 1
  PROVE  IInv /\ [Next]_vars => IInv'
<1> SUFFICES ASSUME IInv, [Next]_vars PROVE IInv'
  OBVIOUS
<1>1. Ids'
  BY IdsStep DEF IInv
<1>2. ASSUME NEW x \in Link, New(x) PROVE IInv'
  BY <1>1, <1>2, NewStep
<1>3. ASSUME NEW t \in Track, Delete(t) PROVE IInv'
  BY <1>1, <1>3, DeleteStep
<1>4. CASE RestoreLast
  BY <1>1, <1>4, RestoreStep
<1>5. CASE Answer
  BY <1>1, <1>5, AnswerStep
<1>6. CASE NewInEngine
  BY <1>1, <1>6, NewInEngineStep
<1>7. CASE DeleteErases
  BY <1>1, <1>7, DeleteErasesStep
<1>8. CASE DeleteInEngine
  BY <1>1, <1>8, DeleteInEngineStep
<1>9. CASE RestoreErases
  BY <1>1, <1>9, RestoreErasesStep
<1>10. CASE RestoreInEngine
  BY <1>1, <1>10, RestoreInEngineStep
<1>11. CASE UNCHANGED vars
  <2>1. /\ head' = head /\ last' = last /\ next' = next /\ parent' = parent
        /\ live' = live /\ gone' = gone /\ between' = between /\ made' = made
        /\ to' = to /\ from' = from /\ undo' = undo
    BY <1>11 DEF vars
  <2>2. OneRequest' /\ Unplaced' = Unplaced
    BY <2>1 DEF IInv, OneRequest, Unplaced
  <2>3. RequestsSound'
    BY <2>1, <2>2 DEF IInv, RequestsSound, Sound
  <2>4. \A y : (Deleting(y)' <=> Deleting(y)) /\ (Restoring(y)' <=> Restoring(y))
    BY <2>1 DEF Deleting, Restoring
  <2> QED BY <1>1, <2>1, <2>2, <2>3, <2>4, NoListStep
<1> QED BY <1>2, <1>3, <1>4, <1>5, <1>6, <1>7, <1>8, <1>9, <1>10, <1>11
        DEF Next, Ask, Serve

\* What is inductive is more than what is promised.
LEMMA ListsAreWhole == IInv => ListIsWhole
<1> SUFFICES ASSUME IInv, NEW p \in Parent
             PROVE  /\ IsInjective(Chain(p))
                    /\ last[p] = IF Chain(p) = << >> THEN None ELSE Last(Chain(p))
                    /\ ToSet(Chain(p)) = Children(p)
  BY DEF ListIsWhole, Children
<1>1. PICK c \in Seq(Track) : ListOf(c, head[p], last[p], next, Children(p))
  BY DEF IInv, Lists
<1>2. Chain(p) = c
  BY <1>1, ChainIsList
<1>3. DOMAIN c = 1 .. Len(c) /\ Len(c) \in Nat /\ (c = << >> <=> Len(c) = 0)
  BY <1>1
<1>4. IsInjective(c)
  BY <1>1, <1>3 DEF ListOf, IsInjective
<1>5. last[p] = IF c = << >> THEN None ELSE Last(c)
  BY <1>1, <1>3 DEF ListOf, Last
<1>6. ToSet(c) = Children(p)
  BY <1>1, <1>3 DEF ListOf, ToSet
<1> QED BY <1>2, <1>4, <1>5, <1>6

\* A client that waits for the answer to each request, and undoes its
\* deletions in reverse order, never makes a list stop short, run in a circle
\* or end elsewhere than at `last': whatever it makes, deletes and restores,
\* each list holds the children of its parent that have been placed and not
\* deleted, once each.  That List.h leaves `next' as it was in what it removes,
\* and in what it pushes to the back, then does no harm.
THEOREM ListsStayWhole ==
  ASSUME MaxInFlight = 1
  PROVE  Spec => []ListIsWhole
<1>1. Init => IInv
  BY IInvInit
<1>2. IInv /\ [Next]_vars => IInv'
  BY IInvStep
<1>3. IInv => ListIsWhole
  BY ListsAreWhole
<1> QED BY <1>1, <1>2, <1>3, PTL DEF Spec
=============================================================================
