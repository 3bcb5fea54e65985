------------------------ MODULE BufferManagerProofs ------------------------
(***************************************************************************)
(* The handover of BufferManager for every pool size and any number of     *)
(* requests: it needs no lock, the engine never believes it has more       *)
(* buffers than it has, and a shortage is always on order.                 *)
(***************************************************************************)
EXTENDS BufferManager, FiniteSetTheorems, SequenceTheorems, TLAPS

\* What tick() knows of the list it is building: between the check of
\* first_new_buffer and the installation nothing takes the order below it.
BuildInv ==
  /\ tickPC \in {"count", "install"} => /\ building # << >>
                                       /\ toBuild <= Len(building)
                                       /\ toBuild <= needed
  /\ tickPC = "install" => numNew = toBuild

\* What run() knows of the list it takes over.
DeliveryInv ==
  /\ EngineHasHandover => fresh # << >>
  /\ fresh # << >> => numNew <= Len(fresh)

IInv == /\ TypeOK
        /\ HandoverExclusive
        /\ BuildInv
        /\ DeliveryInv
        /\ OrderCoversDelivery
        /\ CountNeverOverstates
        /\ ShortageIsOrdered

\* The states of both threads that the invariants look at are these.
LEMMA InitIInv == Init => IInv
<1>1. << >> \in Seq(BufferId) /\ Len(<< >>) = 0
  BY EmptySeq
<1>. QED
  <2>. SUFFICES ASSUME Init PROVE IInv
    OBVIOUS
  <2>1. TypeOK
    <3>1. /\ free \in Seq(BufferId) /\ fresh \in Seq(BufferId)
          /\ building \in Seq(BufferId) /\ outs \in Seq(BufferId)
          /\ borrowed \subseteq BufferId /\ dropped \subseteq BufferId
          /\ overran \in BOOLEAN
      BY <1>1, Zenon DEF Init
    <3>. QED
      BY <3>1 DEF Init, TypeOK
  <2>2. /\ HandoverExclusive /\ BuildInv /\ DeliveryInv /\ OrderCoversDelivery
        /\ CountNeverOverstates /\ ShortageIsOrdered
    BY <1>1 DEF Init, HandoverExclusive, TickHasHandover, EngineHasHandover,
        BuildInv, DeliveryInv, OrderCoversDelivery, CountNeverOverstates,
        ShortageIsOrdered
  <2>. QED
    BY <2>1, <2>2 DEF IInv

\* The steps of tick() and of the shutdown preserve the invariant.
LEMMA TickPreserves == IInv /\ (Tick \/ Close \/ Clear) => IInv'
<1>. SUFFICES ASSUME IInv, Tick \/ Close \/ Clear PROVE IInv'
  OBVIOUS
<1>. USE BufferAssumption
     DEF IInv, HandoverExclusive, TickHasHandover, EngineHasHandover, BuildInv,
         DeliveryInv, OrderCoversDelivery, CountNeverOverstates,
         ShortageIsOrdered, poolVars, handoverVars, userVars
<1>1. CASE TickNeeded
  BY <1>1 DEF TickNeeded, TypeOK
<1>2. CASE TickFirst
  BY <1>2 DEF TickFirst, TypeOK
<1>3. CASE TickBuild
  <2>. DEFINE n == IF needed > 1 THEN needed ELSE 1
  <2>1. n \in Nat \ {0} /\ n >= needed /\ made \in Nat
    BY DEF TypeOK
  <2>2. building' = [i \in 1 .. n |-> made + n + 1 - i] /\ made' = made + n
    BY <1>3 DEF TickBuild
  <2>3. \A i \in 1 .. n : made + n + 1 - i \in BufferId
    BY <2>1 DEF BufferId
  <2>4. building' \in Seq(BufferId) /\ Len(building') = n
    BY <2>1, <2>2, <2>3
  <2>. HIDE DEF n
  <2>5. /\ tickPC = "build" /\ tickPC' = "count"
        /\ numNew' = 0 /\ toBuild' = needed
        /\ UNCHANGED <<free, numFree, overran, needed, fresh, enginePC, outs,
                       borrowed, dropped, requests>>
    BY <1>3 DEF TickBuild
  <2>6. building' # << >>
    BY <2>1, <2>4
  <2>7. TypeOK'
    BY <2>1, <2>2, <2>4, <2>5 DEF TypeOK
  <2>. QED
    BY <2>1, <2>4, <2>5, <2>6, <2>7 DEF TypeOK
<1>4. CASE TickCount
  BY <1>4 DEF TickCount, TypeOK
<1>5. CASE TickInstall
  BY <1>5 DEF TickInstall, TypeOK
<1>6. CASE Close
  BY <1>6 DEF Close, TypeOK
<1>7. CASE Clear
  <2>1. << >> \in Seq(BufferId) /\ Len(<< >>) = 0
    BY EmptySeq
  <2>2. TypeOK'
    <3>1. /\ free' \in Seq(BufferId) /\ fresh' \in Seq(BufferId)
          /\ overran' \in BOOLEAN
      BY <1>7, <2>1, Zenon DEF Clear
    <3>. QED
      BY <1>7, <3>1 DEF Clear, TypeOK
  <2>. QED
    BY <1>7, <2>1, <2>2 DEF Clear
<1>. QED
  BY <1>1, <1>2, <1>3, <1>4, <1>5, <1>6, <1>7 DEF Tick

\* The steps of run() preserve the invariant.
LEMMA RunPreserves == IInv /\ (Run \/ Die) => IInv'
<1>. SUFFICES ASSUME IInv, Run \/ Die PROVE IInv'
  OBVIOUS
<1>. USE BufferAssumption
     DEF IInv, HandoverExclusive, TickHasHandover, EngineHasHandover, BuildInv,
         DeliveryInv, OrderCoversDelivery, CountNeverOverstates,
         ShortageIsOrdered, poolVars, handoverVars, tickVars, userVars
<1>1. CASE RunFirst
  BY <1>1 DEF RunFirst, TypeOK
<1>2. CASE RunSplice
  <2>1. free \in Seq(BufferId) /\ fresh \in Seq(BufferId)
    BY DEF TypeOK
  <2>2. free' \in Seq(BufferId) /\ Len(free') = Len(fresh) + Len(free)
    BY <1>2, <2>1, ConcatProperties DEF RunSplice
  <2>. QED
    BY <1>2, <2>1, <2>2 DEF RunSplice, TypeOK
<1>3. CASE RunSettle
  BY <1>3 DEF RunSettle, TypeOK
<1>4. CASE RunRelease
  BY <1>4 DEF RunRelease, TypeOK
<1>5. CASE RunWant
  <2>1. TypeOK'
    BY <1>5 DEF RunWant, TypeOK
  <2>2. CountNeverOverstates' /\ ShortageIsOrdered'
    BY <1>5 DEF RunWant, TypeOK
  <2>3. HandoverExclusive' /\ BuildInv' /\ DeliveryInv' /\ OrderCoversDelivery'
    BY <1>5 DEF RunWant, TypeOK
  <2>. QED
    BY <2>1, <2>2, <2>3
<1>6. CASE Die
  BY <1>6 DEF Die, TypeOK
<1>. QED
  BY <1>1, <1>2, <1>3, <1>4, <1>5, <1>6 DEF Run

\* The users of the pool preserve the invariant.
LEMMA UsePreserves == IInv /\ Use => IInv'
<1>. SUFFICES ASSUME IInv, Use PROVE IInv'
  OBVIOUS
<1>. USE BufferAssumption
     DEF IInv, HandoverExclusive, TickHasHandover, EngineHasHandover, BuildInv,
         DeliveryInv, OrderCoversDelivery, CountNeverOverstates,
         ShortageIsOrdered, poolVars, handoverVars, tickVars, userVars
<1>0. /\ free \in Seq(BufferId) /\ outs \in Seq(BufferId)
      /\ Len(free) \in Nat /\ Len(outs) \in Nat
  BY DEF TypeOK
<1>1. CASE NoInterface
  BY <1>1 DEF NoInterface, TypeOK
<1>7. CASE Capture
  BY <1>7 DEF Capture, TypeOK
<1>2. CASE OutBuffers
  <2>. DEFINE n == IF Len(free) < OutChannels THEN Len(free) ELSE OutChannels
              taken == SubSeq(free, 1, n)
              left == SubSeq(free, n + 1, Len(free))
  <2>1. n \in 0 .. Len(free)
    BY <1>0
  <2>2. taken \in Seq(BufferId) /\ Elements(taken) \subseteq BufferId
    BY <1>0, <2>1, SubSeqProperties DEF Elements
  <2>3. left \in Seq(BufferId) /\ Len(left) = Len(free) - n
    <3>1. \A i \in n + 1 .. Len(free) : free[i] \in BufferId
      BY <1>0, <2>1
    <3>. HIDE DEF n
    <3>. QED
      BY <1>0, <2>1, <3>1, SubSeqProperties
  <2>4. /\ free' = left /\ numFree' = numFree - n
        /\ outs' \in {outs, taken}
        /\ dropped' \in {dropped, dropped \cup Elements(taken)}
        /\ overran' \in BOOLEAN
    BY <1>2 DEF OutBuffers
  <2>5. /\ enginePC = "out" /\ enginePC' = "use"
        /\ UNCHANGED <<handoverVars, tickVars, borrowed, requests>>
    BY <1>2 DEF OutBuffers
  <2>. HIDE DEF n, taken, left
  <2>. QED
    <3>1. TypeOK'
      BY <1>0, <2>1, <2>2, <2>3, <2>4, <2>5 DEF TypeOK
    <3>2. CountNeverOverstates'
      BY <1>0, <2>1, <2>3, <2>4, <2>5 DEF TypeOK
    <3>. QED
      BY <2>5, <3>1, <3>2
<1>3. CASE Borrow
  <2>1. /\ Head(free) \in BufferId /\ Tail(free) \in Seq(BufferId)
        /\ Len(Tail(free)) = Len(free) - 1
    BY <1>3, <1>0, HeadTailProperties DEF Borrow
  <2>. QED
    <3>1. TypeOK'
      BY <1>3, <1>0, <2>1 DEF Borrow, TypeOK
    <3>2. CountNeverOverstates'
      BY <1>3, <1>0, <2>1 DEF Borrow, TypeOK
    <3>. QED
      BY <1>3, <3>1, <3>2 DEF Borrow
<1>4. CASE BorrowFails
  BY <1>4 DEF BorrowFails, TypeOK
<1>5. ASSUME NEW b \in borrowed, Return(b) PROVE IInv'
  <2>1. b \in BufferId
    BY DEF TypeOK
  <2>2. <<b>> \o free \in Seq(BufferId) /\ Len(<<b>> \o free) = Len(free) + 1
    BY <1>0, <2>1
  <2>. QED
    BY <1>5, <1>0, <2>2 DEF Return, TypeOK
<1>6. CASE FreeOut
  <2>. DEFINE back == [i \in 1 .. Len(outs) |-> outs[Len(outs) + 1 - i]]
  <2>1. back \in Seq(BufferId) /\ Len(back) = Len(outs)
    BY <1>0
  <2>2. /\ back \o free \in Seq(BufferId)
        /\ Len(back \o free) = Len(free) + Len(outs)
    BY <1>0, <2>1, ConcatProperties
  <2>. HIDE DEF back
  <2>3. free' = back \o free
    BY <1>6 DEF FreeOut, back
  <2>. QED
    BY <1>6, <1>0, <2>2, <2>3 DEF FreeOut, TypeOK
<1>. QED
  BY <1>1, <1>2, <1>3, <1>4, <1>5, <1>6, <1>7 DEF Use

LEMMA Invariant == Spec => []IInv
<1>1. IInv /\ UNCHANGED vars => IInv'
  BY DEF vars, IInv, TypeOK, HandoverExclusive, TickHasHandover,
         EngineHasHandover, BuildInv, DeliveryInv, OrderCoversDelivery,
         CountNeverOverstates, ShortageIsOrdered
<1>2. IInv /\ [Next]_vars => IInv'
  BY <1>1, TickPreserves, RunPreserves, UsePreserves DEF Next, Ended
<1>. QED
  BY InitIInv, <1>2, PTL DEF Spec

\* Every variable keeps its type; in particular the order is never negative.
THEOREM TypeCorrect == Spec => []TypeOK
BY Invariant, PTL DEF IInv

\* tick() and run() are never inside the handover together.
THEOREM HandoverNeedsNoLock == Spec => []HandoverExclusive
BY Invariant, PTL DEF IInv

\* num_free_buffers never exceeds the length of the free list, whatever the
\* interleaving of the two threads and of the pool's users.
THEOREM CountIsSafe == Spec => []CountNeverOverstates
BY Invariant, PTL DEF IInv

\* Whenever a turn of the engine starts short of buffers, more are on order.
THEOREM ShortageOrdered == Spec => []ShortageIsOrdered
BY Invariant, PTL DEF IInv

\* An order that is open covers what is on its way, so that taking the delivery
\* never makes it negative.
THEOREM OrderCovers == Spec => []OrderCoversDelivery
BY Invariant, PTL DEF IInv

-----------------------------------------------------------------------------
(* Where the buffers are.                                                  *)

HeldOnce(list) == \A i, j \in DOMAIN list : list[i] = list[j] => i = j

\* The lists, and what is in use, have nothing in common.
PlacesApart ==
  LET F == Elements(free) P == Elements(Pending) B == Elements(building)
      O == Elements(outs)
  IN  /\ F \cap (P \cup B \cup O \cup borrowed \cup dropped) = {}
      /\ P \cap (B \cup O \cup borrowed \cup dropped) = {}
      /\ B \cap (O \cup borrowed \cup dropped) = {}
      /\ O \cap (borrowed \cup dropped) = {}
      /\ borrowed \cap dropped = {}

\* A buffer has been made before it is anywhere.
AllMade == Elements(free) \cup Elements(Pending) \cup Elements(building)
             \cup Elements(outs) \cup borrowed \cup dropped \subseteq 1 .. made

Places == /\ HeldOnce(free) /\ HeldOnce(Pending) /\ HeldOnce(building) /\ HeldOnce(outs)
          /\ PlacesApart /\ AllMade

LEMMA EmptyList == << >> \in Seq(BufferId) /\ Elements(<< >>) = {} /\ HeldOnce(<< >>)
BY DEF Elements, HeldOnce

\* A list that is put before another, with which it shares nothing.
LEMMA Joined ==
  ASSUME NEW p \in Seq(BufferId), NEW q \in Seq(BufferId),
         HeldOnce(p), HeldOnce(q), Elements(p) \cap Elements(q) = {}
  PROVE  /\ p \o q \in Seq(BufferId)
         /\ Elements(p \o q) = Elements(p) \cup Elements(q)
         /\ HeldOnce(p \o q)
<1> DEFINE r == p \o q
<1>1. /\ r \in Seq(BufferId) /\ Len(r) = Len(p) + Len(q)
      /\ \A i \in 1 .. Len(p) + Len(q) :
           r[i] = IF i <= Len(p) THEN p[i] ELSE q[i - Len(p)]
  BY ConcatProperties
<1>2. /\ Len(p) \in Nat /\ DOMAIN p = 1 .. Len(p)
      /\ Len(q) \in Nat /\ DOMAIN q = 1 .. Len(q)
  OBVIOUS
<1> HIDE DEF r
<1>3. DOMAIN r = 1 .. Len(p) + Len(q)
  BY <1>1, <1>2
<1>4. ASSUME NEW i \in DOMAIN r
      PROVE  \/ i \in DOMAIN p /\ r[i] = p[i] /\ r[i] \in Elements(p)
             \/ i - Len(p) \in DOMAIN q /\ r[i] = q[i - Len(p)] /\ r[i] \in Elements(q)
  <2>1. CASE i <= Len(p)
    <3>1. i \in DOMAIN p /\ r[i] = p[i]
      BY <1>1, <1>2, <1>3, <2>1
    <3> QED BY <3>1 DEF Elements
  <2>2. CASE ~(i <= Len(p))
    <3>1. i - Len(p) \in DOMAIN q
      BY <1>2, <1>3, <2>2
    <3>2. r[i] = q[i - Len(p)]
      BY <1>1, <1>3, <2>2
    <3> QED BY <3>1, <3>2 DEF Elements
  <2> QED BY <2>1, <2>2
<1>5. ASSUME NEW i \in DOMAIN p PROVE i \in DOMAIN r /\ r[i] = p[i]
  BY <1>1, <1>2, <1>3
<1>6. ASSUME NEW i \in DOMAIN q
      PROVE  Len(p) + i \in DOMAIN r /\ r[Len(p) + i] = q[i]
  <2>1. /\ Len(p) + i \in 1 .. Len(p) + Len(q)
        /\ ~(Len(p) + i <= Len(p)) /\ (Len(p) + i) - Len(p) = i
    BY <1>2
  <2> QED BY <1>1, <1>3, <2>1
<1>7. Elements(r) = Elements(p) \cup Elements(q)
  <2>1. ASSUME NEW x \in Elements(p) PROVE x \in Elements(r)
    BY <1>5 DEF Elements
  <2>2. ASSUME NEW x \in Elements(q) PROVE x \in Elements(r)
    BY <1>6 DEF Elements
  <2>3. ASSUME NEW x \in Elements(r) PROVE x \in Elements(p) \cup Elements(q)
    <3>1. PICK i \in DOMAIN r : x = r[i]
      BY DEF Elements
    <3> QED BY <1>4, <3>1
  <2> QED BY <2>1, <2>2, <2>3
<1>8. HeldOnce(r)
  <2> SUFFICES ASSUME NEW i \in DOMAIN r, NEW j \in DOMAIN r, r[i] = r[j] PROVE i = j
    BY DEF HeldOnce
  <2>1. CASE i \in DOMAIN p /\ r[i] = p[i] /\ r[i] \in Elements(p)
    <3>1. j \in DOMAIN p /\ r[j] = p[j]
      BY <1>4, <2>1
    <3> QED BY <2>1, <3>1 DEF HeldOnce
  <2>2. CASE /\ i - Len(p) \in DOMAIN q /\ r[i] = q[i - Len(p)] /\ r[i] \in Elements(q)
    <3>1. j - Len(p) \in DOMAIN q /\ r[j] = q[j - Len(p)]
      BY <1>4, <2>2
    <3>2. i - Len(p) = j - Len(p)
      BY <2>2, <3>1 DEF HeldOnce
    <3> QED BY <1>2, <1>3, <3>2
  <2> QED BY <1>4, <2>1, <2>2
<1> QED BY <1>1, <1>7, <1>8 DEF r

\* A list that is cut in two.
LEMMA Cut ==
  ASSUME NEW p \in Seq(BufferId), HeldOnce(p), NEW n \in 0 .. Len(p)
  PROVE  LET front == SubSeq(p, 1, n)
             back == SubSeq(p, n + 1, Len(p))
         IN  /\ front \in Seq(BufferId) /\ back \in Seq(BufferId)
             /\ Elements(front) \subseteq Elements(p)
             /\ Elements(back) \subseteq Elements(p)
             /\ Elements(front) \cap Elements(back) = {}
             /\ HeldOnce(front) /\ HeldOnce(back)
<1> DEFINE front == SubSeq(p, 1, n)
           back == SubSeq(p, n + 1, Len(p))
<1>1. Len(p) \in Nat /\ DOMAIN p = 1 .. Len(p) /\ n \in Nat /\ n <= Len(p)
  OBVIOUS
<1>2. /\ front \in Seq(BufferId) /\ DOMAIN front = 1 .. n
      /\ \A i \in 1 .. n : front[i] = p[i]
  <2>1. \A i \in 1 .. n : p[i] \in BufferId
    BY <1>1
  <2> QED BY <1>1, <2>1, SubSeqProperties
<1>3. /\ back \in Seq(BufferId) /\ DOMAIN back = 1 .. Len(p) - n
      /\ \A i \in 1 .. Len(p) - n : back[i] = p[n + i]
  <2>1. \A i \in n + 1 .. Len(p) : p[i] \in BufferId
    BY <1>1
  <2>2. back \in Seq(BufferId) /\ Len(back) = Len(p) - n
    <3>1. /\ back \in Seq(BufferId)
          /\ Len(back) = IF n + 1 <= Len(p) THEN Len(p) - (n + 1) + 1 ELSE 0
      BY <1>1, <2>1, SubSeqProperties
    <3> HIDE DEF back
    <3>2. CASE n < Len(p)
      <4>1. n + 1 <= Len(p) /\ Len(p) - (n + 1) + 1 = Len(p) - n
        BY <1>1, <3>2
      <4> QED BY <3>1, <4>1
    <3>3. CASE n = Len(p)
      <4>1. ~(n + 1 <= Len(p)) /\ Len(p) - n = 0
        BY <1>1, <3>3
      <4> QED BY <3>1, <4>1
    <3>4. n < Len(p) \/ n = Len(p)
      <4>1. \A k \in Nat : n <= k => n < k \/ n = k
        BY <1>1
      <4> QED BY <1>1, <4>1
    <3> QED BY <3>2, <3>3, <3>4
  <2>3. ASSUME NEW i \in 1 .. Len(p) - n PROVE back[i] = p[n + i]
    <3>1. i \in 1 .. Len(p) - (n + 1) + 1 /\ (n + 1) + i - 1 = n + i
      BY <1>1
    <3>2. back[i] = p[(n + 1) + i - 1]
      BY <1>1, <2>1, <3>1, SubSeqProperties
    <3> QED BY <3>1, <3>2
  <2> HIDE DEF back
  <2>4. DOMAIN back = 1 .. Len(p) - n
    BY <2>2
  <2> QED BY <2>2, <2>3, <2>4
<1> HIDE DEF front, back
<1>4. \A i \in 1 .. Len(p) - n : n + i \in DOMAIN p
  BY <1>1
<1>5. Elements(front) \subseteq Elements(p) /\ Elements(back) \subseteq Elements(p)
  <2>1. Elements(front) \subseteq Elements(p)
    <3>1. 1 .. n \subseteq DOMAIN p
      BY <1>1
    <3> QED BY <1>2, <3>1 DEF Elements
  <2>2. Elements(back) \subseteq Elements(p)
    BY <1>3, <1>4 DEF Elements
  <2> QED BY <2>1, <2>2
<1>6. Elements(front) \cap Elements(back) = {}
  <2> SUFFICES ASSUME NEW i \in 1 .. n, NEW j \in 1 .. Len(p) - n, front[i] = back[j]
               PROVE  FALSE
    BY <1>2, <1>3 DEF Elements
  <2>1. i \in DOMAIN p /\ n + j \in DOMAIN p /\ i # n + j
    BY <1>1
  <2> QED BY <1>2, <1>3, <2>1 DEF HeldOnce
<1>7. HeldOnce(front)
  BY <1>1, <1>2 DEF HeldOnce
<1>8. HeldOnce(back)
  <2> SUFFICES ASSUME NEW i \in 1 .. Len(p) - n, NEW j \in 1 .. Len(p) - n,
                      back[i] = back[j]
               PROVE  i = j
    BY <1>3 DEF HeldOnce
  <2>1. n + i = n + j
    BY <1>3, <1>4 DEF HeldOnce
  <2> QED BY <1>1, <2>1
<1> QED BY <1>2, <1>3, <1>5, <1>6, <1>7, <1>8 DEF front, back

\* A list that is turned round.
LEMMA TurnedRound ==
  ASSUME NEW p \in Seq(BufferId), HeldOnce(p)
  PROVE  LET r == [i \in 1 .. Len(p) |-> p[Len(p) + 1 - i]]
         IN  /\ r \in Seq(BufferId) /\ Elements(r) = Elements(p) /\ HeldOnce(r)
<1> DEFINE n == Len(p)
           r == [i \in 1 .. n |-> p[n + 1 - i]]
<1>1. n \in Nat /\ DOMAIN p = 1 .. n
  OBVIOUS
<1> HIDE DEF n
<1>2. \A i \in 1 .. n : n + 1 - i \in 1 .. n /\ n + 1 - (n + 1 - i) = i
  BY <1>1
<1>3. DOMAIN r = 1 .. n /\ \A i \in 1 .. n : r[i] = p[n + 1 - i]
  OBVIOUS
<1>4. r \in Seq(BufferId)
  BY <1>1, <1>2
<1> HIDE DEF r
<1>5. Elements(r) = Elements(p)
  BY <1>1, <1>2, <1>3 DEF Elements
<1>6. HeldOnce(r)
  <2> SUFFICES ASSUME NEW i \in 1 .. n, NEW j \in 1 .. n, r[i] = r[j] PROVE i = j
    BY <1>3 DEF HeldOnce
  <2>1. n + 1 - i = n + 1 - j
    BY <1>1, <1>2, <1>3 DEF HeldOnce
  <2> QED BY <1>1, <2>1
<1> QED BY <1>4, <1>5, <1>6 DEF r, n

LEMMA CountOfList ==
  ASSUME NEW p \in Seq(BufferId), HeldOnce(p)
  PROVE  Cardinality(Elements(p)) = Len(p)
<1>1. Len(p) \in Nat /\ DOMAIN p = 1 .. Len(p) /\ p \in [1 .. Len(p) -> BufferId]
  OBVIOUS
<1>2. p \in [1 .. Len(p) -> Elements(p)]
  BY <1>1 DEF Elements
<1>3. p \in Bijection(1 .. Len(p), Elements(p))
  BY <1>1, <1>2 DEF Bijection, Injection, Surjection, IsInjective, HeldOnce, Elements
<1>4. ExistsBijection(1 .. Len(p), Elements(p))
  BY <1>3 DEF ExistsBijection
<1>5. IsFiniteSet(1 .. Len(p)) /\ Cardinality(1 .. Len(p)) = Len(p)
  BY <1>1, FS_Interval
<1> QED BY <1>4, <1>5, FS_Bijection

LEMMA SamePlaces ==
  ASSUME Places, UNCHANGED <<free, Pending, building, outs, borrowed, dropped, made>>
  PROVE  Places'
BY DEF Places, PlacesApart, AllMade, Elements, HeldOnce

\* The new list is of buffers that nobody has seen; what is installed, nobody
\* else points to.
LEMMA TickPlaces == ASSUME IInv, Places, Tick \/ Close \/ Clear PROVE Places'
<1>1. CASE TickNeeded \/ TickFirst \/ TickCount \/ Close
  <2>1. UNCHANGED <<free, Pending, building, outs, borrowed, dropped, made>>
    BY <1>1 DEF TickNeeded, TickFirst, TickCount, Close, poolVars, handoverVars,
       userVars, Pending
  <2> QED BY <2>1, SamePlaces
<1>2. CASE TickBuild
  <2> DEFINE n == IF needed > 1 THEN needed ELSE 1
  <2>1. n \in Nat \ {0} /\ made \in Nat
    BY DEF IInv, TypeOK
  <2>2. building' = [i \in 1 .. n |-> made + n + 1 - i] /\ made' = made + n
    BY <1>2 DEF TickBuild
  <2>3. UNCHANGED <<free, Pending, outs, borrowed, dropped>>
    BY <1>2 DEF TickBuild, poolVars, userVars, Pending
  <2> HIDE DEF n
  <2>4. HeldOnce(building')
    <3> SUFFICES ASSUME NEW i \in 1 .. n, NEW j \in 1 .. n, building'[i] = building'[j]
                 PROVE  i = j
      BY <2>2 DEF HeldOnce
    <3>1. made + n + 1 - i = made + n + 1 - j
      BY <2>2
    <3> QED BY <2>1, <3>1
  <2>5. \A x \in Elements(building') : x \in made + 1 .. made + n
    <3>1. \A i \in 1 .. n : made + n + 1 - i \in made + 1 .. made + n
      BY <2>1
    <3> QED BY <2>2, <3>1 DEF Elements
  <2>6. \A x \in 1 .. made : x \in 1 .. made' /\ x \notin Elements(building')
    BY <2>1, <2>2, <2>5
  <2>7. \A x \in Elements(building') : x \in 1 .. made'
    BY <2>1, <2>2, <2>5
  <2>8. PlacesApart'
    BY <2>3, <2>6 DEF Places, PlacesApart, AllMade, Elements
  <2>9. AllMade'
    BY <2>3, <2>6, <2>7 DEF Places, AllMade, Elements
  <2> QED BY <2>3, <2>4, <2>8, <2>9 DEF Places, HeldOnce
<1>3. CASE TickInstall
  <2>1. /\ UNCHANGED <<free, outs, borrowed, dropped, made, enginePC>>
        /\ fresh' = building /\ building' = << >>
    BY <1>3 DEF TickInstall, poolVars, userVars
  <2>2. Pending' = building
    BY <1>3, <2>1 DEF TickInstall, IInv, HandoverExclusive, TickHasHandover,
       EngineHasHandover, Pending
  <2>3. Elements(building') = {} /\ HeldOnce(building')
    BY <2>1, EmptyList
  <2> QED BY <2>1, <2>2, <2>3 DEF Places, PlacesApart, AllMade, Elements, HeldOnce
<1>4. CASE Clear
  <2>1. /\ UNCHANGED <<building, outs, borrowed, dropped, made>>
        /\ free' = << >> /\ Pending' = << >>
    BY <1>4 DEF Clear, userVars, Pending
  <2>2. Elements(<< >>) = {} /\ HeldOnce(<< >>)
    BY EmptyList
  <2> QED BY <2>1, <2>2 DEF Places, PlacesApart, AllMade, Elements, HeldOnce
<1> QED BY <1>1, <1>2, <1>3, <1>4 DEF Tick

\* The list that is spliced is on the free list from then on, though
\* first_new_buffer still points to it.
LEMMA RunPlaces == ASSUME IInv, Places, Run \/ Die PROVE Places'
<1>1. CASE RunFirst \/ RunSettle \/ RunRelease \/ RunWant \/ Die
  <2>1. UNCHANGED <<free, Pending, building, outs, borrowed, dropped, made>>
    BY <1>1 DEF RunFirst, RunSettle, RunRelease, RunWant, Die, poolVars, handoverVars,
       tickVars, userVars, Pending
  <2> QED BY <2>1, SamePlaces
<1>2. CASE RunSplice
  <2>1. /\ UNCHANGED <<building, outs, borrowed, dropped, made>>
        /\ free' = fresh \o free /\ Pending = fresh /\ Pending' = << >>
    BY <1>2 DEF RunSplice, tickVars, userVars, Pending
  <2>2. /\ HeldOnce(fresh \o free)
        /\ Elements(fresh \o free) = Elements(Pending) \cup Elements(free)
    BY <2>1, Joined DEF IInv, TypeOK, Places, PlacesApart
  <2>3. Elements(Pending') = {} /\ HeldOnce(Pending')
    BY <2>1, EmptyList
  <2>4. HeldOnce(free') /\ Elements(free') = Elements(Pending) \cup Elements(free)
    BY <2>1, <2>2
  <2>5. /\ Elements(free)' = Elements(Pending) \cup Elements(free)
        /\ Elements(Pending)' = {}
        /\ Elements(building)' = Elements(building)
        /\ Elements(outs)' = Elements(outs)
    BY <2>1, <2>3, <2>4 DEF Elements
  <2>6. HeldOnce(free)' /\ HeldOnce(Pending)' /\ HeldOnce(building)' /\ HeldOnce(outs)'
    BY <2>1, <2>3, <2>4 DEF Places, HeldOnce
  <2>7. PlacesApart'
    BY <2>1, <2>3, <2>4, <2>5 DEF Places, PlacesApart
  <2>8. AllMade'
    BY <2>1, <2>3, <2>4, <2>5 DEF Places, AllMade
  <2> QED BY <2>6, <2>7, <2>8 DEF Places
<1> QED BY <1>1, <1>2 DEF Run

LEMMA UsePlaces == ASSUME IInv, Places, Use PROVE Places'
<1>0. free \in Seq(BufferId) /\ outs \in Seq(BufferId)
  BY DEF IInv, TypeOK
<1>1. CASE NoInterface \/ Capture \/ BorrowFails
  <2>1. UNCHANGED <<free, Pending, building, outs, borrowed, dropped, made>>
    BY <1>1 DEF NoInterface, Capture, BorrowFails, poolVars, handoverVars, tickVars,
       userVars, Pending
  <2> QED BY <2>1, SamePlaces
<1>2. CASE OutBuffers
  <2> DEFINE n == IF Len(free) < OutChannels THEN Len(free) ELSE OutChannels
             taken == SubSeq(free, 1, n)
             left == SubSeq(free, n + 1, Len(free))
  <2>1. n \in 0 .. Len(free)
    BY <1>0, BufferAssumption
  <2>2. /\ UNCHANGED <<Pending, building, borrowed, made>> /\ free' = left
        /\ \/ outs' = outs /\ dropped' = dropped \cup Elements(taken)
           \/ outs' = taken /\ dropped' = dropped
    BY <1>2 DEF OutBuffers, handoverVars, tickVars, Pending
  <2> HIDE DEF n
  <2>3. /\ Elements(taken) \subseteq Elements(free)
        /\ Elements(left) \subseteq Elements(free)
        /\ Elements(taken) \cap Elements(left) = {}
        /\ HeldOnce(taken) /\ HeldOnce(left)
    BY <1>0, <2>1, Cut DEF Places
  <2> HIDE DEF taken, left
  <2>4. CASE outs' = outs /\ dropped' = dropped \cup Elements(taken)
    <3>1. /\ Elements(free)' = Elements(left)
          /\ Elements(Pending)' = Elements(Pending)
          /\ Elements(building)' = Elements(building)
          /\ Elements(outs)' = Elements(outs)
      BY <2>2, <2>3, <2>4 DEF Elements
    <3>2. HeldOnce(free)' /\ HeldOnce(Pending)' /\ HeldOnce(building)' /\ HeldOnce(outs)'
      BY <2>2, <2>3, <2>4 DEF Places, HeldOnce
    <3>3. PlacesApart'
      BY <2>2, <2>3, <2>4, <3>1 DEF Places, PlacesApart
    <3>4. AllMade'
      BY <2>2, <2>3, <2>4, <3>1 DEF Places, AllMade
    <3> QED BY <3>2, <3>3, <3>4 DEF Places
  <2>5. CASE outs' = taken /\ dropped' = dropped
    <3>1. /\ Elements(free)' = Elements(left)
          /\ Elements(Pending)' = Elements(Pending)
          /\ Elements(building)' = Elements(building)
          /\ Elements(outs)' = Elements(taken)
      BY <2>2, <2>5 DEF Elements
    <3>2. HeldOnce(free)' /\ HeldOnce(Pending)' /\ HeldOnce(building)' /\ HeldOnce(outs)'
      BY <2>2, <2>3, <2>5 DEF Places, HeldOnce
    <3>3. PlacesApart'
      BY <2>2, <2>3, <2>5, <3>1 DEF Places, PlacesApart
    <3>4. AllMade'
      BY <2>2, <2>3, <2>5, <3>1 DEF Places, AllMade
    <3> QED BY <3>2, <3>3, <3>4 DEF Places
  <2> QED BY <2>2, <2>4, <2>5
<1>3. CASE Borrow
  <2> DEFINE b == Head(free)
  <2>1. /\ UNCHANGED <<Pending, building, outs, dropped, made>> /\ free # << >>
        /\ free' = Tail(free) /\ borrowed' = borrowed \cup {b}
    BY <1>3 DEF Borrow, handoverVars, tickVars, Pending
  <2>2. /\ Len(free) \in Nat \ {0} /\ Tail(free) = SubSeq(free, 2, Len(free))
        /\ b = free[1] /\ 1 \in DOMAIN free
    BY <1>0, <2>1
  <2> DEFINE left == SubSeq(free, 1 + 1, Len(free))
  <2>3. Elements(left) \subseteq Elements(free) /\ HeldOnce(left)
    BY <1>0, <2>2, Cut DEF Places
  <2>4. b \notin Elements(left) /\ b \in Elements(free)
    <3>1. \A i \in DOMAIN Tail(free) : /\ i + 1 \in DOMAIN free /\ i + 1 # 1
                                       /\ Tail(free)[i] = free[i + 1]
      BY <1>0, <2>1
    <3>2. b \notin Elements(Tail(free))
      BY <2>2, <3>1 DEF Elements, Places, HeldOnce
    <3> QED BY <2>2, <3>2 DEF Elements
  <2>5. free' = left
    BY <2>1, <2>2
  <2> HIDE DEF b, left
  <2>6. /\ Elements(free)' = Elements(left)
        /\ Elements(Pending)' = Elements(Pending)
        /\ Elements(building)' = Elements(building)
        /\ Elements(outs)' = Elements(outs)
    BY <2>1, <2>3, <2>4, <2>5 DEF Elements
  <2>7. HeldOnce(free)' /\ HeldOnce(Pending)' /\ HeldOnce(building)' /\ HeldOnce(outs)'
    BY <2>1, <2>3, <2>5 DEF Places, HeldOnce
  <2>8. PlacesApart'
    BY <2>1, <2>3, <2>4, <2>5, <2>6 DEF Places, PlacesApart
  <2>9. AllMade'
    BY <2>1, <2>3, <2>4, <2>5, <2>6 DEF Places, AllMade
  <2> QED BY <2>7, <2>8, <2>9 DEF Places
<1>4. ASSUME NEW b \in borrowed, Return(b) PROVE Places'
  <2>1. /\ UNCHANGED <<Pending, building, outs, dropped, made>>
        /\ free' = <<b>> \o free /\ borrowed' = borrowed \ {b}
    BY <1>4 DEF Return, handoverVars, tickVars, Pending
  <2>2. /\ <<b>> \in Seq(BufferId) /\ HeldOnce(<<b>>) /\ Elements(<<b>>) = {b}
    <3>1. b \in BufferId
      BY DEF IInv, TypeOK
    <3> QED BY <3>1 DEF HeldOnce, Elements
  <2>3. HeldOnce(free') /\ Elements(free') = {b} \cup Elements(free)
    <3>1. {b} \cap Elements(free) = {}
      BY DEF Places, PlacesApart
    <3> QED BY <1>0, <2>1, <2>2, <3>1, Joined DEF Places
  <2>4. /\ Elements(free)' = {b} \cup Elements(free)
        /\ Elements(Pending)' = Elements(Pending)
        /\ Elements(building)' = Elements(building)
        /\ Elements(outs)' = Elements(outs)
    BY <2>1, <2>3 DEF Elements
  <2>5. HeldOnce(free)' /\ HeldOnce(Pending)' /\ HeldOnce(building)' /\ HeldOnce(outs)'
    BY <2>1, <2>3 DEF Places, HeldOnce
  <2>6. PlacesApart'
    BY <2>1, <2>3, <2>4 DEF Places, PlacesApart
  <2>7. AllMade'
    BY <2>1, <2>3, <2>4 DEF Places, AllMade
  <2> QED BY <2>5, <2>6, <2>7 DEF Places
<1>5. CASE FreeOut
  <2> DEFINE back == [i \in 1 .. Len(outs) |-> outs[Len(outs) + 1 - i]]
  <2>1. /\ UNCHANGED <<Pending, building, borrowed, dropped, made>>
        /\ free' = back \o free /\ outs' = << >>
    BY <1>5 DEF FreeOut, handoverVars, tickVars, Pending
  <2>2. back \in Seq(BufferId) /\ Elements(back) = Elements(outs) /\ HeldOnce(back)
    BY <1>0, TurnedRound DEF Places
  <2> HIDE DEF back
  <2>3. HeldOnce(free') /\ Elements(free') = Elements(outs) \cup Elements(free)
    <3>1. Elements(back) \cap Elements(free) = {}
      BY <2>2 DEF Places, PlacesApart
    <3> QED BY <1>0, <2>1, <2>2, <3>1, Joined DEF Places
  <2>4. Elements(outs') = {} /\ HeldOnce(outs')
    BY <2>1, EmptyList
  <2>5. /\ Elements(free)' = Elements(outs) \cup Elements(free)
        /\ Elements(Pending)' = Elements(Pending)
        /\ Elements(building)' = Elements(building)
        /\ Elements(outs)' = {}
    BY <2>1, <2>3, <2>4 DEF Elements
  <2>6. HeldOnce(free)' /\ HeldOnce(Pending)' /\ HeldOnce(building)' /\ HeldOnce(outs)'
    BY <2>1, <2>3, <2>4 DEF Places, HeldOnce
  <2>7. PlacesApart'
    BY <2>1, <2>3, <2>4, <2>5 DEF Places, PlacesApart
  <2>8. AllMade'
    BY <2>1, <2>3, <2>4, <2>5 DEF Places, AllMade
  <2> QED BY <2>6, <2>7, <2>8 DEF Places
<1> QED BY <1>1, <1>2, <1>3, <1>4, <1>5 DEF Use

LEMMA PlacesInvariant == Spec => []Places
<1>1. Init => Places
  BY EmptyList DEF Init, Places, PlacesApart, AllMade, Pending
<1>2. IInv /\ Places /\ [Next]_vars => Places'
  <2>1. ASSUME Places, UNCHANGED vars PROVE Places'
    BY <2>1, SamePlaces DEF vars, Pending
  <2> QED BY <2>1, TickPlaces, RunPlaces, UsePlaces DEF Next, Ended
<1> QED BY <1>1, <1>2, Invariant, PTL DEF Spec

\* A buffer is on one list, once, or in use, whatever the two threads are in
\* the middle of: none is given to two users, and none comes back twice.
THEOREM BuffersHaveOneOwner == Spec => []OneOwner
<1>1. IInv /\ Places => OneOwner
  <2> SUFFICES ASSUME IInv, Places PROVE OneOwner
    OBVIOUS
  <2>1. /\ free \in Seq(BufferId) /\ Pending \in Seq(BufferId)
        /\ building \in Seq(BufferId) /\ outs \in Seq(BufferId)
    BY EmptyList DEF IInv, TypeOK, Pending
  <2> DEFINE one == free \o Pending
             two == one \o building
             lists == two \o outs
  <2>2. /\ one \in Seq(BufferId) /\ HeldOnce(one)
        /\ Elements(one) = Elements(free) \cup Elements(Pending)
    BY <2>1, Joined DEF Places, PlacesApart
  <2> HIDE DEF one
  <2>3. /\ two \in Seq(BufferId) /\ HeldOnce(two)
        /\ Elements(two) = Elements(one) \cup Elements(building)
    <3>1. Elements(one) \cap Elements(building) = {}
      BY <2>2 DEF Places, PlacesApart
    <3> QED BY <2>1, <2>2, <3>1, Joined DEF Places
  <2> HIDE DEF two
  <2>4. /\ lists \in Seq(BufferId) /\ HeldOnce(lists)
        /\ Elements(lists) = Elements(two) \cup Elements(outs)
    <3>1. Elements(two) \cap Elements(outs) = {}
      BY <2>2, <2>3 DEF Places, PlacesApart
    <3> QED BY <2>1, <2>3, <3>1, Joined DEF Places
  <2>5. Cardinality(Elements(lists)) = Len(lists)
    BY <2>4, CountOfList
  <2>6. Elements(lists) \cap (borrowed \cup dropped) = {}
    BY <2>2, <2>3, <2>4 DEF Places, PlacesApart
  <2>7. borrowed \cap dropped = {}
    BY DEF Places, PlacesApart
  <2> QED BY <2>5, <2>6, <2>7 DEF OneOwner, lists, two, one
<1> QED BY <1>1, Invariant, PlacesInvariant, PTL
=============================================================================
