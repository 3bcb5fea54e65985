--------------------------- MODULE FileReadsProofs ---------------------------
(***************************************************************************)
(* For any number of reads, of slots and of messages in the queues: the    *)
(* DAW deletes no read that the engine holds, though it decides by a state *)
(* that both threads assign without a lock.                                *)
(***************************************************************************)
EXTENDS FileReads, Integers, FiniteSetTheorems, SequenceTheorems, TLAPS

ReadMessage == [type : {"ContinueProcess"}, read : Read]
ToMessage == ReadMessage \cup [type : {"Supply"}, first : Nat, last : Nat]
FromMessage == ReadMessage \cup [type : {"NeedMoreReadRequests"}, num : Nat]
                           \cup {SupplyBack}

QueuesOK == to \in Seq(ToMessage) /\ from \in Seq(FromMessage)

IsSupply(queue, i) == i \in DOMAIN queue /\ queue[i].type = "Supply"
InMessage(m, r) == m.first <= r /\ r <= m.last
InSupply(queue, r) ==
  \E i \in DOMAIN queue : queue[i].type = "Supply" /\ InMessage(queue[i], r)
Carries(queue, r) ==
  \E i \in DOMAIN queue : queue[i].type = "ContinueProcess" /\ queue[i].read = r
HeldOnce(list) == \A i, j \in DOMAIN list : list[i] = list[j] => i = j

\* Nobody has done anything with a read yet.
Untouched(r) == /\ state[r] = "Waiting"
                /\ r \notin deleted /\ r \notin InList(active)
                /\ dawRead # r
                /\ ~Carries(from, r)
                /\ \A s \in Slot : slots[s] # r

\* A read that has not been asked for is in one place: not made, in a supply,
\* or free.
UnusedReads ==
  /\ \A i \in DOMAIN to : to[i].type = "Supply" =>
       /\ to[i].first \in Nat \ {0} /\ to[i].last \in Nat
       /\ to[i].first <= to[i].last + 1 /\ to[i].last <= made
       /\ \A r \in InList(pool) : ~InMessage(to[i], r)
  /\ \A i, j \in DOMAIN to : IsSupply(to, i) /\ IsSupply(to, j) /\ i # j =>
       \A r \in Read : ~(InMessage(to[i], r) /\ InMessage(to[j], r))
  /\ HeldOnce(pool)
  /\ \A r \in Read :
       r > made \/ InSupply(to, r) \/ r \in InList(pool) => Untouched(r)

\* The read in a slot is in no other; while it is not being disposed of, none
\* but the engine says it is done with.
Disposing(s) == enginePC = "dispose" /\ s = engineSlot
SlotReads ==
  /\ \A s, t \in Slot : s # t /\ slots[s] # None => slots[s] # slots[t]
  /\ \A s \in Slot : ~Disposing(s) /\ slots[s] # None =>
       /\ state[slots[s]] \in {"StartingRead", "Reading", "Playing"}
       /\ slots[s] \notin deleted
  /\ enginePC = "dispose" => engineSlot \in Slot /\ slots[engineSlot] # None

\* The read the DAW thread has in hand is alive, and started once.
HandledRead ==
  /\ dawPC # "idle" => dawRead \in Made \ deleted
  /\ dawPC = "start" => dawRead \notin InList(active)
  /\ dawPC = "idle" => dawRead = None

\* How a read ends that is not cancelled.
Ended == {"whole", "short"}

\* A read in the list of the active ones is there once, and going on.
ActiveReads ==
  /\ HeldOnce(active)
  /\ \A r \in InList(active) : /\ state[r] \in {"Reading", "Done"}
                               /\ aio[r] \in {"busy"} \cup Ended
                               /\ r \notin deleted

\* A read is not called playable before the kernel is done with it.
PlayableReads == \A r \in Read : state[r] = "Playing" => aio[r] \in Ended

IInv == /\ TypeOK /\ QueuesOK /\ UnusedReads /\ SlotReads /\ HandledRead
        /\ ActiveReads /\ PlayableReads /\ FileOpenWhileReading

-----------------------------------------------------------------------------
(* Lists and queues.                                                       *)

LEMMA TailOfQueue ==
  ASSUME NEW S, NEW q \in Seq(S), q # << >>
  PROVE  /\ Tail(q) \in Seq(S)
         /\ Len(Tail(q)) = Len(q) - 1
         /\ Len(q) \in Nat \ {0}
         /\ 1 \in DOMAIN q /\ Head(q) = q[1] /\ q[1] \in S
         /\ \A i \in DOMAIN Tail(q) :
              /\ i \in Nat \ {0}
              /\ i + 1 \in DOMAIN q
              /\ Tail(q)[i] = q[i + 1]
OBVIOUS

LEMMA TailCarries ==
  ASSUME NEW S, NEW q \in Seq(S), q # << >>, NEW r
  PROVE  /\ Carries(Tail(q), r) => Carries(q, r)
         /\ InSupply(Tail(q), r) => InSupply(q, r)
<1>1. \A i \in DOMAIN Tail(q) : i + 1 \in DOMAIN q /\ Tail(q)[i] = q[i + 1]
  BY TailOfQueue
<1> QED BY <1>1 DEF Carries, InSupply

LEMMA SentToQueue ==
  ASSUME NEW S, NEW q \in Seq(S), NEW m \in S
  PROVE  /\ Sent(q, m, Capacity) \in Seq(S)
         /\ \A i \in DOMAIN Sent(q, m, Capacity) :
              \/ i \in DOMAIN q /\ Sent(q, m, Capacity)[i] = q[i]
              \/ /\ i = Len(q) + 1 /\ i \notin DOMAIN q
                 /\ Sent(q, m, Capacity)[i] = m
BY ReadAssumption DEF Sent

LEMMA SentCarries ==
  ASSUME NEW S, NEW q \in Seq(S), NEW m \in S, NEW r
  PROVE  /\ Carries(Sent(q, m, Capacity), r) =>
              Carries(q, r) \/ (m.type = "ContinueProcess" /\ m.read = r)
         /\ InSupply(Sent(q, m, Capacity), r) =>
              InSupply(q, r) \/ (m.type = "Supply" /\ InMessage(m, r))
<1> DEFINE p == Sent(q, m, Capacity)
<1>1. \A i \in DOMAIN p : (i \in DOMAIN q /\ p[i] = q[i]) \/ p[i] = m
  BY SentToQueue
<1> HIDE DEF p
<1>2. Carries(p, r) =>
        Carries(q, r) \/ (m.type = "ContinueProcess" /\ m.read = r)
  BY <1>1 DEF Carries
<1>3. InSupply(p, r) =>
        InSupply(q, r) \/ (m.type = "Supply" /\ InMessage(m, r))
  BY <1>1 DEF InSupply
<1> QED BY <1>2, <1>3 DEF p

\* A read that joins the front of a list.
LEMMA Pushed ==
  ASSUME NEW S, NEW list \in Seq(S), NEW r \in S
  PROVE  /\ <<r>> \o list \in Seq(S)
         /\ Len(<<r>> \o list) = Len(list) + 1
         /\ InList(<<r>> \o list) = InList(list) \cup {r}
         /\ HeldOnce(list) /\ r \notin InList(list) => HeldOnce(<<r>> \o list)
<1> DEFINE p == <<r>> \o list
<1>1. /\ p \in Seq(S) /\ Len(p) = Len(list) + 1 /\ Len(list) \in Nat
      /\ DOMAIN p = 1 .. Len(list) + 1 /\ DOMAIN list = 1 .. Len(list)
      /\ p[1] = r
      /\ \A i \in 1 .. Len(list) : p[i + 1] = list[i]
  OBVIOUS
<1> HIDE DEF p
<1>2. \A i \in DOMAIN p : i = 1 \/ (i - 1 \in DOMAIN list /\ p[i] = list[i - 1])
  <2> TAKE i \in DOMAIN p
  <2>1. i = 1 \/ (i - 1 \in 1 .. Len(list) /\ (i - 1) + 1 = i)
    BY <1>1
  <2> QED BY <1>1, <2>1
<1>3. InList(p) = InList(list) \cup {r}
  <2>1. ASSUME NEW x \in InList(list) \cup {r} PROVE x \in InList(p)
    <3>1. CASE x = r
      BY <1>1, <3>1 DEF InList
    <3>2. CASE x \in InList(list)
      <4>1. PICK i \in 1 .. Len(list) : x = list[i]
        BY <1>1, <3>2 DEF InList
      <4>2. i + 1 \in DOMAIN p /\ p[i + 1] = x
        BY <1>1, <4>1
      <4> QED BY <4>2 DEF InList
    <3> QED BY <2>1, <3>1, <3>2
  <2>2. ASSUME NEW x \in InList(p) PROVE x \in InList(list) \cup {r}
    BY <1>1, <1>2 DEF InList
  <2> QED BY <2>1, <2>2
<1>4. HeldOnce(list) /\ r \notin InList(list) => HeldOnce(p)
  <2> SUFFICES ASSUME HeldOnce(list), r \notin InList(list),
                      NEW i \in DOMAIN p, NEW j \in DOMAIN p, p[i] = p[j]
               PROVE  i = j
    BY DEF HeldOnce
  <2> QED BY <1>1, <1>2 DEF HeldOnce, InList
<1> QED BY <1>1, <1>3, <1>4 DEF p

\* A read that leaves the list, from wherever it is.
LEMMA Removed ==
  ASSUME NEW S, NEW list \in Seq(S), HeldOnce(list), NEW r
  PROVE  /\ Without(list, r) \in Seq(S)
         /\ InList(Without(list, r)) = InList(list) \ {r}
         /\ HeldOnce(Without(list, r))
         /\ Len(Without(list, r)) =
              IF r \in InList(list) THEN Len(list) - 1 ELSE Len(list)
<1>1. CASE r \notin InList(list)
  <2>1. Without(list, r) = list
    BY <1>1 DEF Without, InList
  <2> QED BY <1>1, <2>1
<1>2. CASE r \in InList(list)
  <2> DEFINE n == CHOOSE i \in DOMAIN list : list[i] = r
             front == SubSeq(list, 1, n - 1)
             back == SubSeq(list, n + 1, Len(list))
             p == front \o back
  <2>1. Without(list, r) = p /\ n \in DOMAIN list /\ list[n] = r
    BY <1>2 DEF Without, InList
  <2>2. Len(list) \in Nat /\ DOMAIN list = 1 .. Len(list) /\ n \in 1 .. Len(list)
    BY <2>1
  <2> HIDE DEF n
  <2>3. front \in Seq(S) /\ Len(front) = n - 1 /\ \A i \in 1 .. n - 1 : front[i] = list[i]
    BY <2>2, SubSeqProperties
  <2>4. /\ back \in Seq(S) /\ Len(back) = Len(list) - n
        /\ \A i \in 1 .. Len(list) - n : back[i] = list[n + i]
    <3>1. \A i \in n + 1 .. Len(list) : list[i] \in S
      BY <2>2
    <3>2. back \in Seq(S) /\ Len(back) = Len(list) - n
      <4>1. n + 1 \in Int /\ Len(list) \in Int
        BY <2>2
      <4>2. /\ back \in Seq(S)
            /\ Len(back) = IF n + 1 <= Len(list) THEN Len(list) - (n + 1) + 1 ELSE 0
        BY <3>1, <4>1, SubSeqProperties
      <4>3. CASE n + 1 <= Len(list)
        <5>1. Len(list) - (n + 1) + 1 = Len(list) - n
          BY <2>2
        <5> QED BY <4>2, <4>3, <5>1, Zenon
      <4>4. CASE ~(n + 1 <= Len(list))
        <5>1. n \in Nat /\ Len(list) \in Nat /\ n <= Len(list)
          BY <2>2
        <5>2. n = Len(list)
          BY <4>4, <5>1
        <5>3. Len(list) - n = 0
          BY <5>1, <5>2
        <5> QED BY <4>2, <4>4, <5>3, Zenon
      <4> QED BY <4>3, <4>4
    <3>3. ASSUME NEW i \in 1 .. Len(list) - n PROVE back[i] = list[n + i]
      <4>1. i \in 1 .. Len(list) - (n + 1) + 1 /\ (n + 1) + i - 1 = n + i
        BY <2>2
      <4>2. back[i] = list[(n + 1) + i - 1]
        BY <2>2, <3>1, <4>1, SubSeqProperties
      <4> QED BY <4>1, <4>2
    <3> QED BY <3>2, <3>3
  <2> HIDE DEF front, back
  <2>5. /\ p \in Seq(S) /\ Len(p) = Len(list) - 1
        /\ DOMAIN p = 1 .. Len(list) - 1
        /\ \A i \in 1 .. Len(list) - 1 : p[i] = IF i < n THEN list[i] ELSE list[i + 1]
    <3>1. /\ p \in Seq(S) /\ Len(p) = Len(front) + Len(back)
          /\ \A i \in 1 .. Len(front) + Len(back) :
               p[i] = IF i <= Len(front) THEN front[i] ELSE back[i - Len(front)]
      BY <2>3, <2>4, ConcatProperties
    <3> HIDE DEF p
    <3>2. ASSUME NEW i \in 1 .. Len(list) - 1
          PROVE  p[i] = IF i < n THEN list[i] ELSE list[i + 1]
      <4>0. i \in Int /\ 1 <= i /\ i <= Len(list) - 1 /\ n \in Int /\ Len(list) \in Int
        BY <2>2
      <4>1. CASE i < n
        <5>1. i \in 1 .. Len(front) + Len(back) /\ i <= Len(front) /\ i \in 1 .. n - 1
          BY <2>3, <2>4, <4>0, <4>1
        <5>2. p[i] = front[i] /\ front[i] = list[i]
          BY <2>3, <3>1, <5>1
        <5> QED BY <4>1, <5>2
      <4>2. CASE ~(i < n)
        <5>1. i - (n - 1) \in 1 .. Len(list) - n /\ n + (i - (n - 1)) = i + 1
          BY <4>0, <4>2
        <5>2. /\ i \in 1 .. Len(front) + Len(back) /\ ~(i <= Len(front))
              /\ i - Len(front) = i - (n - 1)
          BY <2>2, <2>3, <2>4, <4>2
        <5>3. p[i] = back[i - (n - 1)]
          BY <3>1, <5>2
        <5> QED BY <2>4, <4>2, <5>1, <5>3
      <4> QED BY <4>1, <4>2
    <3> QED BY <2>2, <2>3, <2>4, <3>1, <3>2
  <2> HIDE DEF p
  <2>6. InList(p) = InList(list) \ {r}
    <3>1. ASSUME NEW x \in InList(list) \ {r} PROVE x \in InList(p)
      <4>1. PICK i \in 1 .. Len(list) : x = list[i]
        BY <2>2 DEF InList
      <4>2. CASE i < n
        <5>1. i \in DOMAIN p /\ p[i] = x
          BY <2>2, <2>5, <4>1, <4>2
        <5> QED BY <5>1 DEF InList
      <4>3. CASE i > n
        <5>1. i - 1 \in DOMAIN p /\ p[i - 1] = x
          <6>1. i - 1 \in 1 .. Len(list) - 1 /\ ~(i - 1 < n) /\ (i - 1) + 1 = i
            BY <2>2, <4>3
          <6> QED BY <2>5, <4>1, <6>1
        <5> QED BY <5>1 DEF InList
      <4> QED BY <2>1, <2>2, <3>1, <4>1, <4>2, <4>3
    <3>2. ASSUME NEW x \in InList(p) PROVE x \in InList(list) \ {r}
      <4>1. PICK i \in 1 .. Len(list) - 1 : x = p[i]
        BY <2>5 DEF InList
      <4>2. PICK j \in 1 .. Len(list) : x = list[j] /\ j # n
        BY <2>2, <2>5, <4>1
      <4> QED BY <2>1, <2>2, <4>2 DEF InList, HeldOnce
    <3> QED BY <3>1, <3>2
  <2>7. HeldOnce(p)
    <3> SUFFICES ASSUME NEW i \in 1 .. Len(list) - 1, NEW j \in 1 .. Len(list) - 1,
                        p[i] = p[j]
                 PROVE  i = j
      BY <2>5 DEF HeldOnce
    <3> DEFINE u == IF i < n THEN i ELSE i + 1
               v == IF j < n THEN j ELSE j + 1
    <3>1. u \in DOMAIN list /\ v \in DOMAIN list /\ list[u] = list[v]
      BY <2>2, <2>5
    <3>2. u = v
      BY <3>1 DEF HeldOnce
    <3> QED BY <2>2, <3>2
  <2> QED BY <1>2, <2>1, <2>5, <2>6, <2>7
<1> QED BY <1>1, <1>2

\* The read at the front leaves the list.
LEMMA Popped ==
  ASSUME NEW S, NEW list \in Seq(S), list # << >>, HeldOnce(list)
  PROVE  /\ Tail(list) \in Seq(S) /\ Head(list) \in S
         /\ Head(list) \in InList(list)
         /\ InList(Tail(list)) = InList(list) \ {Head(list)}
         /\ HeldOnce(Tail(list))
<1> DEFINE p == Tail(list)
<1>1. /\ p \in Seq(S) /\ Len(list) \in Nat \ {0}
      /\ DOMAIN list = 1 .. Len(list) /\ DOMAIN p = 1 .. Len(list) - 1
      /\ Head(list) = list[1] /\ list[1] \in S
      /\ \A i \in 1 .. Len(list) - 1 : p[i] = list[i + 1]
  OBVIOUS
<1> HIDE DEF p
<1>2. ASSUME NEW x \in InList(list) \ {list[1]} PROVE x \in InList(p)
  <2>1. PICK i \in 1 .. Len(list) : x = list[i]
    BY <1>1 DEF InList
  <2>2. i - 1 \in DOMAIN p /\ (i - 1) + 1 = i
    BY <1>1, <1>2, <2>1
  <2>3. p[i - 1] = x
    BY <1>1, <2>1, <2>2
  <2> QED BY <2>2, <2>3 DEF InList
<1>3. ASSUME NEW x \in InList(p) PROVE x \in InList(list) \ {list[1]}
  <2>1. PICK i \in 1 .. Len(list) - 1 : x = list[i + 1]
    BY <1>1 DEF InList
  <2>2. i + 1 \in DOMAIN list /\ i + 1 # 1 /\ 1 \in DOMAIN list
    BY <1>1
  <2> QED BY <2>1, <2>2 DEF InList, HeldOnce
<1>4. HeldOnce(p)
  <2> SUFFICES ASSUME NEW i \in 1 .. Len(list) - 1, NEW j \in 1 .. Len(list) - 1,
                      p[i] = p[j]
               PROVE  i = j
    BY <1>1 DEF HeldOnce
  <2>1. /\ i + 1 \in DOMAIN list /\ j + 1 \in DOMAIN list
        /\ list[i + 1] = list[j + 1]
    BY <1>1
  <2>2. i + 1 = j + 1
    BY <2>1 DEF HeldOnce
  <2> QED BY <2>2
<1>5. list[1] \in InList(list)
  BY <1>1 DEF InList
<1> QED BY <1>1, <1>2, <1>3, <1>4, <1>5 DEF p

\* The reads of a supply go on top of the stack.
LEMMA Supplied ==
  ASSUME NEW S, NEW list \in Seq(S), HeldOnce(list),
         NEW first \in Nat, NEW last \in Nat, first <= last + 1,
         first .. last \subseteq S,
         first .. last \cap InList(list) = {}
  PROVE  LET new == [i \in 1 .. last - first + 1 |-> first + i - 1]
         IN  /\ new \o list \in Seq(S)
             /\ InList(new \o list) = first .. last \cup InList(list)
             /\ HeldOnce(new \o list)
<1> DEFINE n == last - first + 1
           new == [i \in 1 .. n |-> first + i - 1]
           p == new \o list
<1>1. n \in Nat
  OBVIOUS
<1>2. ASSUME NEW i \in 1 .. n PROVE first + i - 1 \in first .. last
  OBVIOUS
<1>3. /\ new \in Seq(S) /\ Len(new) = n
      /\ \A i \in 1 .. n : new[i] = first + i - 1
  <2>1. new \in [1 .. n -> S]
    BY <1>2
  <2>2. \A i \in 1 .. n : new[i] = first + i - 1
    OBVIOUS
  <2>3. DOMAIN new = 1 .. n
    OBVIOUS
  <2> HIDE DEF new
  <2>4. new \in Seq(S)
    BY <1>1, <2>1
  <2>5. Len(new) = n
    <3>1. Len(new) \in Nat /\ 1 .. n = 1 .. Len(new)
      BY <2>3, <2>4, LenProperties
    <3> HIDE DEF n
    <3>2. \A k \in Nat : 1 .. n = 1 .. k => k = n
      <4> TAKE k \in Nat
      <4>1. (k \in 1 .. n <=> k \in 1 .. k) /\ (n \in 1 .. n <=> n \in 1 .. k)
              => k = n
        BY <1>1
      <4> QED BY <4>1
    <3> QED BY <3>1, <3>2
  <2>6. \A i \in 1 .. n : new[i] = first + i - 1
    BY <2>2
  <2> HIDE DEF n
  <2> QED BY <2>4, <2>5, <2>6
<1>4. Len(list) \in Nat /\ DOMAIN list = 1 .. Len(list)
  OBVIOUS
<1> HIDE DEF new
<1>5. /\ p \in Seq(S) /\ Len(p) = n + Len(list)
      /\ \A i \in 1 .. n + Len(list) :
           p[i] = IF i <= n THEN new[i] ELSE list[i - n]
  <2>1. /\ p \in Seq(S) /\ Len(p) = Len(new) + Len(list)
        /\ \A i \in 1 .. Len(new) + Len(list) :
             p[i] = IF i <= Len(new) THEN new[i] ELSE list[i - Len(new)]
    BY <1>3, ConcatProperties
  <2>2. Len(new) = n
    BY <1>3
  <2> HIDE DEF n, p
  <2> QED BY <2>1, <2>2
<1> HIDE DEF p
<1>6. ASSUME NEW i \in DOMAIN p
      PROVE  \/ i \in 1 .. n /\ p[i] = first + i - 1 /\ p[i] \in first .. last
             \/ i - n \in DOMAIN list /\ p[i] = list[i - n] /\ p[i] \in InList(list)
  <2>1. i \in 1 .. n + Len(list)
    BY <1>1, <1>4, <1>5
  <2>2. CASE i <= n
    <3>1. i \in 1 .. n
      BY <2>1, <2>2, <1>1
    <3>2. p[i] = new[i]
      BY <1>5, <2>1, <2>2
    <3>3. p[i] = first + i - 1
      BY <1>3, <3>1, <3>2
    <3> QED BY <1>2, <3>1, <3>3
  <2>3. CASE ~(i <= n)
    <3>1. i - n \in DOMAIN list
      BY <1>1, <1>4, <2>1, <2>3
    <3> QED BY <1>5, <2>1, <2>3, <3>1 DEF InList
  <2> QED BY <2>2, <2>3
<1>7. ASSUME NEW x \in first .. last PROVE x \in InList(p)
  <2>1. x - first + 1 \in 1 .. n /\ first + (x - first + 1) - 1 = x
    OBVIOUS
  <2>2. x - first + 1 \in DOMAIN p /\ x - first + 1 \in 1 .. n + Len(list)
        /\ x - first + 1 <= n
    BY <1>1, <1>4, <1>5, <2>1
  <2>3. p[x - first + 1] = x
    BY <1>3, <1>5, <2>1, <2>2
  <2> QED BY <2>2, <2>3 DEF InList
<1>8. ASSUME NEW x \in InList(list) PROVE x \in InList(p)
  <2>1. PICK i \in 1 .. Len(list) : x = list[i]
    BY <1>4 DEF InList
  <2>2. /\ n + i \in 1 .. n + Len(list) /\ n + i \in DOMAIN p
        /\ ~(n + i <= n) /\ (n + i) - n = i
    BY <1>1, <1>4, <1>5, <2>1
  <2>3. p[n + i] = x
    BY <1>5, <2>1, <2>2
  <2> QED BY <2>2, <2>3 DEF InList
<1>9. HeldOnce(p)
  <2> SUFFICES ASSUME NEW i \in DOMAIN p, NEW j \in DOMAIN p, p[i] = p[j]
               PROVE  i = j
    BY DEF HeldOnce
  <2>1. i \in Int /\ j \in Int
    BY <1>1, <1>4, <1>5
  <2>2. CASE i \in 1 .. n /\ p[i] = first + i - 1 /\ p[i] \in first .. last
    <3>1. p[j] = first + j - 1
      BY <1>6, <2>2
    <3>2. first + i - 1 = first + j - 1
      BY <2>2, <3>1
    <3> HIDE DEF n
    <3> QED BY <2>1, <3>2
  <2>3. CASE i - n \in DOMAIN list /\ p[i] = list[i - n] /\ p[i] \in InList(list)
    <3>1. j - n \in DOMAIN list /\ p[j] = list[j - n]
      BY <1>6, <2>3
    <3>2. i - n = j - n
      BY <2>3, <3>1 DEF HeldOnce
    <3> QED BY <1>1, <2>1, <3>2
  <2> QED BY <1>6, <2>2, <2>3
<1>10. InList(p) = first .. last \cup InList(list)
  BY <1>6, <1>7, <1>8 DEF InList
<1> QED BY <1>5, <1>9, <1>10 DEF new, p

-----------------------------------------------------------------------------
(* The first state.                                                        *)

LEMMA InitIInv == Init => IInv
<1> SUFFICES ASSUME Init PROVE IInv
  OBVIOUS
<1>1. FirstSupply \in 1 .. MaxReads /\ None \notin Nat /\ MaxReads \in Nat
  BY ReadAssumption
<1>2. TypeOK
  <2>1. /\ made \in 0 .. MaxReads /\ deleted \subseteq Made
        /\ pool \in Seq(Made) /\ active \in Seq(Made)
    BY <1>1 DEF Init, Made
  <2>2. slots \in [Slot -> Made \cup {None}]
    BY DEF Init
  <2>3. /\ state \in [Read -> {"Waiting", "StartingRead", "Reading", "Playing", "Done"}]
        /\ aio \in [Read -> {"none", "busy", "whole", "short", "cancelled"}]
    BY DEF Init
  <2> QED BY <2>1, <2>2, <2>3 DEF Init, TypeOK
<1>3. QueuesOK
  BY <1>1 DEF Init, QueuesOK, ToMessage, FromMessage, Supply
<1>4. UnusedReads
  <2>1. /\ DOMAIN to = {1}
        /\ to[1].type = "Supply" /\ to[1].first = 1 /\ to[1].last = FirstSupply
    BY DEF Init, Supply
  <2>2. pool = << >> /\ InList(pool) = {} /\ InList(active) = {}
    BY DEF Init, InList
  <2>3. ASSUME NEW r \in Read PROVE Untouched(r)
    <3>1. r # None
      BY <1>1 DEF Read
    <3> QED BY <2>2, <3>1 DEF Init, Untouched, Carries
  <2>4. HeldOnce(pool)
    BY <2>2 DEF HeldOnce
  <2>5. made = FirstSupply
    BY DEF Init
  <2> QED BY <1>1, <2>1, <2>2, <2>3, <2>4, <2>5 DEF UnusedReads, IsSupply
<1>5. SlotReads
  BY DEF Init, SlotReads
<1>6. HandledRead
  BY DEF Init, HandledRead
<1>7. ActiveReads /\ PlayableReads /\ FileOpenWhileReading
  BY DEF Init, ActiveReads, HeldOnce, InList, PlayableReads, FileOpenWhileReading
<1> QED BY <1>2, <1>3, <1>4, <1>5, <1>6, <1>7 DEF IInv

-----------------------------------------------------------------------------
(* What the steps have in common.                                          *)

\* Messages that are no supplies come and go without a read being used.
LEMMA UnusedKept ==
  ASSUME QueuesOK, UnusedReads, UNCHANGED <<made, pool>>,
         \A r \in Read : Untouched(r) => Untouched(r)',
         \/ to' = to
         \/ to # << >> /\ to' = Tail(to)
         \/ \E r \in Read : to' = Sent(to, Continue(r), Capacity)
  PROVE  UnusedReads' /\ to' \in Seq(ToMessage)
<1>1. /\ to' \in Seq(ToMessage)
      /\ \A r \in Read : InSupply(to', r) => InSupply(to, r)
      /\ \E f \in [DOMAIN to' -> Nat] :
           \A i \in DOMAIN to' : to'[i].type = "Supply" =>
              /\ f[i] \in DOMAIN to /\ to[f[i]] = to'[i]
              /\ \A j \in DOMAIN to' : i # j => f[i] # f[j]
  <2>1. CASE to' = to
    <3>1. to \in Seq(ToMessage) /\ DOMAIN to \subseteq Nat
      BY DEF QueuesOK
    <3>2. [i \in DOMAIN to |-> i] \in [DOMAIN to -> Nat]
      BY <3>1
    <3> QED BY <2>1, <3>1, <3>2
  <2>2. CASE to # << >> /\ to' = Tail(to)
    <3>1. /\ to' \in Seq(ToMessage)
          /\ \A i \in DOMAIN to' : /\ i \in Nat /\ i + 1 \in DOMAIN to
                                   /\ to'[i] = to[i + 1]
      BY <2>2, TailOfQueue DEF QueuesOK
    <3>2. \A r \in Read : InSupply(to', r) => InSupply(to, r)
      BY <2>2, TailCarries DEF QueuesOK
    <3> DEFINE f == [i \in DOMAIN to' |-> i + 1]
    <3>3. f \in [DOMAIN to' -> Nat] /\ \A i \in DOMAIN to' : f[i] = i + 1
      BY <3>1
    <3> HIDE DEF f
    <3> QED BY <3>1, <3>2, <3>3
  <2>3. CASE \E r \in Read : to' = Sent(to, Continue(r), Capacity)
    <3> PICK r \in Read : to' = Sent(to, Continue(r), Capacity)
      BY <2>3
    <3> DEFINE m == Continue(r)
    <3>1. m \in ToMessage /\ m.type = "ContinueProcess"
      BY DEF Continue, ToMessage, ReadMessage
    <3> HIDE DEF m
    <3>2. /\ to' \in Seq(ToMessage)
          /\ \A i \in DOMAIN to' : (i \in DOMAIN to /\ to'[i] = to[i]) \/ to'[i] = m
      BY <3>1, SentToQueue DEF QueuesOK, m
    <3>3. \A q \in Read : InSupply(to', q) => InSupply(to, q)
      BY <3>1, <3>2 DEF InSupply
    <3>4. DOMAIN to' \subseteq Nat
      BY <3>2
    <3> DEFINE f == [i \in DOMAIN to' |-> i]
    <3>5. f \in [DOMAIN to' -> Nat] /\ \A i \in DOMAIN to' : f[i] = i
      BY <3>4
    <3> HIDE DEF f
    <3> QED BY <3>1, <3>2, <3>3, <3>5
  <2> QED BY <2>1, <2>2, <2>3
<1>2. PICK f \in [DOMAIN to' -> Nat] :
        \A i \in DOMAIN to' : to'[i].type = "Supply" =>
           /\ f[i] \in DOMAIN to /\ to[f[i]] = to'[i]
           /\ \A j \in DOMAIN to' : i # j => f[i] # f[j]
  BY <1>1
<1>3. InList(pool)' = InList(pool) /\ HeldOnce(pool)' /\ made' = made
  BY DEF UnusedReads, HeldOnce, InList
<1>4. ASSUME NEW i \in DOMAIN to', to'[i].type = "Supply"
      PROVE  /\ to'[i].first \in Nat \ {0} /\ to'[i].last \in Nat
             /\ to'[i].first <= to'[i].last + 1 /\ to'[i].last <= made'
             /\ \A r \in InList(pool)' : ~InMessage(to'[i], r)
  BY <1>2, <1>3, <1>4 DEF UnusedReads
<1>5. ASSUME NEW i \in DOMAIN to', NEW j \in DOMAIN to',
             to'[i].type = "Supply", to'[j].type = "Supply", i # j, NEW r \in Read
      PROVE  ~(InMessage(to'[i], r) /\ InMessage(to'[j], r))
  BY <1>2, <1>5 DEF UnusedReads, IsSupply
<1>6. ASSUME NEW r \in Read, r > made' \/ InSupply(to', r) \/ r \in InList(pool)'
      PROVE  Untouched(r)'
  BY <1>1, <1>3, <1>6 DEF UnusedReads
<1> QED BY <1>1, <1>3, <1>4, <1>5, <1>6 DEF UnusedReads, IsSupply, InList, InSupply

-----------------------------------------------------------------------------
(* The steps of the engine.                                                *)

\* The reads of a supply were in nobody's hands.
LEMMA TakeSupplyKeeps == ASSUME IInv, TakeSupply PROVE IInv'
<1> DEFINE m == to[1]
<1>1. /\ to # << >> /\ Head(to) = m /\ m.type = "Supply" /\ 1 \in DOMAIN to
      /\ to' = Tail(to) /\ to' \in Seq(ToMessage)
      /\ \A i \in DOMAIN to' : /\ i \in Nat \ {0} /\ i + 1 \in DOMAIN to
                               /\ to'[i] = to[i + 1]
  BY TailOfQueue DEF IInv, QueuesOK, TakeSupply
<1>2. /\ m.first \in Nat \ {0} /\ m.last \in Nat
      /\ m.first <= m.last + 1 /\ m.last <= made
      /\ \A r \in InList(pool) : ~InMessage(m, r)
  BY <1>1 DEF IInv, UnusedReads
<1>3. pool' = [i \in 1 .. m.last - m.first + 1 |-> m.first + i - 1] \o pool
  BY <1>1 DEF TakeSupply
<1>4. made' = made /\ made \in Nat /\ MaxReads \in Nat /\ made <= MaxReads
  BY ReadAssumption DEF TakeSupply, IInv, TypeOK
<1> HIDE DEF m
<1>5. /\ pool' \in Seq(Made)
      /\ InList(pool') = m.first .. m.last \cup InList(pool)
      /\ HeldOnce(pool')
  <2>1. pool \in Seq(Made) /\ HeldOnce(pool)
    BY DEF IInv, TypeOK, UnusedReads
  <2>2. m.first .. m.last \subseteq Made /\ m.first .. m.last \cap InList(pool) = {}
    BY <1>2, <1>4 DEF Made, InMessage
  <2> DEFINE first == m.first
             last == m.last
             new == [i \in 1 .. last - first + 1 |-> first + i - 1]
  <2>3. first \in Nat /\ last \in Nat /\ first <= last + 1
    BY <1>2
  <2>4. first .. last \subseteq Made /\ first .. last \cap InList(pool) = {}
    BY <2>2
  <2> HIDE DEF first, last
  <2>5. /\ new \o pool \in Seq(Made)
        /\ InList(new \o pool) = first .. last \cup InList(pool)
        /\ HeldOnce(new \o pool)
    BY <2>1, <2>3, <2>4, Supplied
  <2>6. pool' = new \o pool
    BY <1>3 DEF first, last
  <2> HIDE DEF new
  <2> QED BY <2>5, <2>6 DEF first, last
<1>6. UNCHANGED <<deleted, state, aio, active, opens, dawPC, dawRead, slots,
                  enginePC, engineSlot, fault>>
  BY DEF TakeSupply, dawVars
<1>7. TypeOK'
  BY <1>4, <1>5, <1>6 DEF IInv, TypeOK, Made
<1>8. QueuesOK' /\ \A r : Carries(from', r) => Carries(from, r)
  <2> DEFINE back == SupplyBack
  <2>1. back \in FromMessage /\ back.type = "SupplyBack"
    BY DEF FromMessage, SupplyBack
  <2>2. from' = Sent(from, back, Capacity)
    BY DEF TakeSupply
  <2> HIDE DEF back
  <2>3. from' \in Seq(FromMessage) /\ \A r : Carries(from', r) => Carries(from, r)
    BY <2>1, <2>2, SentToQueue, SentCarries DEF IInv, QueuesOK
  <2> QED BY <1>1, <2>3 DEF QueuesOK
<1>9. UnusedReads'
  <2>1. \A r \in m.first .. m.last : r \in Read /\ InMessage(m, r)
    BY <1>2, <1>4 DEF Read, InMessage
  <2>2. InList(pool)' = InList(pool') /\ HeldOnce(pool)'
    BY <1>5 DEF InList, HeldOnce
  <2>3. ASSUME NEW i \in DOMAIN to', to'[i].type = "Supply"
        PROVE  /\ to'[i].first \in Nat \ {0} /\ to'[i].last \in Nat
               /\ to'[i].first <= to'[i].last + 1 /\ to'[i].last <= made'
               /\ \A r \in InList(pool)' : ~InMessage(to'[i], r)
    <3>1. i + 1 \in DOMAIN to /\ i + 1 # 1 /\ to'[i] = to[i + 1]
      BY <1>1
    <3>2. \A r \in Read : ~(InMessage(m, r) /\ InMessage(to[i + 1], r))
      BY <1>1, <2>3, <3>1 DEF IInv, UnusedReads, IsSupply, m
    <3> QED BY <1>4, <1>5, <2>1, <2>2, <2>3, <3>1, <3>2 DEF IInv, UnusedReads
  <2>4. ASSUME NEW i \in DOMAIN to', NEW j \in DOMAIN to', to'[i].type = "Supply",
               to'[j].type = "Supply", i # j, NEW r \in Read
        PROVE  ~(InMessage(to'[i], r) /\ InMessage(to'[j], r))
    <3>1. /\ i + 1 \in DOMAIN to /\ to'[i] = to[i + 1]
          /\ j + 1 \in DOMAIN to /\ to'[j] = to[j + 1] /\ i + 1 # j + 1
      BY <1>1, <2>4
    <3> QED BY <2>4, <3>1 DEF IInv, UnusedReads, IsSupply
  <2>5. ASSUME NEW r \in Read, r > made' \/ InSupply(to', r) \/ r \in InList(pool)'
        PROVE  Untouched(r)'
    <3>1. InSupply(to', r) => InSupply(to, r)
      BY <1>1, TailCarries DEF IInv, QueuesOK
    <3>2. r \in m.first .. m.last => InSupply(to, r)
      BY <1>1, <2>1 DEF InSupply, m
    <3>3. Untouched(r)
      BY <1>4, <1>5, <2>2, <2>5, <3>1, <3>2 DEF IInv, UnusedReads
    <3> QED BY <1>6, <1>8, <3>3 DEF Untouched, InList
  <2> QED BY <2>2, <2>3, <2>4, <2>5 DEF UnusedReads, IsSupply, InSupply
<1>10. SlotReads' /\ HandledRead' /\ ActiveReads' /\ PlayableReads' /\ FileOpenWhileReading'
  BY <1>4, <1>6 DEF IInv, SlotReads, Disposing, HandledRead, ActiveReads, HeldOnce,
     InList, PlayableReads, FileOpenWhileReading, Made
<1> QED BY <1>7, <1>8, <1>9, <1>10 DEF IInv

LEMMA TakeReadKeeps == ASSUME IInv, TakeRead PROVE IInv'
<1>1. UNCHANGED <<made, pool, deleted, state, aio, from, active, opens, dawPC, dawRead,
                  slots, enginePC, engineSlot>>
  BY DEF TakeRead, dawVars, engineVars
<1>2. to # << >> /\ to' = Tail(to) /\ fault' \in BOOLEAN
  BY DEF TakeRead
<1>3. TypeOK'
  BY <1>1, <1>2 DEF IInv, TypeOK, Made
<1>4. UnusedReads' /\ to' \in Seq(ToMessage)
  <2>1. \A r \in Read : Untouched(r) => Untouched(r)'
    BY <1>1 DEF Untouched, InList, Carries
  <2> QED BY <1>1, <1>2, <2>1, UnusedKept DEF IInv
<1>5. SlotReads' /\ HandledRead' /\ ActiveReads' /\ PlayableReads' /\ FileOpenWhileReading'
  BY <1>1 DEF IInv, SlotReads, Disposing, HandledRead, ActiveReads, HeldOnce,
     InList, PlayableReads, FileOpenWhileReading, Made
<1> QED BY <1>1, <1>3, <1>4, <1>5 DEF IInv, QueuesOK

LEMMA AskForMoreKeeps == ASSUME IInv, AskForMore PROVE IInv'
<1>1. UNCHANGED <<made, pool, deleted, state, aio, to, active, opens, dawPC, dawRead,
                  slots, enginePC, engineSlot, fault>>
  BY DEF AskForMore, dawVars, engineVars
<1> DEFINE m == NeedMore(PoolGoal - Len(pool))
<1>2. m \in FromMessage /\ m.type = "NeedMoreReadRequests"
  <2>1. PoolGoal \in Nat /\ Len(pool) \in Nat /\ Len(pool) < PoolGoal
    BY ReadAssumption DEF AskForMore, IInv, TypeOK
  <2> QED BY <2>1 DEF NeedMore, FromMessage
<1>3. from' = Sent(from, m, Capacity)
  BY DEF AskForMore
<1> HIDE DEF m
<1>4. from' \in Seq(FromMessage) /\ \A r : Carries(from', r) => Carries(from, r)
  BY <1>2, <1>3, SentToQueue, SentCarries DEF IInv, QueuesOK
<1>5. TypeOK'
  BY <1>1 DEF IInv, TypeOK, Made
<1>6. UnusedReads' /\ to' \in Seq(ToMessage)
  <2>1. \A r \in Read : Untouched(r) => Untouched(r)'
    BY <1>1, <1>4 DEF Untouched, InList, Carries
  <2> QED BY <1>1, <2>1, UnusedKept DEF IInv
<1>7. SlotReads' /\ HandledRead' /\ ActiveReads' /\ PlayableReads' /\ FileOpenWhileReading'
  BY <1>1 DEF IInv, SlotReads, Disposing, HandledRead, ActiveReads, HeldOnce,
     InList, PlayableReads, FileOpenWhileReading, Made
<1> QED BY <1>4, <1>5, <1>6, <1>7 DEF IInv, QueuesOK

\* The request comes off the stack: it was in no other slot.
LEMMA RequestReadKeeps ==
  ASSUME IInv, NEW s \in Slot, RequestRead(s) PROVE IInv'
<1> DEFINE r == Head(pool)
<1>1. UNCHANGED <<made, deleted, aio, to, active, opens, dawPC, dawRead, enginePC,
                  engineSlot, fault>>
  BY DEF RequestRead, dawVars
<1>2. /\ enginePC = "run" /\ slots[s] = None
      /\ slots' = [slots EXCEPT ![s] = r] /\ state' = [state EXCEPT ![r] = "StartingRead"]
      /\ from' = Sent(from, Continue(r), Capacity) /\ pool' = Tail(pool) /\ pool # << >>
  BY DEF RequestRead
<1>3. /\ pool' \in Seq(Made) /\ r \in Made /\ r \in InList(pool)
      /\ InList(pool') = InList(pool) \ {r} /\ HeldOnce(pool')
  BY <1>2, Popped DEF IInv, TypeOK, UnusedReads
<1> HIDE DEF r
<1>4. r \in Read /\ r # None /\ made \in 0 .. MaxReads /\ MaxReads \in Nat
  BY <1>3, ReadAssumption DEF IInv, TypeOK, Made, Read
<1>5. Untouched(r)
  BY <1>3, <1>4 DEF IInv, UnusedReads
<1>6. /\ from' \in Seq(FromMessage)
      /\ \A q : Carries(from', q) => Carries(from, q) \/ q = r
  <2>1. /\ Continue(r) \in FromMessage /\ Continue(r).read = r
    BY <1>4 DEF Continue, FromMessage, ReadMessage
  <2> QED BY <1>2, <2>1, SentToQueue, SentCarries DEF IInv, QueuesOK
<1>7. TypeOK'
  BY <1>1, <1>2, <1>3 DEF IInv, TypeOK, Made
<1>8. QueuesOK'
  BY <1>1, <1>6 DEF IInv, QueuesOK
<1>9. UnusedReads'
  <2>1. InList(pool)' = InList(pool) \ {r} /\ HeldOnce(pool)'
    BY <1>3 DEF InList, HeldOnce
  <2>2. ~InSupply(to, r) /\ ~(r > made)
    <3>1. ~InSupply(to, r)
      BY <1>3 DEF IInv, UnusedReads, InSupply
    <3> QED BY <1>3, <1>4, <3>1 DEF Made
  <2>3. ASSUME NEW q \in Read, q # r, Untouched(q) PROVE Untouched(q)'
    <3>1. state'[q] = state[q] /\ ~Carries(from', q)
      BY <1>2, <1>6, <2>3 DEF Untouched, IInv, TypeOK
    <3>2. \A t \in Slot : slots'[t] # q
      BY <1>2, <2>3 DEF Untouched, IInv, TypeOK
    <3> QED BY <1>1, <2>3, <3>1, <3>2 DEF Untouched, InList, Carries
  <2>4. ASSUME NEW q \in Read, q > made' \/ InSupply(to', q) \/ q \in InList(pool)'
        PROVE  Untouched(q)'
    <3>1. q # r /\ (q > made \/ InSupply(to, q) \/ q \in InList(pool))
      BY <1>1, <2>1, <2>2, <2>4
    <3>2. Untouched(q)
      BY <3>1 DEF IInv, UnusedReads
    <3> QED BY <2>3, <3>1, <3>2
  <2> QED BY <1>1, <2>1, <2>4 DEF IInv, UnusedReads, IsSupply, InSupply, InList
<1>10. SlotReads'
  <2>1. \A t \in Slot : slots[t] # r /\ slots'[t] = IF t = s THEN r ELSE slots[t]
    BY <1>2, <1>5 DEF Untouched, IInv, TypeOK
  <2>2. r \notin deleted /\ deleted' = deleted
    BY <1>1, <1>5 DEF Untouched
  <2>3. \A t \in Slot : slots[t] # None => slots[t] \in Read
    BY <1>4 DEF IInv, TypeOK, Made, Read
  <2>4. \A q \in Read : state'[q] = IF q = r THEN "StartingRead" ELSE state[q]
    BY <1>2 DEF IInv, TypeOK
  <2>5. \A t, u \in Slot : t # u /\ slots'[t] # None => slots'[t] # slots'[u]
    BY <1>4, <2>1 DEF IInv, SlotReads
  <2>6. ASSUME NEW t \in Slot, slots'[t] # None
        PROVE  /\ state'[slots'[t]] \in {"StartingRead", "Reading", "Playing"}
               /\ slots'[t] \notin deleted'
    BY <1>2, <1>4, <2>1, <2>2, <2>3, <2>4, <2>6 DEF IInv, SlotReads, Disposing
  <2> QED BY <1>1, <1>2, <2>5, <2>6 DEF SlotReads
<1>11. HandledRead' /\ FileOpenWhileReading'
  BY <1>1 DEF IInv, HandledRead, FileOpenWhileReading, Made, InList
<1>12. ActiveReads'
  <2>1. \A q \in InList(active) : q \in Read
    BY <1>4 DEF IInv, TypeOK, Made, Read, InList
  <2>2. \A q \in InList(active) : state'[q] = state[q]
    BY <1>2, <1>5, <2>1 DEF Untouched, IInv, TypeOK
  <2> QED BY <1>1, <2>2 DEF IInv, ActiveReads, HeldOnce, InList
<1>13. PlayableReads'
  BY <1>1, <1>2 DEF IInv, TypeOK, PlayableReads
<1> QED BY <1>7, <1>8, <1>9, <1>10, <1>11, <1>12, <1>13 DEF IInv

\* The read is marked, whatever the DAW is doing to it.
LEMMA DisposeKeeps ==
  ASSUME IInv, NEW s \in Slot, Dispose(s) PROVE IInv'
<1> DEFINE r == slots[s]
<1>1. UNCHANGED <<made, deleted, aio, to, from, active, opens, dawPC, dawRead, pool,
                  slots, fault>>
  BY DEF Dispose, dawVars
<1>2. /\ enginePC = "run" /\ r # None
      /\ state' = [state EXCEPT ![r] = "Done"]
      /\ enginePC' = "dispose" /\ engineSlot' = s
  BY DEF Dispose
<1>3. made \in 0 .. MaxReads /\ MaxReads \in Nat
  BY ReadAssumption DEF IInv, TypeOK
<1>4. r \in Read /\ \A q \in Read : state'[q] = IF q = r THEN "Done" ELSE state[q]
  BY <1>2, <1>3 DEF IInv, TypeOK, Made, Read
<1>5. TypeOK'
  BY <1>1, <1>2 DEF IInv, TypeOK, Made
<1>6. UnusedReads' /\ QueuesOK'
  <2>1. \A q \in Read : Untouched(q) => Untouched(q)'
    BY <1>1, <1>4 DEF Untouched, InList, Carries
  <2> QED BY <1>1, <2>1, UnusedKept DEF IInv, QueuesOK
<1>7. SlotReads'
  <2>1. \A t \in Slot : slots[t] # None => slots[t] \in Read
    BY <1>3 DEF IInv, TypeOK, Made, Read
  <2> QED BY <1>1, <1>2, <1>4, <2>1 DEF IInv, SlotReads, Disposing
<1>8. HandledRead' /\ FileOpenWhileReading'
  BY <1>1 DEF IInv, HandledRead, FileOpenWhileReading, Made, InList
<1>9. ActiveReads'
  <2>1. \A q \in InList(active) : q \in Read
    BY <1>3 DEF IInv, TypeOK, Made, Read, InList
  <2> QED BY <1>1, <1>4, <2>1 DEF IInv, ActiveReads, HeldOnce, InList
<1>10. PlayableReads'
  BY <1>1, <1>4 DEF IInv, PlayableReads
<1> QED BY <1>5, <1>6, <1>7, <1>8, <1>9, <1>10 DEF IInv

LEMMA DisposeSendKeeps == ASSUME IInv, DisposeSend PROVE IInv'
<1> DEFINE r == slots[engineSlot]
<1>1. UNCHANGED <<made, deleted, state, aio, to, active, opens, dawPC, dawRead, pool,
                  fault>>
  BY DEF DisposeSend, dawVars
<1>2. /\ enginePC = "dispose" /\ enginePC' = "run" /\ engineSlot' = None
      /\ from' = Sent(from, Continue(r), Capacity)
      /\ slots' = [slots EXCEPT ![engineSlot] = None]
  BY DEF DisposeSend
<1>3. engineSlot \in Slot /\ r # None
  BY <1>2 DEF IInv, SlotReads
<1>4. made \in 0 .. MaxReads /\ MaxReads \in Nat /\ None \notin Nat
  BY ReadAssumption DEF IInv, TypeOK
<1>5. r \in Read
  BY <1>3, <1>4 DEF IInv, TypeOK, Made, Read
<1> HIDE DEF r
<1>6. /\ from' \in Seq(FromMessage)
      /\ \A q : Carries(from', q) => Carries(from, q) \/ q = r
  <2>1. Continue(r) \in FromMessage /\ Continue(r).read = r
    BY <1>5 DEF Continue, FromMessage, ReadMessage
  <2> QED BY <1>2, <2>1, SentToQueue, SentCarries DEF IInv, QueuesOK
<1>7. \A t \in Slot : slots'[t] = IF t = engineSlot THEN None ELSE slots[t]
  BY <1>2 DEF IInv, TypeOK
<1>8. TypeOK'
  BY <1>1, <1>2 DEF IInv, TypeOK, Made
<1>9. UnusedReads' /\ QueuesOK'
  <2>1. \A q \in Read : Untouched(q) => q # r
    BY <1>3 DEF Untouched, r
  <2>2. \A q \in Read : q # None
    BY <1>4 DEF Read
  <2>3. \A q \in Read : Untouched(q) => Untouched(q)'
    <3> SUFFICES ASSUME NEW q \in Read, Untouched(q) PROVE Untouched(q)'
      OBVIOUS
    <3>1. ~Carries(from', q)
      BY <1>6, <2>1 DEF Untouched
    <3>2. \A t \in Slot : slots'[t] # q
      BY <1>7, <2>2 DEF Untouched
    <3>3. /\ state[q] = "Waiting" /\ q \notin deleted /\ q \notin InList(active)
          /\ dawRead # q
      BY DEF Untouched
    <3>4. /\ state'[q] = "Waiting" /\ q \notin deleted' /\ q \notin InList(active')
          /\ dawRead' # q
      BY <1>1, <3>3
    <3> QED BY <3>1, <3>2, <3>4 DEF Untouched, InList, Carries
  <2>4. QueuesOK /\ UnusedReads /\ UNCHANGED <<made, pool>> /\ to' = to
    BY <1>1 DEF IInv
  <2>5. UnusedReads' /\ to' \in Seq(ToMessage)
    BY <2>3, <2>4, UnusedKept
  <2> QED BY <1>6, <2>5 DEF QueuesOK
<1>10. SlotReads'
  BY <1>1, <1>2, <1>7 DEF IInv, SlotReads, Disposing
<1>11. HandledRead' /\ ActiveReads' /\ PlayableReads' /\ FileOpenWhileReading'
  BY <1>1 DEF IInv, HandledRead, ActiveReads, HeldOnce, InList, PlayableReads,
     FileOpenWhileReading, Made
<1> QED BY <1>8, <1>9, <1>10, <1>11 DEF IInv

-----------------------------------------------------------------------------
(* The steps of the DAW thread and of the kernel.                          *)

\* New reads are in no other supply.
LEMMA MakeMoreKeeps == ASSUME IInv, MakeMore PROVE IInv'
<1> DEFINE more == Head(from).num
           last == IF made + more > MaxReads THEN MaxReads ELSE made + more
           m == Supply(made + 1, last)
<1>1. UNCHANGED <<deleted, state, aio, active, opens, dawPC, dawRead, pool, slots,
                  enginePC, engineSlot, fault>>
  BY DEF MakeMore, dawVars, engineVars
<1>2. /\ from # << >> /\ from' = Tail(from) /\ made' = last
      /\ to' = Sent(to, m, Capacity) /\ Head(from).type = "NeedMoreReadRequests"
  BY DEF MakeMore
<1>3. /\ from' \in Seq(FromMessage) /\ Head(from) \in FromMessage
      /\ \A r : Carries(from', r) => Carries(from, r)
  BY <1>2, TailOfQueue, TailCarries DEF IInv, QueuesOK
<1>4. more \in Nat
  BY <1>2, <1>3 DEF FromMessage, ReadMessage, SupplyBack
<1>5. made \in Nat /\ made <= MaxReads /\ MaxReads \in Nat
  BY ReadAssumption DEF IInv, TypeOK
<1> HIDE DEF more
<1>6. last \in Nat /\ made <= last /\ last <= MaxReads
  BY <1>4, <1>5
<1> HIDE DEF last
<1>7. /\ m \in ToMessage /\ m.type = "Supply" /\ m.first = made + 1 /\ m.last = last
  BY <1>5, <1>6 DEF Supply, ToMessage
<1> HIDE DEF m
<1>8. /\ to' \in Seq(ToMessage)
      /\ \A i \in DOMAIN to' :
           \/ i \in DOMAIN to /\ to'[i] = to[i]
           \/ i = Len(to) + 1 /\ i \notin DOMAIN to /\ to'[i] = m
      /\ \A r : InSupply(to', r) => InSupply(to, r) \/ InMessage(m, r)
  <2>1. to \in Seq(ToMessage)
    BY DEF IInv, QueuesOK
  <2>2. \A r : InSupply(to', r) => InSupply(to, r) \/ InMessage(m, r)
    BY <1>2, <1>7, <2>1, SentCarries
  <2> DEFINE q == Sent(to, m, Capacity)
  <2>3. /\ q \in Seq(ToMessage)
        /\ \A i \in DOMAIN q :
             \/ i \in DOMAIN to /\ q[i] = to[i]
             \/ i = Len(to) + 1 /\ i \notin DOMAIN to /\ q[i] = m
    BY <1>7, <2>1, SentToQueue
  <2>4. to' = q
    BY <1>2
  <2> HIDE DEF q
  <2> QED BY <2>2, <2>3, <2>4
<1>9. Made \subseteq Made' /\ pool \in Seq(Made') /\ active \in Seq(Made')
  <2>1. Made \subseteq Made'
    BY <1>2, <1>5, <1>6 DEF Made
  <2>2. pool \in Seq(Made) /\ active \in Seq(Made)
    BY DEF IInv, TypeOK
  <2> QED BY <2>1, <2>2
<1>10. TypeOK'
  <2>1. slots' \in [Slot -> Made' \cup {None}]
    BY <1>1, <1>9 DEF IInv, TypeOK
  <2>2. dawRead' \in Made' \cup {None} /\ deleted' \subseteq Made'
    BY <1>1, <1>9 DEF IInv, TypeOK
  <2>3. made' \in 0 .. MaxReads
    BY <1>2, <1>5, <1>6
  <2> QED BY <1>1, <1>9, <2>1, <2>2, <2>3 DEF IInv, TypeOK
<1>11. QueuesOK'
  BY <1>3, <1>8 DEF QueuesOK
<1>12. UnusedReads'
  <2>1. InList(pool)' = InList(pool) /\ HeldOnce(pool)'
    BY <1>1 DEF IInv, UnusedReads, HeldOnce, InList
  <2>2. \A r \in InList(pool) : r <= made
    BY <1>5 DEF IInv, TypeOK, InList, Made
  <2>3. ASSUME NEW i \in DOMAIN to', to'[i].type = "Supply"
        PROVE  /\ to'[i].first \in Nat \ {0} /\ to'[i].last \in Nat
               /\ to'[i].first <= to'[i].last + 1 /\ to'[i].last <= made'
               /\ \A r \in InList(pool)' : ~InMessage(to'[i], r)
    <3>1. CASE i \in DOMAIN to /\ to'[i] = to[i]
      BY <1>2, <1>5, <1>6, <2>1, <2>3, <3>1 DEF IInv, UnusedReads
    <3>2. CASE to'[i] = m
      <4>1. \A r \in InList(pool) : r \in Nat
        BY <1>5 DEF IInv, TypeOK, InList, Made
      <4> QED BY <1>2, <1>5, <1>6, <1>7, <2>1, <2>2, <3>2, <4>1 DEF InMessage
    <3> QED BY <1>8, <3>1, <3>2
  <2>4. ASSUME NEW i \in DOMAIN to, to[i].type = "Supply", NEW r \in Read
        PROVE  ~(InMessage(to[i], r) /\ InMessage(m, r))
    <3>1. to[i].last \in Nat /\ to[i].last <= made
      BY <2>4 DEF IInv, UnusedReads
    <3> QED BY <1>5, <1>7, <3>1 DEF InMessage, Read
  <2>5. ASSUME NEW i \in DOMAIN to', NEW j \in DOMAIN to', to'[i].type = "Supply",
               to'[j].type = "Supply", i # j, NEW r \in Read
        PROVE  ~(InMessage(to'[i], r) /\ InMessage(to'[j], r))
    <3>1. CASE i \in DOMAIN to /\ to'[i] = to[i] /\ j \in DOMAIN to /\ to'[j] = to[j]
      BY <2>5, <3>1 DEF IInv, UnusedReads, IsSupply
    <3>2. CASE i \in DOMAIN to /\ to'[i] = to[i] /\ to'[j] = m
      BY <2>4, <2>5, <3>2
    <3>3. CASE to'[i] = m /\ j \in DOMAIN to /\ to'[j] = to[j]
      BY <2>4, <2>5, <3>3
    <3> QED BY <1>8, <2>5, <3>1, <3>2, <3>3
  <2>6. ASSUME NEW r \in Read, r > made' \/ InSupply(to', r) \/ r \in InList(pool)'
        PROVE  Untouched(r)'
    <3>1. InMessage(m, r) => r > made
      BY <1>5, <1>7 DEF InMessage, Read
    <3>2. r > made' => r > made
      BY <1>2, <1>5, <1>6 DEF Read
    <3>3. Untouched(r)
      BY <1>8, <2>1, <2>6, <3>1, <3>2 DEF IInv, UnusedReads
    <3> QED BY <1>1, <1>3, <3>3 DEF Untouched, InList
  <2> QED BY <2>1, <2>3, <2>5, <2>6 DEF UnusedReads, IsSupply, InSupply
<1>13. SlotReads' /\ ActiveReads' /\ PlayableReads' /\ FileOpenWhileReading'
  BY <1>1 DEF IInv, SlotReads, Disposing, ActiveReads, HeldOnce, InList,
     PlayableReads, FileOpenWhileReading
<1>14. HandledRead'
  BY <1>1, <1>9 DEF IInv, HandledRead, InList
<1> QED BY <1>10, <1>11, <1>12, <1>13, <1>14 DEF IInv

LEMMA DeleteSupplyKeeps == ASSUME IInv, DeleteSupply PROVE IInv'
<1>1. UNCHANGED <<made, pool, deleted, state, aio, to, active, opens, dawPC, dawRead,
                  slots, enginePC, engineSlot, fault>>
  BY DEF DeleteSupply, dawVars, engineVars
<1>2. from # << >> /\ from' = Tail(from)
  BY DEF DeleteSupply
<1>3. from' \in Seq(FromMessage) /\ \A r : Carries(from', r) => Carries(from, r)
  BY <1>2, TailOfQueue, TailCarries DEF IInv, QueuesOK
<1>4. TypeOK'
  BY <1>1 DEF IInv, TypeOK, Made
<1>5. UnusedReads' /\ to' \in Seq(ToMessage)
  <2>1. \A r \in Read : Untouched(r) => Untouched(r)'
    BY <1>1, <1>3 DEF Untouched, InList, Carries
  <2> QED BY <1>1, <2>1, UnusedKept DEF IInv
<1>6. SlotReads' /\ HandledRead' /\ ActiveReads' /\ PlayableReads' /\ FileOpenWhileReading'
  BY <1>1 DEF IInv, SlotReads, Disposing, HandledRead, ActiveReads, HeldOnce,
     InList, PlayableReads, FileOpenWhileReading, Made
<1> QED BY <1>3, <1>4, <1>5, <1>6 DEF IInv, QueuesOK

\* A read that arrives has been asked for, and is not yet in the list when its
\* state says it is to be started.
LEMMA ReceiveKeeps == ASSUME IInv, Receive PROVE IInv'
<1> DEFINE r == Head(from).read
<1>1. UNCHANGED <<made, deleted, state, aio, to, active, opens, pool, slots, enginePC,
                  engineSlot>>
  BY DEF Receive, engineVars
<1>2. /\ dawPC = "idle" /\ from # << >> /\ from' = Tail(from)
      /\ Head(from).type = "ContinueProcess"
  BY DEF Receive
<1>3. /\ from' \in Seq(FromMessage) /\ Head(from) \in FromMessage
      /\ 1 \in DOMAIN from /\ Head(from) = from[1]
      /\ \A q : Carries(from', q) => Carries(from, q)
  BY <1>2, TailOfQueue, TailCarries DEF IInv, QueuesOK
<1>4. r \in Read /\ Carries(from, r)
  BY <1>2, <1>3 DEF FromMessage, ReadMessage, SupplyBack, Carries
<1> HIDE DEF r
<1>5. ~Untouched(r)
  BY <1>4 DEF Untouched
<1>6. r \in Made
  BY <1>4, <1>5, ReadAssumption DEF IInv, UnusedReads, TypeOK, Read, Made
<1>7. \/ fault' = TRUE /\ dawPC' = dawPC /\ dawRead' = dawRead
      \/ /\ r \notin deleted /\ dawRead' = r /\ fault' = fault
         /\ dawPC' = IF state[r] = "StartingRead" THEN "start" ELSE "check"
  BY DEF Receive, r
<1>8. TypeOK'
  <2>1. dawPC' \in {"idle", "start", "check"} /\ dawRead' \in Made' \cup {None}
        /\ fault' \in BOOLEAN
    BY <1>1, <1>6, <1>7 DEF IInv, TypeOK, Made
  <2> QED BY <1>1, <2>1 DEF IInv, TypeOK, Made
<1>9. UnusedReads' /\ QueuesOK'
  <2>1. \A q \in Read : Untouched(q) => Untouched(q)'
    BY <1>1, <1>3, <1>5, <1>7 DEF Untouched, InList
  <2> QED BY <1>1, <1>3, <2>1, UnusedKept DEF IInv, QueuesOK
<1>10. HandledRead'
  <2>1. state[r] = "StartingRead" => r \notin InList(active)
    BY DEF IInv, ActiveReads
  <2> QED BY <1>1, <1>2, <1>6, <1>7, <2>1 DEF IInv, HandledRead, Made, InList
<1>11. SlotReads' /\ ActiveReads' /\ PlayableReads' /\ FileOpenWhileReading'
  BY <1>1 DEF IInv, SlotReads, Disposing, ActiveReads, HeldOnce, InList,
     PlayableReads, FileOpenWhileReading
<1> QED BY <1>8, <1>9, <1>10, <1>11 DEF IInv

\* The read may have been disposed of before it is started: it is called Reading
\* again, but by then no slot has it.
LEMMA StartReadKeeps == ASSUME IInv, StartRead PROVE IInv'
<1> DEFINE r == dawRead
<1>1. UNCHANGED <<made, deleted, to, from, dawRead, pool, slots, enginePC, engineSlot,
                  fault>>
  BY DEF StartRead, engineVars
<1>2. /\ dawPC = "start" /\ dawPC' = "check" /\ opens' = opens + 1
      /\ aio' = [aio EXCEPT ![r] = "busy"] /\ state' = [state EXCEPT ![r] = "Reading"]
      /\ active' = <<r>> \o active
  BY DEF StartRead
<1>3. r \in Made /\ r \notin deleted /\ r \notin InList(active)
  BY <1>2 DEF IInv, HandledRead
<1>4. made \in 0 .. MaxReads /\ MaxReads \in Nat
  BY ReadAssumption DEF IInv, TypeOK
<1>5. r \in Read
  BY <1>3, <1>4 DEF Made, Read
<1>6. /\ active' \in Seq(Made) /\ Len(active') = Len(active) + 1
      /\ InList(active') = InList(active) \cup {r} /\ HeldOnce(active')
  BY <1>2, <1>3, Pushed DEF IInv, TypeOK, ActiveReads
<1>7. \A q \in Read : /\ state'[q] = IF q = r THEN "Reading" ELSE state[q]
                      /\ aio'[q] = IF q = r THEN "busy" ELSE aio[q]
  BY <1>2 DEF IInv, TypeOK
<1>8. TypeOK'
  <2>1. /\ opens' \in Nat
        /\ state' \in [Read -> {"Waiting", "StartingRead", "Reading", "Playing", "Done"}]
        /\ aio' \in [Read -> {"none", "busy", "whole", "short", "cancelled"}]
    <3>1. opens \in Nat
      BY DEF IInv, TypeOK
    <3>2. state \in [Read -> {"Waiting", "StartingRead", "Reading", "Playing", "Done"}]
      BY DEF IInv, TypeOK
    <3>3. aio \in [Read -> {"none", "busy", "whole", "short", "cancelled"}]
      BY DEF IInv, TypeOK
    <3>4. state' \in [Read -> {"Waiting", "StartingRead", "Reading", "Playing", "Done"}]
      BY <1>2, <3>2
    <3>5. aio' \in [Read -> {"none", "busy", "whole", "short", "cancelled"}]
      BY <1>2, <3>3
    <3>6. opens' \in Nat
      BY <1>2, <3>1
    <3> QED BY <3>4, <3>5, <3>6
  <2> QED BY <1>1, <1>2, <1>6, <2>1 DEF IInv, TypeOK, Made
<1>9. UnusedReads' /\ QueuesOK'
  <2>1. \A q \in Read : Untouched(q) => q # r
    BY DEF Untouched
  <2>2. InList(active)' = InList(active) \cup {r}
    BY <1>6 DEF InList
  <2>3. \A q \in Read : Untouched(q) => Untouched(q)'
    BY <1>1, <1>7, <2>1, <2>2 DEF Untouched, Carries
  <2> QED BY <1>1, <2>3, UnusedKept DEF IInv, QueuesOK
<1>10. SlotReads'
  <2>1. \A t \in Slot : slots[t] # None => slots[t] \in Read
    BY <1>4 DEF IInv, TypeOK, Made, Read
  <2> QED BY <1>1, <1>7, <2>1 DEF IInv, SlotReads, Disposing
<1>11. HandledRead'
  BY <1>1, <1>2, <1>3 DEF HandledRead, Made
<1>12. ActiveReads'
  <2>1. \A q \in InList(active) : q \in Read
    BY <1>4 DEF IInv, TypeOK, Made, Read, InList
  <2>2. InList(active)' = InList(active) \cup {r} /\ HeldOnce(active)'
    BY <1>6 DEF InList, HeldOnce
  <2> QED BY <1>1, <1>3, <1>5, <1>7, <2>1, <2>2 DEF IInv, ActiveReads
<1>13. PlayableReads'
  BY <1>7 DEF IInv, PlayableReads
<1>14. FileOpenWhileReading'
  BY <1>2, <1>6 DEF IInv, TypeOK, FileOpenWhileReading
<1> QED BY <1>8, <1>9, <1>10, <1>11, <1>12, <1>13, <1>14 DEF IInv

LEMMA StartFailsKeeps == ASSUME IInv, StartFails PROVE IInv'
<1>1. UNCHANGED <<made, deleted, state, aio, to, from, active, pool, slots, enginePC,
                  engineSlot, fault>>
  BY DEF StartFails, engineVars
<1>2. opens' \in {opens, opens + 1} /\ dawPC' = "idle" /\ dawRead' = None
  BY DEF StartFails
<1>3. TypeOK'
  BY <1>1, <1>2 DEF IInv, TypeOK, Made
<1>4. UnusedReads' /\ QueuesOK'
  <2>1. \A q \in Read : q # None
    BY ReadAssumption DEF Read
  <2>2. \A q \in Read : Untouched(q) => Untouched(q)'
    BY <1>1, <1>2, <2>1 DEF Untouched, InList, Carries
  <2> QED BY <1>1, <2>2, UnusedKept DEF IInv, QueuesOK
<1>5. SlotReads' /\ ActiveReads' /\ PlayableReads'
  BY <1>1 DEF IInv, SlotReads, Disposing, ActiveReads, HeldOnce, InList, PlayableReads
<1>6. HandledRead'
  BY <1>2 DEF HandledRead
<1>7. FileOpenWhileReading'
  BY <1>1, <1>2 DEF IInv, TypeOK, FileOpenWhileReading
<1> QED BY <1>3, <1>4, <1>5, <1>6, <1>7 DEF IInv

\* What is deleted was done with: it is in no slot but the one that is being
\* cleared, and it leaves the list.
LEMMA CheckDoneKeeps == ASSUME IInv, CheckDone PROVE IInv'
<1> DEFINE r == dawRead
<1>1. UNCHANGED <<made, state, to, from, opens, pool, slots, enginePC, engineSlot, fault>>
  BY DEF CheckDone, engineVars
<1>2. dawPC = "check" /\ dawPC' = "idle" /\ dawRead' = None
  BY DEF CheckDone
<1>3. \/ /\ state[r] = "Done" /\ deleted' = deleted \cup {r}
         /\ aio' = [aio EXCEPT ![r] = IF @ = "busy" THEN "cancelled" ELSE @]
         /\ active' = Without(active, r)
      \/ UNCHANGED <<deleted, aio, active>>
  BY DEF CheckDone
<1>4. r \in Made /\ made \in 0 .. MaxReads /\ MaxReads \in Nat
  BY <1>2, ReadAssumption DEF IInv, HandledRead, TypeOK
<1>5. r \in Read
  BY <1>4 DEF Made, Read
<1>6. /\ active' \in Seq(Made) /\ InList(active') \subseteq InList(active)
      /\ HeldOnce(active') /\ Len(active') <= Len(active)
      /\ deleted' # deleted => r \notin InList(active')
  <2>1. active \in Seq(Made) /\ HeldOnce(active) /\ Len(active) \in Nat
    BY DEF IInv, TypeOK, ActiveReads
  <2>2. CASE active' = Without(active, r)
    BY <2>1, <2>2, Removed
  <2>3. CASE UNCHANGED <<deleted, active>>
    BY <2>1, <2>3 DEF HeldOnce
  <2> QED BY <1>3, <2>2, <2>3
<1>7. \A q \in Read : aio'[q] = aio[q] \/ (q = r /\ state[r] = "Done" /\ deleted' # deleted)
                                       \/ (q = r /\ state[r] = "Done" /\ r \in deleted)
  BY <1>3, <1>5 DEF IInv, TypeOK
<1>8. r \notin deleted
  BY <1>2 DEF IInv, HandledRead
<1>9. TypeOK'
  <2>1. aio' \in [Read -> {"none", "busy", "whole", "short", "cancelled"}] /\ deleted' \subseteq Made
    BY <1>3, <1>4 DEF IInv, TypeOK
  <2> QED BY <1>1, <1>2, <1>6, <2>1 DEF IInv, TypeOK, Made
<1>10. UnusedReads' /\ QueuesOK'
  <2>1. \A q \in Read : Untouched(q) => q # r
    BY DEF Untouched
  <2>2. \A q \in Read : q # None
    BY ReadAssumption DEF Read
  <2>3. InList(active)' \subseteq InList(active)
    BY <1>6 DEF InList
  <2>4. \A q \in Read : Untouched(q) => Untouched(q)'
    BY <1>1, <1>2, <1>3, <2>1, <2>2, <2>3 DEF Untouched, Carries
  <2> QED BY <1>1, <2>4, UnusedKept DEF IInv, QueuesOK
<1>11. SlotReads'
  <2>1. \A t \in Slot : ~Disposing(t) /\ slots[t] # None => slots[t] \notin deleted'
    BY <1>3 DEF IInv, SlotReads
  <2> QED BY <1>1, <2>1 DEF IInv, SlotReads, Disposing
<1>12. HandledRead'
  BY <1>2 DEF HandledRead
<1>13. ActiveReads'
  <2>1. InList(active)' = InList(active') /\ HeldOnce(active)'
    BY <1>6 DEF InList, HeldOnce
  <2>2. \A q \in InList(active) : q \in Read
    BY <1>4 DEF IInv, TypeOK, Made, Read, InList
  <2>3. ASSUME NEW q \in InList(active')
        PROVE  q \notin deleted' /\ aio'[q] = aio[q]
    BY <1>3, <1>6, <1>7, <1>8, <2>2, <2>3 DEF IInv, ActiveReads
  <2> QED BY <1>1, <1>6, <2>1, <2>3 DEF IInv, ActiveReads
<1>14. PlayableReads'
  BY <1>1, <1>7 DEF IInv, PlayableReads
<1>15. FileOpenWhileReading'
  BY <1>1, <1>6 DEF IInv, TypeOK, FileOpenWhileReading
<1> QED BY <1>9, <1>10, <1>11, <1>12, <1>13, <1>14, <1>15 DEF IInv

\* The one that completes was going on, so all of it has come.
LEMMA CompleteKeeps ==
  ASSUME IInv, NEW r \in Read, Complete(r) PROVE IInv'
<1>1. UNCHANGED <<made, deleted, aio, from, dawPC, dawRead, pool, slots, enginePC,
                  engineSlot, fault>>
  BY DEF Complete, engineVars
<1>2. /\ dawPC = "idle" /\ r \in InList(active) /\ aio[r] # "busy"
      /\ opens' = Closed(opens) /\ state' = [state EXCEPT ![r] = "Playing"]
      /\ active' = Without(active, r) /\ to' = Sent(to, Continue(r), Capacity)
  BY DEF Complete, InList
<1>3. /\ aio[r] \in Ended /\ state[r] \in {"Reading", "Done"}
  BY <1>2 DEF IInv, ActiveReads
<1>4. /\ active' \in Seq(Made) /\ InList(active') = InList(active) \ {r}
      /\ HeldOnce(active') /\ Len(active') = Len(active) - 1
  BY <1>2, Removed DEF IInv, TypeOK, ActiveReads
<1>5. \A q \in Read : state'[q] = IF q = r THEN "Playing" ELSE state[q]
  BY <1>2 DEF IInv, TypeOK
<1>6. made \in 0 .. MaxReads /\ MaxReads \in Nat
  BY ReadAssumption DEF IInv, TypeOK
<1>7. TypeOK'
  <2>1. /\ opens' \in Nat
        /\ state' \in [Read -> {"Waiting", "StartingRead", "Reading", "Playing", "Done"}]
    <3>1. opens \in Nat => Closed(opens) \in Nat
      BY DEF Closed
    <3> QED BY <1>2, <3>1 DEF IInv, TypeOK
  <2> QED BY <1>1, <1>4, <2>1 DEF IInv, TypeOK, Made
<1>8. UnusedReads' /\ QueuesOK'
  <2>1. InList(active)' = InList(active) \ {r}
    BY <1>4 DEF InList
  <2>2. \A q \in Read : Untouched(q) => q # r
    BY <1>2 DEF Untouched
  <2>3. \A q \in Read : Untouched(q) => Untouched(q)'
    BY <1>1, <1>5, <2>1, <2>2 DEF Untouched, Carries
  <2> QED BY <1>1, <1>2, <2>3, UnusedKept DEF IInv, QueuesOK
<1>9. SlotReads'
  <2>1. \A t \in Slot : slots[t] # None => slots[t] \in Read
    BY <1>6 DEF IInv, TypeOK, Made, Read
  <2> QED BY <1>1, <1>5, <2>1 DEF IInv, SlotReads, Disposing
<1>10. HandledRead'
  BY <1>1, <1>2 DEF IInv, HandledRead
<1>11. ActiveReads'
  <2>1. InList(active)' = InList(active) \ {r} /\ HeldOnce(active)'
    BY <1>4 DEF InList, HeldOnce
  <2>2. \A q \in InList(active) : q \in Read
    BY <1>6 DEF IInv, TypeOK, Made, Read, InList
  <2> QED BY <1>1, <1>5, <2>1, <2>2 DEF IInv, ActiveReads
<1>12. PlayableReads'
  BY <1>1, <1>3, <1>5 DEF IInv, PlayableReads
<1>13. FileOpenWhileReading'
  BY <1>2, <1>4 DEF IInv, TypeOK, FileOpenWhileReading, Closed
<1> QED BY <1>7, <1>8, <1>9, <1>10, <1>11, <1>12, <1>13 DEF IInv

LEMMA ReadEndsKeeps ==
  ASSUME IInv, NEW r \in Read, ReadEnds(r) PROVE IInv'
<1>1. UNCHANGED <<made, deleted, state, to, from, active, opens, dawPC, dawRead, pool,
                  slots, enginePC, engineSlot, fault>>
  BY DEF ReadEnds, dawVars, engineVars
<1>2. PICK how \in Ended : aio' = [aio EXCEPT ![r] = how]
  BY DEF ReadEnds, Ended
<1>3. \A q \in Read : aio'[q] = IF q = r THEN how ELSE aio[q]
  BY <1>2 DEF IInv, TypeOK
<1>4. TypeOK'
  BY <1>1, <1>2 DEF IInv, TypeOK, Made, Ended
<1>5. UnusedReads' /\ QueuesOK'
  <2>1. \A q \in Read : Untouched(q) => Untouched(q)'
    BY <1>1 DEF Untouched, InList, Carries
  <2> QED BY <1>1, <2>1, UnusedKept DEF IInv, QueuesOK
<1>6. SlotReads' /\ HandledRead' /\ FileOpenWhileReading'
  BY <1>1 DEF IInv, SlotReads, Disposing, HandledRead, FileOpenWhileReading, Made, InList
<1>7. ActiveReads'
  <2>1. \A q \in InList(active) : q \in Read
    BY ReadAssumption DEF IInv, TypeOK, Made, Read, InList
  <2> QED BY <1>1, <1>3, <2>1 DEF IInv, ActiveReads, HeldOnce, InList
<1>8. PlayableReads'
  BY <1>1, <1>3 DEF IInv, PlayableReads
<1> QED BY <1>4, <1>5, <1>6, <1>7, <1>8 DEF IInv

-----------------------------------------------------------------------------
(* What is always true.                                                    *)

LEMMA NextIInv == ASSUME IInv, [Next]_vars PROVE IInv'
<1>1. CASE Crashed \/ UNCHANGED vars
  <2>1. UNCHANGED vars
    BY <1>1 DEF Crashed
  <2> QED BY <2>1 DEF vars, IInv, TypeOK, Made, QueuesOK, UnusedReads, IsSupply, HeldOnce,
             InSupply, InList, Untouched, Carries, SlotReads, Disposing, HandledRead,
             ActiveReads, PlayableReads, FileOpenWhileReading
<1>2. CASE Engine
  BY <1>2, TakeSupplyKeeps, TakeReadKeeps, AskForMoreKeeps, RequestReadKeeps,
     DisposeKeeps, DisposeSendKeeps DEF Engine
<1>3. CASE Daw
  BY <1>3, MakeMoreKeeps, DeleteSupplyKeeps, ReceiveKeeps, StartReadKeeps, StartFailsKeeps, CheckDoneKeeps,
     CompleteKeeps DEF Daw
<1>4. CASE \E r \in Read : ReadEnds(r)
  BY <1>4, ReadEndsKeeps
<1> QED BY <1>1, <1>2, <1>3, <1>4 DEF Next, Running

LEMMA Invariant == Spec => []IInv
BY InitIInv, NextIInv, PTL DEF Spec

\* The DAW thread deletes no read that a clip or the stack of the engine holds
\* (AudioFileRead::next(), ~AudioFileRead()), for any number of reads and slots
\* and queues of any length that may drop what they are sent.
THEOREM HeldReadsLive == Spec => []EngineReadsAlive
<1>1. IInv => EngineReadsAlive
  <2> SUFFICES ASSUME IInv, NEW r \in InSlots \cup InList(pool) PROVE r \notin deleted
    BY DEF EngineReadsAlive
  <2>1. CASE r \in InSlots
    <3>1. PICK s \in Slot : s # engineSlot /\ r = slots[s] /\ r # None
      BY <2>1 DEF InSlots
    <3> QED BY <3>1 DEF IInv, SlotReads, Disposing
  <2>2. CASE r \in InList(pool)
    <3>1. r \in Read
      BY <2>2, ReadAssumption DEF IInv, TypeOK, InList, Made, Read
    <3> QED BY <2>2, <3>1 DEF IInv, UnusedReads, Untouched
  <2> QED BY <2>1, <2>2
<1> QED BY <1>1, Invariant, PTL

\* DAW::handle_file_reads() polls no read that has been deleted: the destructor
\* takes it out of the list.
THEOREM PolledReadsLive == Spec => []ActiveReadsAlive
<1>1. IInv => ActiveReadsAlive
  BY DEF IInv, ActiveReads, ActiveReadsAlive
<1> QED BY <1>1, Invariant, PTL

\* The kernel is done with every read that the engine may play, and writes no
\* more into its buffer, though the DAW thread assigns `state' without looking at
\* what the engine has made of it (AudioFileRead::read_is_complete()).  That the
\* read has brought its data is not said: a failed or short one is played too.
THEOREM PlayedReadsHaveEnded == Spec => []PlayableHasEnded
<1>1. IInv => PlayableHasEnded
  <2> SUFFICES ASSUME IInv, NEW r \in InSlots, state[r] = "Playing"
               PROVE  aio[r] \in Ended
    BY DEF PlayableHasEnded, Ended
  <2>1. r \in Read
    BY ReadAssumption DEF IInv, TypeOK, InSlots, Made, Read
  <2> QED BY <2>1 DEF IInv, PlayableReads
<1> QED BY <1>1, Invariant, PTL

\* The audio file stays open while a read of it goes on, whichever of its reads
\* are cancelled or fail to start.
THEOREM FileStaysOpen == Spec => []FileOpenWhileReading
<1>1. IInv => FileOpenWhileReading
  BY DEF IInv
<1> QED BY <1>1, Invariant, PTL

\* As many elements as places, when none comes twice.
LEMMA CountOfList ==
  ASSUME NEW S, NEW list \in Seq(S), HeldOnce(list)
  PROVE  Cardinality(InList(list)) = Len(list)
<1>1. Len(list) \in Nat /\ DOMAIN list = 1 .. Len(list) /\ list \in [1 .. Len(list) -> S]
  OBVIOUS
<1>2. list \in [1 .. Len(list) -> InList(list)]
  BY <1>1 DEF InList
<1>3. list \in Bijection(1 .. Len(list), InList(list))
  BY <1>1, <1>2 DEF Bijection, Injection, Surjection, IsInjective, HeldOnce, InList
<1>4. ExistsBijection(1 .. Len(list), InList(list))
  BY <1>3 DEF ExistsBijection
<1>5. IsFiniteSet(1 .. Len(list)) /\ Cardinality(1 .. Len(list)) = Len(list)
  BY <1>1, FS_Interval
<1> QED BY <1>4, <1>5, FS_Bijection

\* No read is in two slots, or in a slot and on the stack, or on the stack twice:
\* what Clip::start_read() takes, nobody else has.
THEOREM ReadsHaveOneHolder == Spec => []OneHolder
<1>1. IInv => OneHolder
  <2> SUFFICES ASSUME IInv PROVE OneHolder
    OBVIOUS
  <2>1. InSlots \cap InList(pool) = {}
    <3> SUFFICES ASSUME NEW r \in InSlots, r \in InList(pool) PROVE FALSE
      OBVIOUS
    <3>1. r \in Read
      BY ReadAssumption DEF IInv, TypeOK, InList, Made, Read
    <3> QED BY <3>1 DEF IInv, UnusedReads, Untouched, InSlots
  <2>2. Cardinality(InList(pool)) = Len(pool)
    BY CountOfList DEF IInv, TypeOK, UnusedReads
  <2> QED BY <2>1, <2>2 DEF IInv, SlotReads, OneHolder
<1> QED BY <1>1, Invariant, PTL
=============================================================================
