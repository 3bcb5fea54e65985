---------------------------- MODULE RecordingProofs ----------------------------
(***************************************************************************)
(* For any number of takes, commands and record buffers and any length of  *)
(* the queues: what the engine captures is what the files hold, what the   *)
(* headers say and what the clips expect, each record buffers object has   *)
(* one holder, and the UI is told what the engine does.  And the bytes:    *)
(* samples come back from them as they were, beside whatever other         *)
(* channels are put between them, and what is recorded is heard.           *)
(***************************************************************************)
EXTENDS Recording, SampleConversion, FiniteSetTheorems, SequenceTheorems, TLAPS

Frame == Take \X Nat

BuffersMessage == [type : {"Continue"}, buffers : Buffers]
ToMessage == BuffersMessage \cup [type : {"StartRecording"}, take : Take]
               \cup [type : {"Transport"}, command : Command]
FromMessage == BuffersMessage \cup [type : {"Started"}, take : Take]
                 \cup [type : {"RecordingStopped"}, take : Take]
                 \cup [type : {"RecordingCheckpoint"}]

Types ==
  /\ TypeOK
  /\ to \in Seq(ToMessage) /\ from \in Seq(FromMessage)
  /\ free \in Seq(Buffers) /\ deleted \subseteq Buffers
  /\ state \in [Buffers -> {"Filling", "Writing", "Resupplying", "Disposing",
                            "Done"}]
  /\ data \in [Buffers -> Frame \cup {None}]
  /\ \A b \in Buffers : state[b] = "Writing" => data[b] \in Frame
  /\ content \in [Take -> Seq(Frame)] /\ captured \in [Take -> Seq(Frame)]
  /\ exhausted \in [Take -> Nat]

-----------------------------------------------------------------------------
(* What is inductive, part by part: each needs those before it.            *)

\* A take that the engine has not begun.
Ahead(t) == current = None \/ t > current
Starts(i) == to[i].type = "StartRecording"

\* The engine begins takes in the order in which the DAW did.
TakesInOrder ==
  /\ \A i \in DOMAIN to : Starts(i) => to[i].take <= takes /\ Ahead(to[i].take)
  /\ \A i, j \in DOMAIN to :
       i < j /\ Starts(i) /\ Starts(j) => to[i].take < to[j].take
  /\ recording => current # None
  /\ enginePC = "finish" => recording
  /\ \A i \in DOMAIN from : from[i].type \in {"Started", "RecordingStopped"} =>
       ~Ahead(from[i].take)

\* A clip has not skipped anything before its take is finished.
NoneSkipped == /\ recording => start[current] = 0
               /\ \A t \in Take : Ahead(t) => start[t] = 0

Order == Types /\ TakesInOrder /\ NoneSkipped

\* The state of a record buffers object says where it is; where it is, it is
\* once.  Those of a take that has not begun are nowhere but in its supply.
IsBuffers(queue, i) == queue[i].type = "Continue"
OnceIn(queue) ==
  \A i, j \in DOMAIN queue : IsBuffers(queue, i) /\ queue[i] = queue[j] => i = j
Holders ==
  /\ \A i, j \in DOMAIN free : free[i] = free[j] => i = j
  /\ OnceIn(to) /\ OnceIn(from)
  /\ \A i \in DOMAIN free : state[free[i]] = "Filling"
  /\ \A i \in DOMAIN to : IsBuffers(to, i) => state[to[i].buffers] = "Resupplying"
  /\ \A i \in DOMAIN from :
       IsBuffers(from, i) => state[from[i].buffers] \in {"Writing", "Disposing"}
  /\ \A b \in deleted : state[b] = "Done"
  /\ \A t \in Take : Ahead(t) => \A b \in Elements(Supply(t)) :
       state[b] = "Resupplying" /\ \A i \in DOMAIN to : to[i] # Continue(b)

\* Without a loss each has a holder.
InQueue(queue, m) == \E i \in DOMAIN queue : queue[i] = m
HasHolder(t, b) == \/ b \in deleted \/ IsFree(b)
                   \/ InQueue(to, Continue(b)) \/ InQueue(from, Continue(b))
                   \/ InQueue(to, StartRecording(t))
NoneLost ==
  ~dropped => \A t \in 1 .. takes : \A b \in Elements(Supply(t)) : HasHolder(t, b)

\* A frame on its way to be written, and word on its way that a take is over.
Writes(i, f) == /\ i \in DOMAIN from /\ IsBuffers(from, i)
                /\ state[from[i].buffers] = "Writing"
                /\ data[from[i].buffers] = f
Stops(i, t) == i \in DOMAIN from /\ from[i] = Stopped(t)
OnItsWay(f) == \E i \in Nat : Writes(i, f)

InCapture(f) == \E k \in DOMAIN captured[f[1]] : captured[f[1]][k] = f

\* Frames are captured, sent and written in the order of time.
InTime(frames) == \A i, j \in DOMAIN frames : i < j => Earlier(frames[i], frames[j])
AfterContent(f) ==
  \A t \in Take : \A k \in DOMAIN content[t] : Earlier(content[t][k], f)
Captures == /\ \A t \in Take : InTime(captured[t])
            /\ \A t \in Take : \A k \in DOMAIN captured[t] :
                 captured[t][k][1] = t /\ captured[t][k][2] <= TurnsOf(t)
            /\ \A t \in Take : Ahead(t) => TurnsOf(t) = 0
FramesInOrder ==
  /\ Captures
  /\ \A t \in Take : InTime(content[t])
  /\ \A t \in Take : \A k \in DOMAIN content[t] : InCapture(content[t][k])
  /\ \A i \in Nat, f \in Frame : Writes(i, f) => InCapture(f) /\ AfterContent(f)
  /\ \A i, j \in Nat, f, g \in Frame :
       i < j /\ Writes(i, f) /\ Writes(j, g) => Earlier(f, g)

\* Of two takes that are not over both have been overlapped, and a take that
\* was not disturbed has its file open until it is over.
OneOpen ==
  /\ \A t, u \in (1 .. takes) \ over : t # u => t \in overlapped
  /\ file \notin over
  /\ \A t \in clips \ over : Undisturbed(t) => file = t

\* When the DAW hears that a take is over, once, nothing of it is still to be
\* written and nothing will be.
EndsLast ==
  /\ recording => current \notin over
  /\ \A t \in over : ~Ahead(t)
  /\ \A t \in over : \A i \in Nat, f \in Frame : Writes(i, f) => f[1] # t
  /\ \A i \in Nat, t \in Take : Stops(i, t) =>
       /\ t \notin over
       /\ recording => t # current
       /\ \A j \in Nat : i < j => ~Stops(j, t)
       /\ \A j \in Nat, f \in Frame : i < j /\ Writes(j, f) => f[1] # t

\* What has been captured of an undisturbed take is in its file or will be.
NothingMissed ==
  /\ \A t \in Take : t > takes => content[t] = << >>
  /\ \A t \in clips : Undisturbed(t) =>
       /\ Len(content[t]) <= Len(captured[t])
       /\ \A k \in DOMAIN content[t] : content[t][k] = captured[t][k]
       /\ \A k \in DOMAIN captured[t] :
            k > Len(content[t]) => OnItsWay(captured[t][k])

\* A header lags behind its file until this is closed.
Headers ==
  \A t \in Take :
    /\ header[t] <= Len(content[t])
    /\ riff[t] \in {0, RiffSize(header[t])}
    /\ t \in clips \cap over /\ Undisturbed(t) =>
         header[t] = Len(content[t]) /\ riff[t] = RiffSize(header[t])

\* A clip has grown with each turn of its take, and what it skips is no more
\* than the turns that the engine goes on after the stop.
ClipsFit ==
  /\ \A t \in clips : start[t] + length[t] = TurnsOf(t)
  /\ \A t \in Take : /\ length[t] >= 0
                     /\ Ahead(t) => length[t] = 0
  /\ recording /\ countdown > 0 => TurnsOf(current) + countdown >= Offset + 1
  /\ enginePC = "finish" => TurnsOf(current) >= Offset

\* The last message on its way to the UI says what the engine does.
Tells(i) == from[i].type \in {"Started", "RecordingStopped"}
Told(m) == IF m.type = "Started" THEN m.take ELSE None
Shown == IF recording THEN current ELSE None
UiIsTold ==
  ~dropped =>
    /\ (\A i \in DOMAIN from : ~Tells(i)) => uiTake = Shown
    /\ \A i \in DOMAIN from :
         Tells(i) /\ (\A j \in DOMAIN from : i < j => ~Tells(j)) =>
           Told(from[i]) = Shown

-----------------------------------------------------------------------------
(* Queues and messages.                                                    *)

LEMMA TailOfQueue ==
  ASSUME NEW S, NEW q \in Seq(S), q # << >>
  PROVE  /\ Tail(q) \in Seq(S)
         /\ Len(Tail(q)) = Len(q) - 1
         /\ Len(q) \in Nat \ {0}
         /\ 1 \in DOMAIN q /\ Head(q) = q[1] /\ q[1] \in S
         /\ \A i \in DOMAIN Tail(q) :
              /\ i \in Nat \ {0}
              /\ i + 1 \in DOMAIN q
              /\ Tail(q)[i] = q[i + 1]
         /\ \A i \in DOMAIN q : i # 1 =>
              /\ i - 1 \in DOMAIN Tail(q)
              /\ Tail(q)[i - 1] = q[i]
OBVIOUS

\* What SentAll() keeps and what it adds.
LEMMA SentToQueue ==
  ASSUME NEW S, NEW q \in Seq(S), NEW messages \in Seq(S), Len(q) <= Capacity
  PROVE  LET p == SentAll(q, messages) IN
         /\ p \in Seq(S) /\ Len(p) <= Capacity /\ Len(q) \in Nat
         /\ \A i \in DOMAIN q : i \in Nat \ {0} /\ i <= Len(q)
         /\ \A i \in DOMAIN q : i \in DOMAIN p /\ p[i] = q[i]
         /\ \A i \in DOMAIN p :
              /\ i \in Nat \ {0}
              /\ \/ i \in DOMAIN q /\ p[i] = q[i]
                 \/ /\ i \notin DOMAIN q /\ i > Len(q)
                    /\ i - Len(q) \in DOMAIN messages
                    /\ p[i] = messages[i - Len(q)]
         /\ ~Overfull(q, messages) => \A i \in DOMAIN messages :
              /\ Len(q) + i \in DOMAIN p
              /\ p[Len(q) + i] = messages[i]
<1> DEFINE p == SentAll(q, messages)
           all == q \o messages
           sum == Len(q) + Len(messages)
           n == IF sum < Capacity THEN sum ELSE Capacity
<1>1. /\ Len(q) \in Nat /\ Len(messages) \in Nat /\ Capacity \in Nat
      /\ DOMAIN q = 1 .. Len(q) /\ DOMAIN messages = 1 .. Len(messages)
  BY RecordingAssumption
<1>2. /\ all \in Seq(S) /\ Len(all) = Len(q) + Len(messages)
      /\ \A i \in 1 .. Len(q) + Len(messages) :
           all[i] = IF i <= Len(q) THEN q[i] ELSE messages[i - Len(q)]
  BY ConcatProperties
<1>3. n \in Nat /\ n <= Capacity /\ n <= Len(all) /\ Len(q) <= n
  BY <1>1, <1>2
<1>4. p = SubSeq(all, 1, n)
  BY <1>2 DEF SentAll
<1>5. ~Overfull(q, messages) => n = Len(q) + Len(messages)
  BY <1>1 DEF Overfull
<1> HIDE DEF all, n, sum, p
<1>6. p \in Seq(S) /\ Len(p) = n /\ DOMAIN p = 1 .. n
      /\ \A i \in 1 .. n : p[i] = all[i]
  BY <1>2, <1>3, <1>4
<1>7. \A i \in 1 .. n : p[i] = IF i <= Len(q) THEN q[i] ELSE messages[i - Len(q)]
  BY <1>1, <1>2, <1>3, <1>6
<1>8. \A i \in DOMAIN q : i \in DOMAIN p /\ p[i] = q[i] /\ i \in Nat \ {0} /\ i <= Len(q)
  BY <1>1, <1>3, <1>6, <1>7
<1>9. ASSUME NEW i \in DOMAIN p
      PROVE  /\ i \in Nat \ {0}
             /\ \/ i \in DOMAIN q /\ p[i] = q[i]
                \/ /\ i \notin DOMAIN q /\ i > Len(q)
                   /\ i - Len(q) \in DOMAIN messages
                   /\ p[i] = messages[i - Len(q)]
  BY <1>1, <1>2, <1>3, <1>6, <1>7
<1>10. ~Overfull(q, messages) => \A i \in DOMAIN messages :
         Len(q) + i \in DOMAIN p /\ p[Len(q) + i] = messages[i]
  <2> SUFFICES ASSUME ~Overfull(q, messages), NEW i \in DOMAIN messages
               PROVE  Len(q) + i \in DOMAIN p /\ p[Len(q) + i] = messages[i]
    OBVIOUS
  <2>1. /\ Len(q) + i \in 1 .. n /\ ~(Len(q) + i <= Len(q))
        /\ (Len(q) + i) - Len(q) = i
    BY <1>1, <1>5
  <2> QED BY <1>6, <1>7, <2>1
<1>11. p = SentAll(q, messages)
  BY DEF p
<1> QED BY <1>1, <1>3, <1>6, <1>8, <1>9, <1>10, <1>11

LEMMA SentOne ==
  ASSUME NEW S, NEW q \in Seq(S), NEW m \in S, Len(q) <= Capacity
  PROVE  LET p == SentAll(q, <<m>>) IN
         /\ p \in Seq(S) /\ Len(p) <= Capacity /\ Len(q) \in Nat
         /\ \A i \in DOMAIN q : i \in Nat \ {0} /\ i <= Len(q)
         /\ \A i \in DOMAIN q : i \in DOMAIN p /\ p[i] = q[i]
         /\ \A i \in DOMAIN p :
              /\ i \in Nat \ {0}
              /\ \/ i \in DOMAIN q /\ p[i] = q[i]
                 \/ i \notin DOMAIN q /\ i = Len(q) + 1 /\ p[i] = m
         /\ ~Overfull(q, <<m>>) => InQueue(p, m)
<1> DEFINE messages == <<m>>
           p == SentAll(q, messages)
<1>1. /\ messages \in Seq(S) /\ DOMAIN messages = {1} /\ messages[1] = m
  OBVIOUS
<1>2. p = SentAll(q, <<m>>) /\ p = SentAll(q, messages)
  OBVIOUS
<1>3. Overfull(q, <<m>>) = Overfull(q, messages)
  OBVIOUS
<1> HIDE DEF messages, p
<1>4. /\ p \in Seq(S) /\ Len(p) <= Capacity /\ Len(q) \in Nat
      /\ \A i \in DOMAIN q : i \in Nat \ {0} /\ i <= Len(q)
      /\ \A i \in DOMAIN q : i \in DOMAIN p /\ p[i] = q[i]
  <2>1. p \in Seq(S) /\ Len(p) <= Capacity /\ Len(q) \in Nat
    BY <1>1, <1>2, SentToQueue
  <2>2. \A i \in DOMAIN q : i \in Nat \ {0} /\ i <= Len(q)
    BY <1>1, <1>2, SentToQueue
  <2>3. \A i \in DOMAIN q : i \in DOMAIN p /\ p[i] = q[i]
    BY <1>1, <1>2, SentToQueue
  <2> QED BY <2>1, <2>2, <2>3
<1>5. ASSUME NEW i \in DOMAIN p
      PROVE  /\ i \in Nat \ {0}
             /\ \/ i \in DOMAIN q /\ p[i] = q[i]
                \/ i \notin DOMAIN q /\ i = Len(q) + 1 /\ p[i] = m
  <2>1. /\ i \in Nat \ {0}
        /\ \/ i \in DOMAIN q /\ p[i] = q[i]
           \/ /\ i \notin DOMAIN q /\ i > Len(q)
              /\ i - Len(q) \in DOMAIN messages
              /\ p[i] = messages[i - Len(q)]
    BY <1>1, <1>2, SentToQueue
  <2> QED BY <1>1, <1>4, <2>1
<1>6. ~Overfull(q, messages) => Len(q) + 1 \in DOMAIN p /\ p[Len(q) + 1] = m
  <2>1. ~Overfull(q, messages) => \A i \in DOMAIN messages :
          /\ Len(q) + i \in DOMAIN p
          /\ p[Len(q) + i] = messages[i]
    BY <1>1, <1>2, SentToQueue
  <2> QED BY <1>1, <2>1
<1> QED BY <1>2, <1>3, <1>4, <1>5, <1>6 DEF InQueue

LEMMA Messages ==
  /\ \A t \in Take : /\ StartRecording(t) \in ToMessage
                     /\ Started(t) \in FromMessage /\ Stopped(t) \in FromMessage
  /\ \A b \in Buffers : Continue(b) \in ToMessage /\ Continue(b) \in FromMessage
  /\ \A c \in Command : Transport(c) \in ToMessage
  /\ Checkpoint \in FromMessage
BY DEF StartRecording, Started, Stopped, Continue, Transport, Checkpoint,
       ToMessage, FromMessage, BuffersMessage

\* What the types of messages say about them.
LEMMA MessageTypes ==
  /\ \A m \in ToMessage : /\ m.type = "StartRecording" => m.take \in Take /\ m = StartRecording(m.take)
                          /\ m.type = "Continue" => m.buffers \in Buffers /\ m = Continue(m.buffers)
                          /\ m.type = "Transport" => m.command \in Command
  /\ \A m \in FromMessage :
       /\ m.type \in {"Started", "RecordingStopped"} => m.take \in Take
       /\ m.type = "Continue" => m.buffers \in Buffers /\ m = Continue(m.buffers)
BY DEF StartRecording, Continue, ToMessage, FromMessage, BuffersMessage

\* The supply of a take.
LEMMA SupplyOf ==
  ASSUME NEW t \in Take
  PROVE  /\ Supply(t) \in Seq(Buffers) /\ Len(Supply(t)) = NumBuffers
         /\ DOMAIN Supply(t) = 1 .. NumBuffers
         /\ \A i \in 1 .. NumBuffers : Supply(t)[i] = t * NumBuffers + 1 - i
         /\ Elements(Supply(t)) \subseteq Buffers
         /\ \A i, j \in DOMAIN Supply(t) : Supply(t)[i] = Supply(t)[j] => i = j
<1>1. NumBuffers \in Nat /\ MaxTakes \in Nat /\ t \in Nat \ {0} /\ t <= MaxTakes
  BY RecordingAssumption DEF Take
<1>2. t * NumBuffers \in Nat /\ t * NumBuffers <= MaxTakes * NumBuffers
      /\ NumBuffers <= t * NumBuffers /\ MaxTakes * NumBuffers \in Nat
  <2>1. /\ (MaxTakes - t) * NumBuffers \in Nat /\ (t - 1) * NumBuffers \in Nat
        /\ t * NumBuffers \in Nat /\ MaxTakes * NumBuffers \in Nat
    BY <1>1
  <2>2. (MaxTakes - t) * NumBuffers = MaxTakes * NumBuffers - t * NumBuffers
    BY <1>1
  <2>3. (t - 1) * NumBuffers = t * NumBuffers - NumBuffers
    BY <1>1
  <2> QED BY <1>1, <2>1, <2>2, <2>3
<1>3. \A i \in 1 .. NumBuffers : t * NumBuffers + 1 - i \in Buffers
  BY <1>1, <1>2 DEF Buffers
<1>4. /\ DOMAIN Supply(t) = 1 .. NumBuffers
      /\ \A i \in 1 .. NumBuffers : Supply(t)[i] = t * NumBuffers + 1 - i
  BY DEF Supply
<1>5. Supply(t) \in Seq(Buffers) /\ Len(Supply(t)) = NumBuffers
  BY <1>1, <1>3 DEF Supply
<1>6. \A i, j \in DOMAIN Supply(t) : Supply(t)[i] = Supply(t)[j] => i = j
  BY <1>1, <1>2, <1>4
<1>7. Elements(Supply(t)) \subseteq Buffers
  BY <1>3, <1>4 DEF Elements
<1> QED BY <1>4, <1>5, <1>6, <1>7

LEMMA SuppliesApart ==
  ASSUME NEW t \in Take, NEW u \in Take, t # u
  PROVE  Elements(Supply(t)) \cap Elements(Supply(u)) = {}
<1> DEFINE Apart(a, b) == \A x \in Elements(Supply(a)), y \in Elements(Supply(b)) : x < y
<1>1. ASSUME NEW a \in Take, NEW b \in Take, a < b PROVE Apart(a, b)
  <2>1. NumBuffers \in Nat /\ a \in Nat /\ b \in Nat
    BY RecordingAssumption DEF Take
  <2>2. a * NumBuffers \in Nat /\ b * NumBuffers \in Nat
        /\ a * NumBuffers <= b * NumBuffers - NumBuffers
    <3>1. (b - a - 1) * NumBuffers \in Nat
      BY <1>1, <2>1
    <3>2. (b - a - 1) * NumBuffers = b * NumBuffers - a * NumBuffers - NumBuffers
      BY <2>1
    <3>3. a * NumBuffers \in Nat /\ b * NumBuffers \in Nat
      BY <2>1
    <3> QED BY <2>1, <3>1, <3>2, <3>3
  <2>3. ASSUME NEW i \in 1 .. NumBuffers, NEW j \in 1 .. NumBuffers
        PROVE  a * NumBuffers + 1 - i < b * NumBuffers + 1 - j
    BY <2>1, <2>2
  <2> QED BY <2>3, SupplyOf DEF Elements
<1>2. \A x \in Buffers : x \in Nat
  BY DEF Buffers
<1>3. t < u \/ u < t
  BY DEF Take
<1>4. Apart(t, u) \/ Apart(u, t)
  BY <1>1, <1>3
<1> QED BY <1>2, <1>4, SupplyOf

-----------------------------------------------------------------------------
(* Types, and takes in their order.                                        *)

\* What dispose_record_buffers() sends.
LEMMA DisposedIs ==
  ASSUME Types
  PROVE  /\ Disposed \in Seq(FromMessage)
         /\ DOMAIN Disposed = DOMAIN free /\ Len(Disposed) = Len(free)
         /\ \A i \in DOMAIN free : Disposed[i] = Continue(free[i])
<1>1. free \in Seq(Buffers) /\ Len(free) \in Nat /\ DOMAIN free = 1 .. Len(free)
  BY DEF Types
<1>2. \A i \in 1 .. Len(free) : Continue(free[i]) \in FromMessage
  BY <1>1, Messages
<1> QED BY <1>1, <1>2 DEF Disposed

\* The takes that are spoken of.
LEMMA TakesAre ==
  ASSUME Types
  PROVE  /\ takes \in Nat /\ 1 .. takes \subseteq Take
         /\ {file, uiTake, current} \subseteq Take \cup {None}
         /\ clips \cup over \cup overlapped \cup disarmed \cup replaced \subseteq Take
         /\ None \notin Take
         /\ \A t \in Take : t \in Nat \ {0}
         /\ \A t \in Take : /\ captured[t] \in Seq(Frame) /\ content[t] \in Seq(Frame)
                           /\ exhausted[t] \in Nat /\ TurnsOf(t) \in Nat
<1>1. takes \in Nat /\ 1 .. takes \subseteq Take
  BY RecordingAssumption DEF Types, TypeOK, Take
<1>2. /\ {file, uiTake, current} \subseteq 1 .. takes \cup {None}
      /\ clips \cup over \cup overlapped \cup disarmed \cup replaced \subseteq 1 .. takes
  BY DEF Types, TypeOK
<1>3. None \notin Take /\ \A t \in Take : t \in Nat \ {0}
  BY RecordingAssumption DEF Take
<1>4. \A t \in Take : /\ captured[t] \in Seq(Frame) /\ content[t] \in Seq(Frame)
                     /\ exhausted[t] \in Nat /\ TurnsOf(t) \in Nat
  BY DEF Types, TurnsOf
<1> QED BY <1>1, <1>2, <1>3, <1>4

\* What "record" does to the files: nothing, or it begins them anew.
LEMMA RecordFiles ==
  ASSUME Types, Record
  PROVE  /\ content' \in [Take -> Seq(Frame)]
         /\ header' \in [Take -> Nat] /\ riff' \in [Take -> Int]
         /\ replaced \subseteq replaced' /\ replaced' \subseteq 1 .. takes
         /\ second' \in 1 .. takes' + 1
         /\ \A t \in Take :
              \/ /\ content'[t] = content[t] /\ header'[t] = header[t]
                 /\ riff'[t] = riff[t]
              \/ /\ t \in replaced' /\ content'[t] = << >>
                 /\ header'[t] = 0 /\ riff'[t] = 0
<1>1. PICK opened, sameSecond \in BOOLEAN :
        /\ second' = IF sameSecond THEN second ELSE takes + 1
        /\ IF opened THEN OpenFile(sameSecond)
                     ELSE UNCHANGED <<content, header, riff, replaced>>
  BY DEF Record
<1>2. /\ takes \in Nat /\ takes' = takes + 1 /\ second \in 1 .. takes + 1
      /\ replaced \subseteq 1 .. takes
  BY TakesAre DEF Record, Types, TypeOK
<1>3. second' \in 1 .. takes' + 1
  BY <1>1, <1>2
<1>4. CASE ~opened
  BY <1>1, <1>2, <1>3, <1>4 DEF Types, TypeOK
<1>5. CASE opened
  <2> DEFINE again == (IF sameSecond THEN second ELSE takes + 1) .. takes
  <2>1. /\ content' = [t \in Take |-> IF t \in again THEN << >> ELSE content[t]]
        /\ header' = [t \in Take |-> IF t \in again THEN 0 ELSE header[t]]
        /\ riff' = [t \in Take |-> IF t \in again THEN 0 ELSE riff[t]]
        /\ replaced' = replaced \cup again
    BY <1>1, <1>5 DEF OpenFile
  <2>2. again \subseteq 1 .. takes
    BY <1>2
  <2> HIDE DEF again
  <2>3. << >> \in Seq(Frame) /\ 0 \in Nat /\ 0 \in Int
    OBVIOUS
  <2>4. /\ content' \in [Take -> Seq(Frame)]
        /\ header' \in [Take -> Nat] /\ riff' \in [Take -> Int]
    BY <2>1, <2>3 DEF Types, TypeOK
  <2>5. \A t \in Take :
          \/ /\ content'[t] = content[t] /\ header'[t] = header[t]
             /\ riff'[t] = riff[t]
          \/ /\ t \in replaced' /\ content'[t] = << >>
             /\ header'[t] = 0 /\ riff'[t] = 0
    BY <2>1
  <2> QED BY <1>2, <1>3, <2>1, <2>2, <2>4, <2>5
<1> QED BY <1>4, <1>5

\* What update_wav_file_size() writes.
LEMMA SizesUpdated ==
  ASSUME Types, UpdateFileSize
  PROVE  /\ header' \in [Take -> Nat] /\ riff' \in [Take -> Int]
         /\ \A t \in Take : t # file => header'[t] = header[t] /\ riff'[t] = riff[t]
         /\ \A t \in Take : t = file => /\ header'[t] = Len(content[t])
                                       /\ riff'[t] = RiffSize(Len(content[t]))
<1>1. CASE file = None
  BY <1>1, TakesAre DEF UpdateFileSize, Types, TypeOK
<1>2. CASE file # None
  <2>1. file \in Take /\ Len(content[file]) \in Nat
    BY <1>2, TakesAre
  <2>2. RiffSize(Len(content[file])) \in Int
    BY <2>1, RecordingAssumption DEF RiffSize
  <2>3. /\ header' = [header EXCEPT ![file] = Len(content[file])]
        /\ riff' = [riff EXCEPT ![file] = RiffSize(Len(content[file]))]
        /\ header \in [Take -> Nat] /\ riff \in [Take -> Int]
    BY <1>2 DEF UpdateFileSize, Types, TypeOK
  <2> QED BY <2>1, <2>2, <2>3
<1> QED BY <1>1, <1>2

LEMMA InitOrder == ASSUME Init PROVE Order
<1>1. TypeOK
  <2>1. takes \in 0 .. MaxTakes /\ countdown \in 0 .. Offset + 1
    BY RecordingAssumption DEF Init
  <2>2. /\ {file, uiTake, current} \subseteq 1 .. takes \cup {None}
        /\ clips \cup over \cup overlapped \cup disarmed \cup replaced \subseteq 1 .. takes
    BY DEF Init
  <2>3. /\ length \in [Take -> Int] /\ start \in [Take -> {0, Offset}]
        /\ header \in [Take -> Nat] /\ riff \in [Take -> Int]
        /\ second \in 1 .. takes + 1
    BY DEF Init
  <2>4. Len(to) <= Capacity /\ Len(from) <= Capacity
    BY RecordingAssumption DEF Init
  <2> QED BY <2>1, <2>2, <2>3, <2>4 DEF Init, TypeOK
<1>2. Types
  BY <1>1 DEF Init, Types
<1>3. TakesInOrder /\ NoneSkipped
  BY DEF Init, TakesInOrder, NoneSkipped
<1> QED BY <1>2, <1>3 DEF Order

\* A message joins the end of the queue to the engine.
LEMMA SentToEngine ==
  ASSUME Order, NEW m \in ToMessage, SendTo(<<m>>)
  PROVE  /\ to' \in Seq(ToMessage) /\ Len(to') <= Capacity /\ dropped' \in BOOLEAN
         /\ Len(to) \in Nat
         /\ \A i \in DOMAIN to : i \in Nat \ {0} /\ i <= Len(to)
         /\ \A i \in DOMAIN to : i \in DOMAIN to' /\ to'[i] = to[i]
         /\ \A i \in DOMAIN to' :
              /\ i \in Nat \ {0}
              /\ \/ i \in DOMAIN to /\ to'[i] = to[i]
                 \/ i \notin DOMAIN to /\ i = Len(to) + 1 /\ to'[i] = m
         /\ ~dropped' => ~dropped /\ InQueue(to', m)
<1>1. /\ to' = SentAll(to, <<m>>) /\ dropped' \in BOOLEAN
      /\ to \in Seq(ToMessage) /\ Len(to) <= Capacity
      /\ ~dropped' => ~dropped /\ ~Overfull(to, <<m>>)
  BY DEF SendTo, Order, Types, TypeOK, Overfull
<1>2. /\ to' \in Seq(ToMessage) /\ Len(to') <= Capacity
      /\ Len(to) \in Nat
      /\ \A i \in DOMAIN to : i \in Nat \ {0} /\ i <= Len(to)
      /\ \A i \in DOMAIN to : i \in DOMAIN to' /\ to'[i] = to[i]
      /\ ~Overfull(to, <<m>>) => InQueue(to', m)
  BY <1>1, SentOne
<1>3. \A i \in DOMAIN to' :
        /\ i \in Nat \ {0}
        /\ \/ i \in DOMAIN to /\ to'[i] = to[i]
           \/ i \notin DOMAIN to /\ i = Len(to) + 1 /\ to'[i] = m
  BY <1>1, SentOne
<1> QED BY <1>1, <1>2, <1>3

\* The first message of that queue is taken.
LEMMA TakenByEngine ==
  ASSUME Order, to # << >>, to' = Tail(to)
  PROVE  /\ to' \in Seq(ToMessage) /\ Len(to') <= Capacity
         /\ 1 \in DOMAIN to /\ Head(to) = to[1] /\ to[1] \in ToMessage
         /\ \A i \in DOMAIN to : i \in Nat \ {0}
         /\ \A i \in DOMAIN to' : /\ i \in Nat \ {0} /\ i + 1 \in DOMAIN to
                                  /\ to'[i] = to[i + 1]
         /\ \A i \in DOMAIN to : i # 1 => i - 1 \in DOMAIN to' /\ to'[i - 1] = to[i]
<1>1. to \in Seq(ToMessage) /\ Len(to) <= Capacity /\ Capacity \in Nat
  BY RecordingAssumption DEF Order, Types, TypeOK
<1>2. /\ Tail(to) \in Seq(ToMessage) /\ Len(Tail(to)) = Len(to) - 1
      /\ Len(to) \in Nat
      /\ 1 \in DOMAIN to /\ Head(to) = to[1] /\ to[1] \in ToMessage
      /\ \A i \in DOMAIN Tail(to) : /\ i \in Nat \ {0} /\ i + 1 \in DOMAIN to
                                    /\ Tail(to)[i] = to[i + 1]
      /\ \A i \in DOMAIN to : i # 1 =>
           i - 1 \in DOMAIN Tail(to) /\ Tail(to)[i - 1] = to[i]
  BY <1>1, TailOfQueue
<1>3. \A i \in DOMAIN to : i \in Nat \ {0}
  BY <1>1
<1> QED BY <1>1, <1>2, <1>3

\* The first message from the engine is taken.
LEMMA TakenByDAW ==
  ASSUME Order, from # << >>, from' = Tail(from)
  PROVE  /\ from' \in Seq(FromMessage) /\ Len(from') <= Capacity
         /\ 1 \in DOMAIN from /\ Head(from) = from[1] /\ from[1] \in FromMessage
         /\ \A i \in DOMAIN from : i \in Nat \ {0}
         /\ \A i \in DOMAIN from' : /\ i \in Nat \ {0} /\ i + 1 \in DOMAIN from
                                    /\ from'[i] = from[i + 1]
         /\ \A i \in DOMAIN from : i # 1 => i - 1 \in DOMAIN from' /\ from'[i - 1] = from[i]
<1>1. from \in Seq(FromMessage) /\ Len(from) <= Capacity /\ Capacity \in Nat
  BY RecordingAssumption DEF Order, Types, TypeOK
<1>2. /\ Tail(from) \in Seq(FromMessage) /\ Len(Tail(from)) = Len(from) - 1
      /\ Len(from) \in Nat
      /\ 1 \in DOMAIN from /\ Head(from) = from[1] /\ from[1] \in FromMessage
      /\ \A i \in DOMAIN Tail(from) : /\ i \in Nat \ {0} /\ i + 1 \in DOMAIN from
                                      /\ Tail(from)[i] = from[i + 1]
      /\ \A i \in DOMAIN from : i # 1 =>
           i - 1 \in DOMAIN Tail(from) /\ Tail(from)[i - 1] = from[i]
  BY <1>1, TailOfQueue
<1>3. \A i \in DOMAIN from : i \in Nat \ {0}
  BY <1>1
<1> QED BY <1>1, <1>2, <1>3

\* A message joins the end of the queue from the engine.
LEMMA SentFromEngine ==
  ASSUME Order, NEW m \in FromMessage, SendFrom(<<m>>)
  PROVE  /\ from' \in Seq(FromMessage) /\ Len(from') <= Capacity /\ dropped' \in BOOLEAN
         /\ Len(from) \in Nat
         /\ \A i \in DOMAIN from : i \in Nat \ {0} /\ i <= Len(from)
         /\ \A i \in DOMAIN from : i \in DOMAIN from' /\ from'[i] = from[i]
         /\ \A i \in DOMAIN from' :
              /\ i \in Nat \ {0}
              /\ \/ i \in DOMAIN from /\ from'[i] = from[i]
                 \/ i \notin DOMAIN from /\ i = Len(from) + 1 /\ from'[i] = m
         /\ ~dropped' => ~dropped /\ InQueue(from', m)
<1>1. /\ from' = SentAll(from, <<m>>) /\ dropped' \in BOOLEAN
      /\ from \in Seq(FromMessage) /\ Len(from) <= Capacity
      /\ ~dropped' => ~dropped /\ ~Overfull(from, <<m>>)
  BY DEF SendFrom, Order, Types, TypeOK, Overfull
<1>2. /\ from' \in Seq(FromMessage) /\ Len(from') <= Capacity
      /\ Len(from) \in Nat
      /\ \A i \in DOMAIN from : i \in Nat \ {0} /\ i <= Len(from)
      /\ \A i \in DOMAIN from : i \in DOMAIN from' /\ from'[i] = from[i]
      /\ ~Overfull(from, <<m>>) => InQueue(from', m)
  BY <1>1, SentOne
<1>3. \A i \in DOMAIN from' :
        /\ i \in Nat \ {0}
        /\ \/ i \in DOMAIN from /\ from'[i] = from[i]
           \/ i \notin DOMAIN from /\ i = Len(from) + 1 /\ from'[i] = m
  BY <1>1, SentOne
<1> QED BY <1>1, <1>2, <1>3

LEMMA RecordKeepsOrder ==
  ASSUME Order, Record PROVE Order'
<1> USE DEF Order
<1>1. PICK t \in Take : t = takes + 1 /\ takes' = t /\ takes \in Nat
  <2>1. takes + 1 \in Take /\ takes' = takes + 1 /\ takes \in Nat
    BY RecordingAssumption DEF Record, Types, TypeOK, Take
  <2> QED BY <2>1
<1>2. /\ to' = SentAll(to, <<StartRecording(t)>>)
      /\ dropped' \in BOOLEAN
      /\ file' \in {t, None} /\ clips' \subseteq clips \cup {t}
      /\ overlapped' \subseteq overlapped \cup ((1 .. takes) \ over) \cup {t}
      /\ UNCHANGED <<uiTake, over, disarmed, commands, deleted, engineVars,
                     bufferVars, from>>
  BY <1>1 DEF Record, SendTo, Types, TypeOK, Overfull
<1>3. /\ to' \in Seq(ToMessage) /\ Len(to') <= Capacity
      /\ \A i \in DOMAIN to' :
           /\ i \in Nat \ {0}
           /\ \/ i \in DOMAIN to /\ to'[i] = to[i]
              \/ i \notin DOMAIN to /\ i = Len(to) + 1 /\ to'[i] = StartRecording(t)
      /\ \A i \in DOMAIN to : i \in Nat \ {0} /\ i <= Len(to)
      /\ Len(to) \in Nat
  <2>1. to \in Seq(ToMessage) /\ Len(to) <= Capacity /\ StartRecording(t) \in ToMessage
    BY <1>1, Messages DEF Types, TypeOK
  <2>2. to' = SentAll(to, <<StartRecording(t)>>)
    BY <1>2
  <2>3. /\ to' \in Seq(ToMessage) /\ Len(to') <= Capacity /\ Len(to) \in Nat
        /\ \A i \in DOMAIN to : i \in Nat \ {0} /\ i <= Len(to)
    BY <2>1, <2>2, SentOne
  <2>4. \A i \in DOMAIN to' :
          /\ i \in Nat \ {0}
          /\ \/ i \in DOMAIN to /\ to'[i] = to[i]
             \/ i \notin DOMAIN to /\ i = Len(to) + 1 /\ to'[i] = StartRecording(t)
    BY <2>1, <2>2, SentOne
  <2> QED BY <2>3, <2>4
<1>4. Types'
  <2>1. takes' \in 0 .. MaxTakes /\ 1 .. takes \subseteq 1 .. takes' /\ t \in 1 .. takes'
    BY <1>1 DEF Take
  <2>2. {file, uiTake, current}' \subseteq 1 .. takes' \cup {None}
    BY <1>2, <2>1 DEF Types, TypeOK, engineVars
  <2>3. (clips \cup over \cup overlapped \cup disarmed \cup replaced)' \subseteq 1 .. takes'
    BY <1>2, <2>1, RecordFiles DEF Types, TypeOK
  <2>4. TypeOK'
    BY <1>2, <1>3, <2>1, <2>2, <2>3, RecordFiles
       DEF Types, TypeOK, engineVars, clipVars
  <2> QED BY <1>2, <1>3, <2>4, RecordFiles DEF Types, engineVars, bufferVars
<1>5. Ahead(t)' /\ \A u \in Take : Ahead(u)' = Ahead(u)
  BY <1>1, <1>2 DEF Ahead, engineVars, Types, TypeOK
<1>6. TakesInOrder'
  <2>1. ASSUME NEW i \in DOMAIN to', Starts(i)'
        PROVE  to'[i].take <= takes' /\ Ahead(to[i].take)'
    <3>1. CASE i \in DOMAIN to /\ to'[i] = to[i]
      <4>1. to[i].take \in Take /\ to[i].take <= takes /\ Ahead(to[i].take)
        BY <2>1, <3>1, MessageTypes DEF Starts, TakesInOrder, Types
      <4>2. Ahead(to[i].take)'
        BY <1>5, <3>1, <4>1
      <4>3. takes \in Nat /\ to[i].take \in Nat
        BY <1>1, <4>1 DEF Take
      <4> QED BY <1>1, <3>1, <4>1, <4>2, <4>3
    <3>2. CASE to'[i] = StartRecording(t)
      <4>1. to'[i].take = t /\ t <= takes'
        BY <1>1, <3>2 DEF StartRecording, Take
      <4>2. Ahead(to[i].take)'
        BY <1>5, <4>1 DEF Ahead
      <4> QED BY <4>1, <4>2
    <3> QED BY <1>3, <3>1, <3>2
  <2>2. ASSUME NEW i \in DOMAIN to', NEW j \in DOMAIN to', i < j, Starts(i)', Starts(j)'
        PROVE  to'[i].take < to'[j].take
    <3>1. i \in DOMAIN to /\ to'[i] = to[i]
      BY <1>3, <2>2
    <3>2. to[i].take \in Take /\ to[i].take <= takes
      BY <2>2, <3>1, MessageTypes DEF Starts, TakesInOrder, Types
    <3>3. CASE j \in DOMAIN to /\ to'[j] = to[j]
      BY <2>2, <3>1, <3>3 DEF TakesInOrder, Starts
    <3>4. CASE to'[j] = StartRecording(t)
      BY <1>1, <3>1, <3>2, <3>4 DEF StartRecording, Take
    <3> QED BY <1>3, <3>3, <3>4
  <2>3. \A i \in DOMAIN from' : from'[i].type \in {"Started", "RecordingStopped"} =>
          ~Ahead(from[i].take)'
    BY <1>2, <1>5, MessageTypes DEF TakesInOrder, Types
  <2> QED BY <1>2, <2>1, <2>2, <2>3 DEF TakesInOrder, engineVars
<1>7. NoneSkipped'
  BY <1>2, <1>5 DEF NoneSkipped, engineVars, clipVars
<1> QED BY <1>4, <1>6, <1>7

\* What leaves the takes in their order.
LEMMA TakesKept ==
  ASSUME Order, takes' = takes, current' = current, NEW n \in {0, 1},
         \A i \in DOMAIN to' : i \in Nat /\ (Starts(i)' =>
           i + n \in DOMAIN to /\ to'[i] = to[i + n]),
         recording' => recording, enginePC' = "finish" => recording',
         \A i \in DOMAIN from' :
           \/ \E j \in DOMAIN from : from'[i] = from[j]
           \/ from'[i].type \in {"Started", "RecordingStopped"} =>
                recording /\ from'[i].take = current
  PROVE  TakesInOrder'
<1>1. \A t \in Take : Ahead(t)' = Ahead(t)
  BY DEF Ahead
<1>2. ASSUME NEW i \in DOMAIN to', Starts(i)'
      PROVE  /\ i + n \in DOMAIN to /\ to'[i] = to[i + n] /\ Starts(i + n)
             /\ i \in Nat /\ to'[i].take \in Take /\ to'[i].take = to[i + n].take
  BY <1>2, MessageTypes DEF Starts, Order, Types
<1>3. ASSUME NEW i \in DOMAIN to', Starts(i)'
      PROVE  to'[i].take <= takes' /\ Ahead(to[i].take)'
  <2>1. to[i + n].take <= takes /\ Ahead(to[i + n].take) /\ to[i + n].take \in Take
    BY <1>2, <1>3 DEF Order, TakesInOrder
  <2>2. Ahead(to[i].take)'
    BY <1>2, <1>3, <2>1 DEF Ahead
  <2> QED BY <1>2, <1>3, <2>1, <2>2
<1>4. ASSUME NEW i \in DOMAIN to', NEW j \in DOMAIN to', i < j, Starts(i)', Starts(j)'
      PROVE  to'[i].take < to'[j].take
  <2>1. i + n < j + n
    BY <1>2, <1>4
  <2> QED BY <1>2, <1>4, <2>1 DEF Order, TakesInOrder
<1>5. ASSUME NEW i \in DOMAIN from', from'[i].type \in {"Started", "RecordingStopped"}
      PROVE  ~Ahead(from[i].take)'
  <2>1. CASE \E j \in DOMAIN from : from'[i] = from[j]
    BY <1>5, <2>1 DEF Order, TakesInOrder, Ahead
  <2>2. CASE recording /\ from'[i].take = current
    <3>1. current # None /\ current \in Int
      BY <2>2 DEF Order, TakesInOrder, Types, TypeOK
    <3> QED BY <2>2, <3>1 DEF Ahead
  <2> QED BY <1>5, <2>1, <2>2
<1>6. recording' => current' # None
  BY DEF Order, TakesInOrder
<1> QED BY <1>3, <1>4, <1>5, <1>6 DEF TakesInOrder

LEMMA DawKeepsOrder ==
  ASSUME Order,
         Disarm \/ (\E c \in Command : SendCommand(c)) \/ HandleMessage
  PROVE  Order'
<1> USE DEF Order
<1>1. UNCHANGED <<takes, second, replaced, clips, engineVars, overlapped, data>>
  <2>1. CASE Disarm
    BY <2>1 DEF Disarm, bufferVars, fileVars
  <2>2. CASE \E c \in Command : SendCommand(c)
    BY <2>2 DEF SendCommand, bufferVars, fileVars
  <2>3. CASE HandleMessage
    BY <2>3 DEF HandleMessage, Write, Delete, TellStarted, TakeCheckpoint,
                   CloseFile, bufferVars, fileVars
  <2> QED BY <2>1, <2>2, <2>3
<1>2. \/ UNCHANGED <<to, dropped>>
      \/ \E m \in ToMessage : m.type # "StartRecording" /\ SendTo(<<m>>)
  <2>1. CASE \E c \in Command : SendCommand(c)
    BY <2>1, Messages DEF SendCommand, Transport, fileVars
  <2>2. CASE Write
    <3>1. from[1].type = "Continue" /\ from[1] \in FromMessage /\ Head(from) = from[1]
      BY <2>2, TakenByDAW DEF Write
    <3>2. Continue(from[1].buffers) \in ToMessage
      BY <3>1, MessageTypes, Messages
    <3>3. SendTo(<<Continue(from[1].buffers)>>)
      BY <2>2, <3>1 DEF Write
    <3> QED BY <3>2, <3>3 DEF Continue
  <2> QED BY <2>1, <2>2 DEF Disarm, HandleMessage, Delete, TellStarted,
                            TakeCheckpoint, CloseFile, fileVars
<1>3. from' = from \/ (from # << >> /\ from' = Tail(from))
  BY DEF Disarm, SendCommand, HandleMessage, Write, Delete, TellStarted,
         TakeCheckpoint, CloseFile, fileVars
<1>4. /\ to' \in Seq(ToMessage) /\ Len(to') <= Capacity /\ dropped' \in BOOLEAN
      /\ \A i \in DOMAIN to' :
           i \in Nat /\ (Starts(i)' => i \in DOMAIN to /\ to'[i] = to[i])
  <2>1. CASE UNCHANGED <<to, dropped>>
    BY <2>1 DEF Types, TypeOK
  <2>2. CASE \E m \in ToMessage : m.type # "StartRecording" /\ SendTo(<<m>>)
    BY <2>2, SentToEngine DEF Starts
  <2> QED BY <1>2, <2>1, <2>2
<1>5. /\ from' \in Seq(FromMessage) /\ Len(from') <= Capacity
      /\ \A i \in DOMAIN from' : \E j \in DOMAIN from : from'[i] = from[j]
  <2>1. CASE from' = from
    BY <2>1 DEF Types, TypeOK
  <2>2. CASE from # << >> /\ from' = Tail(from)
    BY <2>2, TakenByDAW
  <2> QED BY <1>3, <2>1, <2>2
<1>6. file' \in {file, None} /\ uiTake' \in 1 .. takes \cup {None}
      /\ over' \subseteq 1 .. takes /\ disarmed' \subseteq 1 .. takes
  <2>1. CASE Disarm
    BY <2>1 DEF Disarm, Types, TypeOK, fileVars
  <2>2. CASE TellStarted \/ CloseFile
    <3>1. /\ from[1] \in FromMessage /\ Head(from) = from[1] /\ 1 \in DOMAIN from
          /\ from[1].type \in {"Started", "RecordingStopped"}
      BY <2>2, TakenByDAW DEF TellStarted, CloseFile, fileVars
    <3>2. from[1].take \in Take /\ ~Ahead(from[1].take)
      BY <3>1, MessageTypes DEF TakesInOrder
    <3>3. from[1].take \in 1 .. takes
      BY <3>2 DEF Ahead, Types, TypeOK, Take
    <3> QED BY <2>2, <3>1, <3>3 DEF TellStarted, CloseFile, Types, TypeOK, fileVars
  <2> QED BY <2>1, <2>2 DEF SendCommand, HandleMessage, Write, Delete,
                            TakeCheckpoint, Types, TypeOK, fileVars
<1>7. header' \in [Take -> Nat] /\ riff' \in [Take -> Int]
  BY SizesUpdated DEF Disarm, SendCommand, HandleMessage, Write, Delete, TellStarted,
                      TakeCheckpoint, CloseFile, Types, TypeOK, fileVars
<1>8. /\ content' \in [Take -> Seq(Frame)] /\ deleted' \subseteq Buffers
      /\ state' \in [Buffers -> {"Filling", "Writing", "Resupplying", "Disposing",
                                 "Done"}]
      /\ \A b \in Buffers : state'[b] = "Writing" => state[b] = "Writing"
  <2>1. CASE Write \/ Delete
    <3> DEFINE b == from[1].buffers
    <3>1. from[1] \in FromMessage /\ Head(from) = from[1] /\ from[1].type = "Continue"
      BY <2>1, TakenByDAW DEF Write, Delete, fileVars
    <3>2. b \in Buffers
      BY <3>1, MessageTypes
    <3>3. /\ deleted' \subseteq deleted \cup {b}
          /\ state' \in {[state EXCEPT ![b] = "Resupplying"], [state EXCEPT ![b] = "Done"]}
      BY <2>1, <3>1 DEF Write, Delete, fileVars
    <3>4. content' \in [Take -> Seq(Frame)]
      <4>1. CASE Delete \/ file = None
        BY <2>1, <4>1 DEF Write, Delete, Types, fileVars
      <4>2. CASE Write /\ file # None
        <5>1. file \in Take /\ content[file] \in Seq(Frame)
          BY <4>2, TakesAre
        <5>2. content' = [content EXCEPT ![file] = Append(@, data[b])]
          BY <3>1, <4>2 DEF Write
        <5>3. data[b] \in Frame
          BY <3>2, <3>1, <4>2 DEF Write, Types
        <5> QED BY <5>1, <5>2, <5>3 DEF Types
      <4> QED BY <2>1, <4>1, <4>2
    <3> QED BY <3>2, <3>3, <3>4 DEF Types
  <2> QED BY <2>1 DEF Disarm, SendCommand, HandleMessage, TellStarted,
                      TakeCheckpoint, CloseFile, Types, bufferVars, fileVars
<1>9. Types'
  <2>1. TypeOK'
    BY <1>1, <1>4, <1>5, <1>6, <1>7 DEF Types, TypeOK, engineVars, clipVars
  <2> QED BY <1>1, <1>4, <1>5, <1>8, <2>1 DEF Types, engineVars
<1>10. TakesInOrder'
  BY <1>1, <1>4, <1>5, TakesKept DEF engineVars, TakesInOrder
<1>11. NoneSkipped'
  BY <1>1 DEF NoneSkipped, Ahead, engineVars, clipVars
<1> QED BY <1>9, <1>10, <1>11

\* What DisposeAfter() sends: that the take is over, then the free buffers.
LEMMA DisposedAfterStop ==
  ASSUME Order, NEW t \in Take, DisposeAfter(<<Stopped(t)>>)
  PROVE  /\ from' \in Seq(FromMessage) /\ Len(from') <= Capacity /\ dropped' \in BOOLEAN
         /\ Len(from) \in Nat
         /\ \A i \in DOMAIN from : i \in Nat \ {0} /\ i <= Len(from)
         /\ \A i \in DOMAIN from : i \in DOMAIN from' /\ from'[i] = from[i]
         /\ \A i \in DOMAIN from' :
              /\ i \in Nat \ {0}
              /\ \/ i \in DOMAIN from /\ from'[i] = from[i]
                 \/ i \notin DOMAIN from /\ i = Len(from) + 1 /\ from'[i] = Stopped(t)
                 \/ /\ i \notin DOMAIN from /\ i > Len(from) + 1
                    /\ i - Len(from) - 1 \in DOMAIN free
                    /\ from'[i] = Continue(free[i - Len(from) - 1])
         /\ ~dropped' => /\ ~dropped /\ InQueue(from', Stopped(t))
                         /\ \A i \in DOMAIN free : InQueue(from', Continue(free[i]))
<1> DEFINE q == <<Stopped(t)>> \o Disposed
<1>1. /\ from' = SentAll(from, q) /\ dropped' \in BOOLEAN
      /\ from \in Seq(FromMessage) /\ Len(from) <= Capacity
      /\ ~dropped' => ~dropped /\ ~Overfull(from, q)
  BY DEF DisposeAfter, SendFrom, Order, Types, TypeOK, Overfull
<1>2. /\ Disposed \in Seq(FromMessage) /\ DOMAIN free = 1 .. Len(free)
      /\ Len(Disposed) = Len(free) /\ Len(free) \in Nat
      /\ \A i \in 1 .. Len(free) : Disposed[i] = Continue(free[i])
  BY DisposedIs DEF Order, Types
<1>3. /\ q \in Seq(FromMessage) /\ DOMAIN q = 1 .. Len(free) + 1
      /\ q[1] = Stopped(t)
      /\ \A i \in 1 .. Len(free) : q[i + 1] = Continue(free[i])
  <2> DEFINE first == <<Stopped(t)>>
  <2>1. /\ first \in Seq(FromMessage) /\ Len(first) = 1 /\ first[1] = Stopped(t)
    BY Messages
  <2>2. q = first \o Disposed
    OBVIOUS
  <2> HIDE DEF q, first
  <2>3. /\ q \in Seq(FromMessage) /\ Len(q) = 1 + Len(free)
        /\ \A i \in 1 .. 1 + Len(free) : q[i] = IF i <= 1 THEN first[i] ELSE Disposed[i - 1]
    <3>1. /\ q \in Seq(FromMessage) /\ Len(q) = Len(first) + Len(Disposed)
          /\ \A i \in 1 .. Len(first) + Len(Disposed) :
               q[i] = IF i <= Len(first) THEN first[i] ELSE Disposed[i - Len(first)]
      <4>1. Disposed \in Seq(FromMessage) /\ first \in Seq(FromMessage)
        BY <1>2, <2>1
      <4> QED BY <2>2, <4>1, ConcatProperties, Zenon
    <3>2. Len(first) = 1 /\ Len(Disposed) = Len(free)
      BY <1>2, <2>1
    <3> QED BY <3>1, <3>2, Zenon
  <2>4. \A i \in 1 .. Len(free) :
          i + 1 \in 1 .. 1 + Len(free) /\ ~(i + 1 <= 1) /\ (i + 1) - 1 = i
    BY <1>2
  <2>5. 1 \in 1 .. 1 + Len(free) /\ 1 + Len(free) = Len(free) + 1
    BY <1>2
  <2> QED BY <1>2, <2>1, <2>3, <2>4, <2>5
<1> HIDE DEF q
<1>4. /\ from' \in Seq(FromMessage) /\ Len(from') <= Capacity
      /\ Len(from) \in Nat
      /\ \A i \in DOMAIN from : i \in Nat \ {0} /\ i <= Len(from)
      /\ \A i \in DOMAIN from : i \in DOMAIN from' /\ from'[i] = from[i]
  BY <1>1, <1>3, SentToQueue
<1>5. ASSUME NEW i \in DOMAIN from'
      PROVE  /\ i \in Nat \ {0}
             /\ \/ i \in DOMAIN from /\ from'[i] = from[i]
                \/ i \notin DOMAIN from /\ i = Len(from) + 1 /\ from'[i] = Stopped(t)
                \/ /\ i \notin DOMAIN from /\ i > Len(from) + 1
                   /\ i - Len(from) - 1 \in DOMAIN free
                   /\ from'[i] = Continue(free[i - Len(from) - 1])
  <2>1. /\ i \in Nat \ {0}
        /\ \/ i \in DOMAIN from /\ from'[i] = from[i]
           \/ /\ i \notin DOMAIN from /\ i > Len(from)
              /\ i - Len(from) \in DOMAIN q
              /\ from'[i] = q[i - Len(from)]
    BY <1>1, <1>3, SentToQueue
  <2>2. CASE i = Len(from) + 1
    BY <1>3, <1>4, <2>1, <2>2
  <2>3. CASE i \notin DOMAIN from /\ i # Len(from) + 1
    <3>1. /\ i - Len(from) - 1 \in 1 .. Len(free) /\ i > Len(from) + 1
          /\ (i - Len(from) - 1) + 1 = i - Len(from)
      BY <1>2, <1>3, <1>4, <2>1, <2>3
    <3> QED BY <1>2, <1>3, <2>1, <2>3, <3>1
  <2> QED BY <2>1, <2>2, <2>3
<1>6. ASSUME ~dropped'
      PROVE  /\ InQueue(from', Stopped(t))
             /\ \A i \in DOMAIN free : InQueue(from', Continue(free[i]))
  <2>1. \A i \in DOMAIN q : Len(from) + i \in DOMAIN from' /\ from'[Len(from) + i] = q[i]
    BY <1>1, <1>3, <1>6, SentToQueue
  <2>2. 1 \in DOMAIN q /\ \A i \in 1 .. Len(free) : i + 1 \in DOMAIN q
    BY <1>2, <1>3
  <2> QED BY <1>2, <1>3, <2>1, <2>2 DEF InQueue
<1> QED BY <1>1, <1>4, <1>5, <1>6

LEMMA DisposeKeepsTypes ==
  ASSUME Order, NEW t \in Take, DisposeAfter(<<Stopped(t)>>)
  PROVE  /\ state' \in [Buffers -> {"Filling", "Writing", "Resupplying", "Disposing",
                                    "Done"}]
         /\ data' \in [Buffers -> Frame \cup {None}]
         /\ \A b \in Buffers : /\ state'[b] = IF IsFree(b) THEN "Disposing" ELSE state[b]
                               /\ data'[b] = IF IsFree(b) THEN None ELSE data[b]
                               /\ state'[b] = "Writing" => data'[b] \in Frame
         /\ free' = << >> /\ free' \in Seq(Buffers)
BY DEF DisposeAfter, Order, Types

LEMMA TakeStartKeepsOrder == ASSUME Order, TakeStart PROVE Order'
<1> USE DEF Order
<1>1. PICK t \in Take : to[1] = StartRecording(t) /\ Head(to) = to[1] /\ 1 \in DOMAIN to
  <2>1. /\ to[1] \in ToMessage /\ Head(to) = to[1] /\ 1 \in DOMAIN to
        /\ to[1].type = "StartRecording"
    BY TakenByEngine DEF TakeStart
  <2> QED BY <2>1, MessageTypes
<1>2. t \in 1 .. takes /\ Ahead(t)
  <2>1. to[1].take = t /\ to[1].type = "StartRecording"
    BY <1>1 DEF StartRecording
  <2> QED BY <1>1, <2>1 DEF TakesInOrder, Starts, Take
<1>3. /\ free' = Supply(t) \o free
      /\ state' = [b \in Buffers |-> IF b \in Elements(Supply(t)) THEN "Filling"
                                                                ELSE state[b]]
      /\ current' = t /\ SendFrom(<<Started(t)>>)
      /\ countdown' = 0 /\ playing' = TRUE /\ recording' = TRUE
      /\ UNCHANGED <<dawVars, clips, enginePC, clipVars, captured, exhausted, data>>
  <2>1. Head(to).take = t
    BY <1>1 DEF StartRecording
  <2> QED BY <2>1 DEF TakeStart
<1>4. /\ to' \in Seq(ToMessage) /\ Len(to') <= Capacity
      /\ \A i \in DOMAIN to : i \in Nat \ {0}
      /\ \A i \in DOMAIN to' : /\ i \in Nat \ {0} /\ i + 1 \in DOMAIN to
                               /\ to'[i] = to[i + 1]
  BY TakenByEngine DEF TakeStart
<1>5. /\ from' \in Seq(FromMessage) /\ Len(from') <= Capacity /\ dropped' \in BOOLEAN
      /\ \A i \in DOMAIN from' :
           (i \in DOMAIN from /\ from'[i] = from[i]) \/ from'[i] = Started(t)
  BY <1>3, Messages, SentFromEngine
<1>6. Types'
  <2>1. free' \in Seq(Buffers)
    BY <1>3, SupplyOf, ConcatProperties DEF Types
  <2>2. TypeOK'
    <3>1. {file, uiTake, current}' \subseteq 1 .. takes' \cup {None}
      BY <1>2, <1>3 DEF Types, TypeOK, dawVars, fileVars
    <3>2. countdown' \in 0 .. Offset + 1
      BY <1>3, RecordingAssumption
    <3> QED BY <1>3, <1>4, <1>5, <3>1, <3>2 DEF Types, TypeOK, dawVars, clipVars,
                                                fileVars
  <2>3. \A b \in Buffers : state'[b] = "Writing" => data'[b] \in Frame
    BY <1>3 DEF Types
  <2>4. state' \in [Buffers -> {"Filling", "Writing", "Resupplying", "Disposing", "Done"}]
    BY <1>3 DEF Types
  <2> QED BY <1>3, <1>4, <1>5, <2>1, <2>2, <2>3, <2>4 DEF Types, dawVars, fileVars
<1>7. \A u \in Take : Ahead(u)' => Ahead(u) /\ u > t
  <2> SUFFICES ASSUME NEW u \in Take, Ahead(u)' PROVE Ahead(u) /\ u > t
    OBVIOUS
  <2>1. /\ u \in Nat /\ t \in Nat /\ t # None
        /\ current \in Nat \/ current = None
    BY TakesAre
  <2>2. u > t
    BY <1>3, <2>1 DEF Ahead
  <2> QED BY <1>2, <2>1, <2>2 DEF Ahead
<1>8. \A i \in DOMAIN to' : Starts(i)' =>
        Starts(i + 1) /\ to[i + 1].take \in Take /\ to[i + 1].take > t
  <2> SUFFICES ASSUME NEW i \in DOMAIN to', Starts(i)'
               PROVE  Starts(i + 1) /\ to[i + 1].take \in Take /\ to[i + 1].take > t
    OBVIOUS
  <2>1. Starts(i + 1) /\ to[i + 1].take \in Take /\ i + 1 \in DOMAIN to /\ 1 < i + 1
    BY <1>4, MessageTypes DEF Starts, Types
  <2>2. to[1].take = t /\ Starts(1)
    BY <1>1 DEF StartRecording, Starts
  <2>3. to[1].take < to[i + 1].take
    BY <1>1, <2>1, <2>2 DEF TakesInOrder
  <2> QED BY <2>1, <2>2, <2>3, TakesAre
<1>9. TakesInOrder'
  <2>1. ASSUME NEW i \in DOMAIN to', Starts(i)'
        PROVE  to'[i].take <= takes' /\ Ahead(to[i].take)'
    <3>1. /\ i + 1 \in DOMAIN to /\ to'[i] = to[i + 1] /\ Starts(i + 1)
          /\ to[i + 1].take > t
      BY <1>4, <1>8, <2>1
    <3>2. to[i + 1].take <= takes
      BY <3>1 DEF TakesInOrder
    <3>3. Ahead(to[i].take)'
      BY <1>3, <3>1 DEF Ahead
    <3> QED BY <1>3, <3>1, <3>2, <3>3 DEF dawVars, fileVars
  <2>2. ASSUME NEW i \in DOMAIN to', NEW j \in DOMAIN to', i < j, Starts(i)', Starts(j)'
        PROVE  to'[i].take < to'[j].take
    <3>1. i + 1 < j + 1
      BY <1>4, <2>2
    <3> QED BY <1>4, <1>8, <2>2, <3>1 DEF TakesInOrder
  <2>3. ASSUME NEW i \in DOMAIN from', from'[i].type \in {"Started", "RecordingStopped"}
        PROVE  ~Ahead(from[i].take)'
    <3>1. CASE i \in DOMAIN from /\ from'[i] = from[i]
      <4>1. from[i].take \in Take /\ ~Ahead(from[i].take)
        BY <2>3, <3>1, MessageTypes DEF TakesInOrder, Types
      <4>2. ~(from[i].take > t)
        <5>1. /\ from[i].take \in Nat /\ t \in Nat
              /\ current \in Nat \/ current = None
          BY <4>1, TakesAre
        <5> QED BY <1>2, <4>1, <5>1 DEF Ahead
      <4>3. t # None
        BY TakesAre
      <4> QED BY <1>3, <3>1, <4>2, <4>3 DEF Ahead
    <3>2. CASE from'[i] = Started(t)
      <4>1. from'[i].take = t /\ t # None /\ ~(t > t)
        BY <3>2, TakesAre DEF Started
      <4> QED BY <1>3, <4>1 DEF Ahead
    <3> QED BY <1>5, <3>1, <3>2
  <2>4. recording' => current' # None
    BY <1>3, TakesAre
  <2>5. enginePC' = "finish" => recording'
    BY <1>3
  <2> QED BY <2>1, <2>2, <2>3, <2>4, <2>5 DEF TakesInOrder
<1>10. NoneSkipped'
  BY <1>2, <1>3, <1>7 DEF NoneSkipped, clipVars
<1> QED BY <1>6, <1>9, <1>10

LEMMA EngineKeepsOrder ==
  ASSUME Order,
         \/ Resupply \/ TakeCommand \/ BeginTurn \/ NotRecording
         \/ RunRecording \/ FinishRecording
  PROVE  Order'
<1> USE DEF Order
<1>1. UNCHANGED <<dawVars, clips, current>>
  BY DEF Resupply, TakeCommand, BeginTurn, NotRecording, RunRecording, FinishRecording
<1>2. to' = to \/ (to # << >> /\ to' = Tail(to))
  BY DEF Resupply, TakeCommand, BeginTurn, NotRecording, RunRecording, FinishRecording
<1>3. PICK n \in {0, 1} :
        /\ to' \in Seq(ToMessage) /\ Len(to') <= Capacity
        /\ \A i \in DOMAIN to' : i \in Nat /\ i + n \in DOMAIN to /\ to'[i] = to[i + n]
  <2>1. CASE to' = to
    <3>1. to \in Seq(ToMessage) /\ Len(to) <= Capacity
      BY DEF Types, TypeOK
    <3>2. \A i \in DOMAIN to : i \in Nat /\ i + 0 = i
      BY <3>1
    <3> QED BY <2>1, <3>1, <3>2
  <2>2. CASE to # << >> /\ to' = Tail(to)
    BY <2>2, TakenByEngine
  <2> QED BY <1>2, <2>1, <2>2
<1>4. recording => current \in Take /\ current \in 1 .. takes
  BY TakesAre DEF TakesInOrder, Types, TypeOK
<1>5. \/ UNCHANGED <<from, dropped>>
      \/ SendFrom(<<Checkpoint>>)
      \/ SendUp
      \/ recording /\ DisposeAfter(<<Stopped(current)>>)
  <2>1. CASE TakeCommand
    BY <2>1 DEF TakeCommand, Play, Stop, Pause, Rewind
  <2>2. CASE RunRecording
    BY <2>2 DEF RunRecording, Exhausted
  <2>3. CASE FinishRecording
    BY <2>3 DEF FinishRecording, TakesInOrder
  <2> QED BY <2>1, <2>2, <2>3 DEF Resupply, BeginTurn, NotRecording
<1>6. free # << >> => Head(free) \in Buffers /\ Tail(free) \in Seq(Buffers)
  BY TailOfQueue DEF Types
<1>7. /\ from' \in Seq(FromMessage) /\ Len(from') <= Capacity /\ dropped' \in BOOLEAN
      /\ \A i \in DOMAIN from' :
           \/ \E j \in DOMAIN from : from'[i] = from[j]
           \/ from'[i].type \in {"Started", "RecordingStopped"} =>
                recording /\ from'[i].take = current
  <2>1. CASE UNCHANGED <<from, dropped>>
    BY <2>1 DEF Types, TypeOK
  <2>2. CASE SendFrom(<<Checkpoint>>)
    BY <2>2, SentFromEngine, Messages DEF Checkpoint
  <2>3. CASE SendUp
    <3>1. Continue(Head(free)) \in FromMessage /\ SendFrom(<<Continue(Head(free))>>)
      BY <1>6, <2>3, Messages DEF SendUp
    <3> QED BY <3>1, SentFromEngine DEF Continue
  <2>4. CASE recording /\ DisposeAfter(<<Stopped(current)>>)
    BY <1>4, <2>4, DisposedAfterStop DEF Continue, Stopped
  <2> QED BY <1>5, <2>1, <2>2, <2>3, <2>4
<1>8. /\ recording' \in BOOLEAN /\ playing' \in BOOLEAN /\ (recording' => recording)
      /\ countdown' \in 0 .. Offset + 1
      /\ enginePC' \in {"messages", "turn", "finish"}
      /\ enginePC' = "finish" => recording'
  <2>1. countdown \in 0 .. Offset + 1 /\ Offset \in Nat
    BY RecordingAssumption DEF Types, TypeOK
  <2>2. CASE TakeCommand
    <3>1. enginePC' = "messages"
      BY <2>2 DEF TakeCommand
    <3>2. recording \in BOOLEAN
      BY DEF Types, TypeOK
    <3>3. Play \/ Stop \/ Pause \/ Rewind
      BY <2>2 DEF TakeCommand
    <3>4. countdown' \in {countdown, Offset + 1}
      BY <3>3 DEF Play, Stop, Pause, Rewind
    <3>5. recording' \in BOOLEAN /\ (recording' => recording)
      <4>1. CASE Pause
        BY <4>1 DEF Pause
      <4>2. CASE Play \/ Stop \/ Rewind
        <5>1. recording' = recording
          BY <4>2 DEF Play, Stop, Rewind
        <5> QED BY <3>2, <5>1
      <4> QED BY <3>3, <4>1, <4>2
    <3>6. playing' \in BOOLEAN
      BY <3>3 DEF Play, Stop, Pause, Rewind
    <3>7. countdown' \in 0 .. Offset + 1
      BY <2>1, <3>4
    <3> QED BY <3>1, <3>5, <3>6, <3>7
  <2>3. CASE RunRecording
    <3>1. countdown' \in 0 .. Offset + 1
      BY <2>1, <2>3 DEF RunRecording
    <3> QED BY <2>3, <3>1 DEF RunRecording, Types, TypeOK
  <2>4. CASE FinishRecording
    BY <2>1, <2>4 DEF FinishRecording, Types, TypeOK
  <2>5. CASE Resupply \/ BeginTurn \/ NotRecording
    BY <2>1, <2>5 DEF Resupply, BeginTurn, NotRecording, Types, TypeOK
  <2> QED BY <2>2, <2>3, <2>4, <2>5
<1>9. /\ length' \in [Take -> Int] /\ start' \in [Take -> {0, Offset}]
      /\ recording' => start'[current] = 0
      /\ \A t \in Take : Ahead(t) => start'[t] = start[t]
  <2>1. CASE RunRecording
    <3>1. start' = start /\ length' = Longer /\ current' = current
          /\ recording' = recording
      BY <2>1 DEF RunRecording, dawVars, fileVars
    <3>2. Longer \in [Take -> Int]
      <4>1. length \in [Take -> Int]
        BY DEF Types, TypeOK
      <4>2. [length EXCEPT ![current] = @ + 1] \in [Take -> Int]
        <5>1. \A t \in Take : length[t] + 1 \in Int
          BY <4>1
        <5> QED BY <4>1, <5>1, Zenon
      <4> QED BY <4>1, <4>2 DEF Longer
    <3> QED BY <3>1, <3>2 DEF Types, TypeOK, NoneSkipped
  <2>2. CASE FinishRecording
    <3>1. recording /\ current \in Take /\ start[current] = 0 /\ ~Ahead(current)
      BY <1>4, <2>2, TakesAre DEF FinishRecording, TakesInOrder, NoneSkipped, Ahead
    <3>2. length[current] - Offset \in Int /\ start[current] + Offset = Offset
      BY <3>1, RecordingAssumption DEF Types, TypeOK
    <3>3. ~recording'
      BY <2>2 DEF FinishRecording
    <3> QED BY <2>2, <3>1, <3>2, <3>3 DEF FinishRecording, FinishClips, clipVars, Types, TypeOK
  <2>3. CASE Resupply \/ TakeCommand \/ BeginTurn \/ NotRecording
    <3>1. UNCHANGED clipVars
      BY <2>3 DEF Resupply, TakeCommand, BeginTurn, NotRecording
    <3>2. length' = length /\ start' = start
      BY <3>1 DEF clipVars
    <3>3. length \in [Take -> Int] /\ start \in [Take -> {0, Offset}]
      BY DEF Types, TypeOK
    <3>4. recording' => start[current] = 0
      BY <1>8 DEF NoneSkipped
    <3> QED BY <3>2, <3>3, <3>4
  <2> QED BY <2>1, <2>2, <2>3
<1>10. /\ captured' \in [Take -> Seq(Frame)] /\ exhausted' \in [Take -> Nat]
  <2>1. CASE RunRecording
    <3>1. current \in Take /\ Now \in Frame
      BY <1>4, <2>1, TakesAre DEF RunRecording, Now, Frame
    <3>2. CASE SendUp
      <4>1. captured' = [captured EXCEPT ![current] = Append(@, Now)] /\ exhausted' = exhausted
        BY <3>2 DEF SendUp
      <4> QED BY <3>1, <4>1 DEF Types
    <3>3. CASE Exhausted
      BY <3>1, <3>3 DEF Exhausted, Types
    <3> QED BY <2>1, <3>2, <3>3 DEF RunRecording
  <2>2. CASE Resupply \/ TakeCommand \/ BeginTurn \/ NotRecording \/ FinishRecording
    BY <2>2 DEF Resupply, TakeCommand, BeginTurn, NotRecording, FinishRecording, Types
  <2> QED BY <2>1, <2>2
<1>11. /\ state' \in [Buffers -> {"Filling", "Writing", "Resupplying", "Disposing",
                                  "Done"}]
       /\ data' \in [Buffers -> Frame \cup {None}] /\ free' \in Seq(Buffers)
       /\ \A b \in Buffers : state'[b] = "Writing" => data'[b] \in Frame
  <2>1. CASE UNCHANGED <<free, state, data>>
    BY <2>1 DEF Types
  <2>2. CASE recording /\ DisposeAfter(<<Stopped(current)>>)
    BY <1>4, <2>2, DisposeKeepsTypes
  <2>3. CASE RunRecording /\ SendUp
    <3>1. Now \in Frame /\ Head(free) \in Buffers /\ Tail(free) \in Seq(Buffers)
      BY <1>4, <1>6, <2>3, TakesAre DEF SendUp, RunRecording, Now, Frame
    <3>2. /\ state' = [state EXCEPT ![Head(free)] = "Writing"]
          /\ data' = [data EXCEPT ![Head(free)] = Now]
          /\ free' = Tail(free)
      BY <2>3 DEF SendUp
    <3> HIDE DEF Now
    <3> QED BY <3>1, <3>2 DEF Types
  <2>4. CASE Resupply
    <3>1. to[1] \in ToMessage /\ Head(to) = to[1] /\ to[1].type = "Continue"
      BY <2>4, TakenByEngine DEF Resupply
    <3>2. PICK b \in Buffers : b = Head(to).buffers
      BY <3>1, MessageTypes
    <3>3. /\ state' = [state EXCEPT ![b] = "Filling"]
          /\ data' = [data EXCEPT ![b] = None]
          /\ free' = <<b>> \o free
      BY <2>4, <3>2 DEF Resupply
    <3> QED BY <3>3, ConcatProperties DEF Types
  <2>5. CASE TakeCommand
    <3>1. UNCHANGED <<free, bufferVars>> \/ (recording /\ DisposeAfter(<<Stopped(current)>>))
      BY <2>5 DEF TakeCommand, Play, Stop, Pause, Rewind
    <3> QED BY <2>1, <2>2, <3>1 DEF bufferVars
  <2>6. CASE BeginTurn \/ NotRecording \/ (RunRecording /\ Exhausted)
    BY <2>1, <2>6 DEF BeginTurn, NotRecording, Exhausted, bufferVars
  <2>7. CASE FinishRecording
    BY <2>2, <2>7 DEF FinishRecording, TakesInOrder
  <2> QED BY <2>3, <2>4, <2>5, <2>6, <2>7 DEF RunRecording
<1>12. Types'
  <2>1. TypeOK'
    <3>1. /\ takes' \in 0 .. MaxTakes
          /\ {file, uiTake, current}' \subseteq 1 .. takes' \cup {None}
          /\ (clips \cup over \cup overlapped \cup disarmed \cup replaced)' \subseteq 1 .. takes'
          /\ second' \in 1 .. takes' + 1
          /\ header' \in [Take -> Nat] /\ riff' \in [Take -> Int]
      BY <1>1 DEF Types, TypeOK, dawVars, fileVars
    <3>2. /\ length' \in [Take -> Int] /\ start' \in [Take -> {0, Offset}]
          /\ playing' \in BOOLEAN /\ recording' \in BOOLEAN /\ dropped' \in BOOLEAN
      BY <1>7, <1>8, <1>9
    <3>3. /\ countdown' \in 0 .. Offset + 1
          /\ enginePC' \in {"messages", "turn", "finish"}
          /\ Len(to') <= Capacity /\ Len(from') <= Capacity
      BY <1>3, <1>7, <1>8
    <3> QED BY <3>1, <3>2, <3>3 DEF TypeOK
  <2> QED BY <1>1, <1>3, <1>7, <1>10, <1>11, <2>1 DEF Types, dawVars, fileVars
<1>13. TakesInOrder'
  <2>1. takes' = takes /\ current' = current
    BY <1>1 DEF dawVars, fileVars
  <2>2. \A i \in DOMAIN to' : i \in Nat /\ (Starts(i)' =>
          i + n \in DOMAIN to /\ to'[i] = to[i + n])
    BY <1>3
  <2>3. (recording' => recording) /\ (enginePC' = "finish" => recording')
    BY <1>8
  <2>4. \A i \in DOMAIN from' :
          \/ \E j \in DOMAIN from : from'[i] = from[j]
          \/ from'[i].type \in {"Started", "RecordingStopped"} =>
               recording /\ from'[i].take = current
    BY <1>7
  <2>5. Order
    OBVIOUS
  <2> QED BY <2>1, <2>2, <2>3, <2>4, <2>5, TakesKept
<1>14. NoneSkipped'
  BY <1>1, <1>9 DEF NoneSkipped, Ahead
<1> QED BY <1>12, <1>13, <1>14

\* Every variable keeps its type, and the engine begins takes in the order in
\* which "record" asked for them (StartRecordingProcess::start_recording()).
THEOREM RecordingOrder == Spec => []Order
<1>1. Order /\ [Next]_vars => Order'
  <2> SUFFICES ASSUME Order, [Next]_vars PROVE Order'
    OBVIOUS
  <2>1. CASE Record
    BY <2>1, RecordKeepsOrder
  <2>2. CASE Disarm \/ (\E c \in Command : SendCommand(c)) \/ HandleMessage
    BY <2>2, DawKeepsOrder
  <2>3. CASE TakeStart
    BY <2>3, TakeStartKeepsOrder
  <2>4. CASE \/ Resupply \/ TakeCommand \/ BeginTurn \/ NotRecording
             \/ RunRecording \/ FinishRecording
    BY <2>4, EngineKeepsOrder
  <2>5. CASE UNCHANGED vars
    BY <2>5 DEF Order, Types, TypeOK, TakesInOrder, Starts, Ahead, NoneSkipped, TurnsOf,
                vars, dawVars, clipVars, engineVars, bufferVars, fileVars
  <2> QED BY <2>1, <2>2, <2>3, <2>4, <2>5 DEF Next, Engine
<1> QED BY <1>1, InitOrder, PTL DEF Spec

-----------------------------------------------------------------------------
(* The holders of record buffers.                                          *)

\* What carries record buffers in queue p did so in q, n places further on.
FromThere(q, p, n) ==
  \A i \in DOMAIN p : /\ i \in Nat
                      /\ IsBuffers(p, i) => i + n \in DOMAIN q /\ p[i] = q[i + n]
StillThere(q, p) ==
  \A b \in Buffers : InQueue(q, Continue(b)) => InQueue(p, Continue(b))

LEMMA UnsentBuffers ==
  ASSUME NEW q, NEW p, NEW n \in {0, 1}, FromThere(q, p, n), OnceIn(q)
  PROVE  /\ OnceIn(p)
         /\ \A i \in DOMAIN p : IsBuffers(p, i) => i + n \in DOMAIN q /\ p[i] = q[i + n]
                                                   /\ IsBuffers(q, i + n)
<1>1. \A i \in DOMAIN p : IsBuffers(p, i) => i + n \in DOMAIN q /\ p[i] = q[i + n]
                                             /\ IsBuffers(q, i + n)
  BY DEF FromThere, IsBuffers
<1>2. ASSUME NEW i \in DOMAIN p, NEW j \in DOMAIN p, IsBuffers(p, i), p[i] = p[j]
      PROVE  i = j
  <2>1. IsBuffers(p, j)
    BY <1>2 DEF IsBuffers
  <2>2. i + n = j + n
    BY <1>1, <1>2, <2>1 DEF OnceIn
  <2>3. i \in Nat /\ j \in Nat
    BY DEF FromThere
  <2> QED BY <2>2, <2>3
<1> QED BY <1>1, <1>2 DEF OnceIn

LEMMA HoldersKept ==
  ASSUME Order, Holders, UNCHANGED <<free, state, deleted>>, current' = current,
         NEW n \in {0, 1}, NEW m \in {0, 1}, FromThere(to, to', n), FromThere(from, from', m),
         to' \in Seq(ToMessage), from' \in Seq(FromMessage)
  PROVE  Holders'
<1>1. /\ OnceIn(to') /\ OnceIn(from')
      /\ \A i \in DOMAIN to' : IsBuffers(to', i) =>
           i + n \in DOMAIN to /\ to'[i] = to[i + n] /\ IsBuffers(to, i + n)
      /\ \A i \in DOMAIN from' : IsBuffers(from', i) =>
           i + m \in DOMAIN from /\ from'[i] = from[i + m] /\ IsBuffers(from, i + m)
  BY UnsentBuffers DEF Holders
<1>2. \A t \in Take : Ahead(t)' = Ahead(t)
  BY DEF Ahead
<1>3. ASSUME NEW t \in Take, Ahead(t), NEW b \in Elements(Supply(t))
      PROVE  state'[b] = "Resupplying" /\ \A i \in DOMAIN to' : to'[i] # Continue(b)
  <2>1. state'[b] = "Resupplying" /\ \A i \in DOMAIN to : to[i] # Continue(b)
    BY <1>3 DEF Holders
  <2>2. \A i \in DOMAIN to' : to'[i] = Continue(b) => IsBuffers(to', i)
    BY DEF Continue, IsBuffers
  <2> QED BY <1>1, <2>1, <2>2
<1> QED BY <1>1, <1>2, <1>3 DEF Holders

LEMMA NoneLostKept ==
  ASSUME Order, NoneLost, dropped => dropped', UNCHANGED <<free, deleted>>,
         StillThere(to, to'), StillThere(from, from'),
         \A t \in 1 .. takes' :
           \/ t \in 1 .. takes /\ (InQueue(to, StartRecording(t)) =>
                                     InQueue(to', StartRecording(t)))
           \/ InQueue(to', StartRecording(t)),
         1 .. takes' \subseteq Take
  PROVE  NoneLost'
<1> SUFFICES ASSUME ~dropped', NEW t \in 1 .. takes', NEW b \in Elements(Supply(t))
             PROVE  HasHolder(t, b)'
  BY DEF NoneLost, Supply, Elements
<1>1. b \in Buffers
  BY SupplyOf
<1>2. CASE InQueue(to', StartRecording(t))
  BY <1>2 DEF HasHolder
<1>3. CASE t \in 1 .. takes /\ ~InQueue(to', StartRecording(t))
  <2>1. HasHolder(t, b) /\ ~InQueue(to, StartRecording(t))
    BY <1>3 DEF NoneLost
  <2> QED BY <1>1, <2>1 DEF HasHolder, StillThere, IsFree
<1> QED BY <1>2, <1>3

LEMMA ToGrows ==
  ASSUME Order, NEW m \in ToMessage, SendTo(<<m>>)
  PROVE  /\ m.type # "Continue" => FromThere(to, to', 0)
         /\ \A x : InQueue(to, x) => InQueue(to', x)
         /\ ~dropped' => ~dropped /\ InQueue(to', m)
<1>1. /\ \A i \in DOMAIN to : i \in DOMAIN to' /\ to'[i] = to[i]
      /\ \A i \in DOMAIN to' : /\ i \in Nat
                               /\ (i \in DOMAIN to /\ to'[i] = to[i]) \/ to'[i] = m
      /\ ~dropped' => ~dropped /\ InQueue(to', m)
  BY SentToEngine
<1>2. \A i \in DOMAIN to : i + 0 = i
  BY DEF Order, Types
<1> QED BY <1>1, <1>2 DEF InQueue, FromThere, IsBuffers

LEMMA FromGrows ==
  ASSUME Order, NEW m \in FromMessage, SendFrom(<<m>>)
  PROVE  /\ m.type # "Continue" => FromThere(from, from', 0)
         /\ \A x : InQueue(from, x) => InQueue(from', x)
         /\ ~dropped' => ~dropped /\ InQueue(from', m)
<1>1. /\ \A i \in DOMAIN from : i \in DOMAIN from' /\ from'[i] = from[i]
      /\ \A i \in DOMAIN from' : /\ i \in Nat
                                 /\ (i \in DOMAIN from /\ from'[i] = from[i]) \/ from'[i] = m
      /\ ~dropped' => ~dropped /\ InQueue(from', m)
  BY SentFromEngine
<1>2. \A i \in DOMAIN from : i + 0 = i
  BY DEF Order, Types
<1> QED BY <1>1, <1>2 DEF InQueue, FromThere, IsBuffers

LEMMA ToShrinks ==
  ASSUME Order, to # << >>, to' = Tail(to)
  PROVE  /\ FromThere(to, to', 1)
         /\ \A x : InQueue(to, x) => x = to[1] \/ InQueue(to', x)
BY TakenByEngine DEF InQueue, FromThere

LEMMA FromShrinks ==
  ASSUME Order, from # << >>, from' = Tail(from)
  PROVE  /\ FromThere(from, from', 1)
         /\ \A x : InQueue(from, x) => x = from[1] \/ InQueue(from', x)
BY TakenByDAW DEF InQueue, FromThere

\* Nothing becomes of a queue that stays as it is.
LEMMA QueueStays ==
  ASSUME NEW S, NEW q \in Seq(S)
  PROVE  FromThere(q, q, 0) /\ StillThere(q, q)
BY DEF FromThere, StillThere

\* The steps that touch no record buffers.
Quiet == /\ UNCHANGED <<free, state, deleted, current, takes>>
         /\ \/ UNCHANGED to
            \/ \E m \in ToMessage : m.type # "Continue" /\ SendTo(<<m>>)
            \/ /\ to # << >> /\ to' = Tail(to)
               /\ Head(to).type \notin {"Continue", "StartRecording"}
         /\ \/ UNCHANGED from
            \/ \E m \in FromMessage : m.type # "Continue" /\ SendFrom(<<m>>)
            \/ from # << >> /\ from' = Tail(from) /\ Head(from).type # "Continue"
         /\ dropped => dropped'

LEMMA QuietKeepsHolders ==
  ASSUME Order, Holders, NoneLost, Order', Quiet
  PROVE  Holders' /\ NoneLost'
<1>1. PICK n \in {0, 1} :
        /\ FromThere(to, to', n) /\ StillThere(to, to')
        /\ \A t \in Take : InQueue(to, StartRecording(t)) => InQueue(to', StartRecording(t))
  <2>1. CASE to' = to
    BY <2>1, QueueStays DEF Order, Types
  <2>2. CASE \E m \in ToMessage : m.type # "Continue" /\ SendTo(<<m>>)
    BY <2>2, ToGrows DEF StillThere
  <2>3. CASE /\ to # << >> /\ to' = Tail(to)
             /\ Head(to).type \notin {"Continue", "StartRecording"}
    <3>1. to[1].type \notin {"Continue", "StartRecording"}
      BY <2>3, TakenByEngine
    <3>2. \A b \in Buffers : to[1] # Continue(b)
      BY <3>1 DEF Continue
    <3>3. \A t \in Take : to[1] # StartRecording(t)
      BY <3>1 DEF StartRecording
    <3> QED BY <2>3, <3>2, <3>3, ToShrinks DEF StillThere
  <2> QED BY <2>1, <2>2, <2>3 DEF Quiet
<1>2. PICK m \in {0, 1} : FromThere(from, from', m) /\ StillThere(from, from')
  <2>1. CASE from' = from
    BY <2>1, QueueStays DEF Order, Types
  <2>2. CASE \E x \in FromMessage : x.type # "Continue" /\ SendFrom(<<x>>)
    BY <2>2, FromGrows DEF StillThere
  <2>3. CASE from # << >> /\ from' = Tail(from) /\ Head(from).type # "Continue"
    <3>1. from[1].type # "Continue"
      BY <2>3, TakenByDAW
    <3>2. \A b \in Buffers : from[1] # Continue(b)
      BY <3>1 DEF Continue
    <3> QED BY <2>3, <3>2, FromShrinks DEF StillThere
  <2> QED BY <2>1, <2>2, <2>3 DEF Quiet
<1>3. Holders'
  BY <1>1, <1>2, HoldersKept DEF Quiet, Order, Types
<1>4. NoneLost'
  <2>1. takes' = takes /\ 1 .. takes \subseteq Take
    BY TakesAre DEF Quiet, Order
  <2> QED BY <1>1, <1>2, <2>1, NoneLostKept DEF Quiet
<1> QED BY <1>3, <1>4

LEMMA RecordKeepsHolders ==
  ASSUME Order, Holders, NoneLost, Order', Record
  PROVE  Holders' /\ NoneLost'
<1>1. PICK t \in Take : t = takes + 1 /\ takes' = t /\ SendTo(<<StartRecording(t)>>)
  <2>1. takes + 1 \in Take
    BY RecordingAssumption DEF Record, Order, Types, TypeOK, Take
  <2> QED BY <2>1 DEF Record
<1>2. UNCHANGED <<free, state, deleted, current, from>>
  BY DEF Record, engineVars, bufferVars
<1>3. /\ FromThere(to, to', 0) /\ StillThere(to, to')
      /\ \A x : InQueue(to, x) => InQueue(to', x)
      /\ ~dropped' => ~dropped /\ InQueue(to', StartRecording(t))
  BY <1>1, ToGrows, Messages DEF StartRecording, StillThere
<1>4. FromThere(from, from', 0) /\ StillThere(from, from')
  BY <1>2, QueueStays DEF Order, Types
<1>5. Holders'
  BY <1>2, <1>3, <1>4, HoldersKept DEF Order, Types
<1>6. NoneLost'
  <2> SUFFICES ASSUME ~dropped' PROVE NoneLost'
    BY DEF NoneLost
  <2>1. \A u \in 1 .. takes' : u \in 1 .. takes \/ InQueue(to', StartRecording(u))
    BY <1>1, <1>3, TakesAre DEF Order
  <2>2. 1 .. takes' \subseteq Take
    BY TakesAre, <1>1 DEF Order, Take
  <2> QED BY <1>2, <1>3, <1>4, <2>1, <2>2, NoneLostKept
<1> QED BY <1>5, <1>6

LEMMA WriteKeepsHolders ==
  ASSUME Order, Holders, NoneLost, Order', Write \/ Delete
  PROVE  Holders' /\ NoneLost'
<1>1. /\ from # << >> /\ from' = Tail(from)
      /\ 1 \in DOMAIN from /\ Head(from) = from[1] /\ from[1].type = "Continue"
      /\ from[1] \in FromMessage
  BY TakenByDAW DEF Write, Delete, fileVars
<1>2. PICK b \in Buffers : b = Head(from).buffers /\ from[1] = Continue(b)
  BY <1>1, MessageTypes
<1>3. /\ UNCHANGED <<free, current, takes>>
      /\ \/ /\ state[b] = "Writing" /\ state' = [state EXCEPT ![b] = "Resupplying"]
            /\ SendTo(<<Continue(b)>>) /\ deleted' = deleted
         \/ /\ state[b] = "Disposing" /\ state' = [state EXCEPT ![b] = "Done"]
            /\ UNCHANGED <<to, dropped>> /\ deleted' = deleted \cup {b}
  BY <1>2 DEF Write, Delete, engineVars, fileVars
<1>4. /\ FromThere(from, from', 1)
      /\ \A x : InQueue(from, x) => x = Continue(b) \/ InQueue(from', x)
  BY <1>1, <1>2, FromShrinks
<1>5. /\ OnceIn(from')
      /\ \A i \in DOMAIN from' : IsBuffers(from', i) =>
           i + 1 \in DOMAIN from /\ from'[i] = from[i + 1] /\ IsBuffers(from, i + 1)
  BY <1>4, UnsentBuffers DEF Holders
<1>6. state \in [Buffers -> {"Filling", "Writing", "Resupplying", "Disposing", "Done"}]
  BY DEF Order, Types
<1>7. ASSUME NEW i \in DOMAIN from', IsBuffers(from', i)
      PROVE  state'[from'[i].buffers] \in {"Writing", "Disposing"}
  <2>1. i + 1 \in DOMAIN from /\ from'[i] = from[i + 1] /\ IsBuffers(from, i + 1)
        /\ from[i + 1] \in FromMessage /\ i + 1 # 1
    BY <1>5, <1>7, TakenByDAW, <1>1 DEF Order, Types
  <2>2. from[i + 1] # from[1]
    BY <1>1, <2>1 DEF Holders, OnceIn
  <2>3. from[i + 1].buffers # b /\ from[i + 1].buffers \in Buffers
    BY <1>2, <2>1, <2>2, MessageTypes DEF IsBuffers
  <2>4. state[from[i + 1].buffers] \in {"Writing", "Disposing"}
    BY <2>1 DEF Holders
  <2> QED BY <1>3, <1>6, <2>1, <2>3, <2>4
<1>8. \A i \in DOMAIN free : free[i] \in Buffers /\ free[i] # b
  BY <1>3 DEF Holders, Order, Types
<1>9. /\ \A i \in DOMAIN free' : state'[free'[i]] = "Filling"
      /\ \A i, j \in DOMAIN free' : free'[i] = free'[j] => i = j
  <2>1. \A i \in DOMAIN free : state[free[i]] = "Filling"
    BY DEF Holders
  <2>2. \A i, j \in DOMAIN free : free[i] = free[j] => i = j
    BY DEF Holders
  <2> QED BY <1>3, <1>6, <1>8, <2>1, <2>2
<1>10. \A i \in DOMAIN to : to[i] # Continue(b)
  <2>1. \A i \in DOMAIN to : IsBuffers(to, i) => state[to[i].buffers] = "Resupplying"
    BY DEF Holders
  <2> QED BY <1>3, <2>1 DEF IsBuffers, Continue
<1>11. \A i \in DOMAIN to' :
         \/ i \in DOMAIN to /\ to'[i] = to[i]
         \/ i \notin DOMAIN to /\ i = Len(to) + 1 /\ to'[i] = Continue(b) /\ state[b] = "Writing"
  BY <1>3, SentToEngine, Messages
<1>12. OnceIn(to')
  <2>1. ASSUME NEW i \in DOMAIN to', NEW j \in DOMAIN to', IsBuffers(to', i), to'[i] = to'[j]
        PROVE  i = j
    <3>1. CASE i \in DOMAIN to /\ to'[i] = to[i]
      <4>1. j \in DOMAIN to /\ to'[j] = to[j]
        BY <1>10, <1>11, <2>1, <3>1
      <4> QED BY <2>1, <3>1, <4>1 DEF Holders, OnceIn, IsBuffers
    <3>2. CASE i \notin DOMAIN to /\ i = Len(to) + 1 /\ to'[i] = Continue(b)
      BY <1>10, <1>11, <2>1, <3>2
    <3> QED BY <1>11, <3>1, <3>2
  <2> QED BY <2>1 DEF OnceIn
<1>13. ASSUME NEW i \in DOMAIN to', IsBuffers(to', i)
       PROVE  state'[to'[i].buffers] = "Resupplying"
  <2>1. CASE i \in DOMAIN to /\ to'[i] = to[i]
    <3>1. to[i] \in ToMessage /\ to[i].type = "Continue"
      BY <1>13, <2>1 DEF IsBuffers, Order, Types
    <3>2. to[i].buffers \in Buffers /\ to[i] = Continue(to[i].buffers)
      BY <3>1, MessageTypes
    <3>3. to[i].buffers # b /\ state[to[i].buffers] = "Resupplying"
      BY <1>10, <2>1, <3>1, <3>2 DEF Holders, IsBuffers
    <3> QED BY <1>3, <1>6, <2>1, <3>2, <3>3
  <2>2. CASE to'[i] = Continue(b) /\ state[b] = "Writing"
    <3>1. to'[i].buffers = b
      BY <2>2 DEF Continue
    <3>2. state' = [state EXCEPT ![b] = "Resupplying"]
      BY <1>3, <2>2
    <3> QED BY <1>6, <3>1, <3>2
  <2> QED BY <1>11, <2>1, <2>2
<1>14. \A d \in deleted' : state'[d] = "Done"
  <2>1. deleted \subseteq Buffers /\ \A d \in deleted : state[d] = "Done"
    BY DEF Holders, Order, Types
  <2> QED BY <1>3, <1>6, <2>1
<1>15. ASSUME NEW t \in Take, Ahead(t), NEW d \in Elements(Supply(t))
       PROVE  state'[d] = "Resupplying" /\ \A i \in DOMAIN to' : to'[i] # Continue(d)
  <2>1. d \in Buffers /\ state[d] = "Resupplying" /\ \A i \in DOMAIN to : to[i] # Continue(d)
    BY <1>15, SupplyOf DEF Holders
  <2>2. d # b
    BY <1>3, <2>1
  <2>3. Continue(d) # Continue(b)
    BY <2>2 DEF Continue
  <2> QED BY <1>3, <1>6, <1>11, <2>1, <2>2, <2>3
<1>16. \A t \in Take : Ahead(t)' = Ahead(t)
  BY <1>3 DEF Ahead
<1>17. Holders'
  BY <1>5, <1>7, <1>9, <1>12, <1>13, <1>14, <1>15, <1>16 DEF Holders
<1>18. NoneLost'
  <2> SUFFICES ASSUME ~dropped', NEW t \in 1 .. takes, NEW d \in Elements(Supply(t))
               PROVE  HasHolder(t, d)'
    BY <1>3 DEF NoneLost, Supply, Elements
  <2>1. ~dropped /\ (SendTo(<<Continue(b)>>) => InQueue(to', Continue(b)))
    BY <1>3, ToGrows, Messages
  <2>2. HasHolder(t, d)
    BY <2>1 DEF NoneLost
  <2>3. \A x : InQueue(to, x) => InQueue(to', x)
    BY <1>3, ToGrows, Messages
  <2>4. Continue(d) = Continue(b) => d = b
    BY DEF Continue
  <2>5. d = b => b \in deleted' \/ InQueue(to', Continue(b))
    BY <1>3, <2>1
  <2> QED BY <1>3, <1>4, <2>2, <2>3, <2>4, <2>5 DEF HasHolder, IsFree
<1> QED BY <1>17, <1>18

LEMMA ResupplyKeepsHolders ==
  ASSUME Order, Holders, NoneLost, Order', Resupply
  PROVE  Holders' /\ NoneLost'
<1>1. /\ to # << >> /\ to' = Tail(to)
      /\ 1 \in DOMAIN to /\ Head(to) = to[1] /\ to[1].type = "Continue"
      /\ to[1] \in ToMessage
  BY TakenByEngine DEF Resupply
<1>2. PICK b \in Buffers : b = Head(to).buffers /\ to[1] = Continue(b)
  BY <1>1, MessageTypes
<1>3. /\ state[b] = "Resupplying" /\ state' = [state EXCEPT ![b] = "Filling"]
      /\ free' = <<b>> \o free
      /\ UNCHANGED <<deleted, current, takes, from, dropped>>
  BY <1>2 DEF Resupply, dawVars, fileVars
<1>4. /\ FromThere(to, to', 1)
      /\ \A x : InQueue(to, x) => x = Continue(b) \/ InQueue(to', x)
  BY <1>1, <1>2, ToShrinks
<1>5. /\ OnceIn(to')
      /\ \A i \in DOMAIN to' : IsBuffers(to', i) =>
           i + 1 \in DOMAIN to /\ to'[i] = to[i + 1] /\ IsBuffers(to, i + 1)
  BY <1>4, UnsentBuffers DEF Holders
<1>6. state \in [Buffers -> {"Filling", "Writing", "Resupplying", "Disposing", "Done"}]
  BY DEF Order, Types
<1>7. ASSUME NEW i \in DOMAIN to', IsBuffers(to', i)
      PROVE  state'[to'[i].buffers] = "Resupplying" /\ to'[i].buffers # b
  <2>1. i + 1 \in DOMAIN to /\ to'[i] = to[i + 1] /\ IsBuffers(to, i + 1)
        /\ to[i + 1] \in ToMessage /\ i + 1 # 1
    BY <1>5, <1>7, TakenByEngine, <1>1 DEF Order, Types
  <2>2. to[i + 1] # to[1]
    BY <1>1, <2>1 DEF Holders, OnceIn
  <2>3. to[i + 1].buffers # b /\ to[i + 1].buffers \in Buffers
    BY <1>2, <2>1, <2>2, MessageTypes DEF IsBuffers
  <2>4. state[to[i + 1].buffers] = "Resupplying"
    BY <2>1 DEF Holders
  <2> QED BY <1>3, <1>6, <2>1, <2>3, <2>4
<1>8. /\ free \in Seq(Buffers) /\ \A i \in DOMAIN free : free[i] \in Buffers /\ free[i] # b
      /\ \A i \in DOMAIN free : state[free[i]] = "Filling"
  BY <1>3 DEF Holders, Order, Types
<1>9. \A i \in DOMAIN free' : i \in Nat
        /\ ((i = 1 /\ free'[i] = b) \/ (i - 1 \in DOMAIN free /\ free'[i] = free[i - 1]))
  <2>1. /\ Len(free') = 1 + Len(free) /\ free' \in Seq(Buffers) /\ Len(free) \in Nat
        /\ DOMAIN free' = 1 .. 1 + Len(free) /\ DOMAIN free = 1 .. Len(free)
        /\ \A i \in 1 .. 1 + Len(free) : free'[i] = IF i <= 1 THEN b ELSE free[i - 1]
    BY <1>3, <1>8, ConcatProperties
  <2> QED BY <2>1
<1>10. /\ \A i \in DOMAIN free' : state'[free'[i]] = "Filling"
       /\ \A i, j \in DOMAIN free' : free'[i] = free'[j] => i = j
  <2>1. \A i \in DOMAIN free' : state'[free'[i]] = "Filling"
    BY <1>3, <1>6, <1>8, <1>9
  <2>2. ASSUME NEW i \in DOMAIN free', NEW j \in DOMAIN free', free'[i] = free'[j]
        PROVE  i = j
    <3>1. i = 1 <=> j = 1
      BY <1>8, <1>9, <2>2
    <3>2. CASE i # 1 /\ j # 1
      <4>1. i - 1 = j - 1
        BY <1>9, <2>2, <3>2 DEF Holders
      <4> QED BY <1>9, <4>1
    <3> QED BY <3>1, <3>2
  <2> QED BY <2>1, <2>2
<1>11. ASSUME NEW i \in DOMAIN from', IsBuffers(from', i)
       PROVE  state'[from'[i].buffers] \in {"Writing", "Disposing"}
  <2>1. from[i].buffers \in Buffers
    BY <1>3, <1>11, MessageTypes DEF IsBuffers, Order, Types
  <2>2. state[from[i].buffers] \in {"Writing", "Disposing"}
    BY <1>3, <1>11 DEF Holders, IsBuffers
  <2> QED BY <1>3, <1>6, <2>1, <2>2
<1>12. \A d \in deleted' : state'[d] = "Done"
  <2>1. deleted \subseteq Buffers /\ \A d \in deleted : state[d] = "Done"
    BY DEF Holders, Order, Types
  <2> QED BY <1>3, <1>6, <2>1
<1>13. ASSUME NEW t \in Take, Ahead(t), NEW d \in Elements(Supply(t))
       PROVE  state'[d] = "Resupplying" /\ \A i \in DOMAIN to' : to'[i] # Continue(d)
  <2>1. d \in Buffers /\ state[d] = "Resupplying" /\ \A i \in DOMAIN to : to[i] # Continue(d)
    BY <1>13, SupplyOf DEF Holders
  <2>2. d # b
    BY <1>1, <1>2, <2>1
  <2>3. \A i \in DOMAIN to' : to'[i] = Continue(d) => IsBuffers(to', i)
    BY DEF IsBuffers, Continue
  <2> QED BY <1>3, <1>5, <1>6, <2>1, <2>2, <2>3
<1>14. \A t \in Take : Ahead(t)' = Ahead(t)
  BY <1>3 DEF Ahead
<1>15. OnceIn(from')
  BY <1>3 DEF Holders
<1>16. Holders'
  BY <1>5, <1>7, <1>10, <1>11, <1>12, <1>13, <1>14, <1>15 DEF Holders
<1>17. NoneLost'
  <2> SUFFICES ASSUME ~dropped, NEW t \in 1 .. takes, NEW d \in Elements(Supply(t))
               PROVE  HasHolder(t, d)'
    BY <1>3 DEF NoneLost, Supply, Elements
  <2>1. HasHolder(t, d)
    BY DEF NoneLost
  <2>2. Continue(d) = Continue(b) => d = b
    BY DEF Continue
  <2>3. StartRecording(t) # Continue(b)
    BY DEF StartRecording, Continue
  <2>4. 1 \in DOMAIN free' /\ free'[1] = b
        /\ \A i \in DOMAIN free : i + 1 \in DOMAIN free' /\ free'[i + 1] = free[i]
    BY <1>3, <1>8
  <2>5. d = b \/ IsFree(d) => IsFree(d)'
    BY <2>4 DEF IsFree, Elements
  <2> QED BY <1>3, <1>4, <2>1, <2>2, <2>3, <2>5 DEF HasHolder
<1> QED BY <1>16, <1>17

LEMMA TakeStartKeepsHolders ==
  ASSUME Order, Holders, NoneLost, Order', TakeStart
  PROVE  Holders' /\ NoneLost'
<1>1. PICK t \in Take : to[1] = StartRecording(t) /\ Head(to) = to[1] /\ 1 \in DOMAIN to
  <2>1. /\ to[1] \in ToMessage /\ Head(to) = to[1] /\ 1 \in DOMAIN to
        /\ to[1].type = "StartRecording"
    BY TakenByEngine DEF TakeStart
  <2> QED BY <2>1, MessageTypes
<1>2. /\ to # << >> /\ to' = Tail(to)
      /\ free' = Supply(t) \o free
      /\ state' = [b \in Buffers |-> IF b \in Elements(Supply(t)) THEN "Filling"
                                                                ELSE state[b]]
      /\ current' = t /\ SendFrom(<<Started(t)>>) /\ UNCHANGED <<takes, deleted>>
  <2>1. Head(to).take = t
    BY <1>1 DEF StartRecording
  <2> QED BY <2>1 DEF TakeStart, dawVars, fileVars
<1>3. t \in 1 .. takes /\ Ahead(t)
  <2>1. to[1].take = t /\ to[1].type = "StartRecording"
    BY <1>1 DEF StartRecording
  <2> QED BY <1>1, <2>1 DEF Order, TakesInOrder, Starts, Take
<1>4. \A b \in Elements(Supply(t)) :
        state[b] = "Resupplying" /\ \A i \in DOMAIN to : to[i] # Continue(b)
  BY <1>3 DEF Holders
<1>5. /\ FromThere(to, to', 1)
      /\ \A x : InQueue(to, x) => x = StartRecording(t) \/ InQueue(to', x)
  BY <1>1, <1>2, ToShrinks
<1>6. /\ FromThere(from, from', 0)
      /\ \A x : InQueue(from, x) => InQueue(from', x)
      /\ ~dropped' => ~dropped
  BY <1>2, FromGrows, Messages DEF Started
<1>7. /\ OnceIn(to') /\ OnceIn(from')
      /\ \A i \in DOMAIN to' : IsBuffers(to', i) =>
           i + 1 \in DOMAIN to /\ to'[i] = to[i + 1] /\ IsBuffers(to, i + 1)
      /\ \A i \in DOMAIN from' : IsBuffers(from', i) =>
           i + 0 \in DOMAIN from /\ from'[i] = from[i + 0] /\ IsBuffers(from, i + 0)
  BY <1>5, <1>6, UnsentBuffers DEF Holders
<1>8. Elements(Supply(t)) \subseteq Buffers
      /\ state \in [Buffers -> {"Filling", "Writing", "Resupplying", "Disposing", "Done"}]
  BY SupplyOf DEF Order, Types
<1>9. \A b \in Buffers : state[b] # "Resupplying" => state'[b] = state[b]
  BY <1>2, <1>4, <1>8
<1>10. ASSUME NEW i \in DOMAIN to', IsBuffers(to', i)
       PROVE  state'[to'[i].buffers] = "Resupplying"
  <2>1. to[i + 1] \in ToMessage /\ to[i + 1].type = "Continue" /\ i + 1 \in DOMAIN to
    BY <1>7, <1>10 DEF IsBuffers, Order, Types
  <2>2. to[i + 1].buffers \in Buffers /\ to[i + 1] = Continue(to[i + 1].buffers)
    BY <2>1, MessageTypes
  <2>3. to[i + 1].buffers \notin Elements(Supply(t))
    BY <1>4, <2>1, <2>2
  <2>4. state[to[i + 1].buffers] = "Resupplying"
    BY <2>1 DEF Holders, IsBuffers
  <2> QED BY <1>2, <1>7, <1>10, <2>2, <2>3, <2>4
<1>11. ASSUME NEW i \in DOMAIN from', IsBuffers(from', i)
       PROVE  state'[from'[i].buffers] \in {"Writing", "Disposing"}
  <2>1. /\ from'[i] = from[i + 0] /\ from[i + 0] \in FromMessage
        /\ from[i + 0].type = "Continue" /\ i + 0 \in DOMAIN from
    BY <1>7, <1>11 DEF IsBuffers, Order, Types
  <2>2. from[i + 0].buffers \in Buffers
    BY <2>1, MessageTypes
  <2>3. state[from[i + 0].buffers] \in {"Writing", "Disposing"}
    BY <2>1 DEF Holders, IsBuffers
  <2> QED BY <1>9, <2>1, <2>2, <2>3
<1>12. /\ free \in Seq(Buffers) /\ \A i \in DOMAIN free : free[i] \in Buffers
       /\ \A i \in DOMAIN free : state[free[i]] = "Filling"
       /\ \A i, j \in DOMAIN free : free[i] = free[j] => i = j
  BY DEF Holders, Order, Types
<1> DEFINE s == Supply(t)
           n == Len(s)
<1>13. /\ s \in Seq(Buffers) /\ n \in Nat /\ DOMAIN s = 1 .. n
       /\ \A i, j \in DOMAIN s : s[i] = s[j] => i = j
       /\ Elements(s) = Elements(Supply(t))
       /\ \A i \in DOMAIN s : s[i] \in Elements(Supply(t))
  BY SupplyOf, RecordingAssumption DEF Elements
<1>14. free' = s \o free
  BY <1>2
<1> HIDE DEF s, n
<1>15. /\ DOMAIN free' = 1 .. n + Len(free) /\ Len(free) \in Nat
       /\ DOMAIN free = 1 .. Len(free)
       /\ \A i \in 1 .. n + Len(free) : free'[i] = IF i <= n THEN s[i] ELSE free[i - n]
  <2>1. n = Len(s)
    BY DEF n
  <2> QED BY <1>12, <1>13, <1>14, <2>1, ConcatProperties
<1>16. \A i \in DOMAIN free' :
         \/ i \in DOMAIN s /\ free'[i] = s[i] /\ i <= n
         \/ i - n \in DOMAIN free /\ free'[i] = free[i - n] /\ ~(i <= n)
  BY <1>13, <1>15
<1>17. ASSUME NEW i \in DOMAIN free' PROVE state'[free'[i]] = "Filling"
  <2>1. CASE i \in DOMAIN s /\ free'[i] = s[i]
    <3>1. s[i] \in Elements(Supply(t)) /\ s[i] \in Buffers
      BY <1>13, <2>1, SupplyOf
    <3> QED BY <1>2, <2>1, <3>1
  <2>2. CASE i - n \in DOMAIN free /\ free'[i] = free[i - n]
    <3>1. free[i - n] \in Buffers /\ state[free[i - n]] = "Filling"
      BY <1>12, <2>2
    <3> QED BY <1>9, <2>2, <3>1
  <2> QED BY <1>16, <2>1, <2>2
<1>18. ASSUME NEW i \in DOMAIN free', NEW j \in DOMAIN free', free'[i] = free'[j]
       PROVE  i = j
  <2>1. i \in Nat /\ j \in Nat
    BY <1>15
  <2>2. i <= n <=> j <= n
    BY <1>4, <1>12, <1>13, <1>16, <1>18
  <2>3. CASE i <= n
    BY <1>13, <1>16, <1>18, <2>2, <2>3
  <2>4. CASE ~(i <= n)
    <3>1. i - n = j - n
      BY <1>12, <1>16, <1>18, <2>2, <2>4
    <3> QED BY <1>13, <2>1, <3>1
  <2> QED BY <2>3, <2>4
<1>19. \A d \in deleted' : state'[d] = "Done"
  <2>1. deleted \subseteq Buffers /\ \A d \in deleted : state[d] = "Done"
    BY DEF Holders, Order, Types
  <2> QED BY <1>2, <1>9, <2>1
<1>20. \A u \in Take : Ahead(u)' => Ahead(u) /\ u # t
  <2> SUFFICES ASSUME NEW u \in Take, Ahead(u)' PROVE Ahead(u) /\ u # t
    OBVIOUS
  <2>1. /\ u \in Nat /\ t \in Nat /\ t # None
        /\ current \in Nat \/ current = None
    BY TakesAre DEF Order
  <2>2. u > t
    BY <1>2, <2>1 DEF Ahead
  <2> QED BY <1>3, <2>1, <2>2 DEF Ahead
<1>21. ASSUME NEW u \in Take, Ahead(u)', NEW d \in Elements(Supply(u))
       PROVE  state'[d] = "Resupplying" /\ \A i \in DOMAIN to' : to'[i] # Continue(d)
  <2>1. Ahead(u) /\ u # t
    BY <1>20, <1>21
  <2>2. d \in Buffers /\ state[d] = "Resupplying" /\ \A i \in DOMAIN to : to[i] # Continue(d)
    BY <2>1, SupplyOf DEF Holders
  <2>3. d \notin Elements(Supply(t))
    BY <2>1, SuppliesApart
  <2>4. \A i \in DOMAIN to' : to'[i] = Continue(d) => IsBuffers(to', i)
    BY DEF IsBuffers, Continue
  <2> QED BY <1>2, <1>7, <2>2, <2>3, <2>4
<1>22. Holders'
  BY <1>7, <1>10, <1>11, <1>17, <1>18, <1>19, <1>21 DEF Holders
<1>23. NoneLost'
  <2> SUFFICES ASSUME ~dropped', NEW u \in 1 .. takes, NEW d \in Elements(Supply(u))
               PROVE  HasHolder(u, d)'
    BY <1>2 DEF NoneLost, Supply, Elements
  <2>1. HasHolder(u, d)
    BY <1>6 DEF NoneLost
  <2>2. StartRecording(u) = StartRecording(t) => u = t
    BY DEF StartRecording
  <2>3. Continue(d) # StartRecording(t)
    BY DEF StartRecording, Continue
  <2>4. /\ \A i \in DOMAIN s : i \in DOMAIN free' /\ free'[i] = s[i]
        /\ \A i \in DOMAIN free : i + n \in DOMAIN free' /\ free'[i + n] = free[i]
    <3>1. ASSUME NEW i \in DOMAIN s PROVE i \in DOMAIN free' /\ free'[i] = s[i]
      <4>1. i \in 1 .. n + Len(free) /\ i <= n
        BY <1>13, <1>15
      <4> QED BY <1>15, <4>1
    <3>2. ASSUME NEW i \in DOMAIN free
          PROVE  i + n \in DOMAIN free' /\ free'[i + n] = free[i]
      <4> DEFINE m == i + n
      <4>1. m \in 1 .. n + Len(free) /\ ~(m <= n) /\ m - n = i
        BY <1>13, <1>15
      <4> HIDE DEF m
      <4>2. m \in DOMAIN free' /\ free'[m] = free[m - n]
        BY <1>15, <4>1
      <4> QED BY <4>1, <4>2 DEF m
    <3> QED BY <3>1, <3>2
  <2>5. ASSUME u = t PROVE IsFree(d)'
    <3>1. d \in Elements(s)
      BY <1>13, <2>5
    <3>2. PICK i \in DOMAIN s : d = s[i]
      BY <3>1 DEF Elements
    <3>3. i \in DOMAIN free' /\ free'[i] = d
      BY <2>4, <3>2
    <3> QED BY <3>3 DEF IsFree, Elements
  <2>6. IsFree(d) => IsFree(d)'
    BY <2>4 DEF IsFree, Elements
  <2> QED BY <1>2, <1>5, <1>6, <2>1, <2>2, <2>3, <2>5, <2>6 DEF HasHolder
<1> QED BY <1>22, <1>23

LEMMA SendUpKeepsHolders ==
  ASSUME Order, Holders, NoneLost, Order', SendUp, RunRecording
  PROVE  Holders' /\ NoneLost'
<1>1. PICK b \in Buffers :
        /\ b = Head(free) /\ free[1] = b /\ 1 \in DOMAIN free
        /\ free' = Tail(free)
        /\ \A i \in DOMAIN free : i \in Nat
        /\ \A i \in DOMAIN free' : i \in Nat \ {0} /\ i + 1 \in DOMAIN free /\ free'[i] = free[i + 1]
        /\ \A i \in DOMAIN free : i # 1 => i - 1 \in DOMAIN free' /\ free'[i - 1] = free[i]
  <2>1. free # << >> /\ free \in Seq(Buffers) /\ free' = Tail(free)
    BY DEF SendUp, Order, Types
  <2> QED BY <2>1, TailOfQueue
<1>2. /\ state' = [state EXCEPT ![b] = "Writing"] /\ SendFrom(<<Continue(b)>>)
      /\ UNCHANGED <<to, deleted, current, takes>>
  BY <1>1 DEF SendUp, RunRecording, dawVars, fileVars
<1>3. /\ state \in [Buffers -> {"Filling", "Writing", "Resupplying", "Disposing", "Done"}]
      /\ \A i \in DOMAIN free : free[i] \in Buffers /\ state[free[i]] = "Filling"
      /\ \A i, j \in DOMAIN free : free[i] = free[j] => i = j
      /\ state[b] = "Filling"
  BY <1>1 DEF Holders, Order, Types
<1>4. \A i \in DOMAIN from' :
        \/ i \in DOMAIN from /\ from'[i] = from[i]
        \/ i \notin DOMAIN from /\ i = Len(from) + 1 /\ from'[i] = Continue(b)
  BY <1>2, SentFromEngine, Messages
<1>5. \A i \in DOMAIN from : from[i] # Continue(b)
  BY <1>3 DEF Holders, IsBuffers, Continue
<1>6. OnceIn(from')
  <2>1. ASSUME NEW i \in DOMAIN from', NEW j \in DOMAIN from', IsBuffers(from', i),
               from'[i] = from'[j]
        PROVE  i = j
    <3>1. CASE i \in DOMAIN from /\ from'[i] = from[i]
      <4>1. j \in DOMAIN from /\ from'[j] = from[j]
        BY <1>4, <1>5, <2>1, <3>1
      <4> QED BY <2>1, <3>1, <4>1 DEF Holders, OnceIn, IsBuffers
    <3>2. CASE i \notin DOMAIN from /\ i = Len(from) + 1 /\ from'[i] = Continue(b)
      BY <1>4, <1>5, <2>1, <3>2
    <3> QED BY <1>4, <3>1, <3>2
  <2> QED BY <2>1 DEF OnceIn
<1>7. ASSUME NEW i \in DOMAIN from', IsBuffers(from', i)
      PROVE  state'[from'[i].buffers] \in {"Writing", "Disposing"}
  <2>1. CASE i \in DOMAIN from /\ from'[i] = from[i]
    <3>1. from[i] \in FromMessage /\ from[i].type = "Continue"
      BY <1>7, <2>1 DEF IsBuffers, Order, Types
    <3>2. from[i].buffers \in Buffers
      BY <3>1, MessageTypes
    <3>3. state[from[i].buffers] \in {"Writing", "Disposing"}
      BY <2>1, <3>1 DEF Holders, IsBuffers
    <3> QED BY <1>2, <1>3, <2>1, <3>2, <3>3
  <2>2. CASE from'[i] = Continue(b)
    BY <1>2, <1>3, <2>2 DEF Continue
  <2> QED BY <1>4, <2>1, <2>2
<1>8. \A i, j \in DOMAIN free' : free'[i] = free'[j] => i = j
  <2> SUFFICES ASSUME NEW i \in DOMAIN free', NEW j \in DOMAIN free', free'[i] = free'[j]
               PROVE  i = j
    OBVIOUS
  <2>1. i + 1 = j + 1 /\ i \in Nat /\ j \in Nat
    BY <1>1, <1>3
  <2> QED BY <2>1
<1>9. \A i \in DOMAIN free' : state'[free'[i]] = "Filling"
  <2> SUFFICES ASSUME NEW i \in DOMAIN free' PROVE state'[free'[i]] = "Filling"
    OBVIOUS
  <2>1. i + 1 \in DOMAIN free /\ free'[i] = free[i + 1] /\ i + 1 # 1
    BY <1>1
  <2>2. free[i + 1] # b /\ free[i + 1] \in Buffers /\ state[free[i + 1]] = "Filling"
    BY <1>1, <1>3, <2>1
  <2> QED BY <1>2, <1>3, <2>1, <2>2
<1>10. ASSUME NEW i \in DOMAIN to', IsBuffers(to', i)
       PROVE  state'[to'[i].buffers] = "Resupplying"
  <2>1. to[i] \in ToMessage /\ to[i].type = "Continue" /\ to' = to
    BY <1>2, <1>10 DEF IsBuffers, Order, Types
  <2>2. to[i].buffers \in Buffers /\ state[to[i].buffers] = "Resupplying"
    BY <1>10, <2>1, MessageTypes DEF Holders, IsBuffers
  <2> QED BY <1>2, <1>3, <2>1, <2>2
<1>11. \A d \in deleted' : state'[d] = "Done"
  <2>1. deleted \subseteq Buffers /\ \A d \in deleted : state[d] = "Done"
    BY DEF Holders, Order, Types
  <2> QED BY <1>2, <1>3, <2>1
<1>12. ASSUME NEW t \in Take, Ahead(t)', NEW d \in Elements(Supply(t))
       PROVE  state'[d] = "Resupplying" /\ \A i \in DOMAIN to' : to'[i] # Continue(d)
  <2>1. Ahead(t)
    BY <1>2, <1>12 DEF Ahead
  <2>2. d \in Buffers /\ state[d] = "Resupplying" /\ \A i \in DOMAIN to : to[i] # Continue(d)
    BY <2>1, SupplyOf DEF Holders
  <2> QED BY <1>2, <1>3, <2>2
<1>13. OnceIn(to')
  BY <1>2 DEF Holders
<1>14. Holders'
  BY <1>6, <1>7, <1>8, <1>9, <1>10, <1>11, <1>12, <1>13 DEF Holders
<1>15. NoneLost'
  <2> SUFFICES ASSUME ~dropped', NEW t \in 1 .. takes, NEW d \in Elements(Supply(t))
               PROVE  HasHolder(t, d)'
    BY <1>2 DEF NoneLost, Supply, Elements
  <2>1. ~dropped /\ InQueue(from', Continue(b)) /\ \A x : InQueue(from, x) => InQueue(from', x)
    BY <1>2, FromGrows, Messages
  <2>2. HasHolder(t, d)
    BY <2>1 DEF NoneLost
  <2>3. ASSUME IsFree(d) PROVE d = b \/ IsFree(d)'
    <3>1. PICK i \in DOMAIN free : free[i] = d
      BY <2>3 DEF IsFree, Elements
    <3>2. i # 1 => i - 1 \in DOMAIN free' /\ free'[i - 1] = d
      BY <1>1, <3>1
    <3> QED BY <1>1, <3>1, <3>2 DEF IsFree, Elements
  <2> QED BY <1>2, <2>1, <2>2, <2>3 DEF HasHolder
<1> QED BY <1>14, <1>15

LEMMA DisposeKeepsHolders ==
  ASSUME Order, Holders, NoneLost, Order', NEW t \in Take, DisposeAfter(<<Stopped(t)>>),
         to' = to \/ (to # << >> /\ to' = Tail(to) /\ Head(to).type = "Transport"),
         UNCHANGED <<deleted, current, takes>>
  PROVE  Holders' /\ NoneLost'
<1>1. /\ free' = << >>
      /\ \A b \in Buffers : state'[b] = IF IsFree(b) THEN "Disposing" ELSE state[b]
  BY DisposeKeepsTypes
<1>2. /\ Len(from) \in Nat
      /\ \A i \in DOMAIN from : i \in DOMAIN from' /\ from'[i] = from[i]
      /\ \A i \in DOMAIN from' :
              \/ i \in DOMAIN from /\ from'[i] = from[i]
              \/ i \notin DOMAIN from /\ from'[i] = Stopped(t)
              \/ /\ i \notin DOMAIN from /\ i \in Nat
                 /\ i - Len(from) - 1 \in DOMAIN free
                 /\ from'[i] = Continue(free[i - Len(from) - 1])
      /\ ~dropped' => /\ ~dropped
                      /\ \A i \in DOMAIN free : InQueue(from', Continue(free[i]))
  BY DisposedAfterStop
<1>3. /\ \A i \in DOMAIN free : free[i] \in Buffers /\ state[free[i]] = "Filling"
      /\ \A i, j \in DOMAIN free : free[i] = free[j] => i = j
      /\ \A b \in Buffers : IsFree(b) => state[b] = "Filling"
  BY DEF Holders, Order, Types, IsFree, Elements
<1>4. PICK n \in {0, 1} : /\ FromThere(to, to', n)
                          /\ \A b \in Buffers, u \in Take :
                               /\ InQueue(to, Continue(b)) => InQueue(to', Continue(b))
                               /\ InQueue(to, StartRecording(u)) => InQueue(to', StartRecording(u))
  <2>1. CASE to' = to
    BY <2>1, QueueStays DEF Order, Types
  <2>2. CASE to # << >> /\ to' = Tail(to) /\ Head(to).type = "Transport"
    <3>1. to[1].type = "Transport"
      BY <2>2, TakenByEngine
    <3>2. \A b \in Buffers, u \in Take : to[1] # Continue(b) /\ to[1] # StartRecording(u)
      BY <3>1 DEF Continue, StartRecording
    <3> QED BY <2>2, <3>2, ToShrinks
  <2> QED BY <2>1, <2>2
<1>5. /\ OnceIn(to')
      /\ \A i \in DOMAIN to' : IsBuffers(to', i) =>
           i + n \in DOMAIN to /\ to'[i] = to[i + n] /\ IsBuffers(to, i + n)
  <2>1. FromThere(to, to', n) /\ OnceIn(to)
    BY <1>4 DEF Holders
  <2> QED BY <2>1, UnsentBuffers
<1>6. ASSUME NEW i \in DOMAIN to', IsBuffers(to', i)
      PROVE  state'[to'[i].buffers] = "Resupplying"
  <2>1. /\ to'[i] = to[i + n] /\ i + n \in DOMAIN to
        /\ to[i + n] \in ToMessage /\ to[i + n].type = "Continue"
    <3>1. to'[i] = to[i + n] /\ i + n \in DOMAIN to /\ IsBuffers(to, i + n)
      BY <1>5, <1>6
    <3>2. to \in Seq(ToMessage)
      BY DEF Order, Types
    <3>3. to[i + n] \in ToMessage
      BY <3>1, <3>2
    <3> QED BY <3>1, <3>3 DEF IsBuffers
  <2>2. to[i + n].buffers \in Buffers /\ state[to[i + n].buffers] = "Resupplying"
    BY <2>1, MessageTypes DEF Holders, IsBuffers
  <2> QED BY <1>1, <1>3, <2>1, <2>2
<1>7. ASSUME NEW i \in DOMAIN from', IsBuffers(from', i)
      PROVE  \/ /\ i \in DOMAIN from /\ from'[i] = from[i]
                /\ from[i].buffers \in Buffers
                /\ state[from[i].buffers] \in {"Writing", "Disposing"}
             \/ /\ i \notin DOMAIN from /\ i \in Nat
                /\ i - Len(from) - 1 \in DOMAIN free
                /\ from'[i] = Continue(free[i - Len(from) - 1])
  <2>1. CASE i \in DOMAIN from /\ from'[i] = from[i]
    <3>1. from[i] \in FromMessage /\ from[i].type = "Continue"
      BY <1>7, <2>1 DEF IsBuffers, Order, Types
    <3>2. from[i].buffers \in Buffers
      BY <3>1, MessageTypes
    <3> QED BY <2>1, <3>1, <3>2 DEF Holders, IsBuffers
  <2>2. from'[i] # Stopped(t)
    BY <1>7 DEF IsBuffers, Stopped
  <2> QED BY <1>2, <2>1, <2>2
<1>8. ASSUME NEW i \in DOMAIN from', IsBuffers(from', i)
      PROVE  state'[from'[i].buffers] \in {"Writing", "Disposing"}
  <2>1. CASE /\ i \in DOMAIN from /\ from'[i] = from[i]
             /\ from[i].buffers \in Buffers
             /\ state[from[i].buffers] \in {"Writing", "Disposing"}
    BY <1>1, <1>3, <2>1
  <2>2. CASE /\ i - Len(from) - 1 \in DOMAIN free
             /\ from'[i] = Continue(free[i - Len(from) - 1])
    <3> DEFINE b == free[i - Len(from) - 1]
    <3>1. b \in Buffers /\ IsFree(b) /\ from'[i].buffers = b
      BY <1>3, <2>2 DEF IsFree, Elements, Continue
    <3> QED BY <1>1, <3>1
  <2> QED BY <1>7, <1>8, <2>1, <2>2
<1>9. ASSUME NEW i \in DOMAIN from', NEW j \in DOMAIN from', IsBuffers(from', i),
             from'[i] = from'[j]
      PROVE  i = j
  <2>1. IsBuffers(from', j)
    BY <1>9 DEF IsBuffers
  <2>2. ASSUME NEW k \in DOMAIN from, NEW l \in DOMAIN free,
               state[from[k].buffers] \in {"Writing", "Disposing"}
        PROVE  from[k] # Continue(free[l])
    BY <1>3, <2>2 DEF Continue
  <2>3. CASE i \in DOMAIN from
    BY <1>7, <1>9, <2>1, <2>2, <2>3 DEF Holders, OnceIn, IsBuffers
  <2>4. CASE i \notin DOMAIN from
    <3>1. j \notin DOMAIN from
      BY <1>7, <1>9, <2>1, <2>2, <2>4
    <3>2. /\ i - Len(from) - 1 \in DOMAIN free /\ j - Len(from) - 1 \in DOMAIN free
          /\ Continue(free[i - Len(from) - 1]) = Continue(free[j - Len(from) - 1])
          /\ i \in Nat /\ j \in Nat
      BY <1>7, <1>9, <2>1, <2>4, <3>1
    <3>3. free[i - Len(from) - 1] = free[j - Len(from) - 1]
      BY <3>2 DEF Continue
    <3>4. i - Len(from) - 1 = j - Len(from) - 1
      BY <1>3, <3>2, <3>3
    <3> QED BY <1>2, <3>2, <3>4
  <2> QED BY <2>3, <2>4
<1>10. OnceIn(from')
  BY <1>9 DEF OnceIn
<1>11. \A d \in deleted' : state'[d] = "Done"
  <2>1. deleted \subseteq Buffers /\ \A d \in deleted : state[d] = "Done"
    BY DEF Holders, Order, Types
  <2> QED BY <1>1, <1>3, <2>1
<1>12. ASSUME NEW u \in Take, Ahead(u)', NEW d \in Elements(Supply(u))
       PROVE  state'[d] = "Resupplying" /\ \A i \in DOMAIN to' : to'[i] # Continue(d)
  <2>1. Ahead(u)
    BY <1>12 DEF Ahead
  <2>2. d \in Buffers /\ state[d] = "Resupplying" /\ \A i \in DOMAIN to : to[i] # Continue(d)
    BY <2>1, SupplyOf DEF Holders
  <2>3. \A i \in DOMAIN to' : to'[i] = Continue(d) => IsBuffers(to', i)
    BY DEF IsBuffers, Continue
  <2> QED BY <1>1, <1>3, <1>5, <2>2, <2>3
<1>13. Holders'
  <2>1. /\ \A i, j \in DOMAIN free' : free'[i] = free'[j] => i = j
        /\ \A i \in DOMAIN free' : state'[free'[i]] = "Filling"
    BY <1>1
  <2> QED BY <1>5, <1>6, <1>8, <1>10, <1>11, <1>12, <2>1 DEF Holders
<1>14. NoneLost'
  <2> SUFFICES ASSUME ~dropped', NEW u \in 1 .. takes, NEW d \in Elements(Supply(u))
               PROVE  HasHolder(u, d)'
    BY DEF NoneLost, Supply, Elements
  <2>1. HasHolder(u, d) /\ u \in Take
    BY <1>2, TakesAre DEF NoneLost, Order
  <2>2. d \in Buffers
    BY <2>1, SupplyOf
  <2>3. InQueue(from, Continue(d)) => InQueue(from', Continue(d))
    BY <1>2 DEF InQueue
  <2>4. IsFree(d) => InQueue(from', Continue(d))
    BY <1>2 DEF IsFree, Elements
  <2> QED BY <1>4, <2>1, <2>2, <2>3, <2>4 DEF HasHolder
<1> QED BY <1>13, <1>14

LEMMA NextKeepsHolders ==
  ASSUME Order, Holders, NoneLost, Order', [Next]_vars
  PROVE  Holders' /\ NoneLost'
<1>1. CASE Record
  BY <1>1, RecordKeepsHolders
<1>2. CASE Write \/ Delete
  BY <1>2, WriteKeepsHolders
<1>3. CASE TakeStart
  BY <1>3, TakeStartKeepsHolders
<1>4. CASE Resupply
  BY <1>4, ResupplyKeepsHolders
<1>5. CASE RunRecording /\ SendUp
  BY <1>5, SendUpKeepsHolders
<1>6. CASE TakeCommand /\ recording /\ Pause
  <2>1. current \in Take
    BY <1>6, TakesAre DEF Order, TakesInOrder
  <2>2. /\ DisposeAfter(<<Stopped(current)>>)
        /\ to # << >> /\ to' = Tail(to) /\ Head(to).type = "Transport"
        /\ UNCHANGED <<deleted, current, takes>>
    BY <1>6 DEF TakeCommand, Pause, dawVars, fileVars
  <2> QED BY <2>1, <2>2, DisposeKeepsHolders
<1>7. CASE FinishRecording
  <2>1. current \in Take
    BY <1>7, TakesAre DEF Order, TakesInOrder, FinishRecording
  <2>2. /\ DisposeAfter(<<Stopped(current)>>) /\ to' = to
        /\ UNCHANGED <<deleted, current, takes>>
    BY <1>7 DEF FinishRecording, dawVars, fileVars
  <2> QED BY <2>1, <2>2, DisposeKeepsHolders
<1>8. CASE Disarm \/ TellStarted \/ TakeCheckpoint \/ CloseFile
  <2>1. /\ UNCHANGED <<free, state, deleted, current, takes, to, dropped>>
        /\ \/ UNCHANGED from
           \/ from # << >> /\ from' = Tail(from) /\ Head(from).type # "Continue"
    BY <1>8 DEF Disarm, TellStarted, TakeCheckpoint, CloseFile, engineVars, bufferVars,
                fileVars
  <2> QED BY <2>1, QuietKeepsHolders DEF Quiet
<1>9. CASE \E c \in Command : SendCommand(c)
  <2>1. PICK c \in Command : SendCommand(c)
    BY <1>9
  <2>2. Transport(c).type # "Continue" /\ Transport(c) \in ToMessage
    BY Messages DEF Transport
  <2>3. /\ UNCHANGED <<free, state, deleted, current, takes, from>>
        /\ SendTo(<<Transport(c)>>)
    BY <2>1 DEF SendCommand, engineVars, bufferVars, fileVars
  <2>4. dropped => dropped'
    BY <2>3 DEF SendTo
  <2> QED BY <2>2, <2>3, <2>4, QuietKeepsHolders DEF Quiet
<1>10. CASE TakeCommand /\ ~(recording /\ Pause)
  <2>1. /\ UNCHANGED <<free, state, deleted, current, takes>>
        /\ to # << >> /\ to' = Tail(to) /\ Head(to).type = "Transport"
        /\ UNCHANGED <<from, dropped>> \/ SendFrom(<<Checkpoint>>)
    BY <1>10 DEF TakeCommand, Play, Stop, Pause, Rewind, dawVars, bufferVars,
                 fileVars
  <2>2. Checkpoint.type # "Continue" /\ Checkpoint \in FromMessage
    BY Messages DEF Checkpoint
  <2>3. dropped => dropped'
    BY <2>1 DEF SendFrom
  <2> QED BY <2>1, <2>2, <2>3, QuietKeepsHolders DEF Quiet
<1>11. CASE BeginTurn \/ NotRecording \/ (RunRecording /\ Exhausted) \/ UNCHANGED vars
  <2>1. UNCHANGED <<free, state, deleted, current, takes, to, from, dropped>>
    BY <1>11 DEF BeginTurn, NotRecording, RunRecording, Exhausted, vars, dawVars,
                 engineVars, bufferVars, fileVars
  <2> QED BY <2>1, QuietKeepsHolders DEF Quiet
<1> QED BY <1>1, <1>2, <1>3, <1>4, <1>5, <1>6, <1>7, <1>8, <1>9, <1>10, <1>11
        DEF Next, HandleMessage, Engine, RunRecording

LEMMA InitHolders == ASSUME Init PROVE Holders /\ NoneLost
<1>1. NoneLost
  BY DEF Init, NoneLost
<1>2. ASSUME NEW t \in Take, NEW b \in Elements(Supply(t)) PROVE state[b] = "Resupplying"
  <2>1. b \in Buffers
    BY SupplyOf
  <2> QED BY <2>1 DEF Init
<1>3. Holders
  BY <1>2 DEF Init, Holders, OnceIn, IsBuffers
<1> QED BY <1>1, <1>3

\* The state of a record buffers object is that of the place it is in, and
\* without a dropped message each has a place (RecordBuffers::next()).
THEOREM HoldersAlways == Spec => [](Order /\ Holders /\ NoneLost)
<1>1. Init => Holders /\ NoneLost
  BY InitHolders
<1>2. Order /\ Holders /\ NoneLost /\ [Next]_vars /\ Order' => Holders' /\ NoneLost'
  BY NextKeepsHolders
<1> QED BY <1>1, <1>2, RecordingOrder, PTL DEF Spec

\* The places of an object, each a set of at most one.
InFree(b) == {<<"free", i>> : i \in {j \in DOMAIN free : free[j] = b}}
InTo(b) == {<<"to", i>> : i \in {j \in DOMAIN to : to[j] = Continue(b)}}
InSupply(b) == {<<"supply", i>> : i \in {j \in DOMAIN to :
                  to[j].type = "StartRecording" /\ b \in Elements(Supply(to[j].take))}}
InFrom(b) == {<<"from", i>> : i \in {j \in DOMAIN from : from[j] = Continue(b)}}

LEMMA PlacesOfOne ==
  ASSUME Order, Holders, NEW b \in Buffers
  PROVE  /\ \A x, y \in Places(b) : x = y
         /\ b \in deleted => Places(b) = {}
<1> DEFINE supplies == {j \in DOMAIN to :
                          to[j].type = "StartRecording" /\ b \in Elements(Supply(to[j].take))}
<1>1. Places(b) = InFree(b) \cup InTo(b) \cup InSupply(b) \cup InFrom(b)
  BY DEF Places, InFree, InTo, InSupply, InFrom
<1>2. \A x, y \in InFree(b) : x = y
  BY DEF Holders, InFree
<1>3. \A i \in DOMAIN to \cup DOMAIN from : i \in Nat
  BY DEF Order, Types
<1>4. Continue(b).type = "Continue" /\ Continue(b).buffers = b
  BY DEF Continue
<1>5. \A i, j \in DOMAIN to : to[i] = Continue(b) /\ to[j] = Continue(b) => i = j
  BY <1>4 DEF Holders, OnceIn, IsBuffers
<1>6. \A i, j \in DOMAIN from : from[i] = Continue(b) /\ from[j] = Continue(b) => i = j
  BY <1>4 DEF Holders, OnceIn, IsBuffers
<1>7. (\A x, y \in InTo(b) : x = y) /\ (\A x, y \in InFrom(b) : x = y)
  BY <1>5, <1>6 DEF InTo, InFrom
<1>8. \A i \in supplies : to[i].take \in Take /\ Ahead(to[i].take) /\ Starts(i)
  BY MessageTypes DEF Order, Types, TakesInOrder, Starts
<1>9. ASSUME NEW i \in supplies, NEW j \in supplies PROVE i = j
  <2>1. to[i].take = to[j].take
    BY <1>8, SuppliesApart
  <2>2. to[i].take \in Nat /\ i \in Nat /\ j \in Nat
    BY <1>3, <1>8, TakesAre DEF Order
  <2>3. ~(i < j) /\ ~(j < i)
    <3>1. i < j => to[i].take < to[j].take
      BY <1>8 DEF Order, TakesInOrder
    <3>2. j < i => to[j].take < to[i].take
      BY <1>8 DEF Order, TakesInOrder
    <3> QED BY <2>1, <2>2, <3>1, <3>2
  <2> QED BY <2>2, <2>3
<1>10. \A x, y \in InSupply(b) : x = y
  <2> SUFFICES ASSUME NEW x \in InSupply(b), NEW y \in InSupply(b) PROVE x = y
    OBVIOUS
  <2>1. PICK i \in supplies : x = <<"supply", i>>
    BY DEF InSupply
  <2>2. PICK j \in supplies : y = <<"supply", j>>
    BY DEF InSupply
  <2>3. i = j
    BY <1>9
  <2> QED BY <2>1, <2>2, <2>3
<1>11. InFree(b) # {} => state[b] = "Filling"
  BY DEF Holders, InFree
<1>12. InTo(b) # {} => state[b] = "Resupplying" /\ InSupply(b) = {}
  <2> SUFFICES ASSUME NEW i \in DOMAIN to, to[i] = Continue(b)
               PROVE  state[b] = "Resupplying" /\ InSupply(b) = {}
    BY DEF InTo
  <2>1. state[b] = "Resupplying"
    BY <1>4 DEF Holders, IsBuffers
  <2>2. ASSUME NEW j \in supplies PROVE FALSE
    BY <1>8, <2>2 DEF Holders
  <2> QED BY <2>1, <2>2 DEF InSupply
<1>13. InSupply(b) # {} => state[b] = "Resupplying"
  <2> SUFFICES ASSUME NEW j \in supplies PROVE state[b] = "Resupplying"
    BY DEF InSupply
  <2> QED BY <1>8 DEF Holders
<1>14. InFrom(b) # {} => state[b] \in {"Writing", "Disposing"}
  BY <1>4 DEF Holders, IsBuffers, InFrom
<1>15. b \in deleted => state[b] = "Done"
  BY DEF Holders
<1> HIDE DEF supplies
<1>16. \A x, y \in Places(b) : x = y
  <2> SUFFICES ASSUME NEW x \in Places(b), NEW y \in Places(b) PROVE x = y
    OBVIOUS
  <2>1. CASE state[b] = "Filling"
    BY <1>1, <1>2, <1>12, <1>13, <1>14, <2>1
  <2>2. CASE state[b] \in {"Writing", "Disposing"}
    BY <1>1, <1>7, <1>11, <1>12, <1>13, <2>2
  <2>3. CASE state[b] = "Resupplying"
    BY <1>1, <1>7, <1>10, <1>11, <1>12, <1>14, <2>3
  <2> QED BY <1>1, <1>11, <1>12, <1>13, <1>14, <2>1, <2>2, <2>3
<1> QED BY <1>1, <1>11, <1>12, <1>13, <1>14, <1>15, <1>16

LEMMA HeldSomewhere ==
  ASSUME Order, NEW t \in 1 .. takes, NEW b \in Elements(Supply(t)), HasHolder(t, b)
  PROVE  b \in deleted \/ Places(b) # {}
<1>1. IsFree(b) => InFree(b) # {}
  BY DEF IsFree, Elements, InFree
<1>2. InQueue(to, Continue(b)) => InTo(b) # {}
  BY DEF InQueue, InTo
<1>3. InQueue(from, Continue(b)) => InFrom(b) # {}
  BY DEF InQueue, InFrom
<1>4. InQueue(to, StartRecording(t)) => InSupply(b) # {}
  <2> SUFFICES ASSUME NEW i \in DOMAIN to, to[i] = StartRecording(t)
               PROVE  InSupply(b) # {}
    BY DEF InQueue
  <2>1. to[i].type = "StartRecording" /\ to[i].take = t
    BY DEF StartRecording
  <2>2. <<"supply", i>> \in InSupply(b)
    BY <2>1 DEF InSupply
  <2> QED BY <2>2
<1>5. Places(b) = InFree(b) \cup InTo(b) \cup InSupply(b) \cup InFrom(b)
  BY DEF Places, InFree, InTo, InSupply, InFrom
<1> QED BY <1>1, <1>2, <1>3, <1>4, <1>5 DEF HasHolder

\* Each record buffers object is in one place until it is deleted, however
\* often it goes round: the engine's free list, the supply of a take that the
\* engine has yet to begin, a queue.  None is lost unless a queue was full.
THEOREM BuffersInOnePlace == Spec => []BuffersHaveOneHolder
<1>1. Order /\ Holders /\ NoneLost => BuffersHaveOneHolder
  <2> SUFFICES ASSUME Order, Holders, NoneLost,
                      NEW t \in 1 .. takes, NEW b \in Elements(Supply(t))
               PROVE  IF b \in deleted THEN Cardinality(Places(b)) = 0
                      ELSE \/ Cardinality(Places(b)) = 1
                           \/ Cardinality(Places(b)) = 0 /\ dropped
    BY DEF BuffersHaveOneHolder
  <2>1. b \in Buffers
    BY SupplyOf, TakesAre DEF Order
  <2>2. /\ \A x, y \in Places(b) : x = y
        /\ b \in deleted => Places(b) = {}
    BY <2>1, PlacesOfOne
  <2>3. ~dropped => b \in deleted \/ Places(b) # {}
    BY HeldSomewhere DEF NoneLost
  <2>4. Places(b) = {} => Cardinality(Places(b)) = 0
    BY FS_EmptySet
  <2>5. Places(b) # {} => Cardinality(Places(b)) = 1
    <3> SUFFICES ASSUME NEW x \in Places(b) PROVE Cardinality(Places(b)) = 1
      OBVIOUS
    <3>1. Places(b) = {x}
      BY <2>2
    <3> QED BY <3>1, FS_Singleton
  <2> QED BY <2>2, <2>3, <2>4, <2>5
<1> QED BY <1>1, HoldersAlways, PTL

-----------------------------------------------------------------------------
(* What is on its way to be written, and what is written.                  *)

\* The queue moves up by n places; no frame and no word of an end joins it.
WritesMove(n) == \A i \in Nat : \A f \in Frame : Writes(i, f)' => Writes(i + n, f)
StopsMove(n) == \A i \in Nat : \A t \in Take : Stops(i, t)' => Stops(i + n, t)
NoWriteLost == \A f \in Frame : OnItsWay(f) => OnItsWay(f)'

\* Record buffers that are on their way to be written.
BuffersMove(n) == \A i \in DOMAIN from' : i \in Nat /\ (IsBuffers(from', i) =>
                    \/ i + n \in DOMAIN from /\ from'[i] = from[i + n]
                    \/ state'[from'[i].buffers] # "Writing")

LEMMA WritesUnmoved ==
  ASSUME Order, NEW n \in {0, 1}, BuffersMove(n),
         \A b \in Buffers : state'[b] = "Writing" => state[b] = "Writing" /\ data'[b] = data[b]
  PROVE  WritesMove(n)
<1> SUFFICES ASSUME NEW i \in Nat, NEW f \in Frame, Writes(i, f)'
             PROVE  Writes(i + n, f)
  BY DEF WritesMove
<1>1. /\ i \in DOMAIN from' /\ from'[i].type = "Continue"
      /\ state'[from'[i].buffers] = "Writing" /\ data'[from'[i].buffers] = f
  BY DEF Writes, IsBuffers
<1>2. i + n \in DOMAIN from /\ from'[i] = from[i + n]
  BY <1>1 DEF BuffersMove, IsBuffers
<1>3. from[i + n] \in FromMessage
  BY <1>2 DEF Order, Types
<1>4. from[i + n].type = "Continue" /\ from[i + n].buffers \in Buffers
  BY <1>1, <1>2, <1>3, MessageTypes
<1> QED BY <1>1, <1>2, <1>4 DEF Writes, IsBuffers

LEMMA WritesStay ==
  ASSUME Order, NEW n \in {0, 1},
         \A i \in DOMAIN from : IsBuffers(from, i) /\ state[from[i].buffers] = "Writing" =>
           i - n \in DOMAIN from' /\ from'[i - n] = from[i],
         \A i \in DOMAIN from' : i \in Nat,
         \A b \in Buffers : state[b] = "Writing" => state'[b] = "Writing" /\ data'[b] = data[b]
  PROVE  NoWriteLost
<1> SUFFICES ASSUME NEW f \in Frame, NEW i \in Nat, Writes(i, f)
             PROVE  \E j \in Nat : Writes(j, f)'
  BY DEF NoWriteLost, OnItsWay
<1>1. /\ i \in DOMAIN from /\ from[i].type = "Continue" /\ from[i] \in FromMessage
      /\ state[from[i].buffers] = "Writing" /\ data[from[i].buffers] = f
  BY DEF Writes, IsBuffers, Order, Types
<1>2. from[i].buffers \in Buffers
  BY <1>1, MessageTypes
<1>3. i - n \in DOMAIN from' /\ from'[i - n] = from[i] /\ i - n \in Nat
  BY <1>1 DEF IsBuffers
<1>4. Writes(i - n, f)'
  BY <1>1, <1>2, <1>3 DEF Writes, IsBuffers
<1> QED BY <1>3, <1>4

\* A step that takes no frame and sends none.
Steady(n) == WritesMove(n) /\ StopsMove(n) /\ NoWriteLost

\* What such a step does to a queue to which m is added.
LEMMA SteadyOnSend ==
  ASSUME Order, NEW m \in FromMessage, SendFrom(<<m>>),
         m.type \notin {"Continue", "RecordingStopped"},
         \A b \in Buffers : /\ state'[b] = "Writing" <=> state[b] = "Writing"
                            /\ state[b] = "Writing" => data'[b] = data[b]
  PROVE  Steady(0)
<1>1. /\ \A i \in DOMAIN from : i \in Nat /\ i \in DOMAIN from' /\ from'[i] = from[i]
      /\ \A i \in DOMAIN from' : /\ i \in Nat
                                 /\ (i \in DOMAIN from /\ from'[i] = from[i]) \/ from'[i] = m
  BY SentFromEngine
<1>2. \A i \in Nat : i + 0 = i /\ i - 0 = i
  OBVIOUS
<1>3. BuffersMove(0)
  BY <1>1, <1>2 DEF BuffersMove, IsBuffers
<1>4. WritesMove(0)
  BY <1>3, WritesUnmoved
<1>5. NoWriteLost
  <2>1. \A i \in DOMAIN from : i - 0 \in DOMAIN from' /\ from'[i - 0] = from[i]
    BY <1>1, <1>2
  <2> QED BY <1>1, <2>1, WritesStay
<1>6. StopsMove(0)
  BY <1>1, <1>2 DEF StopsMove, Stops, Stopped
<1> QED BY <1>4, <1>5, <1>6 DEF Steady

LEMMA SteadyAsIs ==
  ASSUME Order, from' = from,
         \A b \in Buffers : /\ state'[b] = "Writing" <=> state[b] = "Writing"
                            /\ state[b] = "Writing" => data'[b] = data[b]
  PROVE  Steady(0)
<1>1. \A i \in DOMAIN from : i \in Nat
  BY DEF Order, Types
<1>2. \A i \in Nat : i + 0 = i /\ i - 0 = i
  OBVIOUS
<1>3. BuffersMove(0)
  BY <1>1, <1>2 DEF BuffersMove, IsBuffers
<1>4. WritesMove(0)
  BY <1>3, WritesUnmoved
<1>5. NoWriteLost
  <2>1. \A i \in DOMAIN from : i - 0 \in DOMAIN from' /\ from'[i - 0] = from[i]
    BY <1>1, <1>2
  <2> QED BY <1>1, <2>1, WritesStay
<1>6. StopsMove(0)
  BY <1>1, <1>2 DEF StopsMove, Stops
<1> QED BY <1>4, <1>5, <1>6 DEF Steady

\* The DAW takes a message that is not a frame.
LEMMA SteadyOnTake ==
  ASSUME Order, from # << >>, from' = Tail(from),
         \/ from[1].type # "Continue"
         \/ state[from[1].buffers] # "Writing",
         \A b \in Buffers : /\ state'[b] = "Writing" <=> state[b] = "Writing"
                            /\ state[b] = "Writing" => data'[b] = data[b]
  PROVE  Steady(1)
<1>1. /\ \A i \in DOMAIN from : i \in Nat
      /\ \A i \in DOMAIN from' : i \in Nat /\ i + 1 \in DOMAIN from /\ from'[i] = from[i + 1]
      /\ \A i \in DOMAIN from : i # 1 => i - 1 \in DOMAIN from' /\ from'[i - 1] = from[i]
  BY TakenByDAW
<1>2. BuffersMove(1)
  BY <1>1 DEF BuffersMove, IsBuffers
<1>3. WritesMove(1)
  BY <1>2, WritesUnmoved
<1>4. NoWriteLost
  <2>1. ASSUME NEW i \in DOMAIN from, IsBuffers(from, i),
               state[from[i].buffers] = "Writing"
        PROVE  i - 1 \in DOMAIN from' /\ from'[i - 1] = from[i]
    BY <1>1, <2>1 DEF IsBuffers
  <2> QED BY <1>1, <2>1, WritesStay
<1>5. StopsMove(1)
  BY <1>1 DEF StopsMove, Stops
<1> QED BY <1>3, <1>4, <1>5 DEF Steady

\* Which steps are steady.
LEMMA SteadySteps ==
  ASSUME Order, Holders, Order', [Next]_vars,
         ~Write, ~(RunRecording /\ SendUp), ~(TakeCommand /\ recording /\ Pause),
         ~FinishRecording
  PROVE  \E n \in {0, 1} : Steady(n) /\ (from' = from \/ n = 0 \/ (from # << >> /\ from' = Tail(from)))
<1>1. CASE Record \/ Disarm \/ (\E c \in Command : SendCommand(c))
           \/ BeginTurn \/ NotRecording \/ (RunRecording /\ Exhausted) \/ UNCHANGED vars
  <2>1. from' = from /\ UNCHANGED <<state, data>>
    BY <1>1 DEF Record, Disarm, SendCommand, BeginTurn, NotRecording, RunRecording,
                Exhausted, vars, bufferVars, fileVars
  <2> QED BY <2>1, SteadyAsIs
<1>2. CASE TellStarted \/ TakeCheckpoint \/ CloseFile
  <2>1. /\ from # << >> /\ from' = Tail(from) /\ UNCHANGED <<state, data>>
        /\ Head(from).type # "Continue"
    BY <1>2 DEF TellStarted, TakeCheckpoint, CloseFile, bufferVars, fileVars
  <2> QED BY <2>1, TakenByDAW, SteadyOnTake
<1>3. CASE Delete
  <2>1. /\ from # << >> /\ from' = Tail(from) /\ data' = data
        /\ Head(from) = from[1] /\ from[1] \in FromMessage /\ from[1].type = "Continue"
    BY <1>3, TakenByDAW DEF Delete, fileVars
  <2>2. PICK b \in Buffers : b = from[1].buffers
    BY <2>1, MessageTypes
  <2>3. state[b] = "Disposing" /\ state' = [state EXCEPT ![b] = "Done"]
    BY <1>3, <2>1, <2>2 DEF Delete, fileVars
  <2>4. \A d \in Buffers : state'[d] = "Writing" <=> state[d] = "Writing"
    BY <2>3 DEF Order, Types
  <2> QED BY <2>1, <2>2, <2>3, <2>4, SteadyOnTake
<1>4. CASE Resupply
  <2>1. from' = from /\ to[1] \in ToMessage /\ Head(to) = to[1] /\ to[1].type = "Continue"
    BY <1>4, TakenByEngine DEF Resupply
  <2>2. PICK b \in Buffers : b = Head(to).buffers
    BY <2>1, MessageTypes
  <2>3. /\ state[b] = "Resupplying" /\ state' = [state EXCEPT ![b] = "Filling"]
        /\ data' = [data EXCEPT ![b] = None]
    BY <1>4, <2>2 DEF Resupply
  <2>4. \A d \in Buffers : /\ state'[d] = "Writing" <=> state[d] = "Writing"
                           /\ state[d] = "Writing" => data'[d] = data[d]
    BY <2>3 DEF Order, Types
  <2> QED BY <2>1, <2>4, SteadyAsIs
<1>5. CASE TakeStart
  <2>1. PICK t \in Take : to[1] = StartRecording(t) /\ Head(to) = to[1] /\ 1 \in DOMAIN to
    <3>1. /\ to[1] \in ToMessage /\ Head(to) = to[1] /\ 1 \in DOMAIN to
          /\ to[1].type = "StartRecording"
      BY <1>5, TakenByEngine DEF TakeStart
    <3> QED BY <3>1, MessageTypes
  <2>2. Head(to).take = t /\ Starts(1)
    BY <2>1 DEF StartRecording, Starts
  <2>3. /\ state' = [b \in Buffers |-> IF b \in Elements(Supply(t)) THEN "Filling"
                                                                  ELSE state[b]]
        /\ data' = data /\ SendFrom(<<Started(t)>>)
    BY <1>5, <2>2 DEF TakeStart
  <2>4. Ahead(t)
    BY <2>1, <2>2 DEF Order, TakesInOrder
  <2>5. \A b \in Elements(Supply(t)) : state[b] = "Resupplying"
    BY <2>4 DEF Holders
  <2>6. \A b \in Buffers : state'[b] = "Writing" <=> state[b] = "Writing"
    BY <2>3, <2>5
  <2>7. Started(t) \in FromMessage /\ Started(t).type \notin {"Continue", "RecordingStopped"}
    BY Messages DEF Started
  <2> QED BY <2>3, <2>6, <2>7, SteadyOnSend
<1>6. CASE TakeCommand /\ ~(recording /\ Pause)
  <2>1. /\ UNCHANGED <<state, data>>
        /\ from' = from \/ SendFrom(<<Checkpoint>>)
    BY <1>6 DEF TakeCommand, Play, Stop, Pause, Rewind, bufferVars
  <2>2. Checkpoint \in FromMessage /\ Checkpoint.type \notin {"Continue", "RecordingStopped"}
    BY Messages DEF Checkpoint
  <2> QED BY <2>1, <2>2, SteadyAsIs, SteadyOnSend
<1> QED BY <1>1, <1>2, <1>3, <1>4, <1>5, <1>6
        DEF Next, HandleMessage, Engine, RunRecording

LEMMA DawTakesFrame ==
  ASSUME Order, Holders, Write
  PROVE  \E f \in Frame :
           /\ Writes(1, f)
           /\ content' = IF file = None THEN content
                         ELSE [content EXCEPT ![file] = Append(@, f)]
           /\ WritesMove(1) /\ StopsMove(1)
           /\ \A g \in Frame : OnItsWay(g) => g = f \/ OnItsWay(g)'
<1>1. /\ from # << >> /\ from' = Tail(from) /\ 1 \in DOMAIN from
      /\ Head(from) = from[1] /\ from[1] \in FromMessage /\ from[1].type = "Continue"
  BY TakenByDAW DEF Write
<1>2. PICK b \in Buffers : b = Head(from).buffers /\ b = from[1].buffers
  BY <1>1, MessageTypes
<1>3. /\ state[b] = "Writing" /\ state' = [state EXCEPT ![b] = "Resupplying"]
      /\ data' = data
      /\ content' = IF file = None THEN content
                    ELSE [content EXCEPT ![file] = Append(@, data[b])]
  BY <1>2 DEF Write
<1>4. PICK f \in Frame : f = data[b]
  BY <1>3 DEF Order, Types
<1>5. Writes(1, f)
  BY <1>1, <1>2, <1>3, <1>4 DEF Writes, IsBuffers
<1>6. /\ \A i \in DOMAIN from : i \in Nat
      /\ \A i \in DOMAIN from' : i \in Nat /\ i + 1 \in DOMAIN from /\ from'[i] = from[i + 1]
      /\ \A i \in DOMAIN from : i # 1 => i - 1 \in DOMAIN from' /\ from'[i - 1] = from[i]
  BY <1>1, TakenByDAW
<1>7. \A d \in Buffers : /\ state'[d] = "Writing" => state[d] = "Writing" /\ data'[d] = data[d]
                         /\ d # b /\ state[d] = "Writing" => state'[d] = "Writing"
  BY <1>3 DEF Order, Types
<1>8. WritesMove(1)
  <2>1. BuffersMove(1)
    BY <1>6 DEF BuffersMove, IsBuffers
  <2> QED BY <1>7, <2>1, WritesUnmoved
<1>9. StopsMove(1)
  BY <1>6 DEF StopsMove, Stops
<1>10. ASSUME NEW g \in Frame, OnItsWay(g) PROVE g = f \/ OnItsWay(g)'
  <2>1. PICK i \in Nat : Writes(i, g)
    BY <1>10 DEF OnItsWay
  <2>2. CASE i = 1
    BY <1>2, <1>4, <2>1, <2>2 DEF Writes
  <2>3. CASE i # 1
    <3>1. /\ i \in DOMAIN from /\ from[i].type = "Continue" /\ from[i] \in FromMessage
          /\ state[from[i].buffers] = "Writing" /\ data[from[i].buffers] = g
      BY <2>1 DEF Writes, IsBuffers, Order, Types
    <3>2. from[i].buffers \in Buffers /\ from[i] = Continue(from[i].buffers)
      BY <3>1, MessageTypes
    <3>3. from[i] # from[1]
      BY <1>1, <2>3, <3>1 DEF Holders, OnceIn, IsBuffers
    <3>4. from[1] = Continue(b)
      BY <1>1, <1>2, MessageTypes
    <3>5. state'[from[i].buffers] = "Writing"
      BY <1>7, <3>1, <3>2, <3>3, <3>4
    <3>6. i - 1 \in DOMAIN from' /\ from'[i - 1] = from[i] /\ i - 1 \in Nat
      BY <1>6, <2>3, <3>1
    <3>7. Writes(i - 1, g)'
      BY <1>3, <3>1, <3>5, <3>6 DEF Writes, IsBuffers
    <3> QED BY <3>6, <3>7 DEF OnItsWay
  <2> QED BY <2>2, <2>3
<1> QED BY <1>3, <1>4, <1>5, <1>8, <1>9, <1>10

LEMMA EngineSendsFrame ==
  ASSUME Order, Holders, Order', SendUp, RunRecording
  PROVE  \E f \in Frame :
           /\ f = Now
           /\ current \in Take /\ recording
           /\ captured' = [captured EXCEPT ![current] = Append(@, f)]
           /\ \A i \in Nat, g \in Frame :
                Writes(i, g)' => Writes(i, g) \/ (g = f /\ i = Len(from) + 1)
           /\ \A i \in Nat, g \in Frame : Writes(i, g) => i <= Len(from)
           /\ \A i \in Nat, t \in Take : Stops(i, t) => i <= Len(from)
           /\ StopsMove(0) /\ NoWriteLost /\ Len(from) \in Nat
           /\ ~dropped' => OnItsWay(f)'
<1>1. PICK b \in Buffers : b = Head(free) /\ state[b] = "Filling"
  <2>1. free # << >> /\ free \in Seq(Buffers)
    BY DEF SendUp, Order, Types
  <2>2. 1 \in DOMAIN free /\ Head(free) = free[1] /\ free[1] \in Buffers
    BY <2>1
  <2> QED BY <2>2 DEF Holders
<1>2. current \in Take /\ recording
  BY TakesAre DEF RunRecording, Order, TakesInOrder
<1>3. PICK f \in Frame : f = Now
  <2>1. TurnsOf(current) \in Nat
    BY <1>2, TakesAre DEF Order
  <2>2. Now \in Frame
    BY <1>2, <2>1 DEF Now, Frame
  <2> QED BY <2>2
<1>4. /\ state' = [state EXCEPT ![b] = "Writing"]
      /\ data' = [data EXCEPT ![b] = f]
      /\ captured' = [captured EXCEPT ![current] = Append(@, f)]
      /\ SendFrom(<<Continue(b)>>)
  BY <1>1, <1>3 DEF SendUp
<1>5. /\ \A i \in DOMAIN from : i \in Nat /\ i <= Len(from) /\ i \in DOMAIN from' /\ from'[i] = from[i]
      /\ \A i \in DOMAIN from' :
           \/ i \in DOMAIN from /\ from'[i] = from[i]
           \/ i \notin DOMAIN from /\ i = Len(from) + 1 /\ from'[i] = Continue(b)
      /\ \A i \in DOMAIN from' : i \in Nat
      /\ ~dropped' => InQueue(from', Continue(b))
      /\ Len(from) \in Nat
  BY <1>4, SentFromEngine, Messages
<1>6. \A d \in Buffers : /\ d # b => state'[d] = state[d] /\ data'[d] = data[d]
                         /\ state'[b] = "Writing" /\ data'[b] = f
  BY <1>4 DEF Order, Types
<1>7. Continue(b).type = "Continue" /\ Continue(b).buffers = b
  BY DEF Continue
<1>8. ASSUME NEW i \in Nat, NEW g \in Frame, Writes(i, g)'
      PROVE  Writes(i, g) \/ (g = f /\ i = Len(from) + 1)
  <2>1. /\ i \in DOMAIN from' /\ from'[i].type = "Continue"
        /\ state'[from'[i].buffers] = "Writing" /\ data'[from'[i].buffers] = g
    BY <1>8 DEF Writes, IsBuffers
  <2>2. CASE i \in DOMAIN from /\ from'[i] = from[i]
    <3>1. from[i].buffers \in Buffers /\ from[i] \in FromMessage
      BY <2>1, <2>2, MessageTypes DEF Order, Types
    <3>2. state[from[i].buffers] # "Filling"
      BY <2>1, <2>2 DEF Holders, IsBuffers
    <3>3. from[i].buffers # b
      BY <1>1, <3>2
    <3> QED BY <1>6, <2>1, <2>2, <3>1, <3>3 DEF Writes, IsBuffers
  <2>3. CASE i = Len(from) + 1 /\ from'[i] = Continue(b)
    BY <1>6, <1>7, <2>1, <2>3
  <2> QED BY <1>5, <2>1, <2>2, <2>3
<1>9. /\ \A i \in Nat, g \in Frame : Writes(i, g) => i <= Len(from)
      /\ \A i \in Nat, t \in Take : Stops(i, t) => i <= Len(from)
  BY <1>5 DEF Writes, Stops
<1>10. StopsMove(0)
  <2>1. \A i \in Nat : i + 0 = i
    OBVIOUS
  <2>2. \A t \in Take : Continue(b) # Stopped(t)
    BY DEF Continue, Stopped
  <2> QED BY <1>5, <2>1, <2>2 DEF StopsMove, Stops
<1>11. NoWriteLost
  <2>1. \A d \in Buffers : state[d] = "Writing" => state'[d] = "Writing" /\ data'[d] = data[d]
    BY <1>1, <1>6
  <2>2. \A i \in DOMAIN from : i - 0 \in DOMAIN from' /\ from'[i - 0] = from[i]
    BY <1>5
  <2> QED BY <1>5, <2>1, <2>2, WritesStay
<1>12. ASSUME ~dropped' PROVE OnItsWay(f)'
  <2>1. PICK i \in DOMAIN from' : from'[i] = Continue(b)
    BY <1>5, <1>12 DEF InQueue
  <2>2. Writes(i, f)'
    BY <1>6, <1>7, <2>1 DEF Writes, IsBuffers
  <2> QED BY <1>5, <2>1, <2>2 DEF OnItsWay
<1> QED BY <1>2, <1>3, <1>4, <1>5, <1>8, <1>9, <1>10, <1>11, <1>12

LEMMA EngineEndsTake ==
  ASSUME Order, Holders, NEW t \in Take, DisposeAfter(<<Stopped(t)>>)
  PROVE  /\ WritesMove(0) /\ NoWriteLost /\ Len(from) \in Nat
         /\ \A i \in Nat, u \in Take :
              Stops(i, u)' => Stops(i, u) \/ (u = t /\ i = Len(from) + 1)
         /\ \A i \in Nat, f \in Frame : Writes(i, f) => i <= Len(from)
         /\ \A i \in Nat, u \in Take : Stops(i, u) => i <= Len(from)
<1>1. /\ \A i \in DOMAIN from : i \in Nat /\ i <= Len(from) /\ i \in DOMAIN from' /\ from'[i] = from[i]
      /\ \A i \in DOMAIN from' :
              /\ i \in Nat
              /\ \/ i \in DOMAIN from /\ from'[i] = from[i]
                 \/ i = Len(from) + 1 /\ from'[i] = Stopped(t)
                 \/ /\ i - Len(from) - 1 \in DOMAIN free
                    /\ from'[i] = Continue(free[i - Len(from) - 1])
      /\ Len(from) \in Nat
  BY DisposedAfterStop
<1>2. \A b \in Buffers : /\ state'[b] = IF IsFree(b) THEN "Disposing" ELSE state[b]
                         /\ data'[b] = IF IsFree(b) THEN None ELSE data[b]
  BY DisposeKeepsTypes
<1>3. \A i \in DOMAIN free : free[i] \in Buffers /\ IsFree(free[i]) /\ state[free[i]] = "Filling"
  BY DEF Holders, Order, Types, IsFree, Elements
<1>4. \A b \in Buffers : IsFree(b) => state[b] = "Filling"
  BY <1>3 DEF IsFree, Elements
<1>5. \A b \in Buffers : /\ state'[b] = "Writing" <=> state[b] = "Writing"
                         /\ state[b] = "Writing" => data'[b] = data[b]
  BY <1>2, <1>4
<1>6. \A i \in Nat : i + 0 = i /\ i - 0 = i
  OBVIOUS
<1>7. WritesMove(0)
  <2>1. ASSUME NEW i \in DOMAIN from', IsBuffers(from', i)
        PROVE  \/ i + 0 \in DOMAIN from /\ from'[i] = from[i + 0]
               \/ state'[from'[i].buffers] # "Writing"
    <3>1. from'[i] # Stopped(t)
      BY <2>1 DEF IsBuffers, Stopped
    <3>2. \A k \in DOMAIN free : state'[free[k]] # "Writing" /\ Continue(free[k]).buffers = free[k]
      BY <1>2, <1>3 DEF Continue
    <3> QED BY <1>1, <1>6, <3>1, <3>2
  <2>2. BuffersMove(0)
    BY <1>1, <2>1 DEF BuffersMove
  <2> QED BY <1>5, <2>2, WritesUnmoved
<1>8. NoWriteLost
  <2>1. \A i \in DOMAIN from : i - 0 \in DOMAIN from' /\ from'[i - 0] = from[i]
    BY <1>1, <1>6
  <2> QED BY <1>1, <1>5, <2>1, WritesStay
<1>9. ASSUME NEW i \in Nat, NEW u \in Take, Stops(i, u)'
      PROVE  Stops(i, u) \/ (u = t /\ i = Len(from) + 1)
  <2>1. i \in DOMAIN from' /\ from'[i] = Stopped(u)
    BY <1>9 DEF Stops, Stopped
  <2>2. /\ \A k \in DOMAIN free : Continue(free[k]) # Stopped(u)
        /\ Stopped(t) = Stopped(u) => t = u
    BY DEF Continue, Stopped
  <2> QED BY <1>1, <2>1, <2>2 DEF Stops
<1>10. /\ \A i \in Nat, f \in Frame : Writes(i, f) => i <= Len(from)
       /\ \A i \in Nat, u \in Take : Stops(i, u) => i <= Len(from)
  BY <1>1 DEF Writes, Stops
<1> QED BY <1>1, <1>7, <1>8, <1>9, <1>10

\* Takes, once begun, are begun, and only then is anything captured for them.
LEMMA AheadKept ==
  ASSUME Order, [Next]_vars, NEW t \in Take, Ahead(t)'
  PROVE  Ahead(t) /\ captured'[t] = captured[t] /\ exhausted'[t] = exhausted[t]
<1>1. /\ t \in Nat /\ t # None
      /\ current \in Nat \/ current = None
      /\ captured \in [Take -> Seq(Frame)] /\ exhausted \in [Take -> Nat]
  BY TakesAre DEF Order, Types
<1>2. CASE TakeStart
  <2>1. to[1] \in ToMessage /\ Head(to) = to[1] /\ to[1].type = "StartRecording"
        /\ 1 \in DOMAIN to
    BY <1>2, TakenByEngine DEF TakeStart
  <2>2. PICK u \in Take : u = Head(to).take
    BY <2>1, MessageTypes
  <2>3. Ahead(u) /\ current' = u /\ UNCHANGED <<captured, exhausted>>
    BY <1>2, <2>1, <2>2 DEF TakeStart, Order, TakesInOrder, Starts
  <2>4. u \in Nat /\ u # None
    BY <2>2, TakesAre DEF Order
  <2> QED BY <1>1, <2>3, <2>4 DEF Ahead
<1>3. CASE RunRecording
  <2>1. recording /\ current # None /\ current' = current /\ Ahead(t)
    BY <1>3 DEF RunRecording, Order, TakesInOrder, Ahead
  <2>2. t # current
    BY <1>1, <2>1 DEF Ahead
  <2>3. \/ \E f : captured' = [captured EXCEPT ![current] = f] /\ exhausted' = exhausted
        \/ \E f : exhausted' = [exhausted EXCEPT ![current] = f] /\ captured' = captured
    BY <1>3 DEF RunRecording, SendUp, Exhausted
  <2> QED BY <1>1, <2>1, <2>2, <2>3
<1>4. CASE UNCHANGED <<current, captured, exhausted>>
  BY <1>4 DEF Ahead
<1> QED BY <1>2, <1>3, <1>4
        DEF Next, HandleMessage, Engine, Record, Disarm, SendCommand, Write, Delete,
            TellStarted, TakeCheckpoint, CloseFile, Resupply, TakeCommand, BeginTurn,
            NotRecording, FinishRecording, vars, engineVars, fileVars

LEMMA Appended ==
  ASSUME NEW S, NEW s \in Seq(S), NEW e \in S
  PROVE  /\ Append(s, e) \in Seq(S) /\ Len(s) \in Nat
         /\ Len(Append(s, e)) = Len(s) + 1
         /\ \A i \in DOMAIN s : /\ i \in Nat \ {0} /\ i <= Len(s)
                                /\ i \in DOMAIN Append(s, e) /\ Append(s, e)[i] = s[i]
         /\ Len(s) + 1 \in DOMAIN Append(s, e) /\ Append(s, e)[Len(s) + 1] = e
         /\ \A i \in DOMAIN Append(s, e) :
              \/ i \in DOMAIN s /\ Append(s, e)[i] = s[i]
              \/ i = Len(s) + 1 /\ Append(s, e)[i] = e
OBVIOUS

\* What is captured now is later than all that was.
LEMMA NowIsLater ==
  ASSUME Order, Captures, recording, NEW f \in Frame, InCapture(f)
  PROVE  Earlier(f, Now)
<1>1. PICK t \in Take, n \in Nat : f = <<t, n>>
  BY DEF Frame
<1>2. PICK k \in DOMAIN captured[t] : captured[t][k] = f
  BY <1>1 DEF InCapture
<1>3. n <= TurnsOf(t) /\ captured[t] \in Seq(Frame) /\ exhausted[t] \in Nat /\ t \in Nat
  BY <1>1, <1>2, TakesAre DEF Captures, Order
<1>4. TurnsOf(t) # 0
  BY <1>2, <1>3 DEF TurnsOf
<1>5. ~Ahead(t) /\ current \in Nat /\ current \in Take
  BY <1>4, TakesAre DEF Captures, Order, TakesInOrder
<1>6. t < current \/ t = current
  BY <1>3, <1>5 DEF Ahead
<1>7. TurnsOf(current) \in Nat
  BY <1>5, TakesAre DEF Order
<1> QED BY <1>1, <1>3, <1>6, <1>7 DEF Earlier, Now

LEMMA NextKeepsCaptures ==
  ASSUME Order, Holders, Captures, Order', [Next]_vars
  PROVE  Captures' /\ \A f \in Frame : InCapture(f) => InCapture(f)'
<1>1. \A t \in Take : Ahead(t)' => TurnsOf(t)' = 0
  BY AheadKept DEF Captures, TurnsOf
<1>2. \A t \in Take : /\ captured[t] \in Seq(Frame) /\ exhausted[t] \in Nat
                      /\ exhausted'[t] \in Nat /\ TurnsOf(t) \in Nat
  BY TakesAre DEF Order, Types
<1>3. CASE RunRecording /\ SendUp
  <2>1. PICK f \in Frame : /\ f = Now /\ current \in Take /\ recording
                           /\ captured' = [captured EXCEPT ![current] = Append(@, f)]
    BY <1>3, EngineSendsFrame
  <2>2. exhausted' = exhausted /\ captured \in [Take -> Seq(Frame)]
    BY <1>3 DEF SendUp, Order, Types
  <2>3. \A t \in Take : t # current => captured'[t] = captured[t] /\ TurnsOf(t)' = TurnsOf(t)
    BY <2>1, <2>2 DEF TurnsOf
  <2> DEFINE s == captured[current]
  <2>4. /\ captured'[current] = Append(s, f) /\ s \in Seq(Frame)
        /\ TurnsOf(current) = Len(s) + exhausted[current] /\ exhausted[current] \in Nat
    BY <1>2, <2>1, <2>2 DEF TurnsOf
  <2>5. /\ Len(s) \in Nat /\ Len(captured'[current]) = Len(s) + 1
        /\ \A i \in DOMAIN s : /\ i \in Nat \ {0} /\ i <= Len(s)
                               /\ i \in DOMAIN captured'[current] /\ captured'[current][i] = s[i]
        /\ \A i \in DOMAIN captured'[current] :
              \/ i \in DOMAIN s /\ captured'[current][i] = s[i]
              \/ i = Len(s) + 1 /\ captured'[current][i] = f
    BY <2>4, Appended
  <2>6. Len(captured'[current]) + exhausted'[current] = TurnsOf(current) + 1
    BY <2>2, <2>4, <2>5
  <2>7. ASSUME NEW k \in DOMAIN s
        PROVE  /\ s[k] \in Frame /\ s[k][1] = current /\ s[k][2] <= TurnsOf(current)
               /\ InCapture(s[k]) /\ Earlier(s[k], f) /\ s[k][2] \in Nat
    <3>1. s[k] \in Frame /\ s[k][1] = current /\ s[k][2] <= TurnsOf(current)
      BY <2>1, <2>4 DEF Captures
    <3>2. InCapture(s[k])
      BY <3>1 DEF InCapture
    <3>3. s[k][2] \in Nat
      BY <3>1 DEF Frame
    <3> QED BY <2>1, <3>1, <3>2, <3>3, NowIsLater
  <2>8. f[1] = current /\ f[2] = TurnsOf(current) + 1
    BY <2>1 DEF Now
  <2>9. \A i, j \in DOMAIN s : i < j => Earlier(s[i], s[j])
    BY <2>1 DEF Captures, InTime
  <2> DEFINE r == captured'[current]
  <2>10. \A i, j \in DOMAIN r : i < j => Earlier(r[i], r[j])
    <3> HIDE DEF s, r
    <3> SUFFICES ASSUME NEW i \in DOMAIN r, NEW j \in DOMAIN r, i < j
                 PROVE  Earlier(r[i], r[j])
      OBVIOUS
    <3>1. i \in DOMAIN s /\ r[i] = s[i]
      BY <2>5 DEF r
    <3>2. CASE j \in DOMAIN s /\ r[j] = s[j]
      BY <2>9, <3>1, <3>2
    <3>3. CASE r[j] = f
      BY <2>7, <3>1, <3>3
    <3> QED BY <2>5, <3>2, <3>3 DEF r
  <2>11. \A k \in DOMAIN r : r[k][1] = current /\ r[k][2] <= TurnsOf(current) + 1
    <3>1. TurnsOf(current) \in Nat
      BY <1>2, <2>1
    <3> HIDE DEF s
    <3> SUFFICES ASSUME NEW k \in DOMAIN r
                 PROVE  r[k][1] = current /\ r[k][2] <= TurnsOf(current) + 1
      OBVIOUS
    <3>2. CASE k \in DOMAIN s /\ r[k] = s[k]
      BY <2>7, <3>1, <3>2
    <3>3. CASE r[k] = f
      BY <2>8, <3>1, <3>3
    <3> QED BY <2>5, <3>2, <3>3
  <2>12. \A t \in Take : InTime(captured[t])'
    BY <2>3, <2>10 DEF Captures, InTime
  <2>13. \A t \in Take : \A k \in DOMAIN captured'[t] :
           captured'[t][k][1] = t /\ captured'[t][k][2] <= TurnsOf(t)'
    BY <2>3, <2>6, <2>11 DEF Captures, TurnsOf
  <2>14. \A g \in Frame : InCapture(g) => InCapture(g)'
    <3> SUFFICES ASSUME NEW g \in Frame, NEW k \in DOMAIN captured[g[1]],
                        captured[g[1]][k] = g
                 PROVE  InCapture(g)'
      BY DEF InCapture
    <3>1. g[1] \in Take
      BY DEF Frame
    <3>2. k \in DOMAIN captured'[g[1]] /\ captured'[g[1]][k] = captured[g[1]][k]
      BY <2>3, <2>5, <3>1
    <3> QED BY <3>2 DEF InCapture
  <2> QED BY <1>1, <2>12, <2>13, <2>14 DEF Captures
<1>4. CASE captured' = captured /\ \A t \in Take : exhausted'[t] >= exhausted[t]
  <2>1. \A t \in Take : TurnsOf(t)' >= TurnsOf(t) /\ TurnsOf(t)' \in Nat /\ TurnsOf(t) \in Nat
    BY <1>2, <1>4 DEF TurnsOf
  <2>2. ASSUME NEW t \in Take, NEW k \in DOMAIN captured'[t]
        PROVE  captured'[t][k][1] = t /\ captured'[t][k][2] <= TurnsOf(t)'
    <3>1. captured[t][k][1] = t /\ captured[t][k][2] <= TurnsOf(t) /\ captured[t][k] \in Frame
      BY <1>2, <1>4, <2>2 DEF Captures
    <3>2. captured[t][k][2] \in Nat
      BY <3>1 DEF Frame
    <3> QED BY <1>4, <2>1, <3>1, <3>2
  <2>3. \A t \in Take : InTime(captured[t])'
    BY <1>4 DEF Captures, InTime
  <2>4. \A f \in Frame : InCapture(f) => InCapture(f)'
    BY <1>4 DEF InCapture
  <2> QED BY <1>1, <2>2, <2>3, <2>4 DEF Captures
<1>5. CASE RunRecording /\ Exhausted
  <2>1. captured' = captured /\ exhausted' = [exhausted EXCEPT ![current] = @ + 1]
    BY <1>5 DEF Exhausted
  <2>2. exhausted \in [Take -> Nat]
    BY DEF Order, Types
  <2> QED BY <1>4, <2>1, <2>2
<1>6. CASE UNCHANGED <<captured, exhausted>>
  BY <1>2, <1>4, <1>6
<1> QED BY <1>3, <1>5, <1>6
        DEF Next, HandleMessage, Engine, Record, Disarm, SendCommand, Write, Delete,
            TellStarted, TakeCheckpoint, CloseFile, TakeStart, Resupply, TakeCommand,
            BeginTurn, NotRecording, RunRecording, FinishRecording, vars, engineVars,
            fileVars

\* A queue that only loses frames leaves what is written in order, and so does
\* a file that is begun anew.
LEMMA FramesKept ==
  ASSUME Order, FramesInOrder, Captures', NEW n \in {0, 1}, WritesMove(n),
         \A t \in Take : content'[t] \in {content[t], << >>}, \A f \in Frame : InCapture(f) => InCapture(f)'
  PROVE  FramesInOrder'
<1>1. \A t \in Take : \A k \in DOMAIN content[t] : content[t][k] \in Frame
  BY DEF Order, Types
<1>2. \A t \in Take : InTime(content[t])'
  BY DEF FramesInOrder, InTime
<1>3. ASSUME NEW t \in Take, NEW k \in DOMAIN content'[t]
      PROVE  InCapture(content[t][k])'
  <2>1. content'[t] = content[t] /\ k \in DOMAIN content[t]
    OBVIOUS
  <2>2. PICK f \in Frame : f = content[t][k] /\ f = content'[t][k]
    BY <1>1, <2>1
  <2>3. InCapture(f)'
    BY <2>1, <2>2 DEF FramesInOrder
  <2> QED BY <2>2, <2>3 DEF InCapture
<1>4. ASSUME NEW i \in Nat, NEW f \in Frame, Writes(i, f)'
      PROVE  InCapture(f)' /\ AfterContent(f)'
  <2>1. Writes(i + n, f) /\ i + n \in Nat
    BY <1>4 DEF WritesMove
  <2> QED BY <2>1 DEF FramesInOrder, AfterContent
<1>5. ASSUME NEW i \in Nat, NEW j \in Nat, NEW f \in Frame, NEW g \in Frame,
             i < j, Writes(i, f)', Writes(j, g)'
      PROVE  Earlier(f, g)
  <2>1. Writes(i + n, f) /\ Writes(j + n, g) /\ i + n \in Nat /\ j + n \in Nat /\ i + n < j + n
    BY <1>5 DEF WritesMove
  <2> QED BY <2>1 DEF FramesInOrder
<1> QED BY <1>2, <1>3, <1>4, <1>5 DEF FramesInOrder

LEMMA WriteKeepsFrames ==
  ASSUME Order, Holders, FramesInOrder, Order', Captures', Write,
         \A f \in Frame : InCapture(f) => InCapture(f)'
  PROVE  FramesInOrder'
<1>1. PICK f \in Frame :
        /\ Writes(1, f)
        /\ content' = IF file = None THEN content
                      ELSE [content EXCEPT ![file] = Append(@, f)]
        /\ WritesMove(1)
  BY DawTakesFrame
<1>2. CASE file = None
  BY <1>1, <1>2, FramesKept
<1>3. CASE file # None
  <2> DEFINE s == content[file]
             r == content'[file]
  <2>1. file \in Take /\ content \in [Take -> Seq(Frame)]
    BY <1>3, TakesAre DEF Order, Types
  <2>2. /\ content'[file] = Append(s, f) /\ s \in Seq(Frame)
        /\ \A t \in Take : t # file => content'[t] = content[t]
    BY <1>1, <1>3, <2>1
  <2>3. /\ Len(s) \in Nat
        /\ \A i \in DOMAIN s : i \in Nat \ {0} /\ i <= Len(s)
        /\ \A i \in DOMAIN r :
              \/ i \in DOMAIN s /\ r[i] = s[i]
              \/ i = Len(s) + 1 /\ r[i] = f
    BY <2>2, Appended
  <2>4. InCapture(f) /\ AfterContent(f)
    BY <1>1 DEF FramesInOrder
  <2>5. /\ \A i \in DOMAIN s : Earlier(s[i], f) /\ InCapture(s[i]) /\ s[i] \in Frame
        /\ \A i, j \in DOMAIN s : i < j => Earlier(s[i], s[j])
    BY <2>1, <2>2, <2>4 DEF AfterContent, FramesInOrder, InTime
  <2> HIDE DEF s, r
  <2>6. ASSUME NEW i \in DOMAIN r, NEW j \in DOMAIN r, i < j
        PROVE  Earlier(r[i], r[j])
    <3>1. i \in DOMAIN s /\ r[i] = s[i]
      BY <2>3, <2>6
    <3>2. CASE j \in DOMAIN s /\ r[j] = s[j]
      BY <2>5, <2>6, <3>1, <3>2
    <3>3. CASE r[j] = f
      BY <2>5, <3>1, <3>3
    <3> QED BY <2>3, <3>2, <3>3
  <2>7. \A t \in Take : InTime(content[t])'
    BY <2>2, <2>6 DEF r, FramesInOrder, InTime
  <2>8. \A k \in DOMAIN r : r[k] \in Frame /\ InCapture(r[k])
    <3> SUFFICES ASSUME NEW k \in DOMAIN r PROVE r[k] \in Frame /\ InCapture(r[k])
      OBVIOUS
    <3>1. CASE k \in DOMAIN s /\ r[k] = s[k]
      BY <2>5, <3>1
    <3>2. CASE r[k] = f
      BY <2>4, <3>2
    <3> QED BY <2>3, <3>1, <3>2
  <2>9. ASSUME NEW i \in Nat, NEW g \in Frame, Writes(i, g)'
        PROVE  InCapture(g)' /\ AfterContent(g)'
    <3>1. Writes(i + 1, g) /\ i + 1 \in Nat /\ i # 0
      <4>1. i \in DOMAIN from' /\ from' \in Seq(FromMessage)
        BY <2>9 DEF Writes, Order, Types
      <4> QED BY <1>1, <2>9, <4>1 DEF WritesMove
    <3>2. InCapture(g) /\ AfterContent(g)
      BY <3>1 DEF FramesInOrder
    <3>3. 1 < i + 1
      BY <3>1
    <3>4. Earlier(f, g)
      BY <1>1, <3>1, <3>3 DEF FramesInOrder
    <3>5. ASSUME NEW t \in Take, NEW k \in DOMAIN content'[t]
          PROVE  Earlier(content'[t][k], g)
      <4>1. CASE t # file
        BY <2>2, <3>2, <3>5, <4>1 DEF AfterContent
      <4>2. CASE t = file /\ k \in DOMAIN s /\ r[k] = s[k]
        BY <2>1, <3>2, <4>2 DEF AfterContent, s, r
      <4>3. CASE t = file /\ r[k] = f
        BY <3>4, <4>3 DEF r
      <4> QED BY <2>3, <3>5, <4>1, <4>2, <4>3 DEF r
    <3>6. InCapture(g)'
      BY <3>2
    <3> QED BY <3>5, <3>6 DEF AfterContent
  <2>10. ASSUME NEW i \in Nat, NEW j \in Nat, NEW g \in Frame, NEW h \in Frame,
                i < j, Writes(i, g)', Writes(j, h)'
         PROVE  Earlier(g, h)
    <3>1. Writes(i + 1, g) /\ Writes(j + 1, h) /\ i + 1 \in Nat /\ j + 1 \in Nat /\ i + 1 < j + 1
      BY <1>1, <2>10 DEF WritesMove
    <3> QED BY <3>1 DEF FramesInOrder
  <2>11. \A t \in Take : \A k \in DOMAIN content'[t] : InCapture(content[t][k])'
    <3> SUFFICES ASSUME NEW t \in Take, NEW k \in DOMAIN content'[t]
                 PROVE  InCapture(content[t][k])'
      OBVIOUS
    <3>1. content'[t][k] \in Frame /\ InCapture(content'[t][k])
      <4>1. CASE t = file
        BY <2>8, <4>1 DEF r
      <4>2. CASE t # file
        <5>1. content[t] \in Seq(Frame) /\ content'[t] = content[t]
          BY <2>1, <2>2, <4>2
        <5> QED BY <5>1 DEF FramesInOrder
      <4> QED BY <4>1, <4>2
    <3>2. PICK g \in Frame : g = content'[t][k] /\ InCapture(g)
      BY <3>1
    <3>3. InCapture(g)'
      BY <3>2
    <3> QED BY <3>2, <3>3 DEF InCapture
  <2> QED BY <2>7, <2>9, <2>10, <2>11 DEF FramesInOrder
<1> QED BY <1>2, <1>3

LEMMA SendUpKeepsFrames ==
  ASSUME Order, Holders, FramesInOrder, Order', Captures', SendUp, RunRecording,
         \A f \in Frame : InCapture(f) => InCapture(f)'
  PROVE  FramesInOrder'
<1>1. PICK f \in Frame :
        /\ f = Now /\ current \in Take /\ recording
        /\ captured' = [captured EXCEPT ![current] = Append(@, f)]
        /\ \A i \in Nat, g \in Frame :
             Writes(i, g)' => Writes(i, g) \/ (g = f /\ i = Len(from) + 1)
        /\ \A i \in Nat, g \in Frame : Writes(i, g) => i <= Len(from)
        /\ Len(from) \in Nat
  BY EngineSendsFrame
<1>2. content' = content
  BY DEF RunRecording, dawVars, fileVars
<1>3. \A g \in Frame : InCapture(g) => Earlier(g, f)
  BY <1>1, NowIsLater DEF FramesInOrder
<1>4. InCapture(f)'
  <2>1. f[1] = current /\ captured[current] \in Seq(Frame) /\ captured \in [Take -> Seq(Frame)]
    BY <1>1, TakesAre DEF Now, Order, Types
  <2>2. captured'[f[1]] = Append(captured[current], f)
    BY <1>1, <2>1
  <2> QED BY <2>1, <2>2, Appended DEF InCapture
<1>5. \A t \in Take : \A k \in DOMAIN content[t] : content[t][k] \in Frame /\ InCapture(content[t][k])
  BY DEF Order, Types, FramesInOrder
<1>6. \A t \in Take : InTime(content[t])'
  BY <1>2 DEF FramesInOrder, InTime
<1>7. ASSUME NEW t \in Take, NEW k \in DOMAIN content'[t]
      PROVE  InCapture(content[t][k])' /\ Earlier(content'[t][k], f)
  <2>1. PICK g \in Frame : g = content[t][k] /\ InCapture(g) /\ g = content'[t][k]
    BY <1>2, <1>5, <1>7
  <2>2. InCapture(g)'
    BY <2>1
  <2> QED BY <1>3, <2>1, <2>2 DEF InCapture
<1>8. ASSUME NEW i \in Nat, NEW g \in Frame, Writes(i, g)'
      PROVE  InCapture(g)' /\ AfterContent(g)'
  <2>1. CASE Writes(i, g)
    <3>1. InCapture(g) /\ AfterContent(g)
      BY <2>1 DEF FramesInOrder
    <3> QED BY <1>2, <3>1 DEF AfterContent
  <2>2. CASE g = f
    <3>1. AfterContent(g)'
      BY <1>7, <2>2 DEF AfterContent
    <3> QED BY <1>4, <2>2, <3>1
  <2> QED BY <1>1, <1>8, <2>1, <2>2
<1>9. ASSUME NEW i \in Nat, NEW j \in Nat, NEW g \in Frame, NEW h \in Frame,
             i < j, Writes(i, g)', Writes(j, h)'
      PROVE  Earlier(g, h)
  <2>1. CASE Writes(i, g) /\ Writes(j, h)
    BY <1>9, <2>1 DEF FramesInOrder
  <2>2. CASE Writes(i, g) /\ h = f
    BY <1>3, <2>2 DEF FramesInOrder
  <2>3. CASE i = Len(from) + 1
    <3>1. j <= Len(from) + 1
      BY <1>1, <1>9
    <3> QED BY <1>1, <1>9, <2>3, <3>1
  <2> QED BY <1>1, <1>9, <2>1, <2>2, <2>3
<1> QED BY <1>6, <1>7, <1>8, <1>9 DEF FramesInOrder

LEMMA NextKeepsFrames ==
  ASSUME Order, Holders, FramesInOrder, Order', [Next]_vars
  PROVE  FramesInOrder'
<1>1. Captures' /\ \A f \in Frame : InCapture(f) => InCapture(f)'
  BY NextKeepsCaptures DEF FramesInOrder
<1>2. CASE Write
  BY <1>1, <1>2, WriteKeepsFrames
<1>3. CASE RunRecording /\ SendUp
  BY <1>1, <1>3, SendUpKeepsFrames
<1>4. CASE TakeCommand /\ recording /\ Pause
  <2>1. current \in Take /\ DisposeAfter(<<Stopped(current)>>) /\ content' = content
    BY <1>4, TakesAre DEF Order, TakesInOrder, TakeCommand, Pause, dawVars, fileVars
  <2> QED BY <1>1, <2>1, EngineEndsTake, FramesKept
<1>5. CASE FinishRecording
  <2>1. current \in Take /\ DisposeAfter(<<Stopped(current)>>) /\ content' = content
    BY <1>5, TakesAre DEF Order, TakesInOrder, FinishRecording, dawVars, fileVars
  <2> QED BY <1>1, <2>1, EngineEndsTake, FramesKept
<1>6. CASE /\ ~Write /\ ~(RunRecording /\ SendUp) /\ ~(TakeCommand /\ recording /\ Pause)
           /\ ~FinishRecording
  <2>1. PICK n \in {0, 1} : WritesMove(n)
    BY <1>6, SteadySteps DEF Steady
  <2>2. \A t \in Take : content'[t] \in {content[t], << >>}
    <3>1. CASE Record
      BY <3>1, RecordFiles DEF Order
    <3>2. CASE ~Record
      BY <1>6, <3>2
         DEF Next, HandleMessage, Engine, Disarm, SendCommand, Delete,
             TellStarted, TakeCheckpoint, CloseFile, TakeStart, Resupply, TakeCommand,
             BeginTurn, NotRecording, RunRecording, vars, dawVars, fileVars
    <3> QED BY <3>1, <3>2
  <2> QED BY <1>1, <2>1, <2>2, FramesKept
<1> QED BY <1>2, <1>3, <1>4, <1>5, <1>6

-----------------------------------------------------------------------------
(* Takes are apart: each is over before its file is closed.                *)

LEMMA DisturbedStays ==
  ASSUME Order, [Next]_vars, NEW t \in Take, Undisturbed(t)'
  PROVE  Undisturbed(t)
<1>1. /\ overlapped \subseteq overlapped' /\ disarmed \subseteq disarmed'
      /\ replaced \subseteq replaced'
  <2>1. CASE Record
    BY <2>1, RecordFiles DEF Record, Order
  <2>2. CASE ~Record
    BY <2>2 DEF Next, HandleMessage, Engine, Disarm, SendCommand, Write, Delete,
         TellStarted, TakeCheckpoint, CloseFile, TakeStart, Resupply, TakeCommand,
         BeginTurn, NotRecording, RunRecording, FinishRecording, vars, dawVars,
         fileVars
  <2> QED BY <2>1, <2>2
<1>2. dropped => dropped'
  <2>1. CASE TakeCommand
    BY <2>1 DEF TakeCommand, Play, Stop, Pause, Rewind, DisposeAfter, SendFrom
  <2>2. CASE ~TakeCommand
    BY <2>2 DEF Next, HandleMessage, Engine, Record, Disarm, SendCommand, Write, Delete,
         TellStarted, TakeCheckpoint, CloseFile, TakeStart, Resupply, SendUp, Exhausted,
         BeginTurn, NotRecording, RunRecording, FinishRecording, DisposeAfter, SendTo,
         SendFrom, vars, fileVars
  <2> QED BY <2>1, <2>2
<1> QED BY <1>1, <1>2 DEF Undisturbed

\* A take that is said to be over was begun.
LEMMA StoppedTake ==
  ASSUME Order, NEW i \in Nat, NEW t \in Take, Stops(i, t)
  PROVE  ~Ahead(t) /\ t \in 1 .. takes
<1>1. i \in DOMAIN from /\ from[i].type = "RecordingStopped" /\ from[i].take = t
  BY DEF Stops, Stopped
<1>2. ~Ahead(t)
  BY <1>1 DEF Order, TakesInOrder
<1>3. t \in Nat \ {0} /\ current \in 1 .. takes \cup {None} /\ takes \in Nat
  BY TakesAre DEF Order, Types, TypeOK
<1> QED BY <1>2, <1>3 DEF Ahead

LEMMA EndIsHeard ==
  ASSUME Order, CloseFile
  PROVE  \E t \in Take : Stops(1, t) /\ over' = over \cup {t}
<1>1. /\ 1 \in DOMAIN from /\ Head(from) = from[1] /\ from[1] \in FromMessage
      /\ from[1].type = "RecordingStopped"
  BY TakenByDAW DEF CloseFile
<1>2. PICK t \in Take : t = from[1].take
  BY <1>1, MessageTypes
<1>3. from[1] = Stopped(t)
  BY <1>1, <1>2 DEF FromMessage, BuffersMessage, Stopped
<1> QED BY <1>1, <1>2, <1>3 DEF CloseFile, Stops

LEMMA NextKeepsOneOpen ==
  ASSUME Order, OneOpen, EndsLast, Order', [Next]_vars
  PROVE  OneOpen'
<1>1. /\ takes \in Nat /\ over \subseteq 1 .. takes /\ clips \subseteq 1 .. takes
      /\ None \notin 1 .. takes /\ 1 .. takes \subseteq Take
  BY TakesAre DEF Order, Types, TypeOK
<1>2. CASE Record
  <2> DEFINE t == takes + 1
             open == (1 .. takes) \ over
  <2>1. PICK ok \in BOOLEAN : /\ file' = IF ok THEN t ELSE None
                             /\ clips' = IF ok THEN clips \cup {t} ELSE clips
    BY <1>2 DEF Record
  <2>2. /\ takes' = t /\ file' = IF ok THEN t ELSE None
        /\ clips' = IF ok THEN clips \cup {t} ELSE clips
        /\ overlapped' = IF open = {} THEN overlapped ELSE overlapped \cup open \cup {t}
        /\ over' = over
    BY <1>2, <2>1 DEF Record
  <2>3. 1 .. takes' = 1 .. takes \cup {t} /\ t \notin 1 .. takes
    BY <1>1, <2>2
  <2> HIDE DEF t
  <2>4. \A u, v \in (1 .. takes') \ over' : u # v => u \in overlapped'
    BY <2>2, <2>3
  <2>5. file' \notin over'
    BY <1>1, <2>2, <2>3, TakesAre DEF Order
  <2>6. ASSUME NEW u \in clips' \ over', Undisturbed(u)' PROVE file' = u
    BY <1>1, <2>2, <2>3, <2>6 DEF Undisturbed
  <2> QED BY <2>4, <2>5, <2>6 DEF OneOpen
<1>3. CASE Disarm
  <2>1. /\ file # None /\ file' = None /\ disarmed' = disarmed \cup {file}
        /\ UNCHANGED <<takes, over, overlapped, replaced, clips, dropped>>
    BY <1>3 DEF Disarm, fileVars
  <2>2. ASSUME NEW u \in clips' \ over', Undisturbed(u)' PROVE FALSE
    BY <2>1, <2>2 DEF Undisturbed, OneOpen
  <2> QED BY <1>1, <2>1, <2>2, TakesAre DEF OneOpen, Order
<1>4. CASE CloseFile
  <2>1. PICK t \in Take : Stops(1, t) /\ over' = over \cup {t}
    BY <1>4, EndIsHeard
  <2>2. file' = None /\ UNCHANGED <<takes, clips, overlapped, disarmed, replaced, dropped>>
    BY <1>4 DEF CloseFile
  <2>3. t \notin over /\ t \in 1 .. takes
    BY <2>1, StoppedTake DEF EndsLast
  <2>4. ASSUME NEW u \in clips' \ over', Undisturbed(u)' PROVE FALSE
    <3>1. u # t /\ u \in (1 .. takes) \ over /\ t \in (1 .. takes) \ over
      BY <1>1, <2>1, <2>2, <2>3
    <3>2. u \in overlapped
      BY <3>1 DEF OneOpen
    <3> QED BY <2>2, <2>4, <3>2 DEF Undisturbed
  <2> QED BY <1>1, <2>1, <2>2, <2>4, TakesAre DEF OneOpen, Order
<1>5. CASE UNCHANGED <<takes, file, over, overlapped, clips>>
  <2>1. ASSUME NEW u \in clips' \ over', Undisturbed(u)' PROVE file' = u
    BY <1>1, <1>5, <2>1, DisturbedStays DEF OneOpen
  <2> QED BY <1>5, <2>1 DEF OneOpen
<1> QED BY <1>2, <1>3, <1>4, <1>5
        DEF Next, HandleMessage, Engine, SendCommand, Write, Delete,
            TellStarted, TakeCheckpoint, TakeStart, Resupply, TakeCommand,
            BeginTurn, NotRecording, RunRecording, FinishRecording, vars, dawVars,
            fileVars

\* A queue that only moves up leaves the ends where they are.
LEMMA EndsKept ==
  ASSUME Order, EndsLast, Order', [Next]_vars, NEW n \in {0, 1}, WritesMove(n), StopsMove(n),
         over' = over,
         recording' => \/ recording /\ current' = current
                       \/ \E t \in Take : current' = t /\ Ahead(t)
  PROVE  EndsLast'
<1>1. recording' => current' \notin over'
  BY DEF EndsLast
<1>2. over \subseteq Take
  BY TakesAre DEF Order
<1>3. ASSUME NEW t \in over'
      PROVE  ~Ahead(t)' /\ \A i \in Nat, f \in Frame : Writes(i, f)' => f[1] # t
  <2>1. ~Ahead(t)'
    BY <1>2, <1>3, AheadKept DEF EndsLast
  <2>2. \A i \in Nat, f \in Frame : Writes(i, f)' => Writes(i + n, f) /\ i + n \in Nat
    BY DEF WritesMove
  <2> QED BY <2>1, <2>2 DEF EndsLast
<1>4. ASSUME NEW i \in Nat, NEW t \in Take, Stops(i, t)'
      PROVE  /\ t \notin over'
             /\ recording' => t # current'
             /\ \A j \in Nat : i < j => ~Stops(j, t)'
             /\ \A j \in Nat, f \in Frame : i < j /\ Writes(j, f)' => f[1] # t
  <2>1. Stops(i + n, t) /\ i + n \in Nat
    BY <1>4 DEF StopsMove
  <2>2. ~Ahead(t)
    BY <2>1, StoppedTake
  <2>3. t \notin over' /\ (recording' => t # current')
    BY <2>1, <2>2 DEF EndsLast
  <2>4. ASSUME NEW j \in Nat, i < j
        PROVE  ~Stops(j, t)' /\ \A f \in Frame : Writes(j, f)' => f[1] # t
    <3>1. j + n \in Nat /\ i + n < j + n
      BY <2>4
    <3>2. ~Stops(j + n, t) /\ \A f \in Frame : Writes(j + n, f) => f[1] # t
      BY <2>1, <3>1 DEF EndsLast
    <3> QED BY <3>2 DEF StopsMove, WritesMove
  <2> QED BY <2>3, <2>4
<1> QED BY <1>1, <1>3, <1>4 DEF EndsLast

LEMMA CloseKeepsEnds ==
  ASSUME Order, Holders, EndsLast, Order', CloseFile
  PROVE  EndsLast'
<1>1. PICK t \in Take : Stops(1, t) /\ over' = over \cup {t}
  BY EndIsHeard
<1>2. WritesMove(1) /\ StopsMove(1) /\ UNCHANGED <<recording, current>>
  <2>1. from # << >> /\ from' = Tail(from) /\ Head(from).type = "RecordingStopped"
        /\ UNCHANGED <<state, data, recording, current>>
    BY DEF CloseFile, engineVars, bufferVars
  <2> QED BY <2>1, TakenByDAW, SteadyOnTake DEF Steady
<1>3. /\ t \notin over /\ (recording => t # current) /\ ~Ahead(t)
      /\ \A j \in Nat : 1 < j => ~Stops(j, t)
      /\ \A j \in Nat, f \in Frame : 1 < j /\ Writes(j, f) => f[1] # t
  BY <1>1, StoppedTake DEF EndsLast
<1>4. /\ \A i \in Nat, f \in Frame : Writes(i, f)' => i # 0
      /\ \A i \in Nat, u \in Take : Stops(i, u)' => i # 0
  <2>1. 0 \notin DOMAIN from'
    BY DEF Order, Types
  <2> QED BY <2>1 DEF Writes, Stops
<1>5. \A i \in Nat : i # 0 => 1 < i + 1 /\ i + 1 \in Nat
  OBVIOUS
<1>6. /\ \A i \in Nat, f \in Frame : Writes(i, f)' => f[1] # t
      /\ \A i \in Nat : ~Stops(i, t)'
  BY <1>2, <1>3, <1>4, <1>5 DEF WritesMove, StopsMove
<1>7. ASSUME NEW u \in over'
      PROVE  ~Ahead(u)' /\ \A i \in Nat, f \in Frame : Writes(i, f)' => f[1] # u
  <2>1. ~Ahead(u)'
    BY <1>1, <1>2, <1>3 DEF EndsLast, Ahead
  <2>2. \A i \in Nat, f \in Frame : Writes(i, f)' => Writes(i + 1, f) /\ i + 1 \in Nat
    BY <1>2 DEF WritesMove
  <2> QED BY <1>1, <1>6, <2>1, <2>2 DEF EndsLast
<1>8. ASSUME NEW i \in Nat, NEW u \in Take, Stops(i, u)'
      PROVE  /\ u \notin over'
             /\ recording' => u # current'
             /\ \A j \in Nat : i < j => ~Stops(j, u)'
             /\ \A j \in Nat, f \in Frame : i < j /\ Writes(j, f)' => f[1] # u
  <2>1. Stops(i + 1, u) /\ i + 1 \in Nat /\ u # t
    BY <1>2, <1>6, <1>8 DEF StopsMove
  <2>2. u \notin over' /\ (recording' => u # current')
    BY <1>1, <1>2, <2>1 DEF EndsLast
  <2>3. ASSUME NEW j \in Nat, i < j
        PROVE  ~Stops(j, u)' /\ \A f \in Frame : Writes(j, f)' => f[1] # u
    <3>1. j + 1 \in Nat /\ i + 1 < j + 1
      BY <2>3
    <3>2. ~Stops(j + 1, u) /\ \A f \in Frame : Writes(j + 1, f) => f[1] # u
      BY <2>1, <3>1 DEF EndsLast
    <3> QED BY <1>2, <3>2 DEF StopsMove, WritesMove
  <2> QED BY <2>2, <2>3
<1>9. recording' => current' \notin over'
  BY <1>1, <1>2, <1>3 DEF EndsLast
<1> QED BY <1>7, <1>8, <1>9 DEF EndsLast

LEMMA SendUpKeepsEnds ==
  ASSUME Order, Holders, EndsLast, Order', SendUp, RunRecording
  PROVE  EndsLast'
<1>1. PICK f \in Frame :
        /\ f = Now /\ current \in Take /\ recording
        /\ \A i \in Nat, g \in Frame : Writes(i, g)' => Writes(i, g) \/ g = f
        /\ StopsMove(0)
  BY EngineSendsFrame
<1>2. f[1] = current /\ UNCHANGED <<over, recording, current>>
  BY <1>1 DEF Now, RunRecording, dawVars, fileVars
<1>3. \A i \in Nat, t \in Take : Stops(i, t)' => Stops(i, t)
  <2>1. \A i \in Nat : i + 0 = i
    OBVIOUS
  <2> QED BY <1>1, <2>1 DEF StopsMove
<1>4. ASSUME NEW t \in over'
      PROVE  ~Ahead(t)' /\ \A i \in Nat, g \in Frame : Writes(i, g)' => g[1] # t
  <2>1. ~Ahead(t)'
    BY <1>2 DEF EndsLast, Ahead
  <2> QED BY <1>1, <1>2, <2>1 DEF EndsLast
<1>5. ASSUME NEW i \in Nat, NEW t \in Take, Stops(i, t)'
      PROVE  /\ t \notin over'
             /\ recording' => t # current'
             /\ \A j \in Nat : i < j => ~Stops(j, t)'
             /\ \A j \in Nat, g \in Frame : i < j /\ Writes(j, g)' => g[1] # t
  BY <1>1, <1>2, <1>3, <1>5 DEF EndsLast
<1>6. recording' => current' \notin over'
  BY <1>2 DEF EndsLast
<1> QED BY <1>4, <1>5, <1>6 DEF EndsLast

LEMMA StopKeepsEnds ==
  ASSUME Order, Holders, EndsLast, Order', recording, DisposeAfter(<<Stopped(current)>>),
         recording' = FALSE, UNCHANGED <<over, current>>
  PROVE  EndsLast'
<1>1. current \in Take /\ ~Ahead(current)
  BY TakesAre DEF Order, TakesInOrder, Ahead
<1>2. /\ WritesMove(0) /\ Len(from) \in Nat
      /\ \A i \in Nat, u \in Take :
              Stops(i, u)' => Stops(i, u) \/ (u = current /\ i = Len(from) + 1)
      /\ \A i \in Nat, f \in Frame : Writes(i, f) => i <= Len(from)
      /\ \A i \in Nat, u \in Take : Stops(i, u) => i <= Len(from)
  BY <1>1, EngineEndsTake
<1>3. \A i \in Nat, f \in Frame : Writes(i, f)' => Writes(i, f)
  <2>1. \A i \in Nat : i + 0 = i
    OBVIOUS
  <2> QED BY <1>2, <2>1 DEF WritesMove
<1>4. current \notin over /\ \A i \in Nat : ~Stops(i, current)
  BY <1>1 DEF EndsLast
<1>5. ASSUME NEW t \in over'
      PROVE  ~Ahead(t)' /\ \A i \in Nat, g \in Frame : Writes(i, g)' => g[1] # t
  <2>1. ~Ahead(t)'
    BY DEF EndsLast, Ahead
  <2> QED BY <1>3, <2>1 DEF EndsLast
<1>6. ASSUME NEW i \in Nat, NEW t \in Take, Stops(i, t)'
      PROVE  /\ t \notin over'
             /\ recording' => t # current'
             /\ \A j \in Nat : i < j => ~Stops(j, t)'
             /\ \A j \in Nat, g \in Frame : i < j /\ Writes(j, g)' => g[1] # t
  <2>1. CASE Stops(i, t)
    <3>1. t # current
      BY <1>4, <2>1
    <3> QED BY <1>2, <1>3, <2>1, <3>1 DEF EndsLast
  <2>2. CASE t = current /\ i = Len(from) + 1
    <3>1. \A j \in Nat : i < j => ~(j <= Len(from)) /\ j # Len(from) + 1
      BY <1>2, <2>2
    <3>2. \A j \in Nat : i < j => ~Stops(j, t)'
      BY <1>2, <2>2, <3>1
    <3>3. \A j \in Nat, g \in Frame : i < j => ~Writes(j, g)'
      BY <1>2, <1>3, <3>1
    <3> QED BY <1>4, <2>2, <3>2, <3>3
  <2> QED BY <1>2, <1>6, <2>1, <2>2
<1> QED BY <1>5, <1>6 DEF EndsLast

LEMMA NextKeepsEnds ==
  ASSUME Order, Holders, EndsLast, Order', [Next]_vars
  PROVE  EndsLast'
<1>1. CASE CloseFile
  BY <1>1, CloseKeepsEnds
<1>2. CASE RunRecording /\ SendUp
  BY <1>2, SendUpKeepsEnds
<1>3. CASE TakeCommand /\ recording /\ Pause
  BY <1>3, StopKeepsEnds DEF TakeCommand, Pause, dawVars, fileVars
<1>4. CASE FinishRecording
  BY <1>4, StopKeepsEnds DEF FinishRecording, Order, TakesInOrder, dawVars, fileVars
<1>5. CASE Write
  <2>1. WritesMove(1) /\ StopsMove(1) /\ UNCHANGED <<over, recording, current>>
    BY <1>5, DawTakesFrame DEF Write, engineVars
  <2> QED BY <2>1, EndsKept
<1>6. CASE /\ ~Write /\ ~(RunRecording /\ SendUp) /\ ~(TakeCommand /\ recording /\ Pause)
           /\ ~FinishRecording /\ ~CloseFile
  <2>1. PICK n \in {0, 1} : WritesMove(n) /\ StopsMove(n)
    BY <1>6, SteadySteps DEF Steady
  <2>2. over' = over
    BY <1>6 DEF Next, HandleMessage, Engine, Record, Disarm, SendCommand, Delete,
            TellStarted, TakeCheckpoint, TakeStart, Resupply, TakeCommand,
            BeginTurn, NotRecording, RunRecording, vars, dawVars, fileVars
  <2>3. CASE TakeStart
    <3>1. to[1] \in ToMessage /\ Head(to) = to[1] /\ to[1].type = "StartRecording"
          /\ 1 \in DOMAIN to
      BY <2>3, TakenByEngine DEF TakeStart
    <3>2. PICK t \in Take : t = Head(to).take
      BY <3>1, MessageTypes
    <3>3. Ahead(t) /\ current' = t
      BY <2>3, <3>1, <3>2 DEF TakeStart, Order, TakesInOrder, Starts
    <3> QED BY <2>1, <2>2, <3>3, EndsKept
  <2>4. CASE ~TakeStart
    <3>1. CASE TakeCommand
      <4>1. current' = current /\ (recording' => recording)
        BY <3>1 DEF TakeCommand, Play, Stop, Pause, Rewind
      <4> QED BY <2>1, <2>2, <4>1, EndsKept
    <3>2. CASE ~TakeCommand
      <4>1. current' = current /\ recording' = recording
        BY <1>6, <2>4, <3>2
           DEF Next, HandleMessage, Engine, Record, Disarm, SendCommand, Delete,
               TellStarted, TakeCheckpoint, Resupply, BeginTurn, NotRecording,
               RunRecording, vars, engineVars, fileVars
      <4> QED BY <2>1, <2>2, <4>1, EndsKept
    <3> QED BY <3>1, <3>2
  <2> QED BY <2>3, <2>4
<1> QED BY <1>1, <1>2, <1>3, <1>4, <1>5, <1>6

-----------------------------------------------------------------------------
(* Files hold what was captured.                                           *)

\* Nothing changes for a take by a step that neither captures nor writes.
LEMMA MissedKept ==
  ASSUME Order, NothingMissed, NoWriteLost, [Next]_vars,
         UNCHANGED <<captured, content, clips, takes>>
  PROVE  NothingMissed'
<1>1. \A t \in Take : t > takes' => content'[t] = << >>
  BY DEF NothingMissed
<1>2. ASSUME NEW t \in clips', Undisturbed(t)'
      PROVE  /\ Len(content'[t]) <= Len(captured'[t])
             /\ \A k \in DOMAIN content'[t] : content'[t][k] = captured'[t][k]
             /\ \A k \in DOMAIN captured'[t] :
                  k > Len(content'[t]) => OnItsWay(captured[t][k])'
  <2>1. t \in clips /\ t \in Take /\ Undisturbed(t) /\ captured[t] \in Seq(Frame)
    BY <1>2, DisturbedStays, TakesAre DEF Order
  <2>2. ASSUME NEW k \in DOMAIN captured'[t], k > Len(content'[t])
        PROVE  OnItsWay(captured[t][k])'
    <3>1. PICK f \in Frame : f = captured[t][k] /\ f = captured'[t][k] /\ OnItsWay(f)
      BY <2>1, <2>2 DEF NothingMissed
    <3>2. OnItsWay(f)'
      BY <3>1 DEF NoWriteLost
    <3> QED BY <3>1, <3>2 DEF OnItsWay, Writes
  <2> QED BY <2>1, <2>2 DEF NothingMissed
<1> QED BY <1>1, <1>2 DEF NothingMissed

LEMMA RecordMissesNothing ==
  ASSUME Order, Holders, FramesInOrder, NothingMissed, Order', Record
  PROVE  NothingMissed'
<1>1. /\ takes' = takes + 1 /\ clips' \subseteq clips \cup {takes + 1}
      /\ UNCHANGED <<captured, state, data, from>>
      /\ \A t \in Take : \/ content'[t] = content[t]
                         \/ t \in replaced' /\ content'[t] = << >>
  BY RecordFiles DEF Record, engineVars, bufferVars, Order
<1>2. /\ takes \in Nat /\ takes + 1 \in Take /\ \A t \in Take : t \in Nat /\ t # None
      /\ current \in 1 .. takes \cup {None}
  <2>1. takes + 1 \in Take
    BY RecordingAssumption DEF Record, Order, Types, TypeOK, Take
  <2>2. takes \in Nat /\ \A t \in Take : t \in Nat /\ t # None
    BY TakesAre DEF Order
  <2> QED BY <2>1, <2>2 DEF Order, Types, TypeOK
<1>3. \A t \in Take : t > takes' => content'[t] = << >>
  BY <1>1, <1>2 DEF NothingMissed
<1>4. ASSUME NEW t \in clips', Undisturbed(t)'
      PROVE  /\ Len(content'[t]) <= Len(captured'[t])
             /\ \A k \in DOMAIN content'[t] : content'[t][k] = captured'[t][k]
             /\ \A k \in DOMAIN captured'[t] :
                  k > Len(content'[t]) => OnItsWay(captured[t][k])'
  <2>1. CASE t \in clips
    <3>1. Undisturbed(t)
      <4>1. [Next]_vars
        BY DEF Next
      <4> QED BY <1>4, <2>1, <4>1, DisturbedStays, TakesAre DEF Order
    <3>2. \A k \in DOMAIN captured'[t] : OnItsWay(captured[t][k])' = OnItsWay(captured[t][k])
      BY <1>1 DEF OnItsWay, Writes, IsBuffers
    <3>3. content'[t] = content[t]
      BY <1>1, <1>4, <2>1, TakesAre DEF Undisturbed, Order
    <3> QED BY <1>1, <2>1, <3>1, <3>2, <3>3 DEF NothingMissed
  <2>2. CASE t = takes + 1
    <3>1. Ahead(t) /\ t \in Take /\ t > takes
      BY <1>2, <2>2 DEF Ahead
    <3>2. TurnsOf(t) = 0 /\ content'[t] = << >>
      BY <1>1, <3>1 DEF FramesInOrder, Captures, NothingMissed
    <3>3. captured[t] = << >>
      <4>1. captured[t] \in Seq(Frame) /\ exhausted[t] \in Nat
        BY <3>1, TakesAre DEF Order
      <4>2. Len(captured[t]) = 0
        BY <3>2, <4>1 DEF TurnsOf
      <4> QED BY <4>1, <4>2
    <3> QED BY <1>1, <3>2, <3>3
  <2> QED BY <1>1, <1>4, <2>1, <2>2
<1> QED BY <1>3, <1>4 DEF NothingMissed

LEMMA EarlierIsStrict ==
  ASSUME NEW f \in Frame, NEW g \in Frame, Earlier(f, g)
  PROVE  f # g /\ ~Earlier(g, f)
<1>1. f[1] \in Int /\ g[1] \in Int /\ f[2] \in Int /\ g[2] \in Int
  BY DEF Frame, Take
<1> QED BY <1>1 DEF Earlier

\* The frame that is written is the next one of its take.
LEMMA WriteMissesNothing ==
  ASSUME Order, Holders, FramesInOrder, OneOpen, EndsLast, NothingMissed, Order', Write
  PROVE  NothingMissed'
<1>1. PICK f \in Frame :
        /\ Writes(1, f)
        /\ content' = IF file = None THEN content
                      ELSE [content EXCEPT ![file] = Append(@, f)]
        /\ \A g \in Frame : OnItsWay(g) => g = f \/ OnItsWay(g)'
  BY DawTakesFrame
<1>2. PICK v \in Take : v = f[1]
  BY DEF Frame
<1>3. InCapture(f) /\ AfterContent(f) /\ v \notin over
  BY <1>1, <1>2 DEF FramesInOrder, EndsLast
<1>4. PICK p \in DOMAIN captured[v] : captured[v][p] = f
  BY <1>2, <1>3 DEF InCapture
<1>5. v \in 1 .. takes
  <2>1. captured[v] \in Seq(Frame) /\ exhausted[v] \in Nat
    BY TakesAre DEF Order
  <2>2. TurnsOf(v) # 0
    BY <1>4, <2>1 DEF TurnsOf
  <2>3. ~Ahead(v)
    BY <2>2 DEF FramesInOrder, Captures
  <2>4. v \in Nat \ {0} /\ current \in 1 .. takes \cup {None} /\ takes \in Nat
    BY TakesAre DEF Order, Types, TypeOK
  <2> QED BY <2>3, <2>4 DEF Ahead
<1>6. UNCHANGED <<captured, clips, takes, file>> /\ content \in [Take -> Seq(Frame)]
  BY DEF Write, engineVars, Order, Types
<1>7. [Next]_vars
  BY DEF Next, HandleMessage
<1>8. \A t \in Take : t > takes' => content'[t] = << >>
  <2>1. file # None => file \in 1 .. takes /\ file \in Take
    BY TakesAre DEF Order, Types, TypeOK
  <2>2. takes \in Nat
    BY TakesAre DEF Order
  <2>3. ASSUME NEW t \in Take, t > takes PROVE content'[t] = content[t]
    BY <1>1, <1>6, <2>1, <2>2, <2>3
  <2> QED BY <1>6, <2>3 DEF NothingMissed
<1>9. ASSUME NEW t \in clips, Undisturbed(t), t # v
      PROVE  /\ content'[t] = content[t]
             /\ \A k \in DOMAIN captured[t] : captured[t][k] # f
  <2>1. t \in 1 .. takes /\ t \in Take
    BY TakesAre DEF Order, Types, TypeOK
  <2>2. file # t
    BY <1>3, <1>5, <1>9, <2>1 DEF OneOpen, Undisturbed
  <2>3. \A k \in DOMAIN captured[t] : captured[t][k][1] = t
    BY <2>1 DEF FramesInOrder, Captures
  <2> QED BY <1>1, <1>2, <1>6, <1>9, <2>1, <2>2, <2>3
<1>10. ASSUME v \in clips, Undisturbed(v)
       PROVE  /\ content'[v] = Append(content[v], f)
              /\ Len(content[v]) + 1 \in DOMAIN captured[v]
              /\ captured[v][Len(content[v]) + 1] = f
  <2>1. file = v /\ file # None
    BY <1>3, <1>10, TakesAre DEF OneOpen, Order
  <2>2. content[v] \in Seq(Frame) /\ captured[v] \in Seq(Frame)
    BY TakesAre DEF Order
  <2> DEFINE m == Len(content[v]) + 1
  <2>3. /\ Len(content[v]) <= Len(captured[v])
        /\ \A k \in DOMAIN content[v] : content[v][k] = captured[v][k]
        /\ \A k \in DOMAIN captured[v] : k > Len(content[v]) => OnItsWay(captured[v][k])
    BY <1>10 DEF NothingMissed
  <2>4. p \notin DOMAIN content[v]
    <3> SUFFICES ASSUME p \in DOMAIN content[v] PROVE FALSE
      OBVIOUS
    <3>1. Earlier(f, f)
      BY <1>3, <1>4, <2>3 DEF AfterContent
    <3> QED BY <3>1, EarlierIsStrict
  <2>5. m \in DOMAIN captured[v] /\ m <= p /\ m > Len(content[v]) /\ p \in Nat /\ m \in Nat
    BY <2>2, <2>4
  <2> HIDE DEF m
  <2>6. PICK g \in Frame : g = captured[v][m] /\ OnItsWay(g)
    BY <2>2, <2>3, <2>5
  <2>7. PICK i \in Nat : Writes(i, g)
    BY <2>6 DEF OnItsWay
  <2>8. i # 0
    <3>1. 0 \notin DOMAIN from
      BY DEF Order, Types
    <3> QED BY <2>7, <3>1 DEF Writes
  <2>9. g = f \/ Earlier(f, g)
    <3>1. CASE i = 1
      BY <1>1, <2>7, <3>1 DEF Writes
    <3>2. CASE i > 1
      BY <1>1, <2>7, <3>2 DEF FramesInOrder
    <3> QED BY <2>8, <3>1, <3>2
  <2>10. g = f \/ Earlier(g, f)
    <3>1. m < p => Earlier(g, f)
      BY <1>4, <2>5, <2>6 DEF FramesInOrder, Captures, InTime
    <3> QED BY <1>4, <2>5, <2>6, <3>1
  <2>11. g = f
    BY <2>9, <2>10, EarlierIsStrict
  <2> QED BY <1>1, <1>6, <2>1, <2>5, <2>6, <2>11 DEF m
<1>11. ASSUME NEW t \in clips', Undisturbed(t)'
       PROVE  /\ Len(content'[t]) <= Len(captured'[t])
              /\ \A k \in DOMAIN content'[t] : content'[t][k] = captured'[t][k]
              /\ \A k \in DOMAIN captured'[t] :
                   k > Len(content'[t]) => OnItsWay(captured[t][k])'
  <2>1. t \in clips /\ t \in Take /\ Undisturbed(t)
    BY <1>6, <1>7, <1>11, DisturbedStays, TakesAre DEF Order
  <2>2. content[t] \in Seq(Frame) /\ captured[t] \in Seq(Frame)
    BY <2>1, TakesAre DEF Order
  <2>3. /\ Len(content[t]) <= Len(captured[t])
        /\ \A k \in DOMAIN content[t] : content[t][k] = captured[t][k]
        /\ \A k \in DOMAIN captured[t] : k > Len(content[t]) => OnItsWay(captured[t][k])
    BY <2>1 DEF NothingMissed
  <2>4. ASSUME NEW k \in DOMAIN captured[t], k > Len(content[t]), captured[t][k] # f
        PROVE  OnItsWay(captured[t][k])'
    <3>1. PICK g \in Frame : g = captured[t][k] /\ OnItsWay(g) /\ g = captured'[t][k]
      BY <1>6, <2>2, <2>3, <2>4
    <3>2. OnItsWay(g)'
      BY <1>1, <2>4, <3>1
    <3> QED BY <3>1, <3>2 DEF OnItsWay, Writes
  <2>5. CASE t # v
    BY <1>6, <1>9, <2>1, <2>3, <2>4, <2>5
  <2>6. CASE t = v
    <3> DEFINE m == Len(content[v]) + 1
               r == Append(content[v], f)
    <3>1. content'[t] = r /\ m \in DOMAIN captured[t] /\ captured[t][m] = f
      BY <1>10, <2>1, <2>6
    <3>2. /\ Len(r) = m
          /\ \A i \in DOMAIN r : \/ i \in DOMAIN content[t] /\ r[i] = content[t][i]
                                 \/ i = m /\ r[i] = f
      BY <2>2, <2>6, Appended
    <3>3. m \in Nat /\ Len(content[t]) < m
      BY <2>2, <2>6
    <3>4. m <= Len(captured[t])
      BY <2>2, <3>1
    <3> HIDE DEF m, r
    <3>5. \A k \in DOMAIN r : r[k] = captured[t][k]
      BY <2>3, <3>1, <3>2
    <3>6. ASSUME NEW k \in DOMAIN captured[t], k > m
          PROVE  OnItsWay(captured[t][k])'
      <4>1. k > Len(content[t]) /\ captured[t][k] \in Frame
        BY <2>2, <3>3, <3>6
      <4>2. Earlier(captured[t][m], captured[t][k])
        BY <2>1, <3>1, <3>6 DEF FramesInOrder, Captures, InTime
      <4>3. captured[t][k] # f
        BY <3>1, <4>1, <4>2, EarlierIsStrict
      <4> QED BY <2>4, <4>1, <4>3
    <3> QED BY <1>6, <3>1, <3>2, <3>4, <3>5, <3>6
  <2> QED BY <2>5, <2>6
<1> QED BY <1>8, <1>11 DEF NothingMissed

LEMMA SendUpMissesNothing ==
  ASSUME Order, Holders, NothingMissed, Order', SendUp, RunRecording
  PROVE  NothingMissed'
<1>1. PICK f \in Frame :
        /\ current \in Take
        /\ captured' = [captured EXCEPT ![current] = Append(@, f)]
        /\ NoWriteLost
        /\ ~dropped' => OnItsWay(f)'
  BY EngineSendsFrame
<1>2. UNCHANGED <<content, clips, takes>> /\ captured \in [Take -> Seq(Frame)]
  BY DEF RunRecording, dawVars, Order, Types, fileVars
<1>3. [Next]_vars
  BY DEF Next, Engine
<1>4. ASSUME NEW t \in clips', Undisturbed(t)'
      PROVE  /\ Len(content'[t]) <= Len(captured'[t])
             /\ \A k \in DOMAIN content'[t] : content'[t][k] = captured'[t][k]
             /\ \A k \in DOMAIN captured'[t] :
                  k > Len(content'[t]) => OnItsWay(captured[t][k])'
  <2>1. t \in clips /\ t \in Take /\ Undisturbed(t) /\ ~dropped'
    BY <1>2, <1>3, <1>4, DisturbedStays, TakesAre DEF Order, Undisturbed
  <2>2. content[t] \in Seq(Frame) /\ captured[t] \in Seq(Frame)
    BY <2>1, TakesAre DEF Order
  <2>3. /\ Len(content[t]) <= Len(captured[t])
        /\ \A k \in DOMAIN content[t] : content[t][k] = captured[t][k]
        /\ \A k \in DOMAIN captured[t] : k > Len(content[t]) => OnItsWay(captured[t][k])
    BY <2>1 DEF NothingMissed
  <2>4. ASSUME NEW k \in DOMAIN captured[t], k > Len(content[t]),
               captured'[t][k] = captured[t][k]
        PROVE  OnItsWay(captured[t][k])'
    <3>1. PICK g \in Frame : g = captured[t][k] /\ OnItsWay(g) /\ g = captured'[t][k]
      BY <2>2, <2>3, <2>4
    <3>2. OnItsWay(g)'
      BY <1>1, <3>1 DEF NoWriteLost
    <3> QED BY <3>1, <3>2 DEF OnItsWay, Writes
  <2>5. CASE t # current
    <3>1. captured'[t] = captured[t]
      BY <1>1, <1>2, <2>1, <2>5
    <3> QED BY <1>2, <2>3, <2>4, <3>1
  <2>6. CASE t = current
    <3>1. captured'[t] = Append(captured[t], f)
      BY <1>1, <1>2, <2>6
    <3>2. /\ Len(captured'[t]) = Len(captured[t]) + 1 /\ Len(captured[t]) \in Nat
          /\ \A i \in DOMAIN captured[t] : captured'[t][i] = captured[t][i]
          /\ \A i \in DOMAIN captured'[t] :
               \/ i \in DOMAIN captured[t] /\ captured'[t][i] = captured[t][i]
               \/ captured'[t][i] = f
      BY <2>2, <3>1, Appended
    <3>3. Len(content[t]) <= Len(captured'[t])
      BY <2>2, <2>3, <3>2
    <3>4. \A k \in DOMAIN content[t] : content[t][k] = captured'[t][k]
      <4>1. DOMAIN content[t] \subseteq DOMAIN captured[t]
        BY <2>2, <2>3
      <4> QED BY <2>3, <3>2, <4>1
    <3>5. ASSUME NEW k \in DOMAIN captured'[t], k > Len(content[t])
          PROVE  OnItsWay(captured[t][k])'
      <4>1. CASE k \in DOMAIN captured[t] /\ captured'[t][k] = captured[t][k]
        BY <2>4, <3>5, <4>1
      <4>2. CASE captured'[t][k] = f
        <5>1. OnItsWay(f)'
          BY <1>1, <2>1
        <5> QED BY <4>2, <5>1 DEF OnItsWay, Writes
      <4> QED BY <3>2, <3>5, <4>1, <4>2
    <3> QED BY <1>2, <3>3, <3>4, <3>5
  <2> QED BY <2>5, <2>6
<1> QED BY <1>2, <1>4 DEF NothingMissed

LEMMA NextMissesNothing ==
  ASSUME Order, Holders, FramesInOrder, OneOpen, EndsLast, NothingMissed, Order', [Next]_vars
  PROVE  NothingMissed'
<1>1. CASE Write
  BY <1>1, WriteMissesNothing
<1>2. CASE RunRecording /\ SendUp
  BY <1>2, SendUpMissesNothing
<1>3. CASE Record
  BY <1>3, RecordMissesNothing
<1>4. CASE TakeCommand /\ recording /\ Pause
  <2>1. /\ current \in Take /\ DisposeAfter(<<Stopped(current)>>)
        /\ UNCHANGED <<captured, content, clips, takes>>
    BY <1>4, TakesAre DEF Order, TakesInOrder, TakeCommand, Pause, dawVars, fileVars
  <2> QED BY <2>1, EngineEndsTake, MissedKept
<1>5. CASE FinishRecording
  <2>1. /\ current \in Take /\ DisposeAfter(<<Stopped(current)>>)
        /\ UNCHANGED <<captured, content, clips, takes>>
    BY <1>5, TakesAre DEF Order, TakesInOrder, FinishRecording, dawVars, fileVars
  <2> QED BY <2>1, EngineEndsTake, MissedKept
<1>6. CASE /\ ~Write /\ ~(RunRecording /\ SendUp) /\ ~(TakeCommand /\ recording /\ Pause)
           /\ ~FinishRecording /\ ~Record
  <2>1. NoWriteLost
    BY <1>6, SteadySteps DEF Steady
  <2>2. UNCHANGED <<captured, content, clips, takes>>
    BY <1>6 DEF Next, HandleMessage, Engine, Disarm, SendCommand, Delete,
            TellStarted, TakeCheckpoint, CloseFile, TakeStart, Resupply, TakeCommand,
            BeginTurn, NotRecording, RunRecording, Exhausted, vars, dawVars, engineVars,
                fileVars
  <2> QED BY <2>1, <2>2, MissedKept
<1> QED BY <1>1, <1>2, <1>3, <1>4, <1>5, <1>6

Files == FramesInOrder /\ OneOpen /\ EndsLast /\ NothingMissed

LEMMA InitFiles == ASSUME Init PROVE Files
<1>1. /\ \A i \in Nat, f \in Frame : ~Writes(i, f)
      /\ \A i \in Nat, t \in Take : ~Stops(i, t)
  BY DEF Init, Writes, Stops
<1>2. \A t \in Take : captured[t] = << >> /\ content[t] = << >> /\ exhausted[t] = 0
  BY DEF Init
<1>3. FramesInOrder
  <2>1. Captures
    BY <1>2 DEF Captures, InTime, TurnsOf
  <2>2. \A t \in Take : InTime(content[t]) /\ \A k \in DOMAIN content[t] : InCapture(content[t][k])
    BY <1>2 DEF InTime
  <2> QED BY <1>1, <2>1, <2>2 DEF FramesInOrder
<1>4. OneOpen
  BY RecordingAssumption DEF Init, OneOpen
<1>5. EndsLast
  BY <1>1 DEF Init, EndsLast
<1>6. NothingMissed
  BY <1>2 DEF Init, NothingMissed
<1> QED BY <1>3, <1>4, <1>5, <1>6 DEF Files

\* What is in the files, on its way to them and still to be captured stays in
\* the order of time, take by take (Recorder::write_buffers()).
THEOREM FilesAlways == Spec => [](Order /\ Holders /\ Files)
<1>1. Init => Files
  BY InitFiles
<1>2. Order /\ Holders /\ Files /\ Order' /\ [Next]_vars => Files'
  <2> SUFFICES ASSUME Order, Holders, Files, Order', [Next]_vars PROVE Files'
    OBVIOUS
  <2>1. FramesInOrder'
    BY NextKeepsFrames DEF Files
  <2>2. OneOpen' /\ EndsLast'
    BY NextKeepsOneOpen, NextKeepsEnds DEF Files
  <2>3. NothingMissed'
    BY NextMissesNothing DEF Files
  <2> QED BY <2>1, <2>2, <2>3 DEF Files
<1> QED BY <1>1, <1>2, HoldersAlways, PTL DEF Spec

LEMMA PrefixOf ==
  ASSUME NEW S, NEW s \in Seq(S), NEW r \in Seq(S), Len(s) <= Len(r),
         \A k \in DOMAIN s : s[k] = r[k]
  PROVE  IsPrefix(s, r) /\ (Len(s) = Len(r) => s = r)
<1>1. /\ DOMAIN s = 1 .. Len(s) /\ Len(s) \in Nat /\ Len(r) \in Nat
      /\ \A k \in 1 .. Len(s) : s[k] = r[k]
  OBVIOUS
<1>2. /\ SubSeq(r, 1, Len(s)) \in Seq(S) /\ Len(SubSeq(r, 1, Len(s))) = Len(s)
      /\ \A k \in 1 .. Len(s) : SubSeq(r, 1, Len(s))[k] = r[k]
  BY <1>1
<1>3. s = SubSeq(r, 1, Len(s))
  BY <1>1, <1>2, SeqEqual
<1>4. Len(s) = Len(r) => s = r
  BY <1>1, SeqEqual
<1> QED BY <1>3, <1>4 DEF IsPrefix

\* What is over for an undisturbed take has been written.
LEMMA OverIsWritten ==
  ASSUME Order, Files, NEW t \in clips, Undisturbed(t)
  PROVE  /\ IsPrefix(content[t], captured[t])
         /\ t \in over => content[t] = captured[t]
<1>1. t \in Take /\ content[t] \in Seq(Frame) /\ captured[t] \in Seq(Frame)
  BY TakesAre DEF Order
<1>2. /\ Len(content[t]) <= Len(captured[t])
      /\ \A k \in DOMAIN content[t] : content[t][k] = captured[t][k]
      /\ \A k \in DOMAIN captured[t] : k > Len(content[t]) => OnItsWay(captured[t][k])
  BY DEF Files, NothingMissed
<1>3. ASSUME t \in over PROVE Len(content[t]) = Len(captured[t])
  <2> SUFFICES ASSUME Len(content[t]) < Len(captured[t]) PROVE FALSE
    BY <1>1, <1>2
  <2>1. PICK k \in DOMAIN captured[t] : k > Len(content[t])
    BY <1>1
  <2>2. captured[t][k] \in Frame /\ captured[t][k][1] = t
    BY <1>1 DEF Files, FramesInOrder, Captures
  <2>3. PICK i \in Nat : Writes(i, captured[t][k])
    BY <1>2, <2>1 DEF OnItsWay
  <2> QED BY <1>3, <2>2, <2>3 DEF Files, EndsLast
<1> QED BY <1>1, <1>2, <1>3, PrefixOf

\* The record buffers that the engine fills reach the file of their take, none
\* of them missing, twice or out of order, also those recorded after the stop,
\* unless another take overlaps it or one of the same second begins its file
\* anew (Recorder.cpp, create_wav_file()); no file, of a take that was disturbed
\* either, has a frame twice, too early or too late.
THEOREM FilesAreCaptures == Spec => []FileIsCapture
<1>1. Order /\ Files => FileIsCapture
  BY OverIsWritten DEF FileIsCapture, Files, FramesInOrder, InTime
<1> QED BY <1>1, FilesAlways, PTL

-----------------------------------------------------------------------------
(* Headers and clips.                                                      *)

LEMMA NextKeepsHeaders ==
  ASSUME Order, Holders, Files, Headers, Order', [Next]_vars
  PROVE  Headers'
<1>1. /\ \A t \in Take : /\ Len(content[t]) \in Nat /\ header[t] \in Nat
                         /\ t # None /\ content[t] \in Seq(Frame)
      /\ header \in [Take -> Nat] /\ file \in Take \cup {None} /\ clips \subseteq Take
  <2>1. header \in [Take -> Nat]
    BY DEF Order, Types, TypeOK
  <2>2. /\ file \in Take \cup {None} /\ clips \subseteq Take /\ None \notin Take
        /\ \A t \in Take : content[t] \in Seq(Frame)
    BY TakesAre DEF Order
  <2> QED BY <2>1, <2>2
<1>2. CASE Write
  <2>1. PICK f \in Frame : content' = IF file = None THEN content
                                      ELSE [content EXCEPT ![file] = Append(@, f)]
    BY <1>2, DawTakesFrame
  <2>2. /\ UNCHANGED <<header, riff, clips, over, overlapped, disarmed>>
        /\ content \in [Take -> Seq(Frame)]
    BY <1>2 DEF Write, Order, Types
  <2>3. \A t \in Take : /\ Len(content'[t]) \in Nat /\ Len(content[t]) <= Len(content'[t])
                        /\ t # file => content'[t] = content[t]
    BY <1>1, <2>1, <2>2, Appended
  <2>4. \A t \in Take : header'[t] <= Len(content'[t])
    BY <1>1, <2>2, <2>3 DEF Headers
  <2>5. \A t \in Take : t \in clips' \cap over' /\ Undisturbed(t)' =>
                          header'[t] = Len(content'[t]) /\ riff'[t] = RiffSize(header'[t])
    BY <2>2, <2>3, DisturbedStays DEF Headers, Files, OneOpen
  <2>6. \A t \in Take : riff'[t] \in {0, RiffSize(header'[t])}
    BY <2>2 DEF Headers
  <2> QED BY <2>4, <2>5, <2>6 DEF Headers, RiffSize
<1>3. CASE TakeCheckpoint
  <2>1. UpdateFileSize /\ UNCHANGED <<content, clips, over>>
    BY <1>3 DEF TakeCheckpoint
  <2>2. \A t \in Take :
          \/ header'[t] = header[t] /\ riff'[t] = riff[t]
          \/ header'[t] = Len(content[t]) /\ riff'[t] = RiffSize(Len(content[t]))
    BY <2>1, SizesUpdated DEF Order
  <2>3. ASSUME NEW t \in Take
        PROVE  header'[t] <= Len(content'[t]) /\ riff'[t] \in {0, RiffSize(header'[t])}
    BY <1>1, <2>1, <2>2 DEF Headers
  <2>4. ASSUME NEW t \in Take, t \in clips' \cap over', Undisturbed(t)'
        PROVE  header'[t] = Len(content'[t]) /\ riff'[t] = RiffSize(header'[t])
    BY <2>1, <2>2, <2>4, DisturbedStays DEF Headers
  <2> QED BY <2>3, <2>4 DEF Headers, RiffSize
<1>4. CASE CloseFile
  <2>1. PICK t \in Take : Stops(1, t) /\ over' = over \cup {t}
    BY <1>4, EndIsHeard
  <2>2. UpdateFileSize /\ UNCHANGED <<content, clips>>
    BY <1>4 DEF CloseFile
  <2>3. \A u \in Take :
          /\ \/ header'[u] = header[u] /\ riff'[u] = riff[u]
             \/ header'[u] = Len(content[u]) /\ riff'[u] = RiffSize(Len(content[u]))
          /\ u = file => header'[u] = Len(content[u]) /\ riff'[u] = RiffSize(Len(content[u]))
    BY <2>2, SizesUpdated DEF Order
  <2>4. t \notin over
    BY <2>1 DEF Files, EndsLast
  <2>5. \A u \in Take : u \in clips /\ u \notin over /\ Undisturbed(u) => file = u
    BY DEF Files, OneOpen
  <2>6. ASSUME NEW u \in Take
        PROVE  header'[u] <= Len(content'[u]) /\ riff'[u] \in {0, RiffSize(header'[u])}
    BY <1>1, <2>2, <2>3 DEF Headers
  <2>7. ASSUME NEW u \in Take, u \in clips' \cap over', Undisturbed(u)'
        PROVE  header'[u] = Len(content'[u]) /\ riff'[u] = RiffSize(header'[u])
    <3>1. Undisturbed(u) /\ u \in clips
      BY <2>2, <2>7, DisturbedStays
    <3>2. CASE u \in over
      BY <2>2, <2>3, <3>1, <3>2 DEF Headers
    <3>3. CASE u \notin over
      BY <2>2, <2>3, <2>5, <3>1, <3>3
    <3> QED BY <3>2, <3>3
  <2> QED BY <2>6, <2>7 DEF Headers, RiffSize
<1>5. CASE Record
  <2>1. /\ clips' \subseteq clips \cup {takes + 1} /\ over' = over
        /\ takes + 1 \notin over
    BY <1>5, TakesAre DEF Record, Order, Types, TypeOK
  <2>2. \A t \in Take :
          \/ header'[t] = header[t] /\ riff'[t] = riff[t] /\ content'[t] = content[t]
          \/ /\ t \in replaced' /\ content'[t] = << >>
             /\ header'[t] = 0 /\ riff'[t] = 0
    BY <1>5, RecordFiles DEF Order
  <2>3. ASSUME NEW t \in Take
        PROVE  header'[t] <= Len(content'[t]) /\ riff'[t] \in {0, RiffSize(header'[t])}
    BY <2>2 DEF Headers
  <2>4. ASSUME NEW t \in Take, t \in clips' \cap over', Undisturbed(t)'
        PROVE  header'[t] = Len(content'[t]) /\ riff'[t] = RiffSize(header'[t])
    <3>1. t \notin replaced' /\ t \in clips \cap over /\ Undisturbed(t)
      BY <2>1, <2>4, DisturbedStays DEF Undisturbed
    <3> QED BY <2>2, <3>1 DEF Headers
  <2> QED BY <2>3, <2>4 DEF Headers, RiffSize
<1>6. CASE UNCHANGED <<header, riff, content, clips, over>>
  BY <1>6, DisturbedStays DEF Headers, RiffSize
<1> QED BY <1>2, <1>3, <1>4, <1>5, <1>6
        DEF Next, HandleMessage, Engine, Disarm, SendCommand, Delete, TellStarted,
            TakeStart, Resupply, TakeCommand, BeginTurn, NotRecording, RunRecording,
            FinishRecording, vars, dawVars, fileVars

\* The data chunk of a file, written at checkpoints and when it is closed, never
\* counts frames that the file does not have; once an undisturbed take is over
\* it counts them all.  The RIFF chunk is written with it, always to four bytes
\* past the end of the file (Recorder.cpp, update_wav_file_size()).
THEOREM HeadersAreTrue == Spec => []HeaderIsTrue
<1>1. Init => Headers
  BY DEF Init, Headers
<1>2. Order /\ Holders /\ Files /\ Headers /\ Order' /\ [Next]_vars => Headers'
  BY NextKeepsHeaders
<1>3. Order /\ Headers => HeaderIsTrue
  <2> SUFFICES ASSUME Order, Headers, NEW t \in clips
               PROVE  /\ header[t] <= Len(content[t])
                      /\ riff[t] \in {0, RiffSize(header[t])}
                      /\ t \in over /\ Undisturbed(t) =>
                           header[t] = Len(content[t]) /\ riff[t] = FileSize(t) - 4
    BY DEF HeaderIsTrue
  <2>1. t \in Take
    BY TakesAre DEF Order
  <2>2. RiffSize(Len(content[t])) = FileSize(t) - 4
    <3> DEFINE bytes == Len(content[t]) * BufferBytes
    <3>1. bytes \in Int /\ HeaderBytes \in Int
      BY <2>1, TakesAre, RecordingAssumption DEF Order
    <3>2. RiffSize(Len(content[t])) = HeaderBytes + (bytes - 4)
      BY DEF RiffSize
    <3>3. FileSize(t) = HeaderBytes + bytes
      BY DEF FileSize
    <3> HIDE DEF bytes
    <3> QED BY <3>1, <3>2, <3>3
  <2> QED BY <2>1, <2>2 DEF Headers
<1> QED BY <1>1, <1>2, <1>3, FilesAlways, PTL DEF Spec

\* Each turn counts for the take that is recorded.
LEMMA TurnCounts ==
  ASSUME Order, Holders, Order', RunRecording
  PROVE  /\ current \in Take /\ TurnsOf(current) \in Nat
         /\ \A t \in Take : TurnsOf(t)' = IF t = current THEN TurnsOf(t) + 1 ELSE TurnsOf(t)
<1>1. /\ current \in Take /\ TurnsOf(current) \in Nat
      /\ \A t \in Take : captured[t] \in Seq(Frame) /\ exhausted[t] \in Nat
      /\ captured \in [Take -> Seq(Frame)] /\ exhausted \in [Take -> Nat]
  <2>1. current \in Take
    BY TakesAre DEF RunRecording, Order, TakesInOrder
  <2> QED BY <2>1, TakesAre DEF Order, Types
<1>2. CASE SendUp
  <2>1. PICK f \in Frame : captured' = [captured EXCEPT ![current] = Append(@, f)]
    BY <1>2, EngineSendsFrame
  <2>2. exhausted' = exhausted
    BY <1>2 DEF SendUp
  <2>3. \A t \in Take : captured'[t] = IF t = current THEN Append(captured[t], f) ELSE captured[t]
    BY <1>1, <2>1
  <2>4. Len(Append(captured[current], f)) = Len(captured[current]) + 1
    BY <1>1
  <2>5. ASSUME NEW t \in Take
        PROVE  TurnsOf(t)' = IF t = current THEN TurnsOf(t) + 1 ELSE TurnsOf(t)
    <3>1. /\ TurnsOf(t)' = Len(captured'[t]) + exhausted[t]
          /\ TurnsOf(t) = Len(captured[t]) + exhausted[t]
          /\ Len(captured[t]) \in Nat /\ exhausted[t] \in Nat
      BY <1>1, <2>2 DEF TurnsOf
    <3>2. CASE t = current
      <4>1. captured'[t] = Append(captured[current], f)
        BY <2>3, <3>2
      <4>2. Len(captured'[t]) = Len(captured[t]) + 1
        BY <2>4, <3>2, <4>1
      <4>3. TurnsOf(t)' = TurnsOf(t) + 1
        BY <1>1, <3>1, <4>2
      <4> QED BY <3>2, <4>3
    <3>3. CASE t # current
      BY <2>3, <3>1, <3>3
    <3> QED BY <3>2, <3>3
  <2> QED BY <1>1, <2>5
<1>3. CASE Exhausted
  <2>1. captured' = captured /\ exhausted' = [exhausted EXCEPT ![current] = @ + 1]
    BY <1>3 DEF Exhausted
  <2> QED BY <1>1, <2>1 DEF TurnsOf
<1>4. SendUp \/ Exhausted
  BY DEF RunRecording
<1> QED BY <1>1, <1>2, <1>3, <1>4

LEMMA NextKeepsClips ==
  ASSUME Order, Holders, Files, ClipsFit, Order', [Next]_vars
  PROVE  ClipsFit'
<1>1. /\ length \in [Take -> Int] /\ start \in [Take -> {0, Offset}] /\ Offset \in Nat
      /\ countdown \in 0 .. Offset + 1 /\ clips \subseteq Take
      /\ \A t \in Take : /\ length[t] \in Int /\ start[t] \in Nat /\ TurnsOf(t) \in Nat
                         /\ t \in Nat /\ t # None
  <2>1. /\ length \in [Take -> Int] /\ start \in [Take -> {0, Offset}]
        /\ countdown \in 0 .. Offset + 1
    BY DEF Order, Types, TypeOK
  <2>2. clips \subseteq Take /\ \A t \in Take : TurnsOf(t) \in Nat /\ t \in Nat /\ t # None
    BY TakesAre DEF Order
  <2> QED BY <2>1, <2>2, RecordingAssumption
<1>2. recording => current \in Take /\ start[current] = 0
  BY TakesAre DEF Order, TakesInOrder, NoneSkipped
<1>3. \A t \in Take : Ahead(t)' => Ahead(t)
  BY AheadKept
<1>4. CASE RunRecording
  <2>1. /\ current \in Take
        /\ \A t \in Take : TurnsOf(t)' = IF t = current THEN TurnsOf(t) + 1 ELSE TurnsOf(t)
    BY <1>4, TurnCounts
  <2>2. /\ UNCHANGED <<start, clips, current, recording>>
        /\ length' = IF current \in clips THEN [length EXCEPT ![current] = @ + 1] ELSE length
        /\ countdown' = IF countdown = 0 THEN 0 ELSE countdown - 1
        /\ enginePC' = IF countdown = 1 THEN "finish" ELSE "messages"
        /\ recording
    BY <1>4 DEF RunRecording, Longer, dawVars, fileVars
  <2>3. \A t \in clips' : start'[t] + length'[t] = TurnsOf(t)'
    BY <1>1, <2>1, <2>2 DEF ClipsFit
  <2>4. ~Ahead(current)
    BY <1>1, <2>1 DEF Ahead
  <2>5. \A t \in Take : length'[t] >= 0 /\ (Ahead(t)' => length'[t] = 0)
    BY <1>1, <1>3, <2>2, <2>4 DEF ClipsFit
  <2>6. TurnsOf(current)' = TurnsOf(current) + 1
    BY <2>1, <2>2 DEF TurnsOf
  <2>7. countdown > 0 => TurnsOf(current) + countdown >= Offset + 1
    BY <2>2 DEF ClipsFit
  <2>8. recording' /\ countdown' > 0 => TurnsOf(current)' + countdown' >= Offset + 1
    BY <1>1, <2>1, <2>2, <2>6, <2>7
  <2>9. enginePC' = "finish" => TurnsOf(current)' >= Offset
    BY <1>1, <2>1, <2>2, <2>6, <2>7
  <2> QED BY <2>3, <2>5, <2>8, <2>9 DEF ClipsFit
<1>5. CASE FinishRecording
  <2>1. /\ enginePC' = "messages" /\ recording' = FALSE
        /\ UNCHANGED <<clips, captured, exhausted, current>>
        /\ recording /\ TurnsOf(current) >= Offset
        /\ \/ current \notin clips /\ UNCHANGED <<start, length>>
           \/ /\ current \in clips
              /\ start' = [start EXCEPT ![current] = @ + Offset]
              /\ length' = [length EXCEPT ![current] = @ - Offset]
    BY <1>5 DEF FinishRecording, FinishClips, clipVars, dawVars, ClipsFit, Order, TakesInOrder,
                fileVars
  <2>2. \A t \in Take : TurnsOf(t)' = TurnsOf(t)
    BY <2>1 DEF TurnsOf
  <2>3. ASSUME NEW t \in clips' PROVE start'[t] + length'[t] = TurnsOf(t)'
    <3>1. /\ t \in clips /\ t \in Take /\ length[t] \in Int /\ start[t] \in Nat
          /\ start[t] + length[t] = TurnsOf(t) /\ TurnsOf(t)' = TurnsOf(t)
      BY <1>1, <2>1, <2>2, <2>3 DEF ClipsFit
    <3>2. CASE t # current \/ current \notin clips
      BY <1>1, <2>1, <3>1, <3>2
    <3>3. CASE t = current /\ current \in clips
      <4>1. start'[t] = start[t] + Offset /\ length'[t] = length[t] - Offset
        BY <1>1, <2>1, <3>1, <3>3
      <4> QED BY <1>1, <3>1, <4>1
    <3> QED BY <3>2, <3>3
  <2>4. current \in clips => length[current] >= Offset
    BY <1>1, <1>2, <2>1 DEF ClipsFit
  <2>5. current \in Take /\ ~Ahead(current)
    BY <1>1, <1>2, <2>1 DEF Ahead
  <2>6. \A t \in Take : length'[t] >= 0 /\ (Ahead(t)' => length'[t] = 0)
    BY <1>1, <1>3, <2>1, <2>4, <2>5 DEF ClipsFit
  <2> QED BY <2>1, <2>3, <2>6 DEF ClipsFit
<1>6. CASE Record
  <2>1. /\ takes' = takes + 1 /\ clips' \subseteq clips \cup {takes + 1}
        /\ UNCHANGED <<start, length, captured, exhausted, current, recording, countdown,
                       enginePC>>
    BY <1>6 DEF Record, engineVars, clipVars
  <2>2. takes + 1 \in Take /\ Ahead(takes + 1)
    <3>1. takes + 1 \in Take /\ takes \in Nat /\ current \in 1 .. takes \cup {None}
      BY <1>6, RecordingAssumption DEF Record, Order, Types, TypeOK, Take
    <3> QED BY <3>1 DEF Ahead
  <2>3. \A t \in Take : TurnsOf(t)' = TurnsOf(t)
    BY <2>1 DEF TurnsOf
  <2>4. start[takes + 1] = 0 /\ length[takes + 1] = 0 /\ TurnsOf(takes + 1) = 0
    BY <2>2 DEF Order, NoneSkipped, ClipsFit, Files, FramesInOrder, Captures
  <2>5. \A t \in clips' : start'[t] + length'[t] = TurnsOf(t)'
    BY <1>1, <2>1, <2>2, <2>3, <2>4 DEF ClipsFit
  <2>6. TurnsOf(current)' = TurnsOf(current)
    BY <2>1 DEF TurnsOf
  <2> QED BY <1>3, <2>1, <2>5, <2>6 DEF ClipsFit
<1>7. CASE TakeCommand
  <2>1. /\ UNCHANGED <<start, length, captured, exhausted, current, enginePC, clips>>
        /\ recording' => recording
        /\ countdown' = countdown \/ countdown' = Offset + 1
        /\ enginePC = "messages"
    BY <1>7 DEF TakeCommand, Play, Stop, Pause, Rewind, clipVars
  <2>2. /\ TurnsOf(current)' = TurnsOf(current)
        /\ \A t \in Take : TurnsOf(t)' = TurnsOf(t)
    BY <2>1 DEF TurnsOf
  <2>3. recording' /\ countdown' > 0 => TurnsOf(current)' + countdown' >= Offset + 1
    BY <1>1, <1>2, <2>1, <2>2 DEF ClipsFit
  <2>4. \A t \in clips' : start'[t] + length'[t] = TurnsOf(t)'
    BY <1>1, <2>1, <2>2 DEF ClipsFit
  <2>5. \A t \in Take : length'[t] >= 0 /\ (Ahead(t)' => length'[t] = 0)
    BY <1>3, <2>1 DEF ClipsFit
  <2>6. enginePC' # "finish"
    BY <2>1
  <2> QED BY <2>3, <2>4, <2>5, <2>6 DEF ClipsFit
<1>8. CASE TakeStart
  <2>1. /\ UNCHANGED <<start, length, captured, exhausted, enginePC, clips>>
        /\ countdown' = 0 /\ enginePC = "messages"
    BY <1>8 DEF TakeStart, clipVars
  <2>2. \A t \in Take : TurnsOf(t)' = TurnsOf(t)
    BY <2>1 DEF TurnsOf
  <2>3. \A t \in clips' : start'[t] + length'[t] = TurnsOf(t)'
    BY <1>1, <2>1, <2>2 DEF ClipsFit
  <2> QED BY <1>3, <2>1, <2>3 DEF ClipsFit
<1>9. ASSUME UNCHANGED <<start, length, captured, exhausted, current, recording, countdown,
                         clips>>,
             enginePC' = "finish" => enginePC = "finish"
      PROVE  ClipsFit'
  <2>1. /\ TurnsOf(current)' = TurnsOf(current)
        /\ \A t \in Take : TurnsOf(t)' = TurnsOf(t)
    BY <1>9 DEF TurnsOf
  <2> QED BY <1>1, <1>3, <1>9, <2>1 DEF ClipsFit
<1>10. CASE Disarm \/ (\E c \in Command : SendCommand(c)) \/ HandleMessage \/ UNCHANGED vars
  <2>1. UNCHANGED <<engineVars, clips>>
    BY <1>10 DEF HandleMessage, Disarm, SendCommand, Write, Delete, TellStarted,
                 TakeCheckpoint, CloseFile, vars, fileVars
  <2> QED BY <1>9, <2>1 DEF engineVars, clipVars
<1>11. CASE Resupply \/ BeginTurn \/ NotRecording
  <2>1. /\ UNCHANGED <<start, length, captured, exhausted, current, recording, countdown, clips>>
        /\ enginePC' = "finish" => enginePC = "finish"
    BY <1>11 DEF Resupply, BeginTurn, NotRecording, clipVars
  <2> QED BY <1>9, <2>1
<1> QED BY <1>4, <1>5, <1>6, <1>7, <1>8, <1>10, <1>11 DEF Next, Engine

\* A clip has grown with every turn of its take, and a countdown that ends has
\* let pass the turns that finish_recording() takes off the clip.
THEOREM ClipsAlways == Spec => [](Order /\ Files /\ ClipsFit)
<1>1. Init => ClipsFit
  BY DEF Init, ClipsFit, TurnsOf
<1>2. Order /\ Holders /\ Files /\ ClipsFit /\ Order' /\ [Next]_vars => ClipsFit'
  BY NextKeepsClips
<1> QED BY <1>1, <1>2, FilesAlways, PTL DEF Spec

\* A clip ends with its file, whether its take ended with the countdown, with
\* a pause or with the next take: what it skips at its start was captured, and
\* its length, unsigned in the code, is never less than what is taken off it.
THEOREM ClipsMatchFiles == Spec => []ClipMatchesFile
<1>1. Order /\ Files /\ ClipsFit => ClipMatchesFile
  <2> SUFFICES ASSUME Order, Files, ClipsFit, NEW t \in clips
               PROVE  /\ length[t] >= 0
                      /\ t \in over /\ Undisturbed(t) /\ exhausted[t] = 0 =>
                           start[t] + length[t] = Len(content[t])
    BY DEF ClipMatchesFile
  <2>1. t \in Take /\ captured[t] \in Seq(Frame)
    BY TakesAre DEF Order
  <2>2. length[t] >= 0 /\ start[t] + length[t] = TurnsOf(t)
    BY <2>1 DEF ClipsFit
  <2>3. exhausted[t] = 0 => TurnsOf(t) = Len(captured[t])
    BY <2>1 DEF TurnsOf
  <2> QED BY <2>2, <2>3, OverIsWritten
<1> QED BY <1>1, ClipsAlways, PTL

-----------------------------------------------------------------------------
(* What the UI is told.                                                    *)

LEMMA UiKept ==
  ASSUME Order, UiIsTold, NEW n \in {0, 1}, ~dropped' => ~dropped,
         Shown' = Shown, uiTake' = uiTake,
         \A i \in DOMAIN from' : i \in Nat /\ (Tells(i)' =>
           i + n \in DOMAIN from /\ from'[i] = from[i + n]),
         \A i \in DOMAIN from : Tells(i) => i - n \in DOMAIN from' /\ from'[i - n] = from[i]
  PROVE  UiIsTold'
<1> SUFFICES ASSUME ~dropped'
             PROVE  /\ (\A i \in DOMAIN from' : ~Tells(i)') => uiTake' = Shown'
                    /\ \A i \in DOMAIN from' :
                         Tells(i)' /\ (\A j \in DOMAIN from' : i < j => ~Tells(j)') =>
                           Told(from'[i]) = Shown'
  BY DEF UiIsTold
<1>1. \A i \in DOMAIN from : i \in Nat
  BY DEF Order, Types
<1>2. \A i \in DOMAIN from : Tells(i) => i - n \in DOMAIN from' /\ Tells(i - n)'
  BY DEF Tells
<1>3. (\A i \in DOMAIN from' : ~Tells(i)') => uiTake' = Shown'
  BY <1>2 DEF UiIsTold
<1>4. ASSUME NEW i \in DOMAIN from', Tells(i)', \A j \in DOMAIN from' : i < j => ~Tells(j)'
      PROVE  Told(from'[i]) = Shown'
  <2>1. i + n \in DOMAIN from /\ from'[i] = from[i + n] /\ Tells(i + n)
    BY <1>4 DEF Tells
  <2>2. ASSUME NEW j \in DOMAIN from, i + n < j PROVE ~Tells(j)
    <3>1. i < j - n
      BY <1>1, <2>2
    <3> QED BY <1>2, <1>4, <3>1
  <2> QED BY <2>1, <2>2 DEF UiIsTold
<1> QED BY <1>3, <1>4

LEMMA UiKeptOnSend ==
  ASSUME Order, UiIsTold, NEW m \in FromMessage, SendFrom(<<m>>),
         m.type \notin {"Started", "RecordingStopped"}, Shown' = Shown, uiTake' = uiTake
  PROVE  UiIsTold'
<1>1. /\ \A i \in DOMAIN from : i \in Nat /\ i \in DOMAIN from' /\ from'[i] = from[i]
      /\ \A i \in DOMAIN from' : /\ i \in Nat
                                 /\ (i \in DOMAIN from /\ from'[i] = from[i]) \/ from'[i] = m
      /\ ~dropped' => ~dropped
  BY SentFromEngine
<1>2. \A i \in Nat : i + 0 = i /\ i - 0 = i
  OBVIOUS
<1>3. /\ \A i \in DOMAIN from' : i \in Nat /\ (Tells(i)' =>
           i + 0 \in DOMAIN from /\ from'[i] = from[i + 0])
      /\ \A i \in DOMAIN from : i - 0 \in DOMAIN from' /\ from'[i - 0] = from[i]
  BY <1>1, <1>2 DEF Tells
<1> QED BY <1>1, <1>3, UiKept

LEMMA UiToldEnd ==
  ASSUME Order, EndsLast, recording, DisposeAfter(<<Stopped(current)>>), recording' = FALSE
  PROVE  UiIsTold'
<1>1. current \in Take
  BY TakesAre DEF Order, TakesInOrder
<1>2. /\ \A i \in DOMAIN from : i \in Nat /\ i <= Len(from)
      /\ \A i \in DOMAIN from' :
              /\ i \in Nat
              /\ \/ i \in DOMAIN from /\ from'[i] = from[i]
                 \/ i \notin DOMAIN from /\ i = Len(from) + 1 /\ from'[i] = Stopped(current)
                 \/ /\ i - Len(from) - 1 \in DOMAIN free
                    /\ from'[i] = Continue(free[i - Len(from) - 1])
      /\ Len(from) \in Nat
      /\ ~dropped' => InQueue(from', Stopped(current))
  BY <1>1, DisposedAfterStop
<1>3. /\ \A x : Continue(x).type = "Continue"
      /\ Stopped(current).type = "RecordingStopped"
      /\ Told(Stopped(current)) = None
  BY DEF Continue, Stopped, Told
<1> SUFFICES ASSUME ~dropped' PROVE UiIsTold'
  BY DEF UiIsTold
<1>4. PICK k \in DOMAIN from' : from'[k] = Stopped(current)
  BY <1>2 DEF InQueue
<1>5. k = Len(from) + 1 /\ Tells(k)'
  <2>1. ~(k \in DOMAIN from /\ from'[k] = from[k])
    BY <1>1, <1>2, <1>4 DEF EndsLast, Stops
  <2>2. \A i \in DOMAIN free : from'[k] # Continue(free[i])
    BY <1>3, <1>4
  <2> QED BY <1>2, <1>3, <1>4, <2>1, <2>2 DEF Tells
<1>6. Shown' = None
  BY DEF Shown
<1>7. ASSUME NEW i \in DOMAIN from', Tells(i)', \A j \in DOMAIN from' : i < j => ~Tells(j)'
      PROVE  Told(from'[i]) = Shown'
  <2>1. from'[i] = Stopped(current) \/ i \in DOMAIN from
    BY <1>2, <1>3, <1>7 DEF Tells
  <2>2. i \notin DOMAIN from
    BY <1>2, <1>5, <1>7
  <2> QED BY <1>3, <1>6, <2>1, <2>2
<1> QED BY <1>5, <1>7 DEF UiIsTold

LEMMA UiToldStart ==
  ASSUME Order, UiIsTold, TakeStart
  PROVE  UiIsTold'
<1>1. PICK t \in Take : Head(to) = StartRecording(t) /\ Ahead(t)
  <2>1. /\ to[1] \in ToMessage /\ Head(to) = to[1] /\ 1 \in DOMAIN to
        /\ to[1].type = "StartRecording"
    BY TakenByEngine DEF TakeStart
  <2>2. PICK t \in Take : t = to[1].take /\ to[1] = StartRecording(t)
    BY <2>1, MessageTypes
  <2> QED BY <2>1, <2>2 DEF Order, TakesInOrder, Starts
<1>2. SendFrom(<<Started(t)>>) /\ current' = t /\ recording' = TRUE
  <2>1. Head(to).take = t
    BY <1>1 DEF StartRecording
  <2> QED BY <2>1 DEF TakeStart
<1>3. Started(t).type = "Started" /\ Started(t).take = t /\ Told(Started(t)) = t
  BY DEF Started, Told
<1>4. /\ \A i \in DOMAIN from : i \in Nat /\ i <= Len(from)
      /\ \A i \in DOMAIN from' :
           \/ i \in DOMAIN from /\ from'[i] = from[i]
           \/ i = Len(from) + 1 /\ from'[i] = Started(t)
      /\ Len(from) \in Nat
      /\ ~dropped' => InQueue(from', Started(t))
  BY <1>2, SentFromEngine, Messages
<1> SUFFICES ASSUME ~dropped' PROVE UiIsTold'
  BY DEF UiIsTold
<1>5. PICK k \in DOMAIN from' : from'[k] = Started(t)
  BY <1>4 DEF InQueue
<1>6. k = Len(from) + 1 /\ Tells(k)'
  <2>1. ~(k \in DOMAIN from /\ from'[k] = from[k])
    BY <1>1, <1>3, <1>5 DEF Order, TakesInOrder
  <2> QED BY <1>3, <1>4, <1>5, <2>1 DEF Tells
<1>7. Shown' = t
  BY <1>2 DEF Shown
<1>8. ASSUME NEW i \in DOMAIN from', Tells(i)', \A j \in DOMAIN from' : i < j => ~Tells(j)'
      PROVE  Told(from'[i]) = Shown'
  <2>1. i \notin DOMAIN from
    BY <1>4, <1>6, <1>8
  <2> QED BY <1>3, <1>4, <1>7, <2>1
<1> QED BY <1>6, <1>8 DEF UiIsTold

\* The UI hears the first message that tells it something.
LEMMA UiHears ==
  ASSUME Order, UiIsTold, TellStarted \/ CloseFile
  PROVE  UiIsTold'
<1>1. /\ from # << >> /\ from' = Tail(from) /\ UNCHANGED <<recording, current, dropped>>
      /\ uiTake' = Told(from[1]) /\ 1 \in DOMAIN from /\ Tells(1)
      /\ \A i \in DOMAIN from : i \in Nat \ {0}
      /\ \A i \in DOMAIN from' : i \in Nat \ {0} /\ i + 1 \in DOMAIN from /\ from'[i] = from[i + 1]
      /\ \A i \in DOMAIN from : i # 1 => i - 1 \in DOMAIN from' /\ from'[i - 1] = from[i]
  <2>1. from # << >> /\ from' = Tail(from) /\ UNCHANGED <<recording, current, dropped>>
    BY DEF TellStarted, CloseFile, engineVars, fileVars
  <2>2. /\ 1 \in DOMAIN from /\ Head(from) = from[1]
        /\ \A i \in DOMAIN from : i \in Nat \ {0}
        /\ \A i \in DOMAIN from' : i \in Nat \ {0} /\ i + 1 \in DOMAIN from /\ from'[i] = from[i + 1]
        /\ \A i \in DOMAIN from : i # 1 => i - 1 \in DOMAIN from' /\ from'[i - 1] = from[i]
    BY <2>1, TakenByDAW
  <2>3. uiTake' = Told(from[1]) /\ Tells(1)
    BY <2>2 DEF TellStarted, CloseFile, Told, Tells, fileVars
  <2> QED BY <2>1, <2>2, <2>3
<1>2. Shown' = Shown
  BY <1>1 DEF Shown
<1> SUFFICES ASSUME ~dropped' PROVE UiIsTold'
  BY DEF UiIsTold
<1>3. \A i \in DOMAIN from : Tells(i) /\ (\A j \in DOMAIN from : i < j => ~Tells(j)) =>
        Told(from[i]) = Shown
  BY <1>1 DEF UiIsTold
<1>4. ASSUME \A i \in DOMAIN from' : ~Tells(i)' PROVE uiTake' = Shown'
  <2>1. ASSUME NEW j \in DOMAIN from, 1 < j PROVE ~Tells(j)
    <3>1. j - 1 \in DOMAIN from' /\ from'[j - 1] = from[j]
      BY <1>1, <2>1
    <3> QED BY <1>4, <3>1 DEF Tells
  <2> QED BY <1>1, <1>2, <1>3, <2>1
<1>5. ASSUME NEW i \in DOMAIN from', Tells(i)', \A j \in DOMAIN from' : i < j => ~Tells(j)'
      PROVE  Told(from'[i]) = Shown'
  <2>1. i + 1 \in DOMAIN from /\ from'[i] = from[i + 1] /\ Tells(i + 1) /\ i \in Nat \ {0}
    BY <1>1, <1>5 DEF Tells
  <2>2. ASSUME NEW j \in DOMAIN from, i + 1 < j PROVE ~Tells(j)
    <3>1. j # 1 /\ i < j - 1 /\ j - 1 \in DOMAIN from' /\ from'[j - 1] = from[j]
      BY <1>1, <2>1, <2>2
    <3> QED BY <1>5, <3>1 DEF Tells
  <2> QED BY <1>2, <1>3, <2>1, <2>2
<1> QED BY <1>4, <1>5 DEF UiIsTold

LEMMA NextTellsUi ==
  ASSUME Order, Files, UiIsTold, Order', [Next]_vars
  PROVE  UiIsTold'
<1>1. CASE TellStarted \/ CloseFile
  BY <1>1, UiHears
<1>2. CASE TakeStart
  BY <1>2, UiToldStart
<1>3. CASE TakeCommand /\ recording /\ Pause
  BY <1>3, UiToldEnd DEF TakeCommand, Pause, Files
<1>4. CASE FinishRecording
  BY <1>4, UiToldEnd DEF FinishRecording, Files, Order, TakesInOrder
<1>5. CASE TakeCommand /\ ~(recording /\ Pause)
  <2>1. /\ UNCHANGED <<current, recording, uiTake>>
        /\ UNCHANGED <<from, dropped>> \/ SendFrom(<<Checkpoint>>)
    <3>1. recording' = recording \/ (~recording /\ recording' = FALSE)
      BY <1>5 DEF TakeCommand, Play, Stop, Pause, Rewind
    <3>2. recording \in BOOLEAN
      BY DEF Order, Types, TypeOK
    <3>3. recording' = recording
      BY <3>1, <3>2
    <3> QED BY <1>5, <3>3 DEF TakeCommand, Play, Stop, Pause, Rewind, dawVars,
                              fileVars
  <2>2. Checkpoint \in FromMessage /\ Checkpoint.type \notin {"Started", "RecordingStopped"}
    BY Messages DEF Checkpoint
  <2>3. Shown' = Shown
    BY <2>1 DEF Shown
  <2>4. CASE UNCHANGED <<from, dropped>>
    BY <2>1, <2>3, <2>4 DEF UiIsTold, Tells
  <2> QED BY <2>1, <2>2, <2>3, <2>4, UiKeptOnSend
<1>6. CASE RunRecording /\ SendUp
  <2>1. PICK b \in Buffers : SendFrom(<<Continue(b)>>)
    <3>1. free # << >> /\ free \in Seq(Buffers)
      BY <1>6 DEF SendUp, Order, Types
    <3>2. Head(free) \in Buffers
      BY <3>1
    <3> QED BY <1>6, <3>2 DEF SendUp
  <2>2. Continue(b) \in FromMessage /\ Continue(b).type \notin {"Started", "RecordingStopped"}
    BY Messages DEF Continue
  <2>3. Shown' = Shown /\ uiTake' = uiTake
    BY <1>6 DEF Shown, RunRecording, dawVars, fileVars
  <2> QED BY <2>1, <2>2, <2>3, UiKeptOnSend
<1>7. CASE Write \/ Delete \/ TakeCheckpoint
  <2>1. /\ from # << >> /\ from' = Tail(from) /\ UNCHANGED <<recording, current, uiTake>>
        /\ Head(from).type \in {"Continue", "RecordingCheckpoint"}
        /\ (~dropped' => ~dropped)
    <3>1. CASE Write
      BY <3>1 DEF Write, engineVars, SendTo
    <3>2. CASE Delete
      BY <3>2 DEF Delete, engineVars, fileVars
    <3>3. CASE TakeCheckpoint
      BY <3>3 DEF TakeCheckpoint, engineVars
    <3> QED BY <1>7, <3>1, <3>2, <3>3
  <2>2. /\ \A i \in DOMAIN from : i \in Nat
        /\ \A i \in DOMAIN from' : i \in Nat /\ i + 1 \in DOMAIN from /\ from'[i] = from[i + 1]
        /\ \A i \in DOMAIN from : i # 1 => i - 1 \in DOMAIN from' /\ from'[i - 1] = from[i]
    BY <2>1, TakenByDAW
  <2>3. Shown' = Shown
    BY <2>1 DEF Shown
  <2>4. ~Tells(1)
    BY <2>1, TakenByDAW DEF Tells
  <2>5. \A i \in DOMAIN from : Tells(i) => i - 1 \in DOMAIN from' /\ from'[i - 1] = from[i]
    BY <2>2, <2>4
  <2>6. \A i \in DOMAIN from' : i \in Nat /\ (Tells(i)' =>
          i + 1 \in DOMAIN from /\ from'[i] = from[i + 1])
    BY <2>2
  <2> QED BY <2>1, <2>3, <2>5, <2>6, UiKept
<1>8. ASSUME UNCHANGED <<from, recording, current, uiTake>>, ~dropped' => ~dropped
      PROVE  UiIsTold'
  <2>1. Shown' = Shown
    BY <1>8 DEF Shown
  <2> QED BY <1>8, <2>1 DEF UiIsTold, Tells
<1>9. CASE Record \/ Disarm \/ (\E c \in Command : SendCommand(c))
           \/ UNCHANGED vars
  <2>1. UNCHANGED <<from, recording, current, uiTake>> /\ (~dropped' => ~dropped)
    <3>1. ASSUME Record
          PROVE  UNCHANGED <<from, recording, current, uiTake>> /\ (~dropped' => ~dropped)
      BY <3>1 DEF Record, SendTo, engineVars
    <3>2. ASSUME NEW c \in Command, SendCommand(c)
          PROVE  UNCHANGED <<from, recording, current, uiTake>> /\ (~dropped' => ~dropped)
      BY <3>2 DEF SendCommand, SendTo, engineVars, fileVars
    <3>3. CASE Disarm
      BY <3>3 DEF Disarm, engineVars, fileVars
    <3>4. CASE UNCHANGED vars
      BY <3>4 DEF vars, dawVars, engineVars, fileVars
    <3> QED BY <1>9, <3>1, <3>2, <3>3, <3>4
  <2> QED BY <1>8, <2>1
<1>10. CASE Resupply \/ BeginTurn \/ NotRecording \/ (RunRecording /\ Exhausted)
  <2>1. UNCHANGED <<from, recording, current, uiTake, dropped>>
    BY <1>10 DEF Resupply, BeginTurn, NotRecording, RunRecording, Exhausted, dawVars,
                 fileVars
  <2> QED BY <1>8, <2>1
<1> QED BY <1>1, <1>2, <1>3, <1>4, <1>5, <1>6, <1>7, <1>9, <1>10
        DEF Next, HandleMessage, Engine, RunRecording

\* When nothing is on its way the UI shows the recording that there is, and no
\* other: what it is told follows the engine in order.
THEOREM UiFollowsEngine == Spec => []UiAgrees
<1>1. Init => UiIsTold
  BY DEF Init, UiIsTold, Shown
<1>2. Order /\ Files /\ UiIsTold /\ Order' /\ [Next]_vars => UiIsTold'
  BY NextTellsUi
<1>3. UiIsTold => UiAgrees
  BY DEF UiIsTold, UiAgrees, Shown
<1> QED BY <1>1, <1>2, <1>3, FilesAlways, PTL DEF Spec

-----------------------------------------------------------------------------
(* The bytes of what is recorded (SampleConversion).                       *)

LEMMA Multiples ==
  ASSUME NEW n \in Nat, NEW i \in Int, NEW j \in Int, i <= j
  PROVE  i * n <= j * n
OBVIOUS

\* A place in a row of frames has one frame and one offset.
LEMMA FrameOf ==
  ASSUME NEW n \in Nat \ {0}, NEW i \in Int, NEW k \in 0 .. n - 1
  PROVE  /\ (i * n + k) \div n = i
         /\ (i * n + k) % n = k
<1> DEFINE x == i * n + k
           q == x \div n
           r == x % n
<1>1. /\ x \in Int /\ q \in Int /\ r \in 0 .. n - 1
      /\ x = q * n + r
  OBVIOUS
<1>2. q = i
  <2>1. CASE q < i
    <3>1. (q + 1) * n <= i * n
      BY <2>1, <1>1, Multiples
    <3>2. (q + 1) * n = q * n + n
      BY <1>1
    <3> QED BY <1>1, <3>1, <3>2
  <2>2. CASE q > i
    <3>1. (i + 1) * n <= q * n
      BY <2>2, <1>1, Multiples
    <3>2. (i + 1) * n = i * n + n
      BY <1>1
    <3> QED BY <1>1, <3>1, <3>2
  <2> QED BY <2>1, <2>2, <1>1
<1>3. r = k
  BY <1>1, <1>2
<1> QED BY <1>2, <1>3

LEMMA FormatTypes ==
  ASSUME NEW f \in Formats
  PROVE  /\ f.size \in 2 .. 4
         /\ f.order = "little" \/ f.order = "big"
         /\ f.size = 2 => f.full = 32767
         /\ f.size = 3 => f.full = 8388607
         /\ f.size = 4 => f.full = 2147483648
BY DEF Formats, Format, S32_LE, S32_BE, S24_LE, S24_BE, S16_LE, S16_BE

LEMMA ClippedBounds ==
  ASSUME NEW s \in Int
  PROVE  /\ Clipped(s) \in Int
         /\ Clipped(s) >= -Unit /\ Clipped(s) <= Unit
         /\ s < Unit => Clipped(s) < Unit
         /\ s >= 0 => Clipped(s) >= 0
         /\ s < 0 => Clipped(s) < 0
         /\ s >= -Unit /\ s <= Unit => Clipped(s) = s
BY SMT DEF Clipped, Unit

\* The numbers a signed number of so many bytes can be.
Fits(v, f) == /\ v \in Int
              /\ 2 * v >= -Weight(f.size)
              /\ 2 * v < Weight(f.size)

\* No sample, however loud, leaves the range of its format, but for the
\* loudest of 32 bits.
THEOREM LevelsFit ==
  ASSUME NEW f \in Formats, NEW s \in Int, f.size = 4 => s < Unit
  PROVE  Fits(Level(f, s), f)
<1> DEFINE c == Clipped(s)
<1>1. /\ c \in Int /\ c >= -16777216 /\ c <= 16777216
      /\ s < 16777216 => c < 16777216
      /\ s >= 0 => c >= 0
      /\ s < 0 => c < 0
  BY ClippedBounds, SMT DEF Unit
<1>2. Level(f, s) = IF s >= 0 THEN (c * f.full) \div 16777216
                    ELSE -((-c * f.full) \div 16777216)
  BY SMT DEF Level, Unit
<1> HIDE DEF c
<1>3. CASE f.size = 2
  <2>1. f.full = 32767 /\ Weight(f.size) = 65536
    BY <1>3, FormatTypes, SMT DEF Weight
  <2> QED BY <1>1, <1>2, <2>1, SMT DEF Fits
<1>4. CASE f.size = 3
  <2>1. f.full = 8388607 /\ Weight(f.size) = 16777216
    BY <1>4, FormatTypes, SMT DEF Weight
  <2> QED BY <1>1, <1>2, <2>1, SMT DEF Fits
<1>5. CASE f.size = 4
  <2>1. f.full = 2147483648 /\ Weight(f.size) = 4294967296
    BY <1>5, FormatTypes, SMT DEF Weight
  <2>2. s < 16777216
    BY <1>5, SMT DEF Unit
  <2> QED BY <1>1, <1>2, <2>1, <2>2, SMT DEF Fits
<1> QED BY <1>3, <1>4, <1>5, FormatTypes, SMT

-----------------------------------------------------------------------------
LEMMA Bytes ==
  ASSUME NEW v \in Int
  PROVE  /\ Byte(v, 0) = v % 256
         /\ Byte(v, 1) = (v \div 256) % 256
         /\ Byte(v, 2) = (v \div 65536) % 256
         /\ Byte(v, 3) = (v \div 16777216) % 256
BY SMT DEF Byte, Weight

\* Two, three and four bytes of a number, put together as signed numbers.
LEMMA Halves ==
  ASSUME NEW v \in Int, 2 * v >= -65536, 2 * v < 65536,
         NEW u \in Int, u = (v % 256) + 256 * ((v \div 256) % 256)
  PROVE  v = IF 2 * u >= 65536 THEN u - 65536 ELSE u
BY SMT

LEMMA Thirds ==
  ASSUME NEW v \in Int, 2 * v >= -16777216, 2 * v < 16777216,
         NEW u \in Int, u = (v % 256) + 256 * ((v \div 256) % 256)
                              + 65536 * ((v \div 65536) % 256)
  PROVE  v = IF 2 * u >= 16777216 THEN u - 16777216 ELSE u
BY SMT

LEMMA Quarters ==
  ASSUME NEW v \in Int, 2 * v >= -4294967296, 2 * v < 4294967296,
         NEW u \in Int, u = (v % 256) + 256 * ((v \div 256) % 256)
                              + 65536 * ((v \div 65536) % 256)
                              + 16777216 * ((v \div 16777216) % 256)
  PROVE  v = IF 2 * u >= 4294967296 THEN u - 4294967296 ELSE u
BY SMT

\* A frame of memory that holds the bytes of a number.
Holds(f, bytes, p, v) ==
  \A k \in 0 .. f.size - 1 : bytes[p + k] = Byte(v, Place(f, k))

\* The bytes of a number, in their places, are that number; but for the format
\* whose last byte is looked for in the wrong place.
LEMMA BytesRestored ==
  ASSUME NEW f \in Formats \ {S24_BE}, NEW v, Fits(v, f),
         NEW bytes, NEW p \in Int, Holds(f, bytes, p, v)
  PROVE  Restored(f, bytes, p) = v
<1> USE FormatTypes
<1>1. v \in Int
  BY DEF Fits
<1>2. ASSUME NEW j \in 0 .. f.size - 1
      PROVE  bytes[p + ByteAt(f, j)] = Byte(v, j)
  <2>1. ByteAt(f, j) = Place(f, j) /\ Place(f, j) \in 0 .. f.size - 1
    BY SMT DEF ByteAt, Place
  <2>2. Place(f, Place(f, j)) = j
    BY SMT DEF Place
  <2> QED BY <2>1, <2>2 DEF Holds
<1> DEFINE u == Unsigned(f, bytes, p)
<1>3. Restored(f, bytes, p)
        = IF 2 * u >= Weight(f.size) THEN u - Weight(f.size) ELSE u
  BY DEF Restored
<1>4. CASE f.size = 2
  <2>1. Part(f, bytes, p, 0) = v % 256
    BY <1>4, <1>2, <1>1, Bytes, SMT DEF Part, Weight
  <2>2. Part(f, bytes, p, 1) = 256 * ((v \div 256) % 256)
    BY <1>4, <1>2, <1>1, Bytes, SMT DEF Part, Weight
  <2>3. Part(f, bytes, p, 2) = 0 /\ Part(f, bytes, p, 3) = 0
    BY <1>4, SMT DEF Part
  <2>4. u \in Int /\ u = (v % 256) + 256 * ((v \div 256) % 256)
    BY <1>1, <2>1, <2>2, <2>3, SMT DEF Unsigned
  <2>5. Weight(f.size) = 65536
    BY <1>4, SMT DEF Weight
  <2>6. 2 * v >= -65536 /\ 2 * v < 65536
    BY <2>5, SMT DEF Fits
  <2> HIDE DEF u
  <2> QED BY <1>1, <1>3, <2>4, <2>5, <2>6, Halves, SMT
<1>5. CASE f.size = 3
  <2>1. Part(f, bytes, p, 0) = v % 256
    BY <1>5, <1>2, <1>1, Bytes, SMT DEF Part, Weight
  <2>2. Part(f, bytes, p, 1) = 256 * ((v \div 256) % 256)
    BY <1>5, <1>2, <1>1, Bytes, SMT DEF Part, Weight
  <2>3. Part(f, bytes, p, 2) = 65536 * ((v \div 65536) % 256)
    BY <1>5, <1>2, <1>1, Bytes, SMT DEF Part, Weight
  <2>4. Part(f, bytes, p, 3) = 0
    BY <1>5, SMT DEF Part
  <2>5. u \in Int /\ u = (v % 256) + 256 * ((v \div 256) % 256)
                           + 65536 * ((v \div 65536) % 256)
    BY <1>1, <2>1, <2>2, <2>3, <2>4, SMT DEF Unsigned
  <2>6. Weight(f.size) = 16777216
    BY <1>5, SMT DEF Weight
  <2>7. 2 * v >= -16777216 /\ 2 * v < 16777216
    BY <2>6, SMT DEF Fits
  <2> HIDE DEF u
  <2> QED BY <1>1, <1>3, <2>5, <2>6, <2>7, Thirds, SMT
<1>6. CASE f.size = 4
  <2>1. Part(f, bytes, p, 0) = v % 256
    BY <1>6, <1>2, <1>1, Bytes, SMT DEF Part, Weight
  <2>2. Part(f, bytes, p, 1) = 256 * ((v \div 256) % 256)
    BY <1>6, <1>2, <1>1, Bytes, SMT DEF Part, Weight
  <2>3. Part(f, bytes, p, 2) = 65536 * ((v \div 65536) % 256)
    BY <1>6, <1>2, <1>1, Bytes, SMT DEF Part, Weight
  <2>4. Part(f, bytes, p, 3) = 16777216 * ((v \div 16777216) % 256)
    BY <1>6, <1>2, <1>1, Bytes, SMT DEF Part, Weight
  <2>5. u \in Int /\ u = (v % 256) + 256 * ((v \div 256) % 256)
                           + 65536 * ((v \div 65536) % 256)
                           + 16777216 * ((v \div 16777216) % 256)
    BY <1>1, <2>1, <2>2, <2>3, <2>4, SMT DEF Unsigned
  <2>6. Weight(f.size) = 4294967296
    BY <1>6, SMT DEF Weight
  <2>7. 2 * v >= -4294967296 /\ 2 * v < 4294967296
    BY <2>6, SMT DEF Fits
  <2> HIDE DEF u
  <2> QED BY <1>1, <1>3, <2>5, <2>6, <2>7, Quarters, SMT
<1> QED BY <1>4, <1>5, <1>6, SMT

-----------------------------------------------------------------------------
\* An address is at an offset of a frame.
IsAt(a, begin, step, i, k) == a = begin + i * step + k

\* What is at some offset of a frame that was converted.
LEMMA InFrame ==
  ASSUME NEW f \in Formats, NEW in \in Seq(Int), NEW out,
         NEW begin \in Int, NEW step \in Nat \ {0},
         NEW i \in Int, NEW k \in 0 .. step - 1,
         NEW a \in DOMAIN out, IsAt(a, begin, step, i, k)
  PROVE  Converted(f, in, out, begin, step)[a]
           = IF i >= 0 /\ i < Len(in) /\ k < f.size
             THEN Byte(Level(f, in[i + 1]), Place(f, k))
             ELSE out[a]
<1>1. i * step \in Int
  OBVIOUS
<1>2. a - begin = i * step + k /\ a \in Int /\ a = begin + i * step + k
  BY <1>1 DEF IsAt
<1>3. (a - begin) \div step = i /\ (a - begin) % step = k
  BY <1>2, FrameOf
<1>4. a >= begin <=> i >= 0
  <2>1. CASE i >= 0
    <3>1. 0 * step <= i * step
      BY <2>1, Multiples
    <3>2. 0 <= i * step
      BY <3>1
    <3> DEFINE m == i * step
    <3>3. m \in Int /\ 0 <= m /\ a = begin + m + k /\ a \in Int
      BY <1>1, <1>2, <3>2
    <3> HIDE DEF m
    <3>4. a >= begin
      BY <3>3
    <3> QED BY <2>1, <3>4
  <2>2. CASE i < 0
    <3>1. i * step <= -1 * step
      BY <2>2, Multiples
    <3>2. i * step <= -step
      BY <3>1, <1>1
    <3> DEFINE m == i * step
    <3>3. m \in Int /\ m <= -step /\ a = begin + m + k /\ a \in Int
      BY <1>1, <1>2, <3>2
    <3> HIDE DEF m
    <3>4. ~(a >= begin)
      BY <3>3
    <3> QED BY <2>2, <3>4
  <2> QED BY <2>1, <2>2
<1> QED BY <1>3, <1>4 DEF Converted

\* Every sample comes back as the level it was given, whatever the order of its
\* bytes, if frames are far enough apart (to_32() to to_16_le(), from_32() to
\* from_16_le()); from_24_be() is not among them, nor is to_16().
THEOREM ConvertedIsRestored ==
  ASSUME NEW f \in Formats \ {S24_BE}, NEW in \in Seq(Int), NEW out,
         NEW begin \in Int, NEW step \in Nat, f.size <= step,
         NEW i \in 0 .. Len(in) - 1, f.size = 4 => in[i + 1] < Unit,
         NEW p, IsAt(p, begin, step, i, 0),
         \A k \in 0 .. f.size - 1 : p + k \in DOMAIN out
  PROVE  Restored(f, Converted(f, in, out, begin, step), p)
           = Level(f, in[i + 1])
<1> DEFINE mem == Converted(f, in, out, begin, step)
           v == Level(f, in[i + 1])
<1>1. /\ in[i + 1] \in Int /\ step \in Nat \ {0} /\ i \in Int
      /\ f.size \in 2 .. 4 /\ f \in Formats
  BY FormatTypes
<1>2. Fits(v, f)
  BY <1>1, LevelsFit
<1>3. i * step \in Int
  BY <1>1
<1>4. p = begin + i * step /\ p \in Int
  BY <1>3 DEF IsAt
<1>5. Holds(f, mem, p, v)
  <2> SUFFICES ASSUME NEW k \in 0 .. f.size - 1
               PROVE  mem[p + k] = Byte(v, Place(f, k))
    BY DEF Holds
  <2> DEFINE a == p + k
  <2>1. /\ k \in 0 .. step - 1 /\ i >= 0 /\ i < Len(in) /\ k < f.size
        /\ IsAt(a, begin, step, i, k)
    <3>1. k \in Int /\ 0 <= k /\ k <= f.size - 1 /\ f.size \in Int /\ step \in Int
      BY <1>1
    <3>2. k \in 0 .. step - 1 /\ k < f.size
      BY <3>1
    <3>3. i >= 0 /\ i < Len(in)
      OBVIOUS
    <3>4. IsAt(a, begin, step, i, k)
      <4> DEFINE m == i * step
      <4>1. m \in Int /\ p = begin + m
        BY <1>3, <1>4
      <4> HIDE DEF m
      <4>2. p + k = begin + m + k
        BY <4>1, <3>1
      <4> QED BY <4>2 DEF IsAt, m
    <3> QED BY <3>2, <3>3, <3>4
  <2>2. a \in DOMAIN out
    OBVIOUS
  <2> HIDE DEF a, v
  <2>3. mem[a] = Byte(Level(f, in[i + 1]), Place(f, k))
    BY <2>1, <2>2, <1>1, InFrame
  <2> QED BY <2>3 DEF a, v
<1> HIDE DEF mem, v
<1>6. Restored(f, mem, p) = v
  BY <1>1, <1>2, <1>4, <1>5, BytesRestored
<1> QED BY <1>6 DEF mem, v

\* A channel of a recorded file is what was captured for it, though the other
\* channels are written between its frames afterwards
\* (Recorder::write_buffers()).
THEOREM ChannelsKeepApart ==
  ASSUME NEW in \in Seq(Int), NEW other \in Seq(Int), NEW buffer,
         NEW channels \in Nat, NEW c \in 0 .. channels - 1,
         NEW d \in 0 .. channels - 1, c # d,
         NEW i \in 0 .. Len(in) - 1,
         NEW p, p = Position(3, c, channels, i),
         \A k \in 0 .. 2 : p + k \in DOMAIN buffer
  PROVE  Restored(S24_LE,
                  Written(other, Written(in, buffer, c, channels), d, channels),
                  p)
           = Level(S24_LE, in[i + 1])
<1> DEFINE step == 3 * channels
           first == Written(in, buffer, c, channels)
           both == Written(other, first, d, channels)
<1>1. /\ S24_LE \in Formats \ {S24_BE} /\ S24_LE \in Formats /\ S24_LE.size = 3
      /\ channels \in Nat \ {0} /\ i \in Int /\ c \in Int /\ d \in Int
  BY DEF S24_LE, S24_BE, Format, Formats
<1>2. step \in Nat \ {0} /\ i * step \in Int
  BY <1>1
<1>3. p = 3 * c + i * step /\ p \in Int
  <2>1. i * step = 3 * (i * channels) /\ i * channels \in Int
    BY <1>1
  <2> QED BY <1>1, <2>1 DEF Position
<1>4. DOMAIN first = DOMAIN buffer
  BY DEF Written, Converted
<1>5. first = Converted(S24_LE, in, buffer, 3 * c, step)
      /\ both = Converted(S24_LE, other, first, 3 * d, step)
  BY DEF Written
<1> HIDE DEF step, first, both
<1>6. Restored(S24_LE, first, p) = Level(S24_LE, in[i + 1])
  <2> DEFINE begin == 3 * c
  <2>1. S24_LE.size <= step /\ step \in Nat /\ begin \in Int
    BY <1>1 DEF step
  <2>2. IsAt(p, 3 * c, step, i, 0)
    <3> DEFINE x == i * step
    <3>1. x \in Int /\ p = 3 * c + x
      BY <1>2, <1>3
    <3> HIDE DEF x
    <3>2. p = 3 * c + x + 0
      BY <3>1, <1>1
    <3> QED BY <3>2 DEF IsAt, x
  <2>3. \A k \in 0 .. S24_LE.size - 1 : p + k \in DOMAIN buffer
    BY <1>1
  <2>4. /\ S24_LE.size # 4 /\ S24_LE \in Formats \ {S24_BE}
        /\ in \in Seq(Int) /\ i \in 0 .. Len(in) - 1
    BY <1>1
  <2>5. IsAt(p, begin, step, i, 0)
    BY <2>2
  <2> HIDE DEF begin
  <2>6. Restored(S24_LE, Converted(S24_LE, in, buffer, begin, step), p)
          = Level(S24_LE, in[i + 1])
    BY ONLY <2>1, <2>3, <2>4, <2>5, ConvertedIsRestored
  <2> QED BY <2>6, <1>5 DEF begin
<1>7. ASSUME NEW k \in 0 .. 2
      PROVE  both[p + k] = first[p + k]
  <2> DEFINE a == p + k
  <2>1. a \in DOMAIN first
    BY <1>4
  <2>2. PICK j \in Int, o \in 3 .. step - 1 : a = 3 * d + j * step + o
    <3>1. CASE c > d
      <4> DEFINE o == 3 * c - 3 * d + k
      <4>1. o \in 3 .. step - 1
        BY <3>1, <1>1 DEF step
      <4>2. a = 3 * d + i * step + o
        <5> DEFINE x == i * step
        <5>1. x \in Int /\ k \in Int
          BY <1>2
        <5>2. p + k = 3 * c + x + k
          BY <1>3
        <5> HIDE DEF x
        <5>3. 3 * c + x + k = 3 * d + x + (3 * c - 3 * d + k)
          BY <5>1, <1>1
        <5> QED BY <5>2, <5>3 DEF x, a
      <4> QED BY <4>1, <4>2, <1>1
    <3>2. CASE c < d
      <4> DEFINE o == step + 3 * c - 3 * d + k
      <4>1. o \in 3 .. step - 1
        BY <3>2, <1>1 DEF step
      <4>2. (i - 1) * step = i * step - step
        BY <1>1, <1>2
      <4>3. a = 3 * d + (i - 1) * step + o
        <5> DEFINE x == i * step
        <5>1. x \in Int /\ k \in Int
          BY <1>2
        <5>2. p + k = 3 * c + x + k
          BY <1>3
        <5>3. (i - 1) * step = x - step
          BY <4>2
        <5> HIDE DEF x
        <5>4. 3 * c + x + k = 3 * d + (x - step) + (step + 3 * c - 3 * d + k)
          BY <5>1, <1>1, <1>2
        <5> QED BY <5>2, <5>3, <5>4 DEF a
      <4> QED BY <4>1, <4>3, <1>1
    <3> QED BY <3>1, <3>2, <1>1
  <2>3. o \in 0 .. step - 1 /\ ~(o < S24_LE.size) /\ 3 * d \in Int
    BY <1>1, <1>2
  <2> DEFINE begin == 3 * d
  <2>4. begin \in Int /\ IsAt(a, begin, step, j, o)
    BY <2>2, <2>3 DEF IsAt
  <2> HIDE DEF a, begin
  <2>5. /\ S24_LE \in Formats /\ step \in Nat \ {0}
        /\ other \in Seq(Int) /\ j \in Int
    BY <1>1, <1>2
  <2>6. Converted(S24_LE, other, first, begin, step)[a] = first[a]
    BY ONLY <2>1, <2>3, <2>4, <2>5, InFrame
  <2> QED BY <2>6, <1>5 DEF a, begin
<1>8. Restored(S24_LE, both, p) = Restored(S24_LE, first, p)
  <2>1. ASSUME NEW j \in 0 .. 2
        PROVE  ByteAt(S24_LE, j) \in 0 .. 2
    BY DEF ByteAt, Place, S24_LE, S24_BE, Format
  <2>2. \A j \in 0 .. 2 : Part(S24_LE, both, p, j) = Part(S24_LE, first, p, j)
    BY <2>1, <1>7 DEF Part
  <2>3. Part(S24_LE, both, p, 3) = 0 /\ Part(S24_LE, first, p, 3) = 0
    BY <1>1 DEF Part
  <2>4. Unsigned(S24_LE, both, p) = Unsigned(S24_LE, first, p)
    BY <2>2, <2>3 DEF Unsigned
  <2> QED BY <2>4 DEF Restored
<1> QED BY <1>6, <1>8 DEF first, both

\* What is heard of a recorded sample, once it has come back from the file as
\* ChannelsKeepApart says, is no louder than what was captured, and by less
\* than two of the 2^23 levels softer (Recorder::write_buffers(),
\* AudioFile::play_into_buffers()).
THEOREM RecordedIsHeard ==
  ASSUME NEW s \in Int, NEW bytes, NEW p,
         Restored(S24_LE, bytes, p) = Level(S24_LE, s)
  PROVE  LET heard == Heard(S24_LE, bytes, p)
             sample == 128 * Clipped(s)
         IN  IF s >= 0 THEN sample - 512 < heard /\ heard <= sample
             ELSE sample <= heard /\ heard < sample + 512
<1> DEFINE heard == Heard(S24_LE, bytes, p)
           clip == Clipped(s)
<1>1. S24_LE.size = 3 /\ S24_LE.full = 8388607
  BY SMT DEF S24_LE, Format
<1>2. clip \in Int /\ (s >= 0 => clip >= 0) /\ (s < 0 => clip < 0)
      /\ clip >= -16777216 /\ clip <= 16777216
  BY ClippedBounds, SMT DEF Unit
<1>3. Level(S24_LE, s) = IF s >= 0 THEN (clip * 8388607) \div 16777216
                         ELSE -((-clip * 8388607) \div 16777216)
  BY <1>1, SMT DEF Level, Unit
<1>4. heard = 256 * Level(S24_LE, s)
  BY <1>1, SMT DEF Heard, Weight
<1> HIDE DEF heard, clip
<1>5. IF s >= 0 THEN 128 * clip - 512 < heard /\ heard <= 128 * clip
      ELSE 128 * clip <= heard /\ heard < 128 * clip + 512
  BY <1>2, <1>3, <1>4, SMT
<1> QED BY <1>5 DEF heard, clip
=============================================================================
