-------------------------- MODULE ProjectSwitchProofs --------------------------
(***************************************************************************)
(* However projects, and changes to them, follow each other through the    *)
(* two queues, and whatever these drop, nothing that is in use is deleted  *)
(* and nothing is deleted twice.                                           *)
(***************************************************************************)
EXTENDS ProjectSwitch, SequenceTheorems, TLAPS

Holder == Project \cup {None}
Message == [type : {"install"}, project : Holder, old : Holder]
             \cup [type : {"edit"}, project : Project, what : Change]

TypeOK == /\ made \subseteq Project /\ deleted \subseteq Project
          /\ dawProject \in Holder /\ engineProject \in Holder
          /\ to \in Seq(Message) /\ from \in Seq(Message)
          /\ Len(to) <= Capacity
          /\ twice \in BOOLEAN

Alive == made \ deleted
Installs(queue, i) == i \in DOMAIN queue /\ queue[i].type = "install"
Edits(queue, i) == i \in DOMAIN queue /\ queue[i].type = "edit"

\* The projects of the threads, of the installations to come and of those that
\* are over are alive.
HoldersAlive ==
  /\ deleted \subseteq made
  /\ dawProject \in Alive \cup {None}
  /\ engineProject \in Alive \cup {None}
  /\ \A i \in DOMAIN to : to[i].project \in Alive \cup {None}
  /\ \A i \in DOMAIN from :
       /\ Installs(from, i) => from[i].old \in Alive \cup {None}
       /\ Edits(from, i) => from[i].project \in Alive

\* A project that is to be installed is nowhere yet, and a project that is to
\* be deleted is nowhere else.
HoldersDiffer ==
  /\ \A i \in DOMAIN to :
       Installs(to, i) => to[i].project # engineProject \/ engineProject = None
  /\ \A i, j \in DOMAIN to :
       i < j /\ Installs(to, i) /\ Installs(to, j) =>
         to[i].project # to[j].project \/ to[i].project = None
  /\ \A i \in DOMAIN from : Installs(from, i) /\ from[i].old # None =>
       /\ from[i].old # engineProject
       /\ from[i].old # dawProject
       /\ \A j \in DOMAIN to : from[i].old # to[j].project
       /\ \A j \in DOMAIN from :
            /\ i # j /\ Installs(from, j) => from[i].old # from[j].old
            /\ i < j /\ Edits(from, j) => from[i].old # from[j].project

\* The DAW's project is not one that an installation on its way is to replace,
\* nor is the project of a change behind that installation.
NotReplaced ==
  \A i \in DOMAIN to : Installs(to, i) =>
    /\ engineProject # None =>
         /\ engineProject # dawProject
         /\ \A j \in DOMAIN to :
              i < j /\ Edits(to, j) => to[j].project # engineProject
    /\ \A h \in DOMAIN to :
         h < i /\ Installs(to, h) /\ to[h].project # None =>
           /\ to[h].project # dawProject
           /\ \A j \in DOMAIN to :
                i < j /\ Edits(to, j) => to[j].project # to[h].project

IInv == TypeOK /\ HoldersAlive /\ HoldersDiffer /\ NotReplaced /\ ~twice

-----------------------------------------------------------------------------
(* The queues.                                                             *)

LEMMA TailOfQueue ==
  ASSUME NEW S, NEW q \in Seq(S), q # << >>
  PROVE  /\ Tail(q) \in Seq(S)
         /\ Len(Tail(q)) = Len(q) - 1
         /\ Len(q) \in Nat \ {0}
         /\ 1 \in DOMAIN q /\ Head(q) = q[1] /\ q[1] \in S
         /\ \A i \in DOMAIN Tail(q) :
              /\ i \in Nat \ {0}
              /\ i + 1 \in DOMAIN q
              /\ Tail(q)[i] = q[i + 1]
OBVIOUS

\* What SendTo() leaves of several messages.
LEMMA SentToEngine ==
  ASSUME to \in Seq(Message), Len(to) <= Capacity,
         NEW messages \in Seq(Message), SendTo(messages)
  PROVE  /\ to' \in Seq(Message) /\ Len(to') <= Capacity
         /\ Len(to) \in Nat
         /\ \A i \in DOMAIN to' :
              /\ i \in Nat \ {0}
              /\ \/ i \in DOMAIN to /\ i <= Len(to) /\ to'[i] = to[i]
                 \/ /\ i \notin DOMAIN to /\ i > Len(to)
                    /\ i - Len(to) \in DOMAIN messages
                    /\ to'[i] = messages[i - Len(to)]
<1> DEFINE room == Capacity - Len(to)
           n == IF Len(messages) <= room THEN Len(messages) ELSE room
           kept == SubSeq(messages, 1, n)
<1>1. /\ room \in Nat /\ n \in Nat /\ n <= room /\ n <= Len(messages)
      /\ Len(to) \in Nat /\ Len(messages) \in Nat
  BY SwitchAssumption
<1>2. kept \in Seq(Message) /\ Len(kept) = n
      /\ \A i \in 1 .. n : kept[i] = messages[i]
  BY <1>1
<1>3. to' = to \o kept
  BY DEF SendTo
<1> HIDE DEF room, n, kept
<1>4. to' \in Seq(Message) /\ Len(to') = Len(to) + n
  BY <1>1, <1>2, <1>3, ConcatProperties
<1>5. Len(to') <= Capacity
  BY <1>1, <1>4, SwitchAssumption DEF room
<1>6. ASSUME NEW i \in DOMAIN to'
      PROVE  /\ i \in Nat \ {0}
             /\ \/ i \in DOMAIN to /\ i <= Len(to) /\ to'[i] = to[i]
                \/ /\ i \notin DOMAIN to /\ i > Len(to)
                   /\ i - Len(to) \in DOMAIN messages
                   /\ to'[i] = messages[i - Len(to)]
  BY <1>1, <1>2, <1>3, <1>4
<1> QED BY <1>1, <1>4, <1>5, <1>6

\* Messages are what they seem.
LEMMA Messages ==
  /\ \A p \in Holder, o \in Holder : Install(p, o) \in Message
  /\ \A p \in Project, w \in Change : Edit(p, w) \in Message
  /\ \A m \in Message :
       /\ m.type \in {"install", "edit"}
       /\ m.project \in Holder
       /\ m.type = "install" => m.old \in Holder
       /\ m.type = "edit" => m.project \in Project /\ m.project # None
BY SwitchAssumption DEF Message, Install, Edit, Holder

-----------------------------------------------------------------------------
(* The steps.                                                              *)

LEMMA SwitchToKeeps ==
  ASSUME IInv, NEW p \in Project, NEW armings \in Seq(Change),
         SwitchTo(p, armings)
  PROVE  IInv'
<1> USE DEF IInv
<1> DEFINE messages == <<Install(p, None)>>
                         \o [i \in DOMAIN armings |-> Edit(p, armings[i])]
<1>1. /\ messages \in Seq(Message)
      /\ messages[1] = Install(p, None)
      /\ \A i \in DOMAIN messages :
           /\ messages[i].project = p
           /\ i \in Nat \ {0}
           /\ messages[i].type = IF i = 1 THEN "install" ELSE "edit"
  <2> DEFINE tail == [i \in DOMAIN armings |-> Edit(p, armings[i])]
             first == <<Install(p, None)>>
  <2>1. tail \in Seq(Message) /\ first \in Seq(Message) /\ Len(first) = 1
    BY Messages DEF Holder
  <2>2. /\ messages \in Seq(Message)
        /\ Len(messages) = 1 + Len(tail)
        /\ \A i \in 1 .. Len(messages) :
             messages[i] = IF i = 1 THEN first[1] ELSE tail[i - 1]
    BY <2>1, ConcatProperties
  <2>3. \A i \in 1 .. Len(tail) : tail[i].type = "edit" /\ tail[i].project = p
    BY DEF Edit
  <2>4. first[1] = Install(p, None) /\ first[1].type = "install"
        /\ first[1].project = p
    BY DEF Install
  <2> HIDE DEF tail, first, messages
  <2> QED BY <2>1, <2>2, <2>3, <2>4
<1>2. /\ to' \in Seq(Message) /\ Len(to') <= Capacity
      /\ Len(to) \in Nat
      /\ \A i \in DOMAIN to' :
           /\ i \in Nat \ {0}
           /\ \/ i \in DOMAIN to /\ i <= Len(to) /\ to'[i] = to[i]
              \/ /\ i \notin DOMAIN to /\ i > Len(to)
                 /\ to'[i].project = p
                 /\ to'[i].type = IF i = Len(to) + 1 THEN "install" ELSE "edit"
  <2>1. SendTo(messages)
    BY DEF SwitchTo
  <2> HIDE DEF messages
  <2> QED BY <1>1, <2>1, SentToEngine DEF TypeOK
<1> HIDE DEF messages
<1>3. /\ p \notin made /\ p # None
      /\ dawProject' = p /\ made' = made \cup {p}
      /\ UNCHANGED <<deleted, engineProject, from, twice>>
  BY SwitchAssumption DEF SwitchTo
<1>4. p \notin Alive /\ p \in Alive' /\ Alive \subseteq Alive'
  BY <1>3 DEF Alive, TypeOK, HoldersAlive
<1>5. TypeOK'
  BY <1>2, <1>3 DEF TypeOK, Holder
<1>6. HoldersAlive'
  BY <1>2, <1>3, <1>4 DEF HoldersAlive, Installs, Edits
<1>7. HoldersDiffer'
  BY <1>2, <1>3, <1>4 DEF HoldersAlive, HoldersDiffer, Installs, Edits
<1>8. NotReplaced'
  BY <1>2, <1>3, <1>4 DEF HoldersAlive, NotReplaced, Installs, Edits
<1> QED BY <1>3, <1>5, <1>6, <1>7, <1>8

LEMMA CloseKeeps ==
  ASSUME IInv, Close
  PROVE  IInv'
<1> USE DEF IInv
<1>1. /\ to' \in Seq(Message) /\ Len(to') <= Capacity
      /\ Len(to) \in Nat
      /\ \A i \in DOMAIN to' :
           /\ i \in Nat \ {0}
           /\ \/ i \in DOMAIN to /\ i <= Len(to) /\ to'[i] = to[i]
              \/ /\ i \notin DOMAIN to /\ i > Len(to)
                 /\ to'[i].project = None /\ to'[i].type = "install"
  <2> DEFINE messages == <<Install(None, None)>>
  <2>1. /\ messages \in Seq(Message)
        /\ \A i \in DOMAIN messages :
             messages[i].project = None /\ messages[i].type = "install"
    BY Messages DEF Holder, Install
  <2>2. SendTo(messages)
    BY DEF Close
  <2> HIDE DEF messages
  <2> QED BY <2>1, <2>2, SentToEngine DEF TypeOK
<1>2. dawProject' = None /\ UNCHANGED <<made, deleted, engineProject, from, twice>>
  BY DEF Close
<1>3. Alive' = Alive /\ None \notin Alive
  BY <1>2, SwitchAssumption DEF Alive, TypeOK
<1>4. TypeOK'
  BY <1>1, <1>2 DEF TypeOK, Holder
<1>5. HoldersAlive'
  BY <1>1, <1>2, <1>3 DEF HoldersAlive, Installs, Edits
<1>6. HoldersDiffer'
  BY <1>1, <1>2, <1>3 DEF HoldersDiffer, Installs, Edits
<1>7. NotReplaced'
  BY <1>1, <1>2, <1>3, Messages DEF NotReplaced, Installs, Edits, TypeOK
<1> QED BY <1>2, <1>4, <1>5, <1>6, <1>7

LEMMA SendEditKeeps ==
  ASSUME IInv, NEW what \in Change, NEW counted \in BOOLEAN,
         SendEdit(what, counted)
  PROVE  IInv'
<1> USE DEF IInv
<1>1. dawProject \in Project /\ dawProject # None
      /\ UNCHANGED <<made, deleted, dawProject, engineProject, from, twice>>
  BY DEF SendEdit, TypeOK, Holder
<1>2. /\ to' \in Seq(Message) /\ Len(to') <= Capacity
      /\ Len(to) \in Nat
      /\ \A i \in DOMAIN to' :
           /\ i \in Nat \ {0}
           /\ \/ i \in DOMAIN to /\ i <= Len(to) /\ to'[i] = to[i]
              \/ /\ i \notin DOMAIN to /\ i > Len(to)
                 /\ to'[i].project = dawProject /\ to'[i].type = "edit"
  <2> DEFINE messages == <<Edit(dawProject, what)>>
  <2>1. /\ messages \in Seq(Message)
        /\ \A i \in DOMAIN messages :
             messages[i].project = dawProject /\ messages[i].type = "edit"
    BY <1>1, Messages DEF Edit
  <2>2. SendTo(messages)
    BY DEF SendEdit
  <2> HIDE DEF messages
  <2> QED BY <2>1, <2>2, SentToEngine DEF TypeOK
<1>3. Alive' = Alive
  BY <1>1 DEF Alive
<1>4. TypeOK'
  BY <1>1, <1>2 DEF TypeOK
<1>5. HoldersAlive'
  BY <1>1, <1>2, <1>3 DEF HoldersAlive, Installs, Edits
<1>6. HoldersDiffer'
  BY <1>1, <1>2, <1>3 DEF HoldersDiffer, Installs, Edits
<1>7. NotReplaced'
  BY <1>1, <1>2, <1>3 DEF NotReplaced, Installs, Edits
<1> QED BY <1>1, <1>4, <1>5, <1>6, <1>7

LEMMA TakeInstalledKeeps ==
  ASSUME IInv, TakeInstalled
  PROVE  IInv'
<1> USE DEF IInv
<1> DEFINE old == from[1].old
<1>1. /\ from' \in Seq(Message) /\ 1 \in DOMAIN from
      /\ Installs(from, 1) /\ old \in Holder
      /\ \A i \in DOMAIN from' :
           /\ i \in Nat \ {0}
           /\ i + 1 \in DOMAIN from
           /\ from'[i] = from[i + 1]
  BY TailOfQueue, Messages DEF TypeOK, TakeInstalled, Installs
<1>2. /\ deleted' = deleted \cup ({old} \ {None})
      /\ twice' = (twice \/ old \in deleted)
      /\ UNCHANGED <<made, dawProject, engineProject, to>>
  BY TailOfQueue DEF TypeOK, TakeInstalled
<1>3. old \in Alive \cup {None} /\ old \notin deleted
  BY <1>1, SwitchAssumption DEF HoldersAlive, Alive, TypeOK
<1> HIDE DEF old
<1>4. Alive' = Alive \ {old} /\ None \notin Alive
  BY <1>2, SwitchAssumption DEF Alive, TypeOK
<1>5. TypeOK' /\ ~twice'
  BY <1>1, <1>2, <1>3 DEF TypeOK, Holder
<1>6. old # None =>
        /\ old # engineProject /\ old # dawProject
        /\ \A j \in DOMAIN to : old # to[j].project
        /\ \A j \in DOMAIN from' :
             /\ Installs(from', j) => old # from'[j].old
             /\ Edits(from', j) => old # from'[j].project
  BY <1>1 DEF HoldersDiffer, Installs, Edits, old
<1>7. HoldersAlive'
  BY <1>1, <1>2, <1>3, <1>4, <1>6 DEF HoldersAlive, Installs, Edits, Alive
<1>8. HoldersDiffer'
  BY <1>1, <1>2 DEF HoldersDiffer, Installs, Edits
<1>9. NotReplaced'
  BY <1>2 DEF NotReplaced, Installs, Edits
<1> QED BY <1>5, <1>7, <1>8, <1>9

LEMMA TakeEditedKeeps ==
  ASSUME IInv, NEW counted \in BOOLEAN, TakeEdited(counted)
  PROVE  IInv'
<1> USE DEF IInv
<1>1. /\ from' \in Seq(Message)
      /\ \A i \in DOMAIN from' :
           /\ i \in Nat \ {0}
           /\ i + 1 \in DOMAIN from
           /\ from'[i] = from[i + 1]
  BY TailOfQueue DEF TypeOK, TakeEdited
<1>2. UNCHANGED <<made, deleted, dawProject, engineProject, to, twice>>
  BY DEF TakeEdited
<1>3. TypeOK' /\ ~twice'
  BY <1>1, <1>2 DEF TypeOK
<1>4. HoldersAlive'
  BY <1>1, <1>2 DEF HoldersAlive, Installs, Edits, Alive
<1>5. HoldersDiffer'
  BY <1>1, <1>2 DEF HoldersDiffer, Installs, Edits
<1>6. NotReplaced'
  BY <1>2 DEF NotReplaced, Installs, Edits
<1> QED BY <1>3, <1>4, <1>5, <1>6

LEMMA EngineInstallsKeeps ==
  ASSUME IInv, EngineInstalls
  PROVE  IInv'
<1> USE DEF IInv
<1> DEFINE new == to[1].project
<1>1. /\ to' \in Seq(Message) /\ Len(to') <= Capacity
      /\ 1 \in DOMAIN to /\ Installs(to, 1) /\ new \in Holder
      /\ \A i \in DOMAIN to' :
           /\ i \in Nat \ {0}
           /\ i + 1 \in DOMAIN to
           /\ to'[i] = to[i + 1]
  BY TailOfQueue, Messages, SwitchAssumption
  DEF TypeOK, EngineInstalls, Installs
<1>2. /\ engineProject' = new
      /\ UNCHANGED <<made, deleted, dawProject, twice>>
  BY TailOfQueue DEF TypeOK, EngineInstalls
<1>3. /\ from' \in Seq(Message)
      /\ \A i \in DOMAIN from' :
           \/ i \in DOMAIN from /\ i <= Len(from) /\ from'[i] = from[i]
           \/ /\ i = Len(from) + 1 /\ i \notin DOMAIN from
              /\ from'[i].type = "install" /\ from'[i].old = engineProject
  <2> DEFINE m == Install(new, engineProject)
  <2>1. m \in Message /\ m.type = "install" /\ m.old = engineProject
    BY <1>1, Messages DEF TypeOK, Install
  <2>2. from' = Sent(from, m, Capacity)
    BY TailOfQueue DEF TypeOK, EngineInstalls, SendFrom
  <2> HIDE DEF m
  <2>3. from \in Seq(Message) /\ Capacity \in Nat
    BY SwitchAssumption DEF TypeOK
  <2>4. /\ Sent(from, m, Capacity) \in Seq(Message)
        /\ \A i \in DOMAIN Sent(from, m, Capacity) :
             \/ /\ i \in DOMAIN from /\ i <= Len(from)
                /\ Sent(from, m, Capacity)[i] = from[i]
             \/ /\ i = Len(from) + 1 /\ i \notin DOMAIN from
                /\ Sent(from, m, Capacity)[i] = m
    BY <2>1, <2>3 DEF Sent
  <2> QED BY ONLY <2>1, <2>2, <2>4
<1>4. new \in Alive \cup {None} /\ Alive' = Alive /\ Len(from) \in Nat
  BY <1>1, <1>2 DEF HoldersAlive, Alive, TypeOK
<1>5. engineProject # None =>
        /\ engineProject # new /\ engineProject # dawProject
        /\ \A j \in DOMAIN to' : engineProject # to'[j].project
  <2>1. ASSUME engineProject # None, NEW j \in DOMAIN to'
        PROVE  engineProject # to'[j].project
    <3>1. j + 1 \in DOMAIN to /\ to'[j] = to[j + 1] /\ 1 < j + 1
      BY <1>1
    <3>2. Installs(to, j + 1) \/ Edits(to, j + 1)
      BY <3>1, Messages DEF TypeOK, Installs, Edits
    <3> QED BY <2>1, <3>1, <3>2, <1>1 DEF HoldersDiffer, NotReplaced
  <2> QED BY <2>1, <1>1 DEF HoldersDiffer, NotReplaced
<1> HIDE DEF new
<1>6. TypeOK'
  BY <1>1, <1>2, <1>3 DEF TypeOK
<1>7. HoldersAlive'
  BY <1>1, <1>2, <1>3, <1>4 DEF HoldersAlive, Installs, Edits
<1>8. HoldersDiffer'
  <2>1. \A i \in DOMAIN to' : Installs(to', i) => to'[i].project # new \/ new = None
    BY <1>1 DEF HoldersDiffer, Installs, new
  <2>2. \A i, j \in DOMAIN to' :
          i < j /\ Installs(to', i) /\ Installs(to', j) =>
            to'[i].project # to'[j].project \/ to'[i].project = None
    BY <1>1 DEF HoldersDiffer, Installs
  <2>3. ASSUME NEW i \in DOMAIN from', Installs(from', i), from'[i].old # None
        PROVE  /\ from'[i].old # new /\ from'[i].old # dawProject
               /\ \A j \in DOMAIN to' : from'[i].old # to'[j].project
               /\ \A j \in DOMAIN from' :
                    /\ i # j /\ Installs(from', j) => from'[i].old # from'[j].old
                    /\ i < j /\ Edits(from', j) => from'[i].old # from'[j].project
    <3>1. CASE i \in DOMAIN from
      <4>1. from'[i] = from[i] /\ Installs(from, i)
        BY <2>3, <3>1, <1>3 DEF Installs
      <4> QED BY <2>3, <3>1, <4>1, <1>1, <1>3, <1>4
              DEF HoldersDiffer, Installs, Edits, new
    <3>2. CASE i \notin DOMAIN from
      <4>1. from'[i].old = engineProject /\ i = Len(from) + 1
        BY <3>2, <1>3
      <4> QED BY <2>3, <4>1, <1>3, <1>4, <1>5 DEF HoldersDiffer, Installs, Edits
    <3> QED BY <3>1, <3>2
  <2> QED BY <2>1, <2>2, <2>3, <1>2 DEF HoldersDiffer
<1>9. NotReplaced'
  <2>1. ASSUME NEW i \in DOMAIN to'
        PROVE  /\ Installs(to', i) => Installs(to, i + 1)
               /\ Edits(to', i) => Edits(to, i + 1)
               /\ i + 1 \in DOMAIN to /\ i \in Nat /\ 1 < i + 1
               /\ to'[i] = to[i + 1]
    BY <1>1 DEF Installs, Edits
  <2>3. ASSUME NEW i \in DOMAIN to', Installs(to', i), new # None
        PROVE  /\ new # dawProject
               /\ \A j \in DOMAIN to' :
                    i < j /\ Edits(to', j) => to'[j].project # new
    <3>1. /\ to[1].project # dawProject
          /\ \A j \in DOMAIN to :
               i + 1 < j /\ Edits(to, j) => to[j].project # to[1].project
      BY <2>1, <2>3, <1>1 DEF NotReplaced, new
    <3> QED BY <2>1, <3>1 DEF new
  <2>4. ASSUME NEW i \in DOMAIN to', Installs(to', i),
               NEW h \in DOMAIN to', h < i, Installs(to', h),
               to'[h].project # None
        PROVE  /\ to'[h].project # dawProject
               /\ \A j \in DOMAIN to' :
                    i < j /\ Edits(to', j) => to'[j].project # to'[h].project
    BY <2>1, <2>4 DEF NotReplaced
  <2> QED BY <2>3, <2>4, <1>2 DEF NotReplaced
<1> QED BY <1>2, <1>6, <1>7, <1>8, <1>9

LEMMA EngineEditsKeeps ==
  ASSUME IInv, EngineEdits
  PROVE  IInv'
<1> USE DEF IInv
<1> DEFINE m == to[1]
<1>1. /\ to' \in Seq(Message) /\ Len(to') <= Capacity
      /\ 1 \in DOMAIN to /\ Edits(to, 1)
      /\ m \in Message /\ m.type = "edit" /\ m.project # None
      /\ \A i \in DOMAIN to' :
           /\ i \in Nat \ {0}
           /\ i + 1 \in DOMAIN to
           /\ to'[i] = to[i + 1]
  BY TailOfQueue, Messages, SwitchAssumption DEF TypeOK, EngineEdits, Edits
<1>2. UNCHANGED <<made, deleted, dawProject, engineProject, twice>>
  BY DEF EngineEdits
<1>3. /\ from' \in Seq(Message)
      /\ \A i \in DOMAIN from' :
           \/ i \in DOMAIN from /\ i <= Len(from) /\ from'[i] = from[i]
           \/ /\ i = Len(from) + 1 /\ i \notin DOMAIN from
              /\ from'[i] = m
  <2>1. from' = Sent(from, m, Capacity)
    BY TailOfQueue DEF TypeOK, EngineEdits, SendFrom
  <2> HIDE DEF m
  <2>2. from \in Seq(Message) /\ Capacity \in Nat /\ m \in Message
    BY <1>1, SwitchAssumption DEF TypeOK
  <2>3. /\ Sent(from, m, Capacity) \in Seq(Message)
        /\ \A i \in DOMAIN Sent(from, m, Capacity) :
             \/ /\ i \in DOMAIN from /\ i <= Len(from)
                /\ Sent(from, m, Capacity)[i] = from[i]
             \/ /\ i = Len(from) + 1 /\ i \notin DOMAIN from
                /\ Sent(from, m, Capacity)[i] = m
    BY <2>2 DEF Sent
  <2> QED BY ONLY <2>1, <2>3
<1>4. Alive' = Alive /\ m.project \in Alive /\ Len(from) \in Nat
  BY <1>1, <1>2 DEF HoldersAlive, Alive, TypeOK
<1>5. \A i \in DOMAIN from :
        Installs(from, i) /\ from[i].old # None => from[i].old # m.project
  BY <1>1 DEF HoldersDiffer
<1> HIDE DEF m
<1>6. TypeOK'
  BY <1>1, <1>2, <1>3 DEF TypeOK
<1>7. HoldersAlive'
  BY <1>1, <1>2, <1>3, <1>4 DEF HoldersAlive, Installs, Edits
<1>8. HoldersDiffer'
  BY <1>1, <1>2, <1>3, <1>4, <1>5 DEF HoldersDiffer, Installs, Edits
<1>9. NotReplaced'
  <2>1. ASSUME NEW i \in DOMAIN to'
        PROVE  /\ Installs(to', i) => Installs(to, i + 1)
               /\ Edits(to', i) => Edits(to, i + 1)
               /\ i + 1 \in DOMAIN to /\ i \in Nat
               /\ to'[i] = to[i + 1]
    BY <1>1 DEF Installs, Edits
  <2>2. ASSUME NEW i \in DOMAIN to', Installs(to', i), engineProject # None
        PROVE  /\ engineProject # dawProject
               /\ \A j \in DOMAIN to' :
                    i < j /\ Edits(to', j) => to'[j].project # engineProject
    BY <2>1, <2>2 DEF NotReplaced
  <2>3. ASSUME NEW i \in DOMAIN to', Installs(to', i),
               NEW h \in DOMAIN to', h < i, Installs(to', h),
               to'[h].project # None
        PROVE  /\ to'[h].project # dawProject
               /\ \A j \in DOMAIN to' :
                    i < j /\ Edits(to', j) => to'[j].project # to'[h].project
    BY <2>1, <2>3 DEF NotReplaced
  <2> QED BY <2>2, <2>3, <1>2 DEF NotReplaced
<1> QED BY <1>2, <1>6, <1>7, <1>8, <1>9

-----------------------------------------------------------------------------
LEMMA InitIInv == SwitchInit => IInv
<1> SUFFICES ASSUME SwitchInit PROVE IInv
  OBVIOUS
<1>1. DOMAIN to = {} /\ DOMAIN from = {} /\ Len(to) = 0
  BY DEF SwitchInit
<1>2. TypeOK
  <2>1. to \in Seq(Message) /\ from \in Seq(Message)
    BY DEF SwitchInit
  <2>2. twice \in BOOLEAN
    BY DEF SwitchInit
  <2> QED BY <2>1, <2>2, <1>1, SwitchAssumption DEF SwitchInit, TypeOK, Holder
<1>3. HoldersAlive
  BY <1>1 DEF SwitchInit, HoldersAlive
<1>4. HoldersDiffer /\ NotReplaced /\ ~twice
  BY <1>1 DEF SwitchInit, HoldersDiffer, NotReplaced
<1> QED BY <1>2, <1>3, <1>4 DEF IInv

LEMMA RestartKeeps == SwitchRestart => IInv'
<1> SUFFICES ASSUME SwitchRestart PROVE IInv'
  OBVIOUS
<1>1. DOMAIN to' = {} /\ DOMAIN from' = {} /\ Len(to') = 0
  BY DEF SwitchRestart
<1>2. TypeOK'
  <2>1. to' \in Seq(Message) /\ from' \in Seq(Message)
    BY DEF SwitchRestart
  <2>2. twice' \in BOOLEAN
    BY DEF SwitchRestart
  <2> QED BY <2>1, <2>2, <1>1, SwitchAssumption DEF SwitchRestart, TypeOK, Holder
<1>3. HoldersAlive'
  BY <1>1 DEF SwitchRestart, HoldersAlive
<1>4. HoldersDiffer' /\ NotReplaced' /\ ~twice'
  BY <1>1 DEF SwitchRestart, HoldersDiffer, NotReplaced
<1> QED BY <1>2, <1>3, <1>4 DEF IInv

LEMMA NextIInv == IInv /\ [SwitchNext]_switchVars => IInv'
<1> SUFFICES ASSUME IInv, [SwitchNext]_switchVars
             PROVE  IInv'
  OBVIOUS
<1>1. CASE \E p \in Project, armings \in Seq(Change) : SwitchTo(p, armings)
  BY <1>1, SwitchToKeeps
<1>2. CASE Close
  BY <1>2, CloseKeeps
<1>3. CASE \E what \in Change, counted \in BOOLEAN : SendEdit(what, counted)
  BY <1>3, SendEditKeeps
<1>4. CASE TakeInstalled
  BY <1>4, TakeInstalledKeeps
<1>5. CASE \E counted \in BOOLEAN : TakeEdited(counted)
  BY <1>5, TakeEditedKeeps
<1>6. CASE EngineInstalls
  BY <1>6, EngineInstallsKeeps
<1>7. CASE EngineEdits
  BY <1>7, EngineEditsKeeps
<1>8. CASE SwitchRestart
  BY <1>8, RestartKeeps
<1>9. CASE UNCHANGED switchVars
  BY <1>9 DEF switchVars, IInv, TypeOK, HoldersAlive, HoldersDiffer, NotReplaced,
              Alive, Installs, Edits
<1> QED BY <1>1, <1>2, <1>3, <1>4, <1>5, <1>6, <1>7, <1>8, <1>9 DEF SwitchNext

LEMMA IInvIsEnough == IInv => InUseIsAlive
<1> SUFFICES ASSUME IInv PROVE InUseIsAlive
  OBVIOUS
<1>1. None \notin deleted /\ \A p \in Alive : p \notin deleted
  BY SwitchAssumption DEF IInv, TypeOK, Alive
<1> QED BY <1>1 DEF IInv, HoldersAlive, InUseIsAlive, Installs, Edits

\* Whatever projects are installed, changed and closed in whatever order, and
\* whatever full queues drop, neither thread nor a process under way has a
\* project that has been deleted, and none is deleted twice
\* (InstallProjectProcess, AudioEngine::install_project()).
THEOREM SwitchIsSafe == SwitchSpec => []InUseIsAlive
<1>1. SwitchSpec => []IInv
  BY InitIInv, NextIInv, PTL DEF SwitchSpec
<1> QED BY <1>1, IInvIsEnough, PTL

-----------------------------------------------------------------------------
(* As long as no queue has dropped anything, no project is forgotten.      *)

IsLastInstall(queue, i) ==
  Installs(queue, i) /\ \A j \in DOMAIN queue : j > i => ~Installs(queue, j)

\* The last installation on its way brings the engine what the DAW has.
LastIsDaws ==
  /\ (\A i \in DOMAIN to : ~Installs(to, i)) => engineProject = dawProject
  /\ \A i \in DOMAIN to : IsLastInstall(to, i) => to[i].project = dawProject

\* The engine has or gets or has had every project that is not deleted, and
\* what it has had is on its way to be deleted.
Held(p) == \/ p = engineProject
           \/ \E i \in DOMAIN to : Installs(to, i) /\ to[i].project = p
           \/ \E i \in DOMAIN from : Installs(from, i) /\ from[i].old = p

NothingForgotten == ~lost => LastIsDaws /\ \A p \in Alive : Held(p)

\* What SendTo() does when there is room.
LEMMA AllSent ==
  ASSUME to \in Seq(Message), Len(to) <= Capacity,
         NEW messages \in Seq(Message), SendTo(messages), ~lost'
  PROVE  /\ ~lost
         /\ Len(to) \in Nat /\ Len(messages) \in Nat
         /\ DOMAIN to = 1 .. Len(to) /\ DOMAIN messages = 1 .. Len(messages)
         /\ DOMAIN to' = 1 .. Len(to) + Len(messages)
         /\ \A i \in 1 .. Len(to) : to'[i] = to[i]
         /\ \A i \in 1 .. Len(messages) : to'[Len(to) + i] = messages[i]
<1>1. ~lost /\ ~(Len(messages) > Capacity - Len(to))
  BY DEF SendTo
<1>2. Len(to) \in Nat /\ Len(messages) \in Nat /\ Capacity \in Nat
  BY SwitchAssumption
<1>3. to' = to \o messages
  <2>1. Len(messages) <= Capacity - Len(to)
    BY <1>1, <1>2
  <2>2. SubSeq(messages, 1, Len(messages)) = messages
    OBVIOUS
  <2> QED BY <2>1, <2>2 DEF SendTo
<1>4. /\ Len(to') = Len(to) + Len(messages) /\ to' \in Seq(Message)
      /\ \A i \in 1 .. Len(to) + Len(messages) :
           to'[i] = IF i <= Len(to) THEN to[i] ELSE messages[i - Len(to)]
  BY <1>3, ConcatProperties
<1>5. \A i \in 1 .. Len(messages) :
        /\ Len(to) + i \in 1 .. Len(to) + Len(messages)
        /\ ~(Len(to) + i <= Len(to)) /\ (Len(to) + i) - Len(to) = i
  BY <1>2
<1>6. \A i \in 1 .. Len(messages) : to'[Len(to) + i] = messages[i]
  BY <1>4, <1>5
<1>7. \A i \in 1 .. Len(to) : to'[i] = to[i]
  BY <1>2, <1>4
<1>8. DOMAIN to' = 1 .. Len(to) + Len(messages)
  BY <1>4
<1> QED BY <1>1, <1>2, <1>6, <1>7, <1>8

\* An installation that is sent, with changes behind it.
LEMMA SentInstall ==
  ASSUME IInv, NothingForgotten, NEW p \in Holder, NEW messages \in Seq(Message),
         SendTo(messages), ~lost', messages # << >>,
         messages[1].type = "install", messages[1].project = p,
         \A i \in DOMAIN messages : i # 1 => messages[i].type = "edit",
         dawProject' = p, UNCHANGED <<engineProject, from>>
  PROVE  /\ LastIsDaws' /\ \A q \in Alive \cup {p} : Held(q)'
<1>1. /\ Len(to) \in Nat /\ Len(messages) \in Nat \ {0}
      /\ DOMAIN to = 1 .. Len(to) /\ DOMAIN messages = 1 .. Len(messages)
      /\ DOMAIN to' = 1 .. Len(to) + Len(messages)
      /\ \A i \in 1 .. Len(to) : to'[i] = to[i]
      /\ \A i \in 1 .. Len(messages) : to'[Len(to) + i] = messages[i]
      /\ ~lost
  <2>1. to \in Seq(Message) /\ Len(to) <= Capacity
    BY DEF IInv, TypeOK
  <2>2. Len(messages) # 0
    OBVIOUS
  <2> QED BY <2>1, <2>2, AllSent
<1>2. Installs(to', Len(to) + 1) /\ to'[Len(to) + 1].project = p
  <2>1. Len(to) + 1 \in DOMAIN to' /\ 1 \in 1 .. Len(messages)
    BY <1>1
  <2>2. to'[Len(to) + 1] = messages[1]
    BY <1>1, <2>1
  <2> QED BY <2>1, <2>2 DEF Installs
<1>3. \A i \in DOMAIN to' : i > Len(to) + 1 => ~Installs(to', i)
  <2> TAKE i \in DOMAIN to'
  <2> HAVE i > Len(to) + 1
  <2>1. /\ i - Len(to) \in 1 .. Len(messages) /\ i - Len(to) # 1
        /\ Len(to) + (i - Len(to)) = i
    BY <1>1
  <2>2. to'[i] = messages[i - Len(to)]
    BY <1>1, <2>1
  <2> QED BY <1>1, <2>1, <2>2 DEF Installs
<1>4. LastIsDaws'
  <2>1. ASSUME NEW i \in DOMAIN to', IsLastInstall(to', i) PROVE i = Len(to) + 1
    <3>1. i \in Nat /\ Len(to) + 1 \in DOMAIN to'
      BY <1>1
    <3> QED BY <1>1, <1>2, <1>3, <2>1, <3>1 DEF IsLastInstall
  <2>2. Len(to) + 1 \in DOMAIN to'
    BY <1>1
  <2> QED BY <1>2, <2>1, <2>2 DEF LastIsDaws
<1>5. ASSUME NEW q \in Alive PROVE Held(q)'
  <2>1. Held(q)
    BY <1>1 DEF NothingForgotten
  <2>2. \A i \in DOMAIN to : i \in DOMAIN to' /\ to'[i] = to[i]
    BY <1>1
  <2> QED BY <2>1, <2>2 DEF Held, Installs
<1>6. Held(p)'
  <2>1. Len(to) + 1 \in DOMAIN to'
    BY <1>1
  <2> QED BY <1>2, <2>1 DEF Held
<1> QED BY <1>4, <1>5, <1>6

LEMMA SwitchToForgetsNothing ==
  ASSUME IInv, NothingForgotten, NEW p \in Project, NEW armings \in Seq(Change),
         SwitchTo(p, armings)
  PROVE  NothingForgotten'
<1> SUFFICES ASSUME ~lost' PROVE NothingForgotten'
  BY DEF NothingForgotten
<1> DEFINE tail == [i \in DOMAIN armings |-> Edit(p, armings[i])]
           messages == <<Install(p, None)>> \o tail
<1>1. /\ messages \in Seq(Message) /\ messages # << >>
      /\ messages[1] = Install(p, None)
      /\ \A i \in DOMAIN messages : i # 1 => messages[i].type = "edit"
  <2> DEFINE first == <<Install(p, None)>>
  <2>1. tail \in Seq(Message) /\ first \in Seq(Message) /\ Len(first) = 1
    BY Messages DEF Holder
  <2>2. /\ messages \in Seq(Message)
        /\ Len(messages) = 1 + Len(tail)
        /\ \A i \in 1 .. Len(messages) :
             messages[i] = IF i = 1 THEN first[1] ELSE tail[i - 1]
    BY <2>1, ConcatProperties
  <2>3. \A i \in 1 .. Len(tail) : tail[i].type = "edit"
    BY DEF Edit
  <2>4. first[1] = Install(p, None)
    OBVIOUS
  <2> HIDE DEF tail, first, messages
  <2> QED BY <2>1, <2>2, <2>3, <2>4
<1>2. SendTo(messages)
  BY DEF SwitchTo
<1> HIDE DEF messages
<1>3. /\ dawProject' = p /\ made' = made \cup {p}
      /\ UNCHANGED <<deleted, engineProject, from>>
  BY DEF SwitchTo
<1>4. LastIsDaws' /\ \A q \in Alive \cup {p} : Held(q)'
  BY <1>1, <1>2, <1>3, SentInstall DEF Install, Holder
<1>5. Alive' \subseteq Alive \cup {p}
  BY <1>3 DEF Alive
<1> QED BY <1>4, <1>5 DEF NothingForgotten

LEMMA CloseForgetsNothing ==
  ASSUME IInv, NothingForgotten, Close PROVE NothingForgotten'
<1> SUFFICES ASSUME ~lost' PROVE NothingForgotten'
  BY DEF NothingForgotten
<1> DEFINE messages == <<Install(None, None)>>
<1>1. /\ messages \in Seq(Message) /\ messages # << >>
      /\ messages[1] = Install(None, None)
      /\ \A i \in DOMAIN messages : i # 1 => messages[i].type = "edit"
  BY Messages DEF Holder
<1>2. SendTo(messages)
  BY DEF Close
<1> HIDE DEF messages
<1>3. dawProject' = None /\ UNCHANGED <<made, deleted, engineProject, from>>
  BY DEF Close
<1>4. LastIsDaws' /\ \A q \in Alive \cup {None} : Held(q)'
  <2>1. None \in Holder
    BY DEF Holder
  <2>2. messages[1].type = "install" /\ messages[1].project = None
    BY <1>1 DEF Install
  <2> QED BY <1>1, <1>2, <1>3, <2>1, <2>2, SentInstall
<1>5. Alive' = Alive
  BY <1>3 DEF Alive
<1> QED BY <1>4, <1>5 DEF NothingForgotten

LEMMA SendEditForgetsNothing ==
  ASSUME IInv, NothingForgotten, NEW what \in Change, NEW counted \in BOOLEAN,
         SendEdit(what, counted)
  PROVE  NothingForgotten'
<1> SUFFICES ASSUME ~lost' PROVE NothingForgotten'
  BY DEF NothingForgotten
<1>1. /\ dawProject \in Project
      /\ UNCHANGED <<made, deleted, dawProject, engineProject, from>>
  BY DEF SendEdit, IInv, TypeOK, Holder
<1> DEFINE messages == <<Edit(dawProject, what)>>
<1>2. messages \in Seq(Message) /\ Len(messages) = 1 /\ messages[1].type = "edit"
  BY <1>1, Messages DEF Edit
<1>3. SendTo(messages)
  BY DEF SendEdit
<1> HIDE DEF messages
<1>4. /\ ~lost /\ Len(to) \in Nat /\ DOMAIN to = 1 .. Len(to)
      /\ DOMAIN to' = 1 .. Len(to) + 1
      /\ \A i \in 1 .. Len(to) : to'[i] = to[i]
      /\ to'[Len(to) + 1].type = "edit"
  <2>1. to \in Seq(Message) /\ Len(to) <= Capacity
    BY DEF IInv, TypeOK
  <2>2. /\ ~lost
        /\ Len(to) \in Nat
        /\ DOMAIN to = 1 .. Len(to)
        /\ DOMAIN to' = 1 .. Len(to) + Len(messages)
        /\ \A i \in 1 .. Len(to) : to'[i] = to[i]
        /\ \A i \in 1 .. Len(messages) : to'[Len(to) + i] = messages[i]
    BY <1>2, <1>3, <2>1, AllSent
  <2>3. 1 \in 1 .. Len(messages)
    BY <1>2
  <2> QED BY <1>2, <2>2, <2>3
<1>5. /\ \A i \in DOMAIN to : i \in DOMAIN to' /\ to'[i] = to[i]
      /\ \A i \in DOMAIN to' : Installs(to', i) => Installs(to, i)
  BY <1>4 DEF Installs
<1>6. LastIsDaws'
  <2>1. (\A i \in DOMAIN to' : ~Installs(to', i)) => \A i \in DOMAIN to : ~Installs(to, i)
    BY <1>5 DEF Installs
  <2>2. ASSUME NEW i \in DOMAIN to', IsLastInstall(to', i)
        PROVE  i \in DOMAIN to /\ IsLastInstall(to, i) /\ to'[i] = to[i]
    BY <1>5, <2>2 DEF IsLastInstall, Installs
  <2> QED BY <1>1, <1>4, <2>1, <2>2 DEF LastIsDaws, NothingForgotten
<1>7. Alive' = Alive
  BY <1>1 DEF Alive
<1>8. \A q \in Alive : Held(q)'
  BY <1>1, <1>4, <1>5 DEF NothingForgotten, Held, Installs
<1> QED BY <1>6, <1>7, <1>8 DEF NothingForgotten

LEMMA TakeForgetsNothing ==
  ASSUME IInv, NothingForgotten,
         TakeInstalled \/ \E counted \in BOOLEAN : TakeEdited(counted)
  PROVE  NothingForgotten'
<1> SUFFICES ASSUME ~lost' PROVE NothingForgotten'
  BY DEF NothingForgotten
<1>1. /\ UNCHANGED <<made, dawProject, engineProject, to, lost>>
      /\ from # << >> /\ from' = Tail(from)
  BY DEF TakeInstalled, TakeEdited
<1>2. /\ from[1] \in Message /\ Head(from) = from[1]
      /\ Len(from) \in Nat \ {0} /\ DOMAIN from = 1 .. Len(from)
      /\ DOMAIN from' = 1 .. Len(from) - 1
      /\ \A i \in 1 .. Len(from) - 1 : from'[i] = from[i + 1]
  BY <1>1 DEF IInv, TypeOK
<1>3. Alive' \subseteq Alive /\ \A q \in Alive' : Installs(from, 1) => from[1].old # q
  <2>1. CASE TakeInstalled
    <3>1. deleted' = deleted \cup ({from[1].old} \ {None})
      BY <1>2, <2>1 DEF TakeInstalled
    <3>2. \A q \in made : q # None
      BY SwitchAssumption DEF IInv, TypeOK
    <3> QED BY <1>1, <3>1, <3>2 DEF Alive
  <2>2. CASE \E counted \in BOOLEAN : TakeEdited(counted)
    <3>1. deleted' = deleted /\ ~Installs(from, 1)
      BY <1>2, <2>2 DEF TakeEdited, Installs
    <3> QED BY <1>1, <3>1 DEF Alive
  <2> QED BY <2>1, <2>2
<1>4. ASSUME NEW q \in Alive' PROVE Held(q)'
  <2>1. Held(q)
    BY <1>1, <1>3 DEF NothingForgotten
  <2>2. ASSUME NEW i \in DOMAIN from, Installs(from, i), from[i].old = q
        PROVE  \E j \in DOMAIN from' : Installs(from', j) /\ from'[j].old = q
    <3>1. i # 1
      BY <1>3, <2>2
    <3>2. i - 1 \in DOMAIN from' /\ (i - 1) + 1 = i
      BY <1>2, <3>1
    <3>3. from'[i - 1] = from[i]
      BY <1>2, <3>2
    <3> QED BY <2>2, <3>2, <3>3 DEF Installs
  <2> QED BY <1>1, <2>1, <2>2 DEF Held, Installs
<1>5. LastIsDaws'
  BY <1>1 DEF NothingForgotten, LastIsDaws, IsLastInstall, Installs
<1> QED BY <1>4, <1>5 DEF NothingForgotten

LEMMA EngineForgetsNothing ==
  ASSUME IInv, NothingForgotten, EngineInstalls \/ EngineEdits
  PROVE  NothingForgotten'
<1> SUFFICES ASSUME ~lost' PROVE NothingForgotten'
  BY DEF NothingForgotten
<1>1. /\ UNCHANGED <<made, deleted, dawProject>>
      /\ to # << >> /\ to' = Tail(to)
  BY DEF EngineInstalls, EngineEdits
<1>2. /\ to[1] \in Message /\ Head(to) = to[1]
      /\ Len(to) \in Nat \ {0} /\ DOMAIN to = 1 .. Len(to)
      /\ DOMAIN to' = 1 .. Len(to) - 1
      /\ \A i \in 1 .. Len(to) - 1 : to'[i] = to[i + 1]
  BY <1>1 DEF IInv, TypeOK
<1> DEFINE m == IF EngineInstalls THEN Install(to[1].project, engineProject) ELSE to[1]
<1>3. /\ SendFrom(m) /\ m.type = to[1].type
      /\ EngineInstalls => m.old = engineProject
  <2>1. CASE EngineInstalls
    BY <1>2, <2>1 DEF EngineInstalls, Install
  <2>2. CASE ~EngineInstalls
    BY <1>2, <2>2 DEF EngineEdits
  <2> QED BY <2>1, <2>2
<1> HIDE DEF m
<1>4. ~lost /\ from' = Append(from, m)
  <2>1. ~lost /\ ~(Len(from) >= Capacity)
    BY <1>3 DEF SendFrom
  <2>2. Len(from) \in Nat /\ Capacity \in Nat
    BY SwitchAssumption DEF IInv, TypeOK
  <2>3. Len(from) < Capacity
    BY <2>1, <2>2
  <2> QED BY <1>3, <2>1, <2>3 DEF SendFrom, Sent
<1>5. /\ \A i \in DOMAIN from : i \in DOMAIN from' /\ from'[i] = from[i]
      /\ Len(from) + 1 \in DOMAIN from' /\ from'[Len(from) + 1] = m
  <2>1. from \in Seq(Message)
    BY DEF IInv, TypeOK
  <2> QED BY <1>4, <2>1
<1>6. \A i \in DOMAIN to' : /\ i + 1 \in DOMAIN to /\ to'[i] = to[i + 1]
                            /\ Installs(to', i) <=> Installs(to, i + 1)
  BY <1>2 DEF Installs
<1>7. \A i \in DOMAIN to : i = 1 \/ (i - 1 \in DOMAIN to' /\ to'[i - 1] = to[i])
  <2> TAKE i \in DOMAIN to
  <2>1. i = 1 \/ (i - 1 \in 1 .. Len(to) - 1 /\ (i - 1) + 1 = i)
    BY <1>2
  <2> QED BY <1>2, <2>1
<1>8. /\ EngineInstalls => Installs(to, 1) /\ engineProject' = to[1].project
      /\ ~EngineInstalls => ~Installs(to, 1) /\ engineProject' = engineProject
  <2>1. CASE EngineInstalls
    BY <1>2, <2>1 DEF EngineInstalls, Installs
  <2>2. CASE ~EngineInstalls
    BY <1>2, <2>2 DEF EngineEdits, Installs
  <2> QED BY <2>1, <2>2
<1>9. LastIsDaws'
  <2>1. ASSUME \A i \in DOMAIN to' : ~Installs(to', i)
        PROVE  engineProject' = dawProject
    <3>1. \A i \in DOMAIN to : i # 1 => ~Installs(to, i)
      BY <1>7, <2>1 DEF Installs
    <3>2. CASE EngineInstalls
      <4>1. \A j \in DOMAIN to : j > 1 => j # 1
        BY <1>2
      <4>2. 1 \in DOMAIN to /\ IsLastInstall(to, 1)
        BY <1>2, <1>8, <3>1, <3>2, <4>1 DEF IsLastInstall
      <4> QED BY <1>4, <1>8, <3>2, <4>2 DEF NothingForgotten, LastIsDaws
    <3>3. CASE ~EngineInstalls
      BY <1>4, <1>8, <3>1, <3>3 DEF NothingForgotten, LastIsDaws
    <3> QED BY <3>2, <3>3
  <2>2. ASSUME NEW i \in DOMAIN to', IsLastInstall(to', i)
        PROVE  to'[i].project = dawProject
    <3>1. i + 1 \in DOMAIN to /\ Installs(to, i + 1) /\ to'[i] = to[i + 1]
      BY <1>6, <2>2 DEF IsLastInstall
    <3>2. ASSUME NEW j \in DOMAIN to, j > i + 1 PROVE ~Installs(to, j)
      <4>1. j # 1 /\ j - 1 > i
        BY <1>2, <3>2
      <4> QED BY <1>7, <2>2, <4>1 DEF IsLastInstall, Installs
    <3>3. IsLastInstall(to, i + 1)
      BY <3>1, <3>2 DEF IsLastInstall
    <3> QED BY <1>4, <3>1, <3>3 DEF NothingForgotten, LastIsDaws
  <2> QED BY <1>1, <2>1, <2>2 DEF LastIsDaws
<1>10. ASSUME NEW q \in Alive PROVE Held(q)'
  <2>1. Held(q)
    BY <1>4 DEF NothingForgotten
  <2>2. CASE \E i \in DOMAIN from : Installs(from, i) /\ from[i].old = q
    BY <1>5, <2>2 DEF Held, Installs
  <2>3. CASE q = engineProject
    <3>1. CASE EngineInstalls
      <4>1. Installs(from', Len(from) + 1) /\ from'[Len(from) + 1].old = q
        BY <1>3, <1>5, <1>8, <2>3, <3>1 DEF Installs
      <4> QED BY <1>5, <4>1 DEF Held
    <3>2. CASE ~EngineInstalls
      BY <1>8, <2>3, <3>2 DEF Held
    <3> QED BY <3>1, <3>2
  <2>4. CASE \E i \in DOMAIN to : Installs(to, i) /\ to[i].project = q
    <3>1. PICK i \in DOMAIN to : Installs(to, i) /\ to[i].project = q
      BY <2>4
    <3>2. CASE i = 1
      BY <1>8, <3>1, <3>2 DEF Held
    <3>3. CASE i # 1
      <4>1. i - 1 \in DOMAIN to' /\ to'[i - 1] = to[i]
        BY <1>7, <3>3
      <4> QED BY <3>1, <4>1 DEF Held, Installs
    <3> QED BY <3>2, <3>3
  <2> QED BY <2>1, <2>2, <2>3, <2>4 DEF Held
<1>11. Alive' = Alive
  BY <1>1 DEF Alive
<1> QED BY <1>9, <1>10, <1>11 DEF NothingForgotten

LEMMA NextForgetsNothing ==
  IInv /\ NothingForgotten /\ [SwitchNext]_switchVars => NothingForgotten'
<1> SUFFICES ASSUME IInv, NothingForgotten, [SwitchNext]_switchVars
             PROVE  NothingForgotten'
  OBVIOUS
<1>1. CASE \E p \in Project, armings \in Seq(Change) : SwitchTo(p, armings)
  BY <1>1, SwitchToForgetsNothing
<1>2. CASE Close
  BY <1>2, CloseForgetsNothing
<1>3. CASE \E what \in Change, counted \in BOOLEAN : SendEdit(what, counted)
  BY <1>3, SendEditForgetsNothing
<1>4. CASE TakeInstalled \/ \E counted \in BOOLEAN : TakeEdited(counted)
  BY <1>4, TakeForgetsNothing
<1>5. CASE EngineInstalls \/ EngineEdits
  BY <1>5, EngineForgetsNothing
<1>6. CASE SwitchRestart
  BY <1>6 DEF SwitchRestart, NothingForgotten, LastIsDaws, IsLastInstall, Installs, Alive
<1>7. CASE UNCHANGED switchVars
  BY <1>7 DEF switchVars, NothingForgotten, LastIsDaws, IsLastInstall, Installs, Alive,
     Held
<1> QED BY <1>1, <1>2, <1>3, <1>4, <1>5, <1>6, <1>7 DEF SwitchNext

\* If no queue has dropped a message, then once all have been handled the two
\* threads have the same project, and every other that was ever opened has been
\* deleted: no order of opening, closing and changing leaks one
\* (DAW::open_project(), InstallProjectProcess).
THEOREM SwitchLeavesOne == SwitchSpec => []OneProjectLeft
<1>1. SwitchInit => NothingForgotten
  BY DEF SwitchInit, NothingForgotten, LastIsDaws, Alive
<1>2. IInv /\ NothingForgotten => OneProjectLeft
  <2> SUFFICES ASSUME IInv, NothingForgotten, to = << >>, from = << >>, ~lost
               PROVE  engineProject = dawProject /\ made \ deleted = {dawProject} \ {None}
    BY DEF OneProjectLeft
  <2>1. engineProject = dawProject
    BY DEF NothingForgotten, LastIsDaws
  <2>2. \A p \in Alive : p = engineProject /\ p # None
    BY SwitchAssumption DEF NothingForgotten, Held, Alive, IInv, TypeOK
  <2>3. dawProject \in Alive \cup {None}
    BY DEF IInv, HoldersAlive
  <2> QED BY <2>1, <2>2, <2>3 DEF Alive
<1>3. SwitchSpec => []IInv
  BY InitIInv, NextIInv, PTL DEF SwitchSpec
<1> QED BY <1>1, <1>2, <1>3, NextForgetsNothing, PTL DEF SwitchSpec
=============================================================================
