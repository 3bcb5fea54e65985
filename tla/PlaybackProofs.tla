--------------------------- MODULE PlaybackProofs ---------------------------
(***************************************************************************)
(* For any clips, buffer size and read-ahead: the reads of a clip never    *)
(* overlap and two slots are enough for them, what is heard is what the    *)
(* timeline calls for, and it has been asked for in time.                  *)
(***************************************************************************)
EXTENDS Playback, WellFoundedInduction, TLAPS

Clip == DOMAIN Clips
ReadOf == [start : Nat, length : Nat, ready : BOOLEAN, age : Nat]
Reads == [Slot -> ReadOf \cup {None}]
ClipState == [playing : BOOLEAN, frame : Int, reads : Reads]

\* What a walk over the playlist carries.
Carried == [clips : [Clip -> ClipState], free : Nat, starved : BOOLEAN,
            overflow : BOOLEAN, inStep : SUBSET Clip,
            heard : [Clip -> [Frame -> Int \cup {None}]],
            missed : SUBSET Clip, first : Nat, over : BOOLEAN]

\* The reads of a clip, as they are asked for: inside the clip, apart from each
\* other, and each as long as the read-ahead unless it is the clip's last.
Inside(c, r) == /\ r.length > 0
                /\ Clips[c].fileStart <= r.start /\ ReadEnd(r) <= FileEnd(c)
                /\ r.length = ReadAhead \/ ReadEnd(r) = FileEnd(c)
Apart(r, q) == ReadEnd(r) <= q.start \/ ReadEnd(q) <= r.start
\* There is no gap between them.
Unbroken(reads) ==
  \A s, t \in Slot, f \in Int :
    /\ reads[s] # None /\ reads[t] # None
    /\ reads[s].start <= f /\ f < ReadEnd(reads[t])
    => \E u \in Slot : reads[u] # None /\ Holds(reads[u], f)
Fit(c, reads) ==
  /\ Unbroken(reads)
  /\ \A s \in Slot : reads[s] # None => Inside(c, reads[s]) /\ reads[s].age <= Delay
  /\ \A s, t \in Slot : s # t /\ reads[s] # None /\ reads[t] # None =>
                          Apart(reads[s], reads[t])

-----------------------------------------------------------------------------
(* Induction, and the ends of sets of numbers.                             *)

\* Every set of natural numbers has a least one.
LEMMA LeastNat ==
  ASSUME NEW T, T \subseteq Nat, T # {}
  PROVE  \E x \in T : \A y \in T : x <= y
<1> DEFINE R == OpToRel(<, Nat)
<1>1. IsWellFoundedOn(R, Nat)
  BY NatLessThanWellFounded
<1>2. \A x, y \in Nat : y < x => <<y, x>> \in R
  BY DEF OpToRel
<1> HIDE DEF R
<1>3. PICK x \in T : \A y \in T : ~(<<y, x>> \in R)
  BY <1>1, WFMin
<1>4. \A y \in T : ~(y < x)
  BY <1>2, <1>3, Zenon
<1>5. \A y \in T : x <= y
  BY <1>4
<1> QED BY <1>5

\* Induction up to a bound, as a set of numbers.
LEMMA UpTo ==
  ASSUME NEW N \in Nat, NEW T, 0 \in T,
         \A n \in 1 .. N : n - 1 \in T => n \in T
  PROVE  \A n \in 0 .. N : n \in T
<1> SUFFICES ASSUME (0 .. N) \ T # {} PROVE FALSE
  OBVIOUS
<1> DEFINE M == (0 .. N) \ T
<1>0. M \subseteq Nat /\ M # {}
  OBVIOUS
<1>1. PICK n \in M : \A m \in M : n <= m
  BY <1>0, LeastNat
<1>2. n \in 1 .. N /\ n - 1 \in 0 .. N /\ n - 1 < n
  BY <1>1
<1>3. n - 1 \in T
  BY <1>1, <1>2
<1> QED BY <1>1, <1>2, <1>3

LEMMA MaxIs ==
  ASSUME NEW S \in SUBSET Int, NEW x \in S, \A y \in S : x >= y
  PROVE  Max(S) = x
<1>1. Max(S) \in S /\ \A y \in S : Max(S) >= y
  BY DEF Max
<1>2. x \in Int /\ Max(S) \in Int /\ x >= Max(S) /\ Max(S) >= x
  BY <1>1
<1> QED BY <1>2

LEMMA MinIs ==
  ASSUME NEW S \in SUBSET Int, NEW x \in S, \A y \in S : x <= y
  PROVE  Min(S) = x
<1>1. Min(S) \in S /\ \A y \in S : Min(S) <= y
  BY DEF Min
<1>2. x \in Int /\ Min(S) \in Int /\ x <= Min(S) /\ Min(S) <= x
  BY <1>1
<1> QED BY <1>2

LEMMA MinOf ==
  ASSUME NEW S \in SUBSET Nat, S # {}
  PROVE  Min(S) \in S /\ \A y \in S : Min(S) <= y
BY LeastNat DEF Min

LEMMA MaxOfTwo ==
  ASSUME NEW a \in Int, NEW b \in Int
  PROVE  Max({a, b}) = IF a >= b THEN a ELSE b
<1>1. CASE a >= b
  BY <1>1, MaxIs
<1>2. CASE ~(a >= b)
  <2>1. b >= a
    BY <1>2
  <2> QED BY <1>2, <2>1, MaxIs
<1> QED BY <1>1, <1>2

LEMMA MinOfTwo ==
  ASSUME NEW a \in Int, NEW b \in Int
  PROVE  Min({a, b}) = IF a <= b THEN a ELSE b
<1>1. CASE a <= b
  BY <1>1, MinIs
<1>2. CASE ~(a <= b)
  <2>1. b <= a
    BY <1>2
  <2> QED BY <1>2, <2>1, MinIs
<1> QED BY <1>1, <1>2

\* A bounded set of integers has a greatest one.
LEMMA MaxOf ==
  ASSUME NEW S \in SUBSET Int, S # {}, NEW bound \in Int, \A x \in S : x <= bound
  PROVE  Max(S) \in S /\ \A y \in S : Max(S) >= y
<1> DEFINE T == {bound - x : x \in S}
<1>1. T \subseteq Nat /\ T # {}
  <2>1. \A x \in S : bound - x \in Nat
    OBVIOUS
  <2> QED BY <2>1
<1>2. PICK x \in T : \A y \in T : x <= y
  BY <1>1, LeastNat
<1>3. PICK m \in S : x = bound - m
  BY <1>2
<1>4. \A y \in S : bound - m <= bound - y
  BY <1>2, <1>3
<1>5. \A y \in S : m >= y
  BY <1>4
<1> HIDE DEF T
<1> QED BY <1>5 DEF Max

-----------------------------------------------------------------------------
(* Constants.                                                              *)

LEMMA Constants ==
  /\ Len(Clips) \in Nat /\ Clip = 1 .. Len(Clips)
  /\ BufferSize \in Nat /\ BufferSize >= 1 /\ ReadAhead \in Nat /\ ReadAhead >= 1
  /\ NumReads \in Nat /\ NumReads >= 1 /\ PoolGoal \in Nat /\ Offset \in Nat
  /\ Delay \in Nat /\ Positions \subseteq Nat
  /\ None \notin Int /\ None \notin ReadOf
  /\ \A c \in Clip : /\ Clips[c].start \in Nat /\ Clips[c].fileStart \in Nat
                     /\ Clips[c].length \in Nat
                     /\ End(c) \in Nat /\ FileEnd(c) \in Nat
                     /\ Clips[c].start <= End(c) /\ Clips[c].fileStart <= FileEnd(c)
<1>1. \A c \in Clip : Clips[c] \in [start : Nat, fileStart : Nat, length : Nat]
  <2> DEFINE R == [start : Nat, fileStart : Nat, length : Nat]
  <2>1. Clips \in Seq(R)
    BY PlaybackAssumption
  <2> HIDE DEF R
  <2>2. \A c \in DOMAIN Clips : Clips[c] \in R
    BY <2>1
  <2> QED BY <2>2 DEF Clip, R
<1>2. \A c \in Clip : /\ Clips[c].start \in Nat /\ Clips[c].fileStart \in Nat
                      /\ Clips[c].length \in Nat
  BY <1>1
<1>3. \A c \in Clip : /\ End(c) \in Nat /\ FileEnd(c) \in Nat
                      /\ Clips[c].start <= End(c) /\ Clips[c].fileStart <= FileEnd(c)
  BY <1>2 DEF End, FileEnd
<1>4. Len(Clips) \in Nat /\ Clip = 1 .. Len(Clips)
  BY PlaybackAssumption DEF Clip
<1> QED BY <1>2, <1>3, <1>4, PlaybackAssumption DEF ReadOf

-----------------------------------------------------------------------------
(* read_ahead(): what is asked for next, and where it is put.              *)

\* The last frame that is in a read, or -1.
LastOf(reads) == Max({ReadEnd(r) - 1 : r \in Loaded(reads)} \cup {-1})

LEMMA ReadIs ==
  ASSUME NEW reads \in Reads, NEW s \in Slot, reads[s] # None
  PROVE  /\ reads[s] \in ReadOf
         /\ reads[s].start \in Nat /\ reads[s].length \in Nat
         /\ reads[s].ready \in BOOLEAN /\ reads[s].age \in Nat
         /\ ReadEnd(reads[s]) = reads[s].start + reads[s].length
         /\ ReadEnd(reads[s]) \in Nat
<1>1. reads[s] \in ReadOf
  BY DEF Reads
<1>2. /\ reads[s].start \in Nat /\ reads[s].length \in Nat
      /\ reads[s].ready \in BOOLEAN /\ reads[s].age \in Nat
  BY <1>1 DEF ReadOf
<1> QED BY <1>1, <1>2 DEF ReadEnd

LEMMA LastIs ==
  ASSUME NEW c \in Clip, NEW reads \in Reads, Fit(c, reads)
  PROVE  /\ LastOf(reads) \in Int /\ LastOf(reads) >= -1
         /\ \A s \in Slot : reads[s] # None => ReadEnd(reads[s]) - 1 <= LastOf(reads)
         /\ \/ LastOf(reads) = -1
            \/ \E s \in Slot : reads[s] # None /\ LastOf(reads) = ReadEnd(reads[s]) - 1
         /\ LastOf(reads) < 0 => \A s \in Slot : reads[s] = None
<1> DEFINE S == {ReadEnd(r) - 1 : r \in Loaded(reads)} \cup {-1}
<1>1. ASSUME NEW s \in Slot, reads[s] # None
      PROVE  /\ ReadEnd(reads[s]) \in Nat /\ ReadEnd(reads[s]) >= 1
             /\ ReadEnd(reads[s]) - 1 \in S
             /\ ReadEnd(reads[s]) <= FileEnd(c)
  <2>1. Inside(c, reads[s]) /\ ReadEnd(reads[s]) \in Nat
        /\ reads[s].start \in Nat /\ reads[s].length \in Nat
        /\ ReadEnd(reads[s]) = reads[s].start + reads[s].length
    BY <1>1, ReadIs DEF Fit
  <2>2. reads[s] \in Loaded(reads)
    BY <1>1 DEF Loaded
  <2> QED BY <2>1, <2>2 DEF Inside
<1>2. \A x \in S : \/ x = -1
                   \/ \E s \in Slot : reads[s] # None /\ x = ReadEnd(reads[s]) - 1
  BY DEF Loaded
<1>3. FileEnd(c) \in Nat
  BY Constants
<1>4. S \in SUBSET Int /\ S # {} /\ -1 \in S /\ \A x \in S : x <= FileEnd(c)
  <2>1. \A x \in S : x \in Int /\ x <= FileEnd(c)
    BY <1>1, <1>2, <1>3
  <2> QED BY <2>1
<1> HIDE DEF S
<1>5. Max(S) \in S /\ \A y \in S : Max(S) >= y
  <2>1. FileEnd(c) \in Int
    BY <1>3
  <2> QED BY <1>4, <2>1, MaxOf, Zenon
<1>6. LastOf(reads) = Max(S)
  BY DEF LastOf, S
<1>7. LastOf(reads) \in Int /\ LastOf(reads) >= -1
  BY <1>4, <1>5, <1>6
<1>8. \A s \in Slot : reads[s] # None => ReadEnd(reads[s]) - 1 <= LastOf(reads)
  BY <1>1, <1>4, <1>5, <1>6, <1>7
<1> QED BY <1>1, <1>2, <1>5, <1>6, <1>7, <1>8

\* What Stretch() says, with its parts named.
LEMMA StretchIs ==
  ASSUME NEW c \in Clip, NEW head \in Int, NEW reads \in Reads, Fit(c, reads),
         Stretch(c, head, reads) # None
  PROVE  /\ Stretch(c, head, reads) \in [start : Nat, length : Nat]
         /\ Inside(c, Stretch(c, head, reads))
         /\ \A s \in Slot : reads[s] # None =>
                              ReadEnd(reads[s]) <= Stretch(c, head, reads).start
         /\ (\E s \in Slot : reads[s] # None) =>
              \E s \in Slot : /\ reads[s] # None
                             /\ ReadEnd(reads[s]) = Stretch(c, head, reads).start
         /\ Stretch(c, head, reads).start <= FrameAt(c, head) + ReadAhead
         /\ LastOf(reads) < FrameAt(c, head) + ReadAhead
<1> DEFINE next == FrameAt(c, head)
           last == LastOf(reads)
           start == IF last >= 0 THEN last + 1 ELSE Max({next, Clips[c].fileStart})
           length == Min({ReadAhead, FileEnd(c) - start})
           r == Stretch(c, head, reads)
<1>1. /\ next \in Int /\ Clips[c].fileStart \in Nat /\ FileEnd(c) \in Nat
      /\ ReadAhead \in Nat /\ ReadAhead >= 1
  BY Constants DEF FrameAt
<1>2. r = [start |-> start, length |-> length] /\ last < next + ReadAhead
      /\ start < FileEnd(c) /\ next + ReadAhead >= Clips[c].fileStart
  BY DEF Stretch, LastOf
<1>3. /\ start \in Nat /\ Clips[c].fileStart <= start /\ start <= next + ReadAhead
      /\ \A s \in Slot : reads[s] # None => ReadEnd(reads[s]) <= start
      /\ (\E s \in Slot : reads[s] # None) =>
           \E s \in Slot : reads[s] # None /\ ReadEnd(reads[s]) = start
  <2>1. CASE last >= 0
    <3>1. PICK s \in Slot : reads[s] # None /\ last = ReadEnd(reads[s]) - 1
      BY <2>1, LastIs
    <3>2. Inside(c, reads[s]) /\ reads[s].start \in Nat /\ reads[s].length \in Nat
          /\ ReadEnd(reads[s]) = reads[s].start + reads[s].length
      BY <3>1, ReadIs DEF Fit
    <3>3. start = ReadEnd(reads[s]) /\ last \in Int
      BY <2>1, <3>1, <3>2
    <3>4. \A t \in Slot : reads[t] # None => ReadEnd(reads[t]) \in Nat
                                             /\ ReadEnd(reads[t]) - 1 <= last
      BY ReadIs, LastIs
    <3>5. start \in Nat /\ Clips[c].fileStart <= start /\ start <= next + ReadAhead
      BY <1>1, <1>2, <2>1, <3>2, <3>3 DEF Inside
    <3> HIDE DEF start, last
    <3> QED BY <1>1, <3>1, <3>3, <3>4, <3>5
  <2>2. CASE ~(last >= 0)
    <3>1. start = IF next >= Clips[c].fileStart THEN next ELSE Clips[c].fileStart
      BY <1>1, <2>2, MaxOfTwo
    <3>2. last \in Int /\ last < 0 /\ \A s \in Slot : reads[s] = None
      BY <2>2, LastIs
    <3> HIDE DEF start, last, next
    <3> QED BY <1>1, <1>2, <3>1, <3>2
  <2> QED BY <2>1, <2>2
<1> HIDE DEF start
<1>4. length = IF ReadAhead <= FileEnd(c) - start THEN ReadAhead ELSE FileEnd(c) - start
  BY <1>1, <1>3, MinOfTwo
<1> HIDE DEF length
<1>5. /\ length \in Nat /\ length > 0 /\ start + length <= FileEnd(c)
      /\ length = ReadAhead \/ start + length = FileEnd(c)
  BY <1>1, <1>2, <1>3, <1>4
<1> HIDE DEF r, last, next
<1>6. r.start = start /\ r.length = length /\ r \in [start : Nat, length : Nat]
  <2>1. r = [start |-> start, length |-> length]
    BY <1>2
  <2> QED BY <1>3, <1>5, <2>1
<1>7. Inside(c, r)
  BY <1>3, <1>5, <1>6 DEF Inside, ReadEnd
<1> QED BY <1>2, <1>3, <1>6, <1>7 DEF r, last, next

\* A frame that is in sight of the play head, and reads that are.
InSight(c, f, head) == /\ Clips[c].fileStart <= f /\ f < FileEnd(c)
                       /\ FrameAt(c, head) <= f /\ f < FrameAt(c, head) + ReadAhead
Near(c, head, reads) ==
  \A s \in Slot : reads[s] # None => reads[s].start <= FrameAt(c, head) + ReadAhead

\* A frame that has been asked for, k turns ago or earlier, or is left out before
\* the reads.
Covered(reads, f, k) ==
  \/ \E s \in Slot : reads[s] # None /\ Holds(reads[s], f) /\ reads[s].age >= k
  \/ /\ \E s \in Slot : reads[s] # None
     /\ \A s \in Slot : reads[s] # None => f < reads[s].start

\* What is in sight and has not been asked for is in the next stretch.
LEMMA AsksForNext ==
  ASSUME NEW c \in Clip, NEW head \in Int, NEW reads \in Reads, Fit(c, reads),
         \A s \in Slot : reads[s] # None => StillNeeded(c, head, reads[s]),
         NEW f \in Int, InSight(c, f, head), ~Covered(reads, f, 0)
  PROVE  /\ Stretch(c, head, reads) # None
         /\ Holds(Stretch(c, head, reads), f)
<1> DEFINE next == FrameAt(c, head)
           last == LastOf(reads)
           start == IF last >= 0 THEN last + 1 ELSE Max({next, Clips[c].fileStart})
           length == Min({ReadAhead, FileEnd(c) - start})
           record == [start |-> start, length |-> length]
           r == Stretch(c, head, reads)
<1>1. /\ next \in Int /\ Clips[c].fileStart \in Nat /\ FileEnd(c) \in Nat
      /\ ReadAhead \in Nat /\ ReadAhead >= 1
      /\ Clips[c].fileStart <= f /\ f < FileEnd(c) /\ next <= f /\ f < next + ReadAhead
  BY Constants DEF FrameAt, InSight
<1>2. r = IF /\ next + ReadAhead >= Clips[c].fileStart
             /\ last < next + ReadAhead
             /\ start < FileEnd(c)
          THEN record ELSE None
  BY DEF Stretch, LastOf
<1>3. /\ start \in Nat /\ next <= start /\ start <= f
      /\ last \in Int /\ last < next + ReadAhead
  <2>1. CASE last >= 0
    <3>1. PICK s \in Slot : reads[s] # None /\ last = ReadEnd(reads[s]) - 1
      BY <2>1, LastIs
    <3>2. /\ reads[s].start \in Nat /\ ReadEnd(reads[s]) \in Nat
          /\ next < ReadEnd(reads[s])
      BY <3>1, ReadIs DEF StillNeeded
    <3>3. PICK t \in Slot : reads[t] # None /\ ~(f < reads[t].start)
      BY <3>1 DEF Covered
    <3>4. reads[t].start \in Nat /\ reads[t].start <= f
      BY <3>3, ReadIs
    <3>5. ASSUME f < ReadEnd(reads[s]) PROVE FALSE
      <4>1. PICK u \in Slot : reads[u] # None /\ Holds(reads[u], f)
        BY <3>1, <3>3, <3>4, <3>5 DEF Fit, Unbroken
      <4>2. reads[u].age >= 0
        BY <4>1, ReadIs
      <4> QED BY <4>1, <4>2 DEF Covered
    <3>6. last \in Int /\ start = last + 1 /\ last + 1 = ReadEnd(reads[s])
      BY <2>1, <3>1, <3>2
    <3> HIDE DEF last, start, next
    <3> QED BY <1>1, <3>2, <3>5, <3>6
  <2>2. CASE ~(last >= 0)
    <3>1. start = IF next >= Clips[c].fileStart THEN next ELSE Clips[c].fileStart
      BY <1>1, <2>2, MaxOfTwo
    <3>2. last \in Int /\ last < 0
      BY <2>2, LastIs
    <3> HIDE DEF last, start, next
    <3> QED BY <1>1, <3>1, <3>2
  <2> QED BY <2>1, <2>2
<1> HIDE DEF start
<1>4. length = IF ReadAhead <= FileEnd(c) - start THEN ReadAhead ELSE FileEnd(c) - start
  BY <1>1, <1>3, MinOfTwo
<1> HIDE DEF length
<1>5. length \in Nat /\ f < start + length
  BY <1>1, <1>3, <1>4
<1>6. /\ record \in [start : Nat, length : Nat] /\ record.start = start
      /\ record.length = length
  BY <1>3, <1>5
<1> HIDE DEF r, record, next, last
<1>7. r = record
  BY <1>1, <1>2, <1>3
<1>8. record # None
  BY <1>6, PlaybackAssumption
<1> QED BY <1>3, <1>5, <1>6, <1>7, <1>8 DEF r, Holds, ReadEnd

\* The reads that remain when those that are not needed are disposed of.
KeptOf(c, head, reads) == [s \in Slot |->
                             IF reads[s] = None THEN None
                             ELSE IF StillNeeded(c, head, reads[s])
                                  THEN reads[s] ELSE None]

LEMMA KeptFit ==
  ASSUME NEW c \in Clip, NEW head \in Int, NEW reads \in Reads, Fit(c, reads)
  PROVE  /\ KeptOf(c, head, reads) \in Reads /\ Fit(c, KeptOf(c, head, reads))
         /\ \A s \in Slot : KeptOf(c, head, reads)[s] # None =>
              /\ KeptOf(c, head, reads)[s] = reads[s]
              /\ StillNeeded(c, head, reads[s])
<1> DEFINE kept == KeptOf(c, head, reads)
<1>1. \A s \in Slot : kept[s] = IF reads[s] = None THEN None
                                ELSE IF StillNeeded(c, head, reads[s])
                                     THEN reads[s] ELSE None
  BY DEF KeptOf
<1>2. kept \in Reads
  BY DEF KeptOf, Reads
<1> HIDE DEF kept
<1>3. \A s \in Slot : kept[s] # None => kept[s] = reads[s] /\ reads[s] # None
                                        /\ StillNeeded(c, head, reads[s])
  BY <1>1
<1>4. Unbroken(kept)
  <2> SUFFICES ASSUME NEW s \in Slot, NEW t \in Slot, NEW f \in Int,
                      kept[s] # None, kept[t] # None,
                      kept[s].start <= f, f < ReadEnd(kept[t])
               PROVE  \E u \in Slot : kept[u] # None /\ Holds(kept[u], f)
    BY DEF Unbroken
  <2> DEFINE next == FrameAt(c, head)
  <2>1. /\ kept[s] = reads[s] /\ reads[s] # None /\ next < ReadEnd(reads[s])
        /\ kept[t] = reads[t] /\ reads[t] # None /\ reads[t].start <= next + ReadAhead
    BY <1>3 DEF StillNeeded
  <2>2. next \in Int /\ ReadAhead \in Nat
    BY Constants DEF FrameAt
  <2>3. /\ reads[s].start \in Nat /\ ReadEnd(reads[s]) \in Nat
        /\ reads[t].start \in Nat /\ ReadEnd(reads[t]) \in Nat
    BY <2>1, ReadIs
  <2>4. CASE f < ReadEnd(reads[s])
    BY <2>1, <2>4 DEF Holds
  <2>5. CASE f >= reads[t].start
    BY <2>1, <2>5 DEF Holds
  <2>6. CASE ~(f < ReadEnd(reads[s])) /\ ~(f >= reads[t].start)
    <3>1. PICK u \in Slot : reads[u] # None /\ Holds(reads[u], f)
      BY <2>1 DEF Fit, Unbroken
    <3>2. reads[u].start \in Nat /\ ReadEnd(reads[u]) \in Nat
          /\ reads[u].start <= f /\ f < ReadEnd(reads[u])
      BY <3>1, ReadIs DEF Holds
    <3> HIDE DEF next
    <3>3. next < ReadEnd(reads[u]) /\ reads[u].start <= next + ReadAhead
      BY <2>1, <2>2, <2>3, <2>6, <3>2
    <3>4. kept[u] = reads[u]
      BY <1>1, <3>1, <3>3 DEF StillNeeded, next
    <3> QED BY <3>1, <3>4
  <2> QED BY <2>4, <2>5, <2>6
<1>5. Fit(c, kept)
  BY <1>3, <1>4 DEF Fit
<1> QED BY <1>2, <1>3, <1>5 DEF kept

\* Two slots are enough: of two reads that are needed, the later one reaches
\* the read-ahead point or the end of the clip.
LEMMA SlotIsLeft ==
  ASSUME NEW c \in Clip, NEW head \in Int, NEW reads \in Reads, Fit(c, reads),
         \A s \in Slot : reads[s] # None => StillNeeded(c, head, reads[s]),
         Stretch(c, head, reads) # None, NumReads >= 2
  PROVE  \E s \in Slot : reads[s] = None
<1> SUFFICES ASSUME \A s \in Slot : reads[s] # None PROVE FALSE
  OBVIOUS
<1> DEFINE next == FrameAt(c, head)
           r == reads[1]
           q == reads[2]
           st == Stretch(c, head, reads)
<1>1. 1 \in Slot /\ 2 \in Slot /\ next \in Int /\ FileEnd(c) \in Nat /\ ReadAhead \in Nat
  BY Constants DEF Slot, FrameAt
<1>2. /\ r.start \in Nat /\ r.length \in Nat /\ ReadEnd(r) = r.start + r.length
      /\ q.start \in Nat /\ q.length \in Nat /\ ReadEnd(q) = q.start + q.length
  BY <1>1, ReadIs
<1>3. Inside(c, r) /\ Inside(c, q) /\ Apart(r, q)
  BY <1>1 DEF Fit
<1>4. next < ReadEnd(r) /\ next < ReadEnd(q)
  BY <1>1 DEF StillNeeded
<1>5. /\ st.start \in Nat /\ st.length \in Nat /\ Inside(c, st)
      /\ ReadEnd(r) <= st.start /\ ReadEnd(q) <= st.start
  BY <1>1, StretchIs
<1>6. st.start < FileEnd(c)
  BY <1>1, <1>5 DEF Inside, ReadEnd
<1>7. /\ LastOf(reads) \in Int /\ LastOf(reads) < next + ReadAhead
      /\ ReadEnd(r) - 1 <= LastOf(reads) /\ ReadEnd(q) - 1 <= LastOf(reads)
  BY <1>1, StretchIs, LastIs
<1> HIDE DEF next, r, q, st
<1>8. r.length = ReadAhead /\ q.length = ReadAhead
  BY <1>1, <1>2, <1>3, <1>5, <1>6 DEF Inside
<1>9. CASE ReadEnd(r) <= q.start
  BY <1>1, <1>2, <1>4, <1>7, <1>8, <1>9
<1>10. CASE ReadEnd(q) <= r.start
  BY <1>1, <1>2, <1>4, <1>7, <1>8, <1>10
<1> QED BY <1>3, <1>9, <1>10 DEF Apart

\* A walk with other reads of a clip.
WithReads(acc, c, reads, n, s, o) ==
  [acc EXCEPT !.clips = [acc.clips EXCEPT ![c] = [acc.clips[c] EXCEPT !.reads = reads]],
              !.free = n, !.starved = s, !.overflow = o]

LEMMA WithReadsIs ==
  ASSUME NEW acc \in Carried, NEW c \in Clip, NEW reads \in Reads, NEW n \in Nat,
         NEW s \in BOOLEAN, NEW o \in BOOLEAN
  PROVE  LET r == WithReads(acc, c, reads, n, s, o)
         IN  /\ r \in Carried
             /\ r.clips[c].reads = reads /\ r.clips[c].playing = acc.clips[c].playing
             /\ r.clips[c].frame = acc.clips[c].frame
             /\ \A d \in Clip : d # c => r.clips[d] = acc.clips[d]
             /\ r.free = n /\ r.starved = s /\ r.overflow = o
             /\ r.inStep = acc.inStep /\ r.heard = acc.heard
             /\ r.missed = acc.missed /\ r.first = acc.first /\ r.over = acc.over
<1> DEFINE clip == [acc.clips[c] EXCEPT !.reads = reads]
           C == [acc.clips EXCEPT ![c] = clip]
           r == [acc EXCEPT !.clips = C, !.free = n, !.starved = s, !.overflow = o]
<1>1. acc.clips \in [Clip -> ClipState] /\ acc.clips[c] \in ClipState
  BY DEF Carried
<1>2. /\ clip \in ClipState /\ clip.reads = reads
      /\ clip.playing = acc.clips[c].playing /\ clip.frame = acc.clips[c].frame
  BY <1>1 DEF ClipState
<1> HIDE DEF clip
<1>3. C \in [Clip -> ClipState] /\ C[c] = clip /\ \A d \in Clip : d # c => C[d] = acc.clips[d]
  BY <1>1, <1>2
<1> HIDE DEF C
<1>4. r \in Carried
  BY <1>3 DEF Carried
<1>5. /\ r.clips = C /\ r.free = n /\ r.starved = s /\ r.overflow = o
      /\ r.inStep = acc.inStep /\ r.heard = acc.heard
      /\ r.missed = acc.missed /\ r.first = acc.first /\ r.over = acc.over
  BY DEF Carried
<1> HIDE DEF r
<1>6. WithReads(acc, c, reads, n, s, o) = r
  BY DEF WithReads, r, C, clip
<1> QED BY <1>2, <1>3, <1>4, <1>5, <1>6

LEMMA WithReadsTwice ==
  ASSUME NEW acc \in Carried, NEW c \in Clip, NEW kept \in Reads, NEW n \in Nat,
         NEW s \in BOOLEAN, NEW o \in BOOLEAN, NEW reads \in Reads, NEW m \in Nat
  PROVE  WithReads(WithReads(acc, c, kept, n, s, o), c, reads, m, s, o)
           = WithReads(acc, c, reads, m, s, o)
<1> DEFINE old == acc.clips[c]
           mid == [old EXCEPT !.reads = kept]
           new == [old EXCEPT !.reads = reads]
           M == [acc.clips EXCEPT ![c] = mid]
           N == [acc.clips EXCEPT ![c] = new]
           base == [acc EXCEPT !.clips = M, !.free = n, !.starved = s, !.overflow = o]
<1>1. acc.clips \in [Clip -> ClipState] /\ old \in ClipState
  BY DEF Carried
<1>2. [mid EXCEPT !.reads = reads] = new
  BY <1>1 DEF ClipState
<1> HIDE DEF mid, new
<1>3. M[c] = mid /\ [M EXCEPT ![c] = new] = N
  BY <1>1
<1> HIDE DEF M, N
<1>4. base.clips = M
  BY DEF Carried
<1>5. [base EXCEPT !.clips = N, !.free = m, !.starved = s, !.overflow = o]
        = [acc EXCEPT !.clips = N, !.free = m, !.starved = s, !.overflow = o]
  BY DEF Carried
<1> HIDE DEF base
<1>6. WithReads(acc, c, kept, n, s, o) = base
  BY DEF WithReads, base, M, mid
<1>7. WithReads(base, c, reads, m, s, o)
        = [base EXCEPT !.clips = N, !.free = m, !.starved = s, !.overflow = o]
  BY <1>2, <1>3, <1>4 DEF WithReads
<1>8. WithReads(acc, c, reads, m, s, o)
        = [acc EXCEPT !.clips = N, !.free = m, !.starved = s, !.overflow = o]
  BY DEF WithReads, N, new
<1> QED BY <1>5, <1>6, <1>7, <1>8

\* A read that has just been asked for.
Asked(st) == [start |-> st.start, length |-> st.length, ready |-> FALSE, age |-> 0]

\* What becomes of a clip that reads ahead: only its reads change, and a read is
\* asked for if one is due and there are a slot and a request.
LEMMA ReadAheadIs ==
  ASSUME NEW acc \in Carried, NEW c \in Clip, NEW head \in Int,
         Fit(c, acc.clips[c].reads)
  PROVE  LET kept == KeptOf(c, head, acc.clips[c].reads)
             st == Stretch(c, head, kept)
         IN  \E reads \in Reads, n \in Nat, s \in BOOLEAN, o \in BOOLEAN :
               /\ ReadAheadOf(c, head, acc) = WithReads(acc, c, reads, n, s, o)
               /\ \/ st = None /\ reads = kept /\ s = acc.starved /\ o = acc.overflow
                  \/ st # None /\ o = TRUE /\ reads = kept /\ s = acc.starved
                       /\ \A t \in Slot : kept[t] # None
                  \/ st # None /\ s = TRUE /\ reads = kept /\ o = acc.overflow
                  \/ /\ st # None /\ s = acc.starved /\ o = acc.overflow
                     /\ \E t \in Slot : /\ kept[t] = None
                                        /\ reads = [kept EXCEPT ![t] = Asked(st)]
<1> DEFINE kept == KeptOf(c, head, acc.clips[c].reads)
           st == Stretch(c, head, kept)
           empty == {s \in Slot : kept[s] = None}
           base == [acc EXCEPT !.clips[c].reads = kept]
           r == ReadAheadOf(c, head, acc)
<1>1. /\ acc.clips \in [Clip -> ClipState] /\ acc.clips[c] \in ClipState
      /\ acc.clips[c].reads \in Reads /\ acc.free \in Nat
      /\ acc.starved \in BOOLEAN /\ acc.overflow \in BOOLEAN
  <2>1. acc.clips \in [Clip -> ClipState] /\ acc.clips[c] \in ClipState
    BY DEF Carried
  <2> QED BY <2>1 DEF Carried, ClipState
<1>2. kept \in Reads /\ Fit(c, kept)
  BY <1>1, KeptFit
<1>3. r = IF st = None THEN base
          ELSE IF empty = {} THEN [base EXCEPT !.overflow = TRUE]
          ELSE IF acc.free = 0 THEN [base EXCEPT !.starved = TRUE]
          ELSE [base EXCEPT !.clips[c].reads[Min(empty)] = Asked(st),
                            !.free = acc.free - 1]
  BY DEF ReadAheadOf, KeptOf, Asked
<1> SUFFICES \E reads \in Reads, n \in Nat, s \in BOOLEAN, o \in BOOLEAN :
               /\ r = WithReads(acc, c, reads, n, s, o)
               /\ \/ st = None /\ reads = kept /\ s = acc.starved /\ o = acc.overflow
                  \/ st # None /\ o = TRUE /\ reads = kept /\ s = acc.starved
                       /\ \A t \in Slot : kept[t] # None
                  \/ st # None /\ s = TRUE /\ reads = kept /\ o = acc.overflow
                  \/ /\ st # None /\ s = acc.starved /\ o = acc.overflow
                     /\ \E t \in Slot : /\ kept[t] = None
                                        /\ reads = [kept EXCEPT ![t] = Asked(st)]
  BY Zenon
<1> HIDE DEF kept, st, r
<1>4. base = [acc EXCEPT !.clips =
                [acc.clips EXCEPT ![c] = [acc.clips[c] EXCEPT !.reads = kept]]]
  BY DEF Carried
<1>5. /\ base = WithReads(acc, c, kept, acc.free, acc.starved, acc.overflow)
      /\ [base EXCEPT !.overflow = TRUE]
           = WithReads(acc, c, kept, acc.free, acc.starved, TRUE)
      /\ [base EXCEPT !.starved = TRUE]
           = WithReads(acc, c, kept, acc.free, TRUE, acc.overflow)
  BY <1>1, <1>4 DEF WithReads, Carried
<1>6. CASE st = None
  BY <1>1, <1>2, <1>3, <1>5, <1>6
<1>7. CASE st # None /\ empty = {}
  <2>1. \A t \in Slot : kept[t] # None
    BY <1>7
  <2>2. r = WithReads(acc, c, kept, acc.free, acc.starved, TRUE)
    BY <1>3, <1>5, <1>7
  <2> QED BY <1>1, <1>2, <1>7, <2>1, <2>2
<1>8. CASE st # None /\ empty # {} /\ acc.free = 0
  <2>2. r = WithReads(acc, c, kept, acc.free, TRUE, acc.overflow)
    BY <1>3, <1>5, <1>8
  <2> QED BY <1>1, <1>2, <1>8, <2>2
<1>9. CASE st # None /\ empty # {} /\ acc.free # 0
  <2> DEFINE t == Min(empty)
             reads == [kept EXCEPT ![t] = Asked(st)]
             taken == [base EXCEPT !.clips[c].reads[t] = Asked(st), !.free = acc.free - 1]
  <2>1. t \in Slot /\ kept[t] = None
    <3>1. empty \in SUBSET Nat /\ empty # {}
      BY <1>9 DEF Slot
    <3> QED BY <3>1, MinOf
  <2> HIDE DEF t
  <2>2. st \in [start : Nat, length : Nat]
    BY <1>2, <1>9, StretchIs DEF st
  <2>3. Asked(st) \in ReadOf
    BY <2>2 DEF Asked, ReadOf
  <2>4. reads \in Reads
    BY <1>2, <2>1, <2>3 DEF Reads
  <2>5. /\ base \in Carried /\ base.clips[c].reads = kept
        /\ base.clips = [acc.clips EXCEPT ![c] = [acc.clips[c] EXCEPT !.reads = kept]]
    <3>1. base = WithReads(acc, c, kept, acc.free, acc.starved, acc.overflow)
      BY <1>5
    <3>2. base.clips = [acc.clips EXCEPT ![c] = [acc.clips[c] EXCEPT !.reads = kept]]
      BY <1>4 DEF Carried
    <3> HIDE DEF base
    <3> QED BY <1>1, <1>2, <3>1, <3>2, WithReadsIs
  <2>6. acc.free - 1 \in Nat /\ r = taken
    BY <1>1, <1>3, <1>9 DEF t
  <2>7. taken = WithReads(base, c, reads, acc.free - 1, acc.starved, acc.overflow)
    <3>1. base.starved = acc.starved /\ base.overflow = acc.overflow
      BY <1>1, <1>2, <1>5, WithReadsIs
    <3> HIDE DEF base
    <3> QED BY <2>5, <3>1 DEF WithReads, Carried, ClipState
  <2>8. taken = WithReads(acc, c, reads, acc.free - 1, acc.starved, acc.overflow)
    <3>1. base = WithReads(acc, c, kept, acc.free, acc.starved, acc.overflow)
      BY <1>5
    <3> HIDE DEF base, taken, reads
    <3> QED BY <1>1, <1>2, <2>4, <2>7, <2>6, <3>1, WithReadsTwice
  <2>9. \E u \in Slot : kept[u] = None /\ reads = [kept EXCEPT ![u] = Asked(st)]
    BY <2>1
  <2>10. r = WithReads(acc, c, reads, acc.free - 1, acc.starved, acc.overflow)
    BY <2>6, <2>8
  <2> HIDE DEF reads
  <2> QED BY <1>1, <1>9, <2>4, <2>6, <2>9, <2>10
<1> QED BY <1>6, <1>7, <1>8, <1>9

AllFit(acc) == \A c \in Clip : Fit(c, acc.clips[c].reads)

\* A clip that reads ahead keeps its reads in order, and finds a slot for them.
LEMMA ReadsAhead ==
  ASSUME NEW acc \in Carried, NEW c \in Clip, NEW head \in Int, AllFit(acc)
  PROVE  LET r == ReadAheadOf(c, head, acc)
         IN  /\ r \in Carried /\ AllFit(r)
             /\ \A d \in Clip : d # c => r.clips[d] = acc.clips[d]
             /\ r.clips[c].playing = acc.clips[c].playing
             /\ r.clips[c].frame = acc.clips[c].frame
             /\ r.inStep = acc.inStep /\ r.heard = acc.heard
             /\ r.missed = acc.missed /\ r.first = acc.first /\ r.over = acc.over
             /\ NumReads >= 2 => r.overflow = acc.overflow
             /\ r.starved \/ ~acc.starved
             /\ Near(c, head, r.clips[c].reads)
<1> DEFINE kept == KeptOf(c, head, acc.clips[c].reads)
           st == Stretch(c, head, kept)
           r == ReadAheadOf(c, head, acc)
<1>1. Fit(c, acc.clips[c].reads) /\ acc.clips[c].reads \in Reads
  BY DEF AllFit, Carried, ClipState
<1>2. /\ kept \in Reads /\ Fit(c, kept)
      /\ \A s \in Slot : kept[s] # None => StillNeeded(c, head, kept[s])
  <2>1. /\ kept \in Reads /\ Fit(c, kept)
        /\ \A s \in Slot : kept[s] # None => /\ kept[s] = acc.clips[c].reads[s]
                                             /\ StillNeeded(c, head, acc.clips[c].reads[s])
    BY <1>1, KeptFit
  <2> HIDE DEF kept
  <2> QED BY <2>1
<1>3. PICK reads \in Reads, n \in Nat, s \in BOOLEAN, o \in BOOLEAN :
        /\ r = WithReads(acc, c, reads, n, s, o)
        /\ \/ st = None /\ reads = kept /\ s = acc.starved /\ o = acc.overflow
           \/ st # None /\ o = TRUE /\ reads = kept /\ s = acc.starved
                /\ \A t \in Slot : kept[t] # None
           \/ st # None /\ s = TRUE /\ reads = kept /\ o = acc.overflow
           \/ /\ st # None /\ s = acc.starved /\ o = acc.overflow
              /\ \E t \in Slot : /\ kept[t] = None
                                 /\ reads = [kept EXCEPT ![t] = Asked(st)]
  BY <1>1, ReadAheadIs
<1> HIDE DEF kept, r
<1>4. Fit(c, reads) /\ Near(c, head, reads)
  <2>1. CASE reads = kept
    BY <1>2, <2>1 DEF Near, StillNeeded
  <2>2. CASE reads # kept
    <3>1. PICK t \in Slot : /\ st # None /\ kept[t] = None
                            /\ reads = [kept EXCEPT ![t] = Asked(st)]
      BY <1>3, <2>2
    <3>2. /\ st \in [start : Nat, length : Nat] /\ Inside(c, st)
          /\ \A s1 \in Slot : kept[s1] # None => ReadEnd(kept[s1]) <= st.start
          /\ (\E s1 \in Slot : kept[s1] # None) =>
               \E s1 \in Slot : kept[s1] # None /\ ReadEnd(kept[s1]) = st.start
          /\ st.start <= FrameAt(c, head) + ReadAhead
      BY <1>2, <3>1, StretchIs
    <3>3. /\ Asked(st).start = st.start /\ Asked(st).length = st.length
          /\ Asked(st).age <= Delay
      BY Constants DEF Asked
    <3>4. Inside(c, Asked(st))
      BY <3>2, <3>3 DEF Inside, ReadEnd
    <3>5. \A s1 \in Slot : reads[s1] = IF s1 = t THEN Asked(st) ELSE kept[s1]
      BY <1>2, <3>1 DEF Reads
    <3>6. \A s1 \in Slot : kept[s1] # None => Apart(kept[s1], Asked(st))
                                              /\ Apart(Asked(st), kept[s1])
      BY <3>2, <3>3 DEF Apart
    <3>7. Asked(st) # None
      <4>1. Asked(st) \in ReadOf
        BY <3>2 DEF Asked, ReadOf
      <4> QED BY <4>1, Constants
    <3>8. Unbroken(reads)
      <4> SUFFICES ASSUME NEW s1 \in Slot, NEW s2 \in Slot, NEW f \in Int,
                          reads[s1] # None, reads[s2] # None,
                          reads[s1].start <= f, f < ReadEnd(reads[s2])
                   PROVE  \E u \in Slot : reads[u] # None /\ Holds(reads[u], f)
        BY DEF Unbroken
      <4>1. st.start \in Nat /\ ReadEnd(reads[s2]) = IF s2 = t THEN ReadEnd(Asked(st))
                                                       ELSE ReadEnd(kept[s2])
        BY <3>2, <3>5
      <4>2. CASE f >= st.start
        <5>1. s2 = t
          <6>1. ASSUME s2 # t PROVE FALSE
            <7>1. kept[s2] # None /\ ReadEnd(kept[s2]) \in Nat
              BY <1>2, <3>5, <6>1, ReadIs
            <7> QED BY <3>2, <4>1, <4>2, <6>1, <7>1
          <6> QED BY <6>1
        <5> QED BY <3>3, <3>5, <3>7, <4>1, <4>2, <5>1 DEF Holds
      <4>3. CASE ~(f >= st.start)
        <5>1. s1 # t /\ kept[s1] # None /\ reads[s1] = kept[s1]
          BY <3>3, <3>5, <4>3
        <5>2. PICK s3 \in Slot : kept[s3] # None /\ ReadEnd(kept[s3]) = st.start
          BY <3>2, <5>1
        <5>3. f < ReadEnd(kept[s3])
          BY <4>1, <4>3, <5>2
        <5>4. PICK u \in Slot : kept[u] # None /\ Holds(kept[u], f)
          BY <1>2, <5>1, <5>2, <5>3 DEF Fit, Unbroken
        <5>5. reads[u] = kept[u]
          BY <3>1, <3>5, <5>4
        <5> QED BY <5>4, <5>5
      <4> QED BY <4>2, <4>3
    <3>9. Near(c, head, reads)
      BY <1>2, <3>2, <3>3, <3>5 DEF Near, StillNeeded
    <3>10. Fit(c, reads)
      BY <1>2, <3>3, <3>4, <3>5, <3>6, <3>8 DEF Fit
    <3> QED BY <3>9, <3>10
  <2> QED BY <2>1, <2>2
<1>5. ASSUME NumReads >= 2, st # None PROVE \E t \in Slot : kept[t] = None
  BY <1>2, <1>5, SlotIsLeft
<1>6. NumReads >= 2 => o = acc.overflow
  BY <1>3, <1>5
<1>7. /\ r \in Carried
      /\ r.clips[c].reads = reads /\ r.clips[c].playing = acc.clips[c].playing
      /\ r.clips[c].frame = acc.clips[c].frame
      /\ \A d \in Clip : d # c => r.clips[d] = acc.clips[d]
      /\ r.overflow = o /\ r.starved = s
      /\ r.inStep = acc.inStep /\ r.heard = acc.heard
      /\ r.missed = acc.missed /\ r.first = acc.first /\ r.over = acc.over
  BY <1>3, WithReadsIs
<1>8. AllFit(r) /\ Near(c, head, r.clips[c].reads)
  BY <1>4, <1>7 DEF AllFit
<1>9. r.starved \/ ~acc.starved
  <2>1. s = acc.starved \/ s = TRUE
    BY <1>3
  <2> QED BY <1>7, <2>1
<1> QED BY <1>6, <1>7, <1>8, <1>9 DEF r

\* Unless it lacks a request, a clip that reads ahead has asked for what is in
\* sight, and goes on to hold what it has asked for before.
LEMMA ReadsAheadCovers ==
  ASSUME NEW acc \in Carried, NEW c \in Clip, NEW head \in Int, AllFit(acc),
         NumReads >= 2, ~ReadAheadOf(c, head, acc).starved,
         Near(c, head, acc.clips[c].reads),
         NEW f \in Int, InSight(c, f, head), NEW k \in Nat,
         k = 0 \/ Covered(acc.clips[c].reads, f, k)
  PROVE  Covered(ReadAheadOf(c, head, acc).clips[c].reads, f, k)
<1> DEFINE old == acc.clips[c].reads
           kept == KeptOf(c, head, old)
           st == Stretch(c, head, kept)
           r == ReadAheadOf(c, head, acc)
<1>1. Fit(c, old) /\ old \in Reads
  BY DEF AllFit, Carried, ClipState
<1>2. /\ kept \in Reads /\ Fit(c, kept)
      /\ \A s \in Slot : kept[s] # None => StillNeeded(c, head, kept[s])
  <2> HIDE DEF old
  <2>1. /\ kept \in Reads /\ Fit(c, kept)
        /\ \A s \in Slot : kept[s] # None => /\ kept[s] = old[s]
                                             /\ StillNeeded(c, head, old[s])
    BY <1>1, KeptFit
  <2> HIDE DEF kept
  <2> QED BY <2>1
<1>3. PICK reads \in Reads, n \in Nat, s \in BOOLEAN, o \in BOOLEAN :
        /\ r = WithReads(acc, c, reads, n, s, o)
        /\ \/ st = None /\ reads = kept /\ s = acc.starved /\ o = acc.overflow
           \/ st # None /\ o = TRUE /\ reads = kept /\ s = acc.starved
                /\ \A t \in Slot : kept[t] # None
           \/ st # None /\ s = TRUE /\ reads = kept /\ o = acc.overflow
           \/ /\ st # None /\ s = acc.starved /\ o = acc.overflow
              /\ \E t \in Slot : /\ kept[t] = None
                                 /\ reads = [kept EXCEPT ![t] = Asked(st)]
  BY <1>1, ReadAheadIs
<1>4. \A t \in Slot : old[t] # None /\ StillNeeded(c, head, old[t]) => kept[t] = old[t]
  BY DEF KeptOf
<1>5. k = 0 \/ Covered(old, f, k)
  OBVIOUS
<1>6. Near(c, head, old) /\ ~r.starved
  OBVIOUS
<1> SUFFICES Covered(r.clips[c].reads, f, k)
  OBVIOUS
<1> HIDE DEF kept, r, st, old
<1>7. r.clips[c].reads = reads /\ r.starved = s
  BY <1>3, WithReadsIs
<1>8. ASSUME st # None PROVE \E t \in Slot : kept[t] = None
  BY <1>2, <1>8, SlotIsLeft DEF st
<1>9. \/ st = None /\ reads = kept
      \/ /\ st # None
         /\ \E t \in Slot : kept[t] = None /\ reads = [kept EXCEPT ![t] = Asked(st)]
  BY <1>3, <1>6, <1>7, <1>8
<1>10. ASSUME st # None
       PROVE  /\ st.start \in Nat /\ Asked(st) # None
              /\ Asked(st).start = st.start /\ ReadEnd(Asked(st)) = ReadEnd(st)
              /\ Asked(st).age = 0
              /\ \A t \in Slot : kept[t] # None => ReadEnd(kept[t]) <= st.start
  <2>1. /\ st \in [start : Nat, length : Nat]
        /\ \A t \in Slot : kept[t] # None => ReadEnd(kept[t]) <= st.start
    BY <1>2, <1>10, StretchIs DEF st
  <2>2. Asked(st) \in ReadOf
    BY <2>1 DEF Asked, ReadOf
  <2>3. /\ Asked(st).start = st.start /\ Asked(st).length = st.length
        /\ Asked(st).age = 0
    BY DEF Asked
  <2> QED BY <2>1, <2>2, <2>3, Constants DEF ReadEnd
<1>11. \A t \in Slot : kept[t] # None => reads[t] = kept[t]
  BY <1>2, <1>9 DEF Reads
<1>12. CASE Covered(kept, f, k)
  <2>1. CASE \E t \in Slot : kept[t] # None /\ Holds(kept[t], f) /\ kept[t].age >= k
    BY <1>7, <1>11, <2>1 DEF Covered
  <2>2. CASE /\ \E t \in Slot : kept[t] # None
             /\ \A t \in Slot : kept[t] # None => f < kept[t].start
    <3>1. PICK t \in Slot : kept[t] # None
      BY <2>2
    <3>2. reads[t] # None
      BY <1>11, <3>1
    <3>3. kept[t].start \in Nat /\ ReadEnd(kept[t]) \in Nat
          /\ kept[t].start <= ReadEnd(kept[t]) /\ f < kept[t].start
      BY <1>2, <2>2, <3>1, ReadIs
    <3>4. st # None => f < Asked(st).start
      BY <1>10, <3>1, <3>3
    <3>5. \A u \in Slot : reads[u] # None => f < reads[u].start
      BY <1>2, <1>9, <2>2, <3>4 DEF Reads
    <3> QED BY <1>7, <3>2, <3>5 DEF Covered
  <2> QED BY <1>12, <2>1, <2>2 DEF Covered
<1>13. CASE ~Covered(kept, f, k)
  <2>1. k = 0
    <3> SUFFICES ASSUME Covered(old, f, k) PROVE FALSE
      BY <1>5
    <3>1. /\ FrameAt(c, head) \in Int /\ ReadAhead \in Nat
          /\ FrameAt(c, head) <= f /\ f < FrameAt(c, head) + ReadAhead
      BY Constants DEF FrameAt, InSight
    <3>2. \A t \in Slot : old[t] # None =>
            old[t].start \in Nat /\ old[t].length \in Nat /\ ReadEnd(old[t]) \in Nat
            /\ old[t].start <= ReadEnd(old[t])
      BY <1>1, ReadIs
    <3>3. ASSUME NEW t \in Slot, old[t] # None, Holds(old[t], f) PROVE kept[t] = old[t]
      <4>1. StillNeeded(c, head, old[t])
        BY <3>1, <3>2, <3>3 DEF StillNeeded, Holds
      <4> QED BY <1>4, <3>3, <4>1
    <3>4. ASSUME NEW t \in Slot, old[t] # None, f < old[t].start PROVE kept[t] = old[t]
      <4>1. StillNeeded(c, head, old[t])
        BY <1>6, <3>1, <3>2, <3>4 DEF StillNeeded, Near
      <4> QED BY <1>4, <3>4, <4>1
    <3>5. \A t \in Slot : kept[t] # None => kept[t] = old[t] /\ old[t] # None
      BY DEF kept, KeptOf
    <3> QED BY <1>13, <3>3, <3>4, <3>5 DEF Covered
  <2>2. st # None /\ Holds(st, f)
    BY <1>2, <1>13, <2>1, AsksForNext DEF st
  <2>3. PICK t \in Slot : kept[t] = None /\ reads = [kept EXCEPT ![t] = Asked(st)]
    BY <1>9, <2>2
  <2>4. reads[t] = Asked(st)
    BY <1>2, <2>3 DEF Reads
  <2>5. reads[t] # None /\ Holds(reads[t], f) /\ reads[t].age >= 0
    BY <1>10, <2>2, <2>4 DEF Holds
  <2> QED BY <1>7, <2>1, <2>5 DEF Covered
<1> QED BY <1>12, <1>13

-----------------------------------------------------------------------------
(* Recursive functions: prepare_to_play() and run() of a playlist, and the  *)
(* loop of a clip, which go on from one result to the next.                *)

\* A function that goes on from its result for the number before.
GoesOn(f, N, base, step) ==
  f = [n \in 0 .. N |-> IF n = 0 THEN base ELSE step[<<f[n - 1], n>>]]

\* There is one.
LEMMA Recursion ==
  ASSUME NEW N \in Nat, NEW base, NEW step
  PROVE  \E f : GoesOn(f, N, base, step)
<1> DEFINE IsFor(f, m) == /\ f = [n \in 0 .. m |-> f[n]]
                          /\ f[0] = base
                          /\ \A n \in 1 .. m : f[n] = step[<<f[n - 1], n>>]
           T == {m \in 0 .. N : \E f : IsFor(f, m)}
<1>1. 0 \in T
  <2> DEFINE f == [n \in 0 .. 0 |-> base]
  <2>1. f[0] = base /\ f = [n \in 0 .. 0 |-> f[n]]
    OBVIOUS
  <2> HIDE DEF f
  <2>2. IsFor(f, 0)
    BY <2>1
  <2> QED BY <2>2
<1>2. ASSUME NEW m \in 1 .. N, m - 1 \in T PROVE m \in T
  <2>1. PICK f : IsFor(f, m - 1)
    BY <1>2
  <2> DEFINE g == [n \in 0 .. m |-> IF n < m THEN f[n] ELSE step[<<f[m - 1], m>>]]
  <2>2. \A n \in 0 .. m - 1 : g[n] = f[n]
    OBVIOUS
  <2>3. g[m] = step[<<f[m - 1], m>>] /\ g = [n \in 0 .. m |-> g[n]]
    OBVIOUS
  <2> HIDE DEF g
  <2>4. g[0] = base
    BY <2>1, <2>2
  <2>5. \A n \in 1 .. m : g[n] = step[<<g[n - 1], n>>]
    <3>1. ASSUME NEW n \in 1 .. m PROVE g[n] = step[<<g[n - 1], n>>]
      <4>1. n - 1 \in 0 .. m - 1 /\ g[n - 1] = f[n - 1]
        BY <2>2
      <4>2. CASE n = m
        BY <2>3, <4>1, <4>2
      <4>3. CASE n # m
        <5>1. n \in 1 .. m - 1 /\ n \in 0 .. m - 1
          BY <4>3
        <5>2. f[n] = step[<<f[n - 1], n>>] /\ g[n] = f[n]
          BY <2>1, <2>2, <5>1
        <5> QED BY <4>1, <5>2
      <4> QED BY <4>2, <4>3
    <3> QED BY <3>1
  <2>6. IsFor(g, m)
    BY <2>3, <2>4, <2>5
  <2> HIDE DEF IsFor
  <2> QED BY <2>6
<1> HIDE DEF T
<1>3. N \in T
  BY <1>1, <1>2, UpTo
<1>4. PICK f : IsFor(f, N)
  BY <1>3 DEF T
<1>5. \A n \in 0 .. N : f[n] = IF n = 0 THEN base ELSE step[<<f[n - 1], n>>]
  BY <1>4
<1>6. f = [n \in 0 .. N |-> f[n]]
  BY <1>4
<1>7. [n \in 0 .. N |-> f[n]]
        = [n \in 0 .. N |-> IF n = 0 THEN base ELSE step[<<f[n - 1], n>>]]
  BY <1>5, Zenon
<1>8. f = [n \in 0 .. N |-> IF n = 0 THEN base ELSE step[<<f[n - 1], n>>]]
  BY <1>6, <1>7, Zenon
<1> QED BY <1>8, Zenon DEF GoesOn

\* With results of a kind, for each number.
LEMMA RecursionIn ==
  ASSUME NEW N \in Nat, NEW G, NEW base \in G[0], NEW step,
         \A n \in 1 .. N : \A a \in G[n - 1] : step[<<a, n>>] \in G[n]
  PROVE  \E f : /\ GoesOn(f, N, base, step)
                /\ \A n \in 0 .. N : f[n] \in G[n]
<1>1. PICK f : GoesOn(f, N, base, step)
  BY Recursion
<1>2. \A n \in 0 .. N : f[n] = IF n = 0 THEN base ELSE step[<<f[n - 1], n>>]
  BY <1>1, Zenon DEF GoesOn
<1> DEFINE T == {n \in 0 .. N : f[n] \in G[n]}
<1>3. 0 \in T
  <2>1. 0 \in 0 .. N
    OBVIOUS
  <2>2. f[0] = base
    BY <1>2, <2>1
  <2> QED BY <2>1, <2>2
<1>4. ASSUME NEW n \in 1 .. N, n - 1 \in T PROVE n \in T
  <2>1. n \in 0 .. N /\ n # 0
    OBVIOUS
  <2>2. f[n] = step[<<f[n - 1], n>>]
    BY <1>2, <2>1
  <2>3. f[n - 1] \in G[n - 1]
    BY <1>4
  <2>4. step[<<f[n - 1], n>>] \in G[n]
    BY <2>3
  <2> QED BY <2>1, <2>2, <2>4
<1> HIDE DEF T
<1>5. \A n \in 0 .. N : n \in T
  BY <1>3, <1>4, UpTo
<1>6. \A n \in 0 .. N : f[n] \in G[n]
  BY <1>5 DEF T
<1> QED BY <1>1, <1>6, Zenon

-----------------------------------------------------------------------------
(* prepare_to_play() of a playlist.                                        *)

\* A clip that is placed in its file.
Placed(acc, c, p, f) == [acc EXCEPT !.clips[c].playing = p, !.clips[c].frame = f]

LEMMA PlacedIs ==
  ASSUME NEW acc \in Carried, NEW c \in Clip, NEW p \in BOOLEAN, NEW f \in Int
  PROVE  LET r == Placed(acc, c, p, f)
         IN  /\ r \in Carried
             /\ r.clips[c].playing = p /\ r.clips[c].frame = f
             /\ r.clips[c].reads = acc.clips[c].reads
             /\ \A d \in Clip : d # c => r.clips[d] = acc.clips[d]
             /\ r.free = acc.free /\ r.starved = acc.starved
             /\ r.overflow = acc.overflow
             /\ r.inStep = acc.inStep /\ r.heard = acc.heard
             /\ r.missed = acc.missed /\ r.first = acc.first /\ r.over = acc.over
<1> DEFINE mid == [acc.clips[c] EXCEPT !.playing = p]
           clip == [mid EXCEPT !.frame = f]
           M == [acc.clips EXCEPT ![c] = mid]
           C == [acc.clips EXCEPT ![c] = clip]
           base == [acc EXCEPT !.clips = M]
           r == [acc EXCEPT !.clips = C]
<1>1. acc.clips \in [Clip -> ClipState] /\ acc.clips[c] \in ClipState
  BY DEF Carried
<1>2. /\ clip \in ClipState /\ clip.playing = p /\ clip.frame = f
      /\ clip.reads = acc.clips[c].reads
  BY <1>1 DEF ClipState
<1>3. Placed(acc, c, p, f) = r
  <2>1. M[c] = mid /\ [M EXCEPT ![c] = clip] = C
    <3> HIDE DEF mid, clip
    <3> QED BY <1>1
  <2>2. [acc EXCEPT !.clips[c].playing = p, !.clips[c].frame = f]
          = [base EXCEPT !.clips = [base.clips EXCEPT
                                      ![c] = [base.clips[c] EXCEPT !.frame = f]]]
    BY DEF Carried
  <2>3. base.clips = M
    BY DEF Carried
  <2>4. [base EXCEPT !.clips = C] = r
    <3> HIDE DEF M, C
    <3> QED BY DEF Carried
  <2> HIDE DEF base, r, M, C, mid
  <2>5. [mid EXCEPT !.frame = f] = clip
    OBVIOUS
  <2> HIDE DEF clip
  <2> QED BY <2>1, <2>2, <2>3, <2>4, <2>5 DEF Placed
<1> HIDE DEF clip
<1>4. C \in [Clip -> ClipState] /\ C[c] = clip /\ \A d \in Clip : d # c => C[d] = acc.clips[d]
  BY <1>1, <1>2
<1> HIDE DEF C
<1>5. /\ r \in Carried /\ r.clips = C /\ r.free = acc.free
      /\ r.starved = acc.starved /\ r.overflow = acc.overflow
      /\ r.inStep = acc.inStep /\ r.heard = acc.heard
      /\ r.missed = acc.missed /\ r.first = acc.first /\ r.over = acc.over
  BY <1>4 DEF Carried
<1> HIDE DEF r
<1> QED BY <1>2, <1>3, <1>4, <1>5

\* The results of a walk that has prepared the first n clips.
Readied(acc0, head, n) ==
  {acc \in Carried : /\ AllFit(acc)
                     /\ NumReads >= 2 => acc.overflow = acc0.overflow
                     /\ \A c \in 1 .. n : /\ ~acc.clips[c].playing
                                          /\ Near(c, head, acc.clips[c].reads)}

LEMMA PrepareReadies ==
  ASSUME NEW acc0, NEW head \in Int, NEW n \in Clip,
         NEW acc \in Readied(acc0, head, n - 1)
  PROVE  Prepare(head, acc, n) \in Readied(acc0, head, n)
<1> DEFINE f == FrameAt(n, head)
           p == FALSE
           base == Placed(acc, n, p, f)
           r == ReadAheadOf(n, head, base)
<1>1. f \in Int /\ acc \in Carried /\ Clip = 1 .. Len(Clips) /\ Len(Clips) \in Nat
  BY Constants DEF FrameAt, Readied
<1>2. r = Prepare(head, acc, n)
  BY DEF Prepare, Placed
<1>a. p \in BOOLEAN /\ ~p
  OBVIOUS
<1> HIDE DEF f, p
<1>3. /\ base \in Carried /\ base.overflow = acc.overflow
      /\ base.clips[n].playing = p /\ base.clips[n].reads = acc.clips[n].reads
      /\ \A d \in Clip : d # n => base.clips[d] = acc.clips[d]
  BY <1>1, <1>a, PlacedIs
<1> HIDE DEF base
<1>4. AllFit(base)
  BY <1>3 DEF AllFit, Readied
<1>5. /\ r \in Carried /\ AllFit(r)
      /\ \A d \in Clip : d # n => r.clips[d] = base.clips[d]
      /\ r.clips[n].playing = base.clips[n].playing
      /\ Near(n, head, r.clips[n].reads)
      /\ NumReads >= 2 => r.overflow = base.overflow
  BY <1>3, <1>4, ReadsAhead
<1> HIDE DEF r
<1>6. ASSUME NEW c \in 1 .. n
      PROVE  ~r.clips[c].playing /\ Near(c, head, r.clips[c].reads)
  <2>1. CASE c = n
    BY <1>a, <1>3, <1>5, <2>1
  <2>2. CASE c # n
    <3>1. c \in 1 .. n - 1 /\ c \in Clip
      BY <1>1, <2>2
    <3> QED BY <1>3, <1>5, <2>2, <3>1 DEF Readied
  <2> QED BY <2>1, <2>2
<1>7. NumReads >= 2 => r.overflow = acc0.overflow
  BY <1>3, <1>5 DEF Readied
<1> QED BY <1>2, <1>5, <1>6, <1>7 DEF Readied

\* What prepare_to_play() leaves: every clip is stopped, with its reads in order,
\* and those before the first to play are past.
LEMMA PreparedIs ==
  ASSUME NEW acc0 \in Carried, AllFit(acc0), NEW head \in Int
  PROVE  LET r == PreparedFrom(head, acc0)
         IN  /\ r \in Carried /\ AllFit(r)
             /\ NumReads >= 2 => r.overflow = acc0.overflow
             /\ \A c \in Clip : /\ ~r.clips[c].playing
                               /\ Near(c, head, r.clips[c].reads)
             /\ \A c \in Clip : c < r.first => End(c) <= head
<1> DEFINE N == Len(Clips)
           G == [n \in 0 .. N |-> Readied(acc0, head, n)]
           step == [p \in Carried \X (1 .. N) |-> Prepare(head, p[1], p[2])]
           ahead == {c \in DOMAIN Clips : End(c) > head} \cup {N + 1}
<1>1. N \in Nat /\ Clip = 1 .. N /\ \A n \in 1 .. N : n \in Clip /\ n - 1 \in 0 .. N
  BY Constants
<1>2. acc0 \in G[0]
  BY <1>1 DEF Readied
<1>3. \A n \in 1 .. N : \A a \in G[n - 1] : step[<<a, n>>] \in G[n]
  <2>1. ASSUME NEW n \in 1 .. N, NEW a \in G[n - 1] PROVE step[<<a, n>>] \in G[n]
    <3>1. a \in Readied(acc0, head, n - 1) /\ a \in Carried
      BY <1>1, <2>1 DEF Readied
    <3>2. step[<<a, n>>] = Prepare(head, a, n)
      BY <3>1
    <3>3. Prepare(head, a, n) \in Readied(acc0, head, n)
      BY <1>1, <3>1, PrepareReadies
    <3> QED BY <1>1, <3>2, <3>3
  <2> QED BY <2>1
<1>4. PICK f : GoesOn(f, N, acc0, step) /\ \A n \in 0 .. N : f[n] \in G[n]
  <2> HIDE DEF G, step, N
  <2> QED BY <1>1, <1>2, <1>3, RecursionIn
<1>5. \A n \in 0 .. N : f[n] \in Carried
  BY <1>4 DEF Readied
<1>6. f = [n \in 0 .. N |-> IF n = 0 THEN acc0 ELSE Prepare(head, f[n - 1], n)]
  <2>1. f = [n \in 0 .. N |-> IF n = 0 THEN acc0 ELSE step[<<f[n - 1], n>>]]
    BY <1>4 DEF GoesOn
  <2>2. \A n \in 0 .. N : (IF n = 0 THEN acc0 ELSE step[<<f[n - 1], n>>])
                            = IF n = 0 THEN acc0 ELSE Prepare(head, f[n - 1], n)
    <3>1. ASSUME NEW n \in 0 .. N, n # 0
          PROVE  step[<<f[n - 1], n>>] = Prepare(head, f[n - 1], n)
      <4>1. n \in 1 .. N /\ f[n - 1] \in Carried
        BY <1>1, <1>5, <3>1
      <4> QED BY <4>1
    <3> HIDE DEF step
    <3> QED BY <3>1
  <2> HIDE DEF step
  <2>3. [n \in 0 .. N |-> IF n = 0 THEN acc0 ELSE step[<<f[n - 1], n>>]]
          = [n \in 0 .. N |-> IF n = 0 THEN acc0 ELSE Prepare(head, f[n - 1], n)]
    BY <2>2, Zenon
  <2> QED BY <2>1, <2>3, Zenon
<1>7. PICK g : /\ g = [n \in 0 .. N |-> IF n = 0 THEN acc0 ELSE Prepare(head, g[n - 1], n)]
               /\ PreparedFrom(head, acc0) = [g[N] EXCEPT !.first = Min(ahead)]
  BY <1>6, Zenon DEF PreparedFrom
<1>8. \A n \in 0 .. N : g[n] = IF n = 0 THEN acc0 ELSE Prepare(head, g[n - 1], n)
  BY <1>7, Zenon
<1> DEFINE T == {n \in 0 .. N : g[n] \in Readied(acc0, head, n)}
<1>9. 0 \in T
  <2>1. 0 \in 0 .. N /\ g[0] = acc0
    BY <1>1, <1>8
  <2> QED BY <1>1, <1>2, <2>1
<1>10. ASSUME NEW n \in 1 .. N, n - 1 \in T PROVE n \in T
  <2>1. n \in 0 .. N /\ n # 0 /\ n \in Clip
    BY <1>1
  <2>2. g[n] = Prepare(head, g[n - 1], n)
    BY <1>8, <2>1
  <2>3. g[n - 1] \in Readied(acc0, head, n - 1)
    BY <1>10
  <2>4. Prepare(head, g[n - 1], n) \in Readied(acc0, head, n)
    BY <2>1, <2>3, PrepareReadies
  <2> QED BY <2>1, <2>2, <2>4
<1>11. g[N] \in Readied(acc0, head, N)
  <2> HIDE DEF T
  <2>1. \A n \in 0 .. N : n \in T
    BY <1>1, <1>9, <1>10, UpTo
  <2> QED BY <1>1, <2>1 DEF T
<1>12. Min(ahead) \in ahead /\ \A y \in ahead : Min(ahead) <= y
  <2>1. ahead \in SUBSET Nat /\ ahead # {}
    BY <1>1 DEF Clip
  <2> HIDE DEF ahead
  <2> QED BY <2>1, MinOf
<1>13. Min(ahead) \in Nat /\ \A c \in Clip : c < Min(ahead) => End(c) <= head
  <2>1. Min(ahead) \in Nat
    BY <1>1, <1>12 DEF Clip
  <2>2. ASSUME NEW c \in Clip, c < Min(ahead) PROVE End(c) <= head
    <3>1. c \in Nat /\ End(c) \in Nat
      BY <1>1, Constants
    <3>2. End(c) > head => c \in ahead
      BY DEF Clip
    <3> HIDE DEF ahead
    <3> QED BY <1>12, <2>1, <2>2, <3>1, <3>2
  <2> HIDE DEF ahead
  <2> QED BY <2>1, <2>2
<1> DEFINE m == Min(ahead)
           r == [g[N] EXCEPT !.first = m]
<1> HIDE DEF m, ahead
<1>14. /\ r \in Carried /\ r.clips = g[N].clips /\ r.overflow = g[N].overflow
       /\ r.first = m
  <2>1. g[N] \in Carried /\ m \in Nat
    BY <1>11, <1>13 DEF Readied, m
  <2> QED BY <2>1 DEF Carried
<1>15. r = PreparedFrom(head, acc0)
  BY <1>7 DEF m
<1> HIDE DEF r
<1>16. AllFit(r) /\ \A c \in Clip : /\ ~r.clips[c].playing
                                    /\ Near(c, head, r.clips[c].reads)
  BY <1>1, <1>11, <1>14 DEF Readied, AllFit
<1> QED BY <1>11, <1>13, <1>14, <1>15, <1>16 DEF Readied, m

-----------------------------------------------------------------------------
(* Clip::run().                                                            *)

\* What the loop of a clip carries.
Looped == [playing : BOOLEAN, frame : Int, out : Nat, done : BOOLEAN,
           heard : [Frame -> Int \cup {None}], missed : BOOLEAN, lost : BOOLEAN]

\* The clip is where the timeline has it, and what has been copied is what is due.
Timely(c, head, st) ==
  /\ ~st.done => /\ st.frame = FrameAt(c, head) + st.out
                 /\ Clips[c].start <= head + st.out
  /\ st.done /\ st.playing /\ ~st.lost =>
       /\ st.frame = FrameAt(c, head) + BufferSize
       /\ Clips[c].start <= head + BufferSize
  /\ \A i \in Frame : \/ st.heard[i] = Due(c, head + i)
                      \/ st.heard[i] = None /\ st.missed
                      \/ st.heard[i] = None /\ st.out <= i /\ ~st.done

\* The states of the loop after n times around it, in time if `timed'.
Around(c, head, timed, n) ==
  {st \in Looped : /\ st.out <= BufferSize
                   /\ st.done \/ st.out >= BufferSize \/ st.out >= n
                   /\ timed => Timely(c, head, st)}

LEMMA LoopedIs ==
  ASSUME NEW st \in Looped
  PROVE  /\ st.playing \in BOOLEAN /\ st.frame \in Int /\ st.out \in Nat
         /\ st.done \in BOOLEAN /\ st.missed \in BOOLEAN /\ st.lost \in BOOLEAN
         /\ st.heard \in [Frame -> Int \cup {None}]
BY DEF Looped

\* A copy from a read that holds the frame of the clip.
LEMMA CopiedIs ==
  ASSUME NEW st \in Looped, st.out < BufferSize, NEW r, r.start \in Nat, r.length \in Nat,
         ReadEnd(r) = r.start + r.length, r.start <= st.frame, st.frame < ReadEnd(r)
  PROVE  LET t == Copied(st, r)
         IN  \E n \in Nat :
               /\ n >= 1 /\ st.out + n <= BufferSize /\ st.frame + n <= ReadEnd(r)
               /\ t \in Looped /\ t.out = st.out + n /\ t.frame = st.frame + n
               /\ t.playing = st.playing /\ t.done = st.done
               /\ t.missed = st.missed /\ t.lost = st.lost
               /\ \A i \in Frame : t.heard[i] = IF st.out <= i /\ i <= st.out + n - 1
                                                THEN st.frame + i - st.out
                                                ELSE st.heard[i]
<1> DEFINE n == Min({BufferSize - st.out, ReadEnd(r) - st.frame})
           h == [i \in Frame |-> IF i \in st.out .. st.out + n - 1
                                 THEN st.frame + i - st.out ELSE st.heard[i]]
           t == [st EXCEPT !.out = st.out + n, !.frame = st.frame + n, !.heard = h]
<1>1. /\ st.frame \in Int /\ st.out \in Nat /\ BufferSize \in Nat
      /\ st.heard \in [Frame -> Int \cup {None}]
  BY LoopedIs, Constants
<1>2. n = IF BufferSize - st.out <= ReadEnd(r) - st.frame
          THEN BufferSize - st.out ELSE ReadEnd(r) - st.frame
  <2>1. BufferSize - st.out \in Int /\ ReadEnd(r) - st.frame \in Int
    BY <1>1
  <2> QED BY <2>1, MinOfTwo
<1>3. n \in Nat /\ n >= 1 /\ st.out + n <= BufferSize /\ st.frame + n <= ReadEnd(r)
  BY <1>1, <1>2
<1>4. t = Copied(st, r)
  BY DEF Copied, Looped
<1> HIDE DEF n
<1>5. \A i \in Frame : i \in Int /\ h[i] = IF st.out <= i /\ i <= st.out + n - 1
                                           THEN st.frame + i - st.out ELSE st.heard[i]
  BY <1>1, <1>3 DEF Frame
<1>6. h \in [Frame -> Int \cup {None}]
  <2>1. \A i \in Frame : h[i] \in Int \cup {None}
    BY <1>1, <1>3, <1>5
  <2>2. h = [i \in Frame |-> h[i]]
    OBVIOUS
  <2> HIDE DEF h
  <2> QED BY <2>1, <2>2
<1> HIDE DEF h
<1>7. /\ t \in Looped /\ t.out = st.out + n /\ t.frame = st.frame + n /\ t.heard = h
      /\ t.playing = st.playing /\ t.done = st.done
      /\ t.missed = st.missed /\ t.lost = st.lost
  <2> DEFINE o == st.out + n
             f == st.frame + n
  <2>1. o \in Nat /\ f \in Int
    BY <1>1, <1>3
  <2> HIDE DEF o, f
  <2>2. LET u == [st EXCEPT !.out = o, !.frame = f, !.heard = h]
        IN  /\ u \in Looped /\ u.out = o /\ u.frame = f /\ u.heard = h
            /\ u.playing = st.playing /\ u.done = st.done
            /\ u.missed = st.missed /\ u.lost = st.lost
    BY <1>6, <2>1 DEF Looped
  <2> QED BY <2>2 DEF o, f
<1> HIDE DEF t
<1> QED BY <1>3, <1>4, <1>5, <1>7

LEMMA CopiedAround ==
  ASSUME NEW c \in Clip, NEW head \in Nat, NEW timed \in BOOLEAN, NEW n \in Nat,
         NEW st \in Looped, st.out < BufferSize, ~st.done, st.out >= n - 1,
         timed => Timely(c, head, st),
         NEW r, r.start \in Nat, r.length \in Nat, ReadEnd(r) = r.start + r.length,
         r.start <= st.frame, st.frame < ReadEnd(r), Inside(c, r)
  PROVE  Copied(st, r) \in Around(c, head, timed, n)
<1> DEFINE t == Copied(st, r)
<1>1. PICK m \in Nat :
        /\ m >= 1 /\ st.out + m <= BufferSize /\ st.frame + m <= ReadEnd(r)
        /\ t \in Looped /\ t.out = st.out + m /\ t.frame = st.frame + m
        /\ t.playing = st.playing /\ t.done = st.done
        /\ t.missed = st.missed /\ t.lost = st.lost
        /\ \A i \in Frame : t.heard[i] = IF st.out <= i /\ i <= st.out + m - 1
                                         THEN st.frame + i - st.out
                                         ELSE st.heard[i]
  BY CopiedIs
<1> HIDE DEF t
<1>2. /\ st.frame \in Int /\ st.out \in Nat /\ BufferSize \in Nat
      /\ Clips[c].start \in Nat /\ Clips[c].fileStart \in Nat /\ Clips[c].length \in Nat
  BY LoopedIs, Constants
<1>3. t.out <= BufferSize /\ (t.done \/ t.out >= BufferSize \/ t.out >= n)
  BY <1>1, <1>2
<1>4. ASSUME timed PROVE Timely(c, head, t)
  <2>1. /\ st.frame = FrameAt(c, head) + st.out /\ Clips[c].start <= head + st.out
        /\ \A i \in Frame : \/ st.heard[i] = Due(c, head + i)
                            \/ st.heard[i] = None /\ st.missed
                            \/ st.heard[i] = None /\ st.out <= i
    BY <1>4 DEF Timely
  <2>2. t.frame = FrameAt(c, head) + t.out /\ Clips[c].start <= head + t.out
    BY <1>1, <1>2, <2>1 DEF FrameAt
  <2>3. ASSUME NEW i \in Frame
        PROVE  \/ t.heard[i] = Due(c, head + i)
               \/ t.heard[i] = None /\ t.missed
               \/ t.heard[i] = None /\ t.out <= i
    <3>1. i \in Int
      BY <1>2 DEF Frame
    <3>2. CASE st.out <= i /\ i <= st.out + m - 1
      <4>1. t.heard[i] = st.frame + i - st.out
        BY <1>1, <3>2
      <4>2. /\ FrameAt(c, head) = head - Clips[c].start + Clips[c].fileStart
            /\ FrameAt(c, head + i) = head + i - Clips[c].start + Clips[c].fileStart
            /\ End(c) = Clips[c].start + Clips[c].length
            /\ FileEnd(c) = Clips[c].fileStart + Clips[c].length
        BY <1>2, <3>1 DEF FrameAt, End, FileEnd
      <4>3. Clips[c].start <= head + i /\ head + i < End(c)
        BY <1>1, <1>2, <2>1, <3>1, <3>2, <4>2 DEF Inside
      <4>4. t.heard[i] = FrameAt(c, head + i)
        BY <1>2, <2>1, <3>1, <4>1, <4>2
      <4> QED BY <4>3, <4>4 DEF Due
    <3>3. CASE ~(st.out <= i /\ i <= st.out + m - 1)
      <4>1. t.heard[i] = st.heard[i]
        BY <1>1, <3>3
      <4>2. st.out <= i => t.out <= i
        BY <1>1, <1>2, <3>1, <3>3
      <4> QED BY <1>1, <2>1, <4>1, <4>2
    <3> QED BY <3>2, <3>3
  <2> QED BY <1>1, <2>2, <2>3 DEF Timely
<1> QED BY <1>1, <1>3, <1>4 DEF Around, t

\* A buffer that has been given up.
LEMMA GivenUpAround ==
  ASSUME NEW c \in Clip, NEW head \in Nat, NEW timed \in BOOLEAN, NEW n \in Nat,
         NEW st \in Looped, st.out <= BufferSize, ~st.done, st.missed,
         timed => Timely(c, head, st)
  PROVE  GivenUp(st) \in Around(c, head, timed, n)
<1> DEFINE f == st.frame + BufferSize
           d == TRUE
           l == st.out > 0
           t == [st EXCEPT !.frame = f, !.done = d, !.lost = l]
<1>1. /\ st.frame \in Int /\ st.out \in Nat /\ BufferSize \in Nat
      /\ Clips[c].start \in Nat /\ Clips[c].fileStart \in Nat
  BY LoopedIs, Constants
<1>2. f \in Int /\ d \in BOOLEAN /\ l \in BOOLEAN /\ f = st.frame + BufferSize /\ d
      /\ (~l => st.out = 0)
  BY <1>1
<1>3. t = GivenUp(st)
  BY DEF GivenUp, Looped
<1> HIDE DEF f, d, l
<1>4. /\ t \in Looped /\ t.out = st.out /\ t.frame = f /\ t.heard = st.heard
      /\ t.playing = st.playing /\ t.done = d
      /\ t.missed = st.missed /\ t.lost = l
  BY <1>2 DEF Looped
<1> HIDE DEF t
<1>5. ASSUME timed PROVE Timely(c, head, t)
  <2>1. /\ st.frame = FrameAt(c, head) + st.out /\ Clips[c].start <= head + st.out
        /\ \A i \in Frame : \/ st.heard[i] = Due(c, head + i)
                            \/ st.heard[i] = None
    BY <1>5 DEF Timely
  <2>2. t.done /\ t.missed
    BY <1>2, <1>4
  <2>3. ~t.lost => /\ t.frame = FrameAt(c, head) + BufferSize
                   /\ Clips[c].start <= head + BufferSize
    BY <1>1, <1>2, <1>4, <2>1 DEF FrameAt
  <2>4. \A i \in Frame : \/ t.heard[i] = Due(c, head + i)
                         \/ t.heard[i] = None /\ t.missed
    BY <1>4, <2>1, <2>2
  <2> QED BY <2>2, <2>3, <2>4 DEF Timely
<1>6. t.done /\ t.out <= BufferSize
  BY <1>2, <1>4
<1> QED BY <1>3, <1>4, <1>5, <1>6 DEF Around

\* Once around the loop.
LEMMA CopyStepAround ==
  ASSUME NEW c \in Clip, NEW head \in Nat, NEW timed \in BOOLEAN, NEW n \in Nat,
         n >= 1, NEW reads \in Reads, Fit(c, reads),
         NEW st \in Around(c, head, timed, n - 1)
  PROVE  CopyStep(c, reads, st) \in Around(c, head, timed, n)
<1> DEFINE here == {s \in Slot : /\ reads[s] # None
                                 /\ reads[s].start <= st.frame
                                 /\ st.frame < ReadEnd(reads[s])}
           later == {s \in Slot : /\ reads[s] # None
                                  /\ st.frame < reads[s].start
                                  /\ ReadEnd(reads[s])
                                       < st.frame + BufferSize - st.out}
           r == reads[Min(later)]
           mid == [st EXCEPT !.missed = TRUE]
           jumped == [st EXCEPT !.missed = TRUE,
                                !.out = @ + r.start - st.frame,
                                !.frame = r.start]
           ended == [st EXCEPT !.playing = FALSE, !.done = TRUE]
           t == CopyStep(c, reads, st)
<1>1. /\ st \in Looped /\ st.out <= BufferSize
      /\ st.done \/ st.out >= BufferSize \/ st.out >= n - 1
      /\ timed => Timely(c, head, st)
  BY DEF Around
<1>2. /\ st.frame \in Int /\ st.out \in Nat /\ BufferSize \in Nat
      /\ st.done \in BOOLEAN /\ st.heard \in [Frame -> Int \cup {None}]
      /\ Clips[c].start \in Nat /\ Clips[c].fileStart \in Nat /\ Clips[c].length \in Nat
  BY <1>1, LoopedIs, Constants
<1>3. \A s \in Slot : reads[s] # None =>
        /\ reads[s].start \in Nat /\ reads[s].length \in Nat
        /\ ReadEnd(reads[s]) = reads[s].start + reads[s].length
        /\ Inside(c, reads[s])
  BY ReadIs DEF Fit
<1>4. here \in SUBSET Nat /\ later \in SUBSET Nat
  BY DEF Slot
<1>5. t = IF st.done \/ st.out >= BufferSize THEN st
          ELSE IF st.frame >= FileEnd(c) THEN ended
          ELSE IF here # {} /\ reads[Min(here)].ready THEN Copied(st, reads[Min(here)])
          ELSE IF later = {} THEN GivenUp(mid)
          ELSE IF r.ready THEN Copied(jumped, r) ELSE GivenUp(jumped)
  BY DEF CopyStep
<1> SUFFICES t \in Around(c, head, timed, n)
  OBVIOUS
<1> HIDE DEF t
<1>6. CASE st.done \/ st.out >= BufferSize
  <2>1. t = st
    BY <1>5, <1>6
  <2> QED BY <1>1, <1>6, <2>1 DEF Around
<1>7. CASE ~(st.done \/ st.out >= BufferSize) /\ st.frame >= FileEnd(c)
  <2>1. t = ended
    BY <1>5, <1>7
  <2>2. /\ ended \in Looped /\ ended.done /\ ~ended.playing
        /\ ended.out = st.out /\ ended.heard = st.heard /\ ended.missed = st.missed
    BY <1>1 DEF Looped
  <2> HIDE DEF ended
  <2>3. ASSUME timed PROVE Timely(c, head, ended)
    <3>1. /\ st.frame = FrameAt(c, head) + st.out /\ Clips[c].start <= head + st.out
          /\ \A i \in Frame : \/ st.heard[i] = Due(c, head + i)
                              \/ st.heard[i] = None /\ st.missed
                              \/ st.heard[i] = None /\ st.out <= i
      BY <1>1, <1>7, <2>3 DEF Timely
    <3>2. ASSUME NEW i \in Frame, st.out <= i PROVE Due(c, head + i) = None
      <4>1. i \in Int
        BY <1>2 DEF Frame
      <4>2. ~(head + i < End(c))
        BY <1>2, <1>7, <3>1, <3>2, <4>1 DEF FrameAt, End, FileEnd
      <4> QED BY <4>2 DEF Due
    <3>3. \A i \in Frame : \/ ended.heard[i] = Due(c, head + i)
                           \/ ended.heard[i] = None /\ ended.missed
      BY <2>2, <3>1, <3>2
    <3> QED BY <2>2, <3>3 DEF Timely
  <2> QED BY <1>1, <2>1, <2>2, <2>3 DEF Around
<1>8. CASE /\ ~(st.done \/ st.out >= BufferSize) /\ ~(st.frame >= FileEnd(c))
           /\ here # {} /\ reads[Min(here)].ready
  <2> DEFINE q == reads[Min(here)]
  <2>1. Min(here) \in here
    <3> HIDE DEF here
    <3> QED BY <1>4, <1>8, MinOf
  <2>2. Min(here) \in Slot /\ q # None /\ q.start <= st.frame /\ st.frame < ReadEnd(q)
    BY <2>1
  <2>3. t = Copied(st, q)
    <3> HIDE DEF here, later, mid, jumped, r, ended
    <3> QED BY <1>5, <1>8
  <2>4. /\ q.start \in Nat /\ q.length \in Nat /\ ReadEnd(q) = q.start + q.length
        /\ Inside(c, q)
    BY <1>3, <2>2
  <2> HIDE DEF q
  <2>5. st.out < BufferSize /\ ~st.done /\ st.out >= n - 1
    BY <1>1, <1>2, <1>8
  <2> QED BY <1>1, <2>2, <2>3, <2>4, <2>5, CopiedAround
<1>9. CASE /\ ~(st.done \/ st.out >= BufferSize) /\ ~(st.frame >= FileEnd(c))
           /\ ~(here # {} /\ reads[Min(here)].ready) /\ later = {}
  <2>1. t = GivenUp(mid)
    <3> HIDE DEF here, later, mid, jumped, r, ended
    <3> QED BY <1>5, <1>9
  <2>2. /\ mid \in Looped /\ mid.missed /\ mid.out = st.out /\ mid.done = st.done
        /\ mid.heard = st.heard /\ mid.frame = st.frame
        /\ mid.playing = st.playing /\ mid.lost = st.lost
    BY <1>1 DEF Looped
  <2> HIDE DEF mid
  <2>3. timed => Timely(c, head, mid)
    BY <1>1, <2>2 DEF Timely
  <2> QED BY <1>1, <1>9, <2>1, <2>2, <2>3, GivenUpAround
<1>10. CASE /\ ~(st.done \/ st.out >= BufferSize) /\ ~(st.frame >= FileEnd(c))
            /\ ~(here # {} /\ reads[Min(here)].ready) /\ later # {}
  <2> DEFINE o == st.out + r.start - st.frame
             f == r.start
  <2>1. Min(later) \in later
    <3> HIDE DEF later
    <3> QED BY <1>4, <1>10, MinOf
  <2>2. /\ Min(later) \in Slot /\ r # None /\ st.frame < r.start
        /\ ReadEnd(r) < st.frame + BufferSize - st.out
    BY <2>1
  <2>3. t = IF r.ready THEN Copied(jumped, r) ELSE GivenUp(jumped)
    <3> HIDE DEF here, later, mid, jumped, r, ended
    <3> QED BY <1>5, <1>10
  <2>4. /\ r.start \in Nat /\ r.length \in Nat /\ ReadEnd(r) = r.start + r.length
        /\ Inside(c, r)
    BY <1>3, <2>2
  <2> HIDE DEF r
  <2>5. /\ o \in Nat /\ f \in Int /\ o > st.out /\ o <= BufferSize /\ f = r.start
        /\ o < BufferSize
    BY <1>1, <1>2, <2>2, <2>4 DEF Inside
  <2>6. jumped = [st EXCEPT !.missed = TRUE, !.out = o, !.frame = f]
    BY DEF Looped
  <2> HIDE DEF jumped, o, f
  <2>7. /\ jumped \in Looped /\ jumped.missed /\ jumped.out = o /\ jumped.frame = f
        /\ jumped.done = st.done /\ jumped.heard = st.heard
        /\ jumped.playing = st.playing /\ jumped.lost = st.lost
    BY <1>1, <2>5, <2>6 DEF Looped
  <2>8. ASSUME timed PROVE Timely(c, head, jumped)
    <3>1. /\ st.frame = FrameAt(c, head) + st.out /\ Clips[c].start <= head + st.out
          /\ \A i \in Frame : \/ st.heard[i] = Due(c, head + i)
                              \/ st.heard[i] = None
      BY <1>1, <1>10, <2>8 DEF Timely
    <3>2. /\ jumped.frame = FrameAt(c, head) + jumped.out
          /\ Clips[c].start <= head + jumped.out
      BY <1>2, <2>4, <2>5, <2>7, <3>1 DEF FrameAt, o
    <3>3. \A i \in Frame : \/ jumped.heard[i] = Due(c, head + i)
                           \/ jumped.heard[i] = None /\ jumped.missed
      BY <2>7, <3>1
    <3>4. ~jumped.done
      BY <1>10, <2>7
    <3> QED BY <3>2, <3>3, <3>4 DEF Timely
  <2>9. jumped.out < BufferSize /\ ~jumped.done /\ jumped.out >= n - 1
    BY <1>1, <1>2, <1>10, <2>5, <2>7
  <2>10. CASE r.ready
    <3>1. t = Copied(jumped, r)
      BY <2>3, <2>10
    <3>2. r.start <= jumped.frame /\ jumped.frame < ReadEnd(r)
      BY <2>4, <2>5, <2>7 DEF Inside
    <3> QED BY <2>4, <2>7, <2>8, <2>9, <3>1, <3>2, CopiedAround
  <2>11. CASE ~r.ready
    <3>1. t = GivenUp(jumped)
      BY <2>3, <2>11
    <3> QED BY <2>5, <2>7, <2>8, <2>9, <3>1, GivenUpAround
  <2> QED BY <2>10, <2>11
<1> HIDE DEF here, later
<1> QED BY <1>6, <1>7, <1>8, <1>9, <1>10

\* A clip that goes on where it was, or begins.
LEMMA EnteredAround ==
  ASSUME NEW c \in Clip, NEW head \in Nat, NEW timed \in BOOLEAN,
         NEW clip \in ClipState, clip.playing \/ ~(head + BufferSize < Clips[c].start),
         timed /\ clip.playing => /\ clip.frame = FrameAt(c, head)
                                  /\ Clips[c].start <= head
  PROVE  Entered(c, head, clip) \in Around(c, head, timed, 0)
<1> DEFINE quiet == [i \in Frame |-> None]
           yes == TRUE
           no == FALSE
           At(f, o) == [playing |-> yes, frame |-> f, out |-> o, done |-> no,
                        heard |-> quiet, missed |-> no, lost |-> no]
           t == Entered(c, head, clip)
<1>1. /\ clip.playing \in BOOLEAN /\ clip.frame \in Int /\ BufferSize \in Nat
      /\ BufferSize >= 1 /\ Clips[c].start \in Nat /\ Clips[c].fileStart \in Nat
      /\ Clips[c].length \in Nat
  BY Constants DEF ClipState
<1>2. quiet \in [Frame -> Int \cup {None}] /\ \A i \in Frame : quiet[i] = None
  OBVIOUS
<1>3. t = IF clip.playing THEN At(clip.frame, 0)
          ELSE IF head > Clips[c].start THEN At(FrameAt(c, head), 0)
          ELSE At(Clips[c].fileStart, Clips[c].start - head)
  <2> DEFINE f == clip.frame
             g == FrameAt(c, head)
             h == Clips[c].fileStart
             o == Clips[c].start - head
  <2>1. [At(f, 0) EXCEPT !.frame = g] = At(g, 0)
    <3> HIDE DEF yes, no, quiet, f, g
    <3> QED OBVIOUS
  <2>2. [[At(f, 0) EXCEPT !.frame = h] EXCEPT !.out = o] = At(h, o)
    <3> HIDE DEF yes, no, quiet, f, h, o
    <3>1. [At(f, 0) EXCEPT !.frame = h] = At(h, 0)
      OBVIOUS
    <3>2. [At(h, 0) EXCEPT !.out = o] = At(h, o)
      OBVIOUS
    <3> HIDE DEF At
    <3> QED BY <3>1, <3>2
  <2>3. t = IF clip.playing THEN At(f, 0)
            ELSE IF head > Clips[c].start THEN [At(f, 0) EXCEPT !.frame = g]
            ELSE [[At(f, 0) EXCEPT !.frame = h] EXCEPT !.out = o]
    BY Zenon DEF Entered
  <2> QED BY <2>1, <2>2, <2>3, Zenon
<1> HIDE DEF quiet
<1>4. ASSUME NEW f \in Int, NEW o \in Nat, o <= BufferSize,
             timed => /\ f = FrameAt(c, head) + o /\ Clips[c].start <= head + o
                      /\ o = 0 \/ Clips[c].start = head + o
      PROVE  At(f, o) \in Around(c, head, timed, 0)
  <2> DEFINE a == At(f, o)
  <2>1. /\ a \in Looped /\ a.playing /\ a.frame = f /\ a.out = o /\ ~a.done
        /\ a.heard = quiet /\ ~a.missed /\ ~a.lost
    BY <1>2 DEF Looped
  <2> HIDE DEF a
  <2>2. ASSUME timed PROVE Timely(c, head, a)
    <3>1. ASSUME NEW i \in Frame, ~(o <= i) PROVE Due(c, head + i) = None
      <4>1. i \in Int /\ 0 <= i
        BY <1>1 DEF Frame
      <4>2. ~(Clips[c].start <= head + i)
        BY <1>1, <1>4, <2>2, <3>1, <4>1
      <4> QED BY <4>2 DEF Due
    <3>2. \A i \in Frame : \/ a.heard[i] = Due(c, head + i)
                           \/ a.heard[i] = None /\ a.out <= i /\ ~a.done
      BY <1>2, <2>1, <3>1
    <3>3. a.frame = FrameAt(c, head) + a.out /\ Clips[c].start <= head + a.out
      BY <1>4, <2>1, <2>2
    <3> QED BY <2>1, <3>2, <3>3 DEF Timely
  <2>3. a \in Around(c, head, timed, 0)
    BY <1>4, <2>1, <2>2 DEF Around
  <2> QED BY <2>3 DEF a
<1> SUFFICES t \in Around(c, head, timed, 0)
  OBVIOUS
<1> HIDE DEF t, At
<1>5. /\ FrameAt(c, head) = head - Clips[c].start + Clips[c].fileStart
      /\ FrameAt(c, head) \in Int
  BY <1>1 DEF FrameAt
<1>6. CASE clip.playing
  <2>1. timed => /\ clip.frame = FrameAt(c, head) + 0 /\ Clips[c].start <= head + 0
    BY <1>1, <1>5, <1>6
  <2>2. 0 \in Nat /\ 0 <= BufferSize
    BY <1>1
  <2> QED BY <1>1, <1>3, <1>4, <1>6, <2>1, <2>2
<1>7. CASE ~clip.playing /\ head > Clips[c].start
  <2>1. FrameAt(c, head) = FrameAt(c, head) + 0 /\ Clips[c].start <= head + 0
    BY <1>1, <1>5, <1>7
  <2>2. 0 \in Nat /\ 0 <= BufferSize
    BY <1>1
  <2> QED BY <1>3, <1>4, <1>5, <1>7, <2>1, <2>2
<1>8. CASE ~clip.playing /\ ~(head > Clips[c].start)
  <2> DEFINE o == Clips[c].start - head
  <2>1. o \in Nat /\ o <= BufferSize /\ Clips[c].start = head + o
        /\ Clips[c].fileStart = FrameAt(c, head) + o /\ Clips[c].start <= head + o
    BY <1>1, <1>5, <1>8
  <2>2. t = At(Clips[c].fileStart, o)
    BY <1>3, <1>8
  <2> HIDE DEF o
  <2> QED BY <1>1, <1>4, <2>1, <2>2
<1> QED BY <1>6, <1>7, <1>8

\* What is heard of a clip is what is due, or is missing because it was missed.
Right(c, head, heard, missed) ==
  \A i \in Frame : \/ heard[i] = Due(c, head + i)
                   \/ heard[i] = None /\ missed

\* The whole loop.
LEMMA CopyingIs ==
  ASSUME NEW c \in Clip, NEW head \in Nat, NEW timed \in BOOLEAN,
         NEW clip \in ClipState, clip.playing \/ ~(head + BufferSize < Clips[c].start),
         timed /\ clip.playing => /\ clip.frame = FrameAt(c, head)
                                  /\ Clips[c].start <= head,
         Fit(c, clip.reads)
  PROVE  LET st == Copying(c, head, clip)
         IN  /\ st \in Looped
             /\ timed => Right(c, head, st.heard, st.missed)
             /\ timed /\ st.playing /\ ~st.lost =>
                  /\ st.frame = FrameAt(c, head + BufferSize)
                  /\ Clips[c].start <= head + BufferSize
<1> DEFINE N == BufferSize + 1
           base == Entered(c, head, clip)
           G == [n \in 0 .. N |-> Around(c, head, timed, n)]
           step == [p \in Looped \X (1 .. N) |-> CopyStep(c, clip.reads, p[1])]
<1>1. /\ N \in Nat /\ BufferSize \in Nat /\ clip.reads \in Reads
      /\ Clips[c].start \in Nat /\ Clips[c].fileStart \in Nat
      /\ \A n \in 1 .. N : n \in Nat /\ n >= 1 /\ n - 1 \in 0 .. N /\ n - 1 \in Nat
                           /\ n \in 0 .. N
  BY Constants DEF ClipState
<1>2. base \in G[0]
  BY <1>1, EnteredAround
<1>3. \A n \in 1 .. N : \A a \in Around(c, head, timed, n - 1) :
        /\ a \in Looped /\ CopyStep(c, clip.reads, a) \in Around(c, head, timed, n)
  <2>1. ASSUME NEW n \in 1 .. N, NEW a \in Around(c, head, timed, n - 1)
        PROVE  CopyStep(c, clip.reads, a) \in Around(c, head, timed, n)
    BY <1>1, CopyStepAround
  <2> QED BY <2>1 DEF Around
<1>4. \A n \in 1 .. N : \A a \in G[n - 1] : step[<<a, n>>] \in G[n]
  <2>1. ASSUME NEW n \in 1 .. N, NEW a \in G[n - 1] PROVE step[<<a, n>>] \in G[n]
    <3>1. a \in Around(c, head, timed, n - 1) /\ a \in Looped
      BY <1>1, <1>3, <2>1
    <3>2. step[<<a, n>>] = CopyStep(c, clip.reads, a)
      BY <3>1
    <3> QED BY <1>1, <1>3, <3>1, <3>2
  <2> QED BY <2>1
<1>5. PICK f : GoesOn(f, N, base, step) /\ \A n \in 0 .. N : f[n] \in G[n]
  <2> HIDE DEF G, step, N, base
  <2> QED BY <1>1, <1>2, <1>4, RecursionIn
<1>6. \A n \in 0 .. N : f[n] \in Looped
  BY <1>5 DEF Around
<1>7. f = [n \in 0 .. N |-> IF n = 0 THEN base ELSE CopyStep(c, clip.reads, f[n - 1])]
  <2>1. f = [n \in 0 .. N |-> IF n = 0 THEN base ELSE step[<<f[n - 1], n>>]]
    BY <1>5 DEF GoesOn
  <2>2. \A n \in 0 .. N : (IF n = 0 THEN base ELSE step[<<f[n - 1], n>>])
                            = IF n = 0 THEN base ELSE CopyStep(c, clip.reads, f[n - 1])
    <3>1. ASSUME NEW n \in 0 .. N, n # 0
          PROVE  step[<<f[n - 1], n>>] = CopyStep(c, clip.reads, f[n - 1])
      <4>1. n \in 1 .. N
        BY <1>1, <3>1
      <4>2. f[n - 1] \in Looped
        BY <1>1, <1>6, <4>1
      <4> QED BY <4>1, <4>2
    <3> HIDE DEF step, base
    <3> QED BY <3>1
  <2> HIDE DEF step, base
  <2>3. [n \in 0 .. N |-> IF n = 0 THEN base ELSE step[<<f[n - 1], n>>]]
          = [n \in 0 .. N |-> IF n = 0 THEN base ELSE CopyStep(c, clip.reads, f[n - 1])]
    BY <2>2, Zenon
  <2> QED BY <2>1, <2>3, Zenon
<1>8. PICK g : /\ g = [n \in 0 .. BufferSize + 1 |->
                         IF n = 0 THEN Entered(c, head, clip)
                                  ELSE CopyStep(c, clip.reads, g[n - 1])]
               /\ Copying(c, head, clip) = g[BufferSize + 1]
  BY <1>7, Zenon DEF Copying
<1>9. \A n \in 0 .. N : g[n] = IF n = 0 THEN base ELSE CopyStep(c, clip.reads, g[n - 1])
  BY <1>8, Zenon
<1> HIDE DEF base
<1> DEFINE T == {n \in 0 .. N : g[n] \in Around(c, head, timed, n)}
<1>10. 0 \in T
  <2>1. 0 \in 0 .. N /\ g[0] = base
    BY <1>1, <1>9
  <2> QED BY <1>2, <2>1
<1>11. ASSUME NEW n \in 1 .. N, n - 1 \in T PROVE n \in T
  <2>1. n \in 0 .. N /\ n # 0 /\ g[n - 1] \in Around(c, head, timed, n - 1)
    BY <1>1, <1>11
  <2>2. g[n] = CopyStep(c, clip.reads, g[n - 1])
    BY <1>9, <2>1
  <2> QED BY <1>3, <2>1, <2>2
<1> DEFINE st == Copying(c, head, clip)
<1>12. st \in Around(c, head, timed, N)
  <2> HIDE DEF T, st
  <2>1. \A n \in 0 .. N : n \in T
    BY <1>1, <1>10, <1>11, UpTo
  <2>2. g[N] \in Around(c, head, timed, N)
    BY <1>1, <2>1 DEF T
  <2> QED BY <1>8, <2>2 DEF st
<1> HIDE DEF st
<1>13. /\ st \in Looped /\ st.out \in Nat /\ st.frame \in Int
       /\ st.done \/ st.out = BufferSize
  BY <1>1, <1>12, LoopedIs DEF Around
<1>14. ASSUME timed PROVE Right(c, head, st.heard, st.missed)
  <2>1. \A i \in Frame : i < BufferSize /\ i \in Int
    BY <1>1 DEF Frame
  <2>2. \A i \in Frame : ~(st.out <= i /\ ~st.done)
    BY <1>1, <1>13, <2>1
  <2>3. Timely(c, head, st)
    BY <1>12, <1>14 DEF Around
  <2> QED BY <2>2, <2>3 DEF Timely, Right
<1>15. ASSUME timed, st.playing, ~st.lost
       PROVE  /\ st.frame = FrameAt(c, head + BufferSize)
              /\ Clips[c].start <= head + BufferSize
  <2>1. Timely(c, head, st)
    BY <1>12, <1>15 DEF Around
  <2>2. /\ st.frame = FrameAt(c, head) + BufferSize
        /\ Clips[c].start <= head + BufferSize
    BY <1>13, <1>15, <2>1 DEF Timely
  <2> QED BY <1>1, <2>2 DEF FrameAt
<1> QED BY <1>13, <1>14, <1>15 DEF st

\* A walk in which a clip has been heard.
HeardTo(acc, c, p, f, h, m, l, q) ==
  [acc EXCEPT !.clips[c].playing = p,
              !.clips[c].frame = f,
              !.heard[c] = h,
              !.missed = IF m THEN @ \cup {c} ELSE @,
              !.inStep = IF l THEN @ \ {c} ELSE IF q THEN @ ELSE @ \cup {c}]

\* What that leaves.
HasHeard(r, acc, c, p, f, h, m, l, q) ==
  /\ r \in Carried
  /\ r.clips[c].playing = p /\ r.clips[c].frame = f
  /\ r.clips[c].reads = acc.clips[c].reads
  /\ \A d \in Clip : d # c => /\ r.clips[d] = acc.clips[d]
                              /\ r.heard[d] = acc.heard[d]
                              /\ d \in r.missed <=> d \in acc.missed
                              /\ d \in r.inStep <=> d \in acc.inStep
  /\ r.overflow = acc.overflow /\ r.first = acc.first /\ r.over = acc.over
  /\ r.starved = acc.starved
  /\ r.heard[c] = h
  /\ c \in r.missed <=> (m \/ c \in acc.missed)
  /\ c \in r.inStep <=> ~l /\ (q => c \in acc.inStep)

LEMMA RunSets ==
  ASSUME NEW acc \in Carried, NEW c \in Clip, NEW p \in BOOLEAN, NEW f \in Int,
         NEW h \in [Frame -> Int \cup {None}], NEW m \in BOOLEAN, NEW l \in BOOLEAN,
         NEW q \in BOOLEAN
  PROVE  HasHeard(HeardTo(acc, c, p, f, h, m, l, q), acc, c, p, f, h, m, l, q)
<1> DEFINE A == Placed(acc, c, p, f)
           H == [acc.heard EXCEPT ![c] = h]
           M == IF m THEN acc.missed \cup {c} ELSE acc.missed
           S == IF l THEN acc.inStep \ {c}
                ELSE IF q THEN acc.inStep ELSE acc.inStep \cup {c}
           r == [A EXCEPT !.heard = H, !.missed = M, !.inStep = S]
           t == HeardTo(acc, c, p, f, h, m, l, q)
<1>1. /\ A \in Carried
      /\ A.clips[c].playing = p /\ A.clips[c].frame = f
      /\ A.clips[c].reads = acc.clips[c].reads
      /\ \A d \in Clip : d # c => A.clips[d] = acc.clips[d]
      /\ A.free = acc.free /\ A.starved = acc.starved /\ A.overflow = acc.overflow
      /\ A.inStep = acc.inStep /\ A.heard = acc.heard
      /\ A.missed = acc.missed /\ A.first = acc.first /\ A.over = acc.over
  BY PlacedIs
<1>2. t = r
  <2> DEFINE B == [A EXCEPT !.heard[c] = h]
  <2>1. t = [B EXCEPT !.missed = M, !.inStep = S]
    BY Zenon DEF Placed, HeardTo
  <2>2. B = [A EXCEPT !.heard = H]
    <3> HIDE DEF A
    <3> QED BY <1>1
  <2> HIDE DEF t, A, B, M, S, H
  <2>3. [[A EXCEPT !.heard = H] EXCEPT !.missed = M, !.inStep = S] = r
    OBVIOUS
  <2> QED BY <2>1, <2>2, <2>3
<1>3. /\ H \in [Clip -> [Frame -> Int \cup {None}]] /\ H[c] = h
      /\ \A d \in Clip : d # c => H[d] = acc.heard[d]
  BY DEF Carried
<1>4. /\ M \in SUBSET Clip /\ (c \in M <=> (m \/ c \in acc.missed))
      /\ \A d \in Clip : d # c => (d \in M <=> d \in acc.missed)
  BY DEF Carried
<1>5. /\ S \in SUBSET Clip /\ (c \in S <=> ~l /\ (q => c \in acc.inStep))
      /\ \A d \in Clip : d # c => (d \in S <=> d \in acc.inStep)
  BY DEF Carried
<1> HIDE DEF A, H, M, S, t
<1>6. /\ r \in Carried /\ r.heard = H /\ r.missed = M /\ r.inStep = S
      /\ r.clips = A.clips /\ r.free = A.free /\ r.starved = A.starved
      /\ r.overflow = A.overflow /\ r.first = A.first /\ r.over = A.over
  BY <1>1, <1>3, <1>4, <1>5 DEF Carried
<1> HIDE DEF r
<1>7. HasHeard(t, acc, c, p, f, h, m, l, q)
  BY <1>1, <1>2, <1>3, <1>4, <1>5, <1>6 DEF HasHeard
<1> QED BY <1>7 DEF t

\* A clip that is on its way in time: it is where the timeline has it.
OnTime(c, head, clip) == /\ clip.frame = FrameAt(c, head)
                         /\ Clips[c].start <= head

\* A clip that is run, or is still ahead.
LEMMA RunClipIs ==
  ASSUME NEW acc \in Carried, NEW c \in Clip, NEW head \in Nat, NEW timed \in BOOLEAN,
         AllFit(acc), \A i \in Frame : acc.heard[c][i] = None,
         timed /\ c \in acc.inStep /\ acc.clips[c].playing => OnTime(c, head, acc.clips[c])
  PROVE  LET r == RunClip(c, head, acc)
         IN  /\ r \in Carried /\ AllFit(r)
             /\ \A d \in Clip : d # c => /\ r.clips[d] = acc.clips[d]
                                         /\ r.heard[d] = acc.heard[d]
                                         /\ d \in r.missed <=> d \in acc.missed
                                         /\ d \in r.inStep <=> d \in acc.inStep
             /\ r.overflow = acc.overflow /\ r.first = acc.first /\ r.over = acc.over
             /\ r.starved = acc.starved /\ r.clips[c].reads = acc.clips[c].reads
             /\ timed /\ c \in r.inStep =>
                  /\ Right(c, head, r.heard[c], c \in r.missed)
                  /\ r.clips[c].playing => OnTime(c, head + BufferSize, r.clips[c])
<1> DEFINE clip == acc.clips[c]
           st == Copying(c, head, clip)
           in == timed /\ (clip.playing => c \in acc.inStep)
           r == RunClip(c, head, acc)
<1>1. /\ clip \in ClipState /\ clip.playing \in BOOLEAN /\ clip.reads \in Reads
      /\ Fit(c, clip.reads) /\ in \in BOOLEAN
      /\ BufferSize \in Nat /\ BufferSize >= 1 /\ Clips[c].start \in Nat
  <2>1. clip \in ClipState
    BY DEF Carried
  <2> QED BY <2>1, Constants DEF AllFit, ClipState
<1>2. CASE ~clip.playing /\ head + BufferSize < Clips[c].start
  <2>1. r = acc
    BY <1>2 DEF RunClip
  <2>2. \A i \in Frame : Due(c, head + i) = None
    <3>1. \A i \in Frame : i \in Int /\ i < BufferSize
      BY <1>1 DEF Frame
    <3>2. \A i \in Frame : ~(Clips[c].start <= head + i)
      BY <1>1, <1>2, <3>1
    <3> QED BY <3>2 DEF Due
  <2>3. Right(c, head, acc.heard[c], c \in acc.missed)
    BY <2>2 DEF Right
  <2> HIDE DEF r
  <2>4. r.clips[c] = clip
    BY <2>1
  <2> QED BY <1>2, <2>1, <2>3, <2>4 DEF r
<1>3. CASE ~(~clip.playing /\ head + BufferSize < Clips[c].start)
  <2>1. clip.playing \/ ~(head + BufferSize < Clips[c].start)
    BY <1>1, <1>3
  <2>2. in /\ clip.playing => clip.frame = FrameAt(c, head) /\ Clips[c].start <= head
    BY <1>1 DEF OnTime
  <2>3. r = [acc EXCEPT
              !.clips[c].playing = st.playing,
              !.clips[c].frame = st.frame,
              !.heard[c] = st.heard,
              !.missed = IF st.missed THEN @ \cup {c} ELSE @,
              !.inStep = IF st.lost THEN @ \ {c}
                         ELSE IF clip.playing THEN @ ELSE @ \cup {c}]
    <3> HIDE DEF clip
    <3>1. r = IF ~clip.playing /\ head + BufferSize < Clips[c].start THEN acc
              ELSE [acc EXCEPT
                      !.clips[c].playing = st.playing,
                      !.clips[c].frame = st.frame,
                      !.heard[c] = st.heard,
                      !.missed = IF st.missed THEN @ \cup {c} ELSE @,
                      !.inStep = IF st.lost THEN @ \ {c}
                                 ELSE IF clip.playing THEN @ ELSE @ \cup {c}]
      BY Zenon DEF RunClip, clip
    <3> QED BY <1>3, <3>1, Zenon
  <2> HIDE DEF clip, in
  <2>4. /\ st \in Looped
        /\ in => Right(c, head, st.heard, st.missed)
        /\ in /\ st.playing /\ ~st.lost =>
             /\ st.frame = FrameAt(c, head + BufferSize)
             /\ Clips[c].start <= head + BufferSize
    BY <1>1, <2>1, <2>2, CopyingIs
  <2> HIDE DEF st, r
  <2>5. /\ r \in Carried
        /\ r.clips[c].playing = st.playing /\ r.clips[c].frame = st.frame
        /\ r.clips[c].reads = acc.clips[c].reads
        /\ \A d \in Clip : d # c => /\ r.clips[d] = acc.clips[d]
                                    /\ r.heard[d] = acc.heard[d]
                                    /\ d \in r.missed <=> d \in acc.missed
                                    /\ d \in r.inStep <=> d \in acc.inStep
        /\ r.overflow = acc.overflow /\ r.starved = acc.starved
        /\ r.first = acc.first /\ r.over = acc.over
        /\ r.heard[c] = st.heard
        /\ c \in r.missed <=> (st.missed \/ c \in acc.missed)
        /\ c \in r.inStep <=> ~st.lost /\ (clip.playing => c \in acc.inStep)
    <3> DEFINE p == st.playing
               f == st.frame
               h == st.heard
               m == st.missed
               l == st.lost
               q == clip.playing
    <3>1. /\ p \in BOOLEAN /\ f \in Int /\ h \in [Frame -> Int \cup {None}]
          /\ m \in BOOLEAN /\ l \in BOOLEAN /\ q \in BOOLEAN
      BY <1>1, <2>4, LoopedIs
    <3>2. r = HeardTo(acc, c, p, f, h, m, l, q)
      BY <2>3 DEF HeardTo
    <3> HIDE DEF p, f, h, m, l, q
    <3>3. HasHeard(r, acc, c, p, f, h, m, l, q)
      <4>1. HasHeard(HeardTo(acc, c, p, f, h, m, l, q), acc, c, p, f, h, m, l, q)
        BY <3>1, RunSets
      <4> QED BY <3>2, <4>1, Zenon
    <3> QED BY <3>3 DEF HasHeard, p, f, h, m, l, q
  <2>6. AllFit(r)
    BY <2>5 DEF AllFit
  <2>7. ASSUME timed, c \in r.inStep
        PROVE  /\ Right(c, head, r.heard[c], c \in r.missed)
               /\ r.clips[c].playing => OnTime(c, head + BufferSize, r.clips[c])
    <3>1. in /\ ~st.lost
      BY <2>5, <2>7 DEF in
    <3>2. \A i \in Frame : \/ st.heard[i] = Due(c, head + i)
                           \/ st.heard[i] = None /\ st.missed
      BY <2>4, <3>1 DEF Right
    <3>3. Right(c, head, r.heard[c], c \in r.missed)
      BY <2>5, <3>2 DEF Right
    <3>4. r.clips[c].playing => OnTime(c, head + BufferSize, r.clips[c])
      BY <2>4, <2>5, <3>1 DEF OnTime
    <3> QED BY <3>3, <3>4
  <2> QED BY <2>5, <2>6, <2>7 DEF r
<1> QED BY <1>2, <1>3

-----------------------------------------------------------------------------
(* Playlist::run().                                                        *)

\* What run() takes a playlist to be when it stops at the first clip beyond the
\* read-ahead point and goes on from the first that is not past: in order of
\* the beginnings and of the ends of its clips.  And it reads a buffer ahead.
InOrder == \A c, d \in Clip : c < d => /\ Clips[c].start <= Clips[d].start
                                       /\ End(c) <= End(d)
Keeping == InOrder /\ BufferSize <= ReadAhead + 1

\* A clip that has lost nothing and is not past is where the timeline has it.
StepInv == /\ \A c \in Clip : c \in inStep /\ clips[c].playing /\ c >= first =>
                                OnTime(c, playHead, clips[c])
           /\ \A c \in Clip : c < first => End(c) <= playHead

\* The read-ahead is long enough for reads that take some turns.
Reading == InOrder /\ NumReads >= 2 /\ (Delay + 1) * BufferSize <= ReadAhead

\* A frame that is in sight, and was k turns ago.
Wanted(c, f, k, head) == /\ Clips[c].fileStart <= f /\ f < FileEnd(c)
                         /\ FrameAt(c, head) <= f
                         /\ f + k * BufferSize < FrameAt(c, head) + ReadAhead

\* What was in sight some turns ago was asked for then, if nothing was in the way.
AskedInv == ~starved /\ ~behind =>
              \A c \in Clip, k \in 1 .. since, f \in Int :
                Wanted(c, f, k, playHead) => Covered(clips[c].reads, f, k)

\* The state of the engine when it runs the playlist.
TypeInv == /\ playHead \in Nat /\ playStart \in Nat
           /\ since \in 0 .. Delay /\ behind \in BOOLEAN
           /\ first \in Nat /\ clips \in [Clip -> ClipState] /\ free \in Nat
           /\ starved \in BOOLEAN /\ overflow \in BOOLEAN /\ inStep \in SUBSET Clip
IInv == /\ TypeInv
        /\ \A c \in Clip : Fit(c, clips[c].reads)
        /\ NumReads >= 2 => ~overflow
        /\ Keeping => StepInv
        /\ \A c \in Clip : Near(c, playHead, clips[c].reads)
        /\ Reading => AskedInv

\* The parts of a walk that has visited n clips: those to come are as they were,
\* those behind are heard right and are where the next turn wants them, and what
\* they need has been asked for.
Ahead(acc, c) == /\ acc.clips[c].playing = clips[c].playing
                 /\ acc.clips[c].frame = clips[c].frame
                 /\ \A i \in Frame : acc.heard[c][i] = None
                 /\ c \in acc.inStep <=> c \in inStep
Behind(acc, c) == c \in acc.inStep =>
                    /\ Right(c, playHead, acc.heard[c], c \in acc.missed)
                    /\ acc.clips[c].playing /\ c >= acc.first =>
                         OnTime(c, playHead + BufferSize, acc.clips[c])
Beyond(d) == playHead + ReadAhead < Clips[d].start
Asks(acc, n) ==
  /\ acc.starved \/ ~starved
  /\ \A c \in Clip : Near(c, playHead, acc.clips[c].reads)
  /\ \A c \in Clip : c > n => acc.clips[c].reads = clips[c].reads
  /\ Reading /\ ~behind /\ ~acc.starved =>
       \A c \in Clip, k \in 0 .. since, f \in Int :
         c <= n /\ Wanted(c, f, k, playHead) => Covered(acc.clips[c].reads, f, k)
Walked(n) ==
  {acc \in Carried :
     /\ Asks(acc, n)
     /\ AllFit(acc) /\ acc.first >= first
     /\ NumReads >= 2 => acc.overflow = overflow
     /\ \A c \in Clip : c > n => Ahead(acc, c)
     /\ Keeping => /\ \A c \in Clip : c <= n => Behind(acc, c)
                   /\ \A c \in Clip : c < acc.first => End(c) <= playHead
                   /\ acc.over => \E d \in Clip : d <= n /\ Beyond(d)}

\* A clip that is past or far ahead is silent.
LEMMA NotDue ==
  ASSUME NEW c \in Clip, playHead \in Nat, BufferSize <= ReadAhead + 1,
         End(c) <= playHead \/ Beyond(c)
  PROVE  \A i \in Frame : Due(c, playHead + i) = None
<1>1. /\ BufferSize \in Nat /\ ReadAhead \in Nat /\ Clips[c].start \in Nat
      /\ End(c) \in Nat
  BY Constants
<1>2. \A i \in Frame : i \in Int /\ 0 <= i /\ i < BufferSize
  BY <1>1 DEF Frame
<1>3. \A i \in Frame : ~(Clips[c].start <= playHead + i /\ playHead + i < End(c))
  BY <1>1, <1>2 DEF Beyond
<1> QED BY <1>3 DEF Due

\* A clip that the walk leaves out, because it is past or beyond.
LEMMA LeftOut ==
  ASSUME NEW acc \in Carried, NEW c \in Clip, IInv, Keeping, Ahead(acc, c),
         acc.first >= first, c < first => End(c) <= playHead,
         c < first \/ Beyond(c)
  PROVE  Behind(acc, c)
<1>1. /\ playHead \in Nat /\ first \in Nat /\ acc.first \in Nat /\ c \in Nat
      /\ Clips[c].start \in Nat /\ ReadAhead \in Nat
  BY Constants DEF IInv, TypeInv, Carried
<1>2. \A i \in Frame : Due(c, playHead + i) = None
  BY <1>1, NotDue DEF Keeping
<1>3. Right(c, playHead, acc.heard[c], c \in acc.missed)
  BY <1>2 DEF Right, Ahead
<1>4. ASSUME c \in acc.inStep, acc.clips[c].playing, c >= acc.first PROVE FALSE
  <2>1. Beyond(c) /\ c >= first
    BY <1>1, <1>4
  <2>2. c \in inStep /\ clips[c].playing
    BY <1>4 DEF Ahead
  <2>3. OnTime(c, playHead, clips[c])
    BY <2>1, <2>2 DEF IInv, StepInv
  <2> QED BY <1>1, <2>1, <2>3 DEF OnTime, Beyond
<1> QED BY <1>3, <1>4 DEF Behind

\* When the walk is over, all that follows is beyond.
LEMMA OverIsBeyond ==
  ASSUME NEW n \in Clip, NEW acc \in Walked(n - 1), playHead \in Nat, Keeping, acc.over
  PROVE  Beyond(n)
<1>1. PICK d \in Clip : d <= n - 1 /\ Beyond(d)
  BY DEF Walked
<1>2. d \in Nat /\ n \in Nat /\ d < n
  BY <1>1, Constants
<1>3. Clips[d].start <= Clips[n].start
  BY <1>2 DEF Keeping, InOrder
<1>4. Clips[d].start \in Nat /\ Clips[n].start \in Nat /\ ReadAhead \in Nat
  BY Constants
<1> QED BY <1>1, <1>3, <1>4 DEF Beyond

\* Reads that take some turns need a read-ahead of more than one.
LEMMA ReadingKeeps == Reading => Keeping
<1>1. BufferSize \in Nat /\ Delay \in Nat /\ ReadAhead \in Nat
  BY Constants
<1>2. Delay * BufferSize \in Nat /\ (Delay + 1) * BufferSize = Delay * BufferSize + BufferSize
  BY <1>1
<1> DEFINE m == Delay * BufferSize
           n == (Delay + 1) * BufferSize
<1> HIDE DEF m, n
<1>3. m \in Nat /\ n = m + BufferSize
  BY <1>2 DEF m, n
<1>4. ASSUME Reading PROVE InOrder /\ n <= ReadAhead
  BY <1>4 DEF Reading, n
<1> QED BY <1>1, <1>3, <1>4 DEF Keeping

LEMMA WantedIs ==
  ASSUME NEW c \in Clip, NEW f \in Int, NEW k \in Nat, NEW head \in Nat,
         Wanted(c, f, k, head)
  PROVE  /\ InSight(c, f, head)
         /\ head < End(c) /\ ~(head + ReadAhead < Clips[c].start)
<1>1. /\ Clips[c].fileStart \in Nat /\ Clips[c].start \in Nat /\ Clips[c].length \in Nat
      /\ ReadAhead \in Nat /\ FrameAt(c, head) = head - Clips[c].start + Clips[c].fileStart
      /\ FileEnd(c) = Clips[c].fileStart + Clips[c].length
      /\ End(c) = Clips[c].start + Clips[c].length
  BY Constants DEF FrameAt, FileEnd, End
<1>2. k * BufferSize \in Nat
  BY Constants
<1>3. f < FrameAt(c, head) + ReadAhead
  <2> DEFINE m == k * BufferSize
  <2>1. m \in Nat /\ f + m < FrameAt(c, head) + ReadAhead
    BY <1>2 DEF Wanted
  <2> HIDE DEF m
  <2> QED BY <1>1, <2>1
<1> QED BY <1>1, <1>3 DEF Wanted, InSight

\* One clip of the walk asks for what it needs.
LEMMA VisitAsks ==
  ASSUME IInv, NEW n \in Clip, NEW acc \in Walked(n - 1)
  PROVE  Asks(Visit(playHead, acc, n), n)
<1> DEFINE ahead == ReadAheadOf(n, playHead, acc)
           next == n + 1
           yes == TRUE
           no == FALSE
           passed == IF playHead > End(n) THEN [ahead EXCEPT !.first = next] ELSE ahead
           v == Visit(playHead, acc, n)
<1>1. /\ playHead \in Nat /\ n \in Nat /\ acc \in Carried /\ next \in Nat
      /\ yes \in BOOLEAN /\ no \in BOOLEAN /\ ~no /\ first \in Nat
      /\ since \in 0 .. Delay /\ Delay \in Nat
      /\ AllFit(acc) /\ Asks(acc, n - 1) /\ Ahead(acc, n)
  BY Constants DEF IInv, TypeInv, Walked
<1>2. \A c \in Clip : /\ c \in Nat /\ End(c) \in Nat
                      /\ c # n => (c <= n <=> c <= n - 1)
                      /\ c > n => c > n - 1 /\ c # n
                      /\ n > n - 1
  BY <1>1, Constants
<1>3. /\ ahead \in Carried /\ AllFit(ahead)
      /\ \A d \in Clip : d # n => ahead.clips[d] = acc.clips[d]
      /\ ahead.heard = acc.heard /\ (ahead.starved \/ ~acc.starved)
      /\ Near(n, playHead, ahead.clips[n].reads)
  BY <1>1, ReadsAhead
<1>4. v = IF acc.over \/ n < first THEN acc
          ELSE IF playHead + ReadAhead < Clips[n].start
               THEN [passed EXCEPT !.over = yes]
          ELSE RunClip(n, playHead, passed)
  BY DEF Visit
<1>5. /\ acc.starved \/ ~starved
      /\ \A c \in Clip : Near(c, playHead, acc.clips[c].reads)
      /\ \A c \in Clip : c > n - 1 => acc.clips[c].reads = clips[c].reads
  BY <1>1 DEF Asks
<1>6. ASSUME Reading, ~behind, ~acc.starved,
             NEW c \in Clip, NEW k \in 0 .. since, NEW f \in Int,
             c <= n - 1, Wanted(c, f, k, playHead)
      PROVE  Covered(acc.clips[c].reads, f, k)
  BY <1>1, <1>6 DEF Asks
<1>7. CASE acc.over \/ n < first
  <2>1. v = acc
    BY <1>4, <1>7
  <2>2. ASSUME Reading, NEW k \in Nat, NEW f \in Int, Wanted(n, f, k, playHead)
        PROVE  FALSE
    <3>1. Keeping
      BY <2>2, ReadingKeeps
    <3>2. playHead < End(n) /\ ~Beyond(n)
      BY <1>1, <2>2, WantedIs DEF Beyond
    <3>3. n < first => End(n) <= playHead
      BY <3>1 DEF IInv, StepInv
    <3> QED BY <1>1, <1>2, <1>7, <3>1, <3>2, <3>3, OverIsBeyond
  <2>3. ASSUME Reading, ~behind, ~acc.starved,
               NEW c \in Clip, NEW k \in 0 .. since, NEW f \in Int,
               c <= n, Wanted(c, f, k, playHead)
        PROVE  Covered(acc.clips[c].reads, f, k)
    <3>1. k \in Nat
      OBVIOUS
    <3>2. c # n
      BY <2>2, <2>3, <3>1
    <3> QED BY <1>2, <1>6, <2>3, <3>2
  <2>4. \A c \in Clip : c > n => acc.clips[c].reads = clips[c].reads
    BY <1>2, <1>5
  <2>5. Asks(acc, n)
    BY <1>5, <2>3, <2>4 DEF Asks
  <2> HIDE DEF v
  <2> QED BY <2>1, <2>5 DEF v
<1>8. CASE ~(acc.over \/ n < first)
  <2> HIDE DEF ahead, next, yes, no, v
  <2>1. /\ passed \in Carried /\ passed.clips = ahead.clips
        /\ passed.heard = ahead.heard /\ passed.starved = ahead.starved
    BY <1>1, <1>3 DEF Carried
  <2> HIDE DEF passed
  <2>2. v.starved = ahead.starved /\ \A d \in Clip : v.clips[d].reads = ahead.clips[d].reads
    <3>1. CASE playHead + ReadAhead < Clips[n].start
      <4> DEFINE w == [passed EXCEPT !.over = yes]
      <4>1. v = w
        BY <1>4, <1>8, <3>1
      <4>2. w.clips = passed.clips /\ w.starved = passed.starved
        BY <1>1, <2>1 DEF Carried
      <4> HIDE DEF w
      <4> QED BY <2>1, <4>1, <4>2
    <3>2. CASE ~(playHead + ReadAhead < Clips[n].start)
      <4> DEFINE w == RunClip(n, playHead, passed)
      <4>1. v = w
        BY <1>4, <1>8, <3>2
      <4>2. AllFit(passed) /\ \A i \in Frame : passed.heard[n][i] = None
        BY <1>1, <1>3, <2>1 DEF AllFit, Ahead
      <4> HIDE DEF w
      <4>3. /\ \A d \in Clip : d # n => w.clips[d] = passed.clips[d]
            /\ w.starved = passed.starved /\ w.clips[n].reads = passed.clips[n].reads
        BY <1>1, <2>1, <4>2, RunClipIs DEF w
      <4> QED BY <2>1, <4>1, <4>3
    <3> QED BY <3>1, <3>2
  <2>3. v.starved \/ ~starved
    BY <1>3, <1>5, <2>2
  <2>4. \A c \in Clip : Near(c, playHead, v.clips[c].reads)
    BY <1>3, <1>5, <2>2
  <2>5. \A c \in Clip : c > n => v.clips[c].reads = clips[c].reads
    BY <1>2, <1>3, <1>5, <2>2
  <2>6. ASSUME Reading, ~behind, ~v.starved,
               NEW c \in Clip, NEW k \in 0 .. since, NEW f \in Int,
               c <= n, Wanted(c, f, k, playHead)
        PROVE  Covered(v.clips[c].reads, f, k)
    <3>1. ~ahead.starved /\ ~acc.starved /\ ~starved
      BY <1>3, <1>5, <2>2, <2>6
    <3>2. CASE c # n
      <4>1. Covered(acc.clips[c].reads, f, k)
        BY <1>2, <1>6, <2>6, <3>1, <3>2
      <4> QED BY <1>3, <2>2, <3>2, <4>1
    <3>3. CASE c = n
      <4>1. k \in Nat /\ (k = 0 \/ k \in 1 .. since) /\ Wanted(n, f, k, playHead)
        BY <1>1, <2>6, <3>3
      <4>2. k = 0 \/ Covered(acc.clips[n].reads, f, k)
        <5>1. AskedInv /\ acc.clips[n].reads = clips[n].reads
          BY <1>2, <1>5, <2>6 DEF IInv
        <5> QED BY <2>6, <3>1, <4>1, <5>1 DEF AskedInv
      <4>3. InSight(n, f, playHead)
        BY <1>1, <4>1, WantedIs
      <4>4. Near(n, playHead, acc.clips[n].reads) /\ NumReads >= 2 /\ playHead \in Int
        BY <1>1, <1>5, <2>6 DEF Reading
      <4>5. Covered(ahead.clips[n].reads, f, k)
        BY <1>1, <3>1, <4>1, <4>2, <4>3, <4>4, ReadsAheadCovers DEF ahead
      <4> QED BY <2>2, <3>3, <4>5
    <3> QED BY <3>2, <3>3
  <2>7. Asks(v, n)
    BY <2>3, <2>4, <2>5, <2>6 DEF Asks
  <2> QED BY <2>7 DEF v
<1> QED BY <1>7, <1>8

\* One clip of the walk.
LEMMA VisitWalks ==
  ASSUME IInv, NEW n \in Clip, NEW acc \in Walked(n - 1)
  PROVE  Visit(playHead, acc, n) \in Walked(n)
<1> DEFINE ahead == ReadAheadOf(n, playHead, acc)
           next == n + 1
           yes == TRUE
           passed == IF playHead > End(n) THEN [ahead EXCEPT !.first = next] ELSE ahead
           v == Visit(playHead, acc, n)
<1>0. Asks(v, n)
  BY VisitAsks
<1>1. /\ playHead \in Nat /\ first \in Nat /\ n \in Nat /\ n - 1 \in Int /\ acc \in Carried
      /\ acc.first \in Nat /\ Clip \subseteq Nat /\ next \in Nat /\ yes \in BOOLEAN
      /\ AllFit(acc) /\ acc.first >= first
      /\ \A c \in Clip : c > n - 1 => Ahead(acc, c)
      /\ Ahead(acc, n)
  <2>1. /\ acc \in Carried /\ AllFit(acc) /\ acc.first >= first
        /\ \A c \in Clip : c > n - 1 => Ahead(acc, c)
    BY DEF Walked
  <2>2. playHead \in Nat /\ first \in Nat /\ acc.first \in Nat
    BY <2>1 DEF IInv, TypeInv, Carried
  <2>3. Clip \subseteq Nat /\ n \in Nat /\ n - 1 \in Int /\ n > n - 1 /\ next \in Nat
    BY Constants
  <2> QED BY <2>1, <2>2, <2>3
<1>2. \A c \in Clip : /\ c \in Nat /\ End(c) \in Nat
                      /\ c <= n - 1 <=> c < n
                      /\ c > n - 1 <=> c >= n
                      /\ c # n => (c <= n <=> c <= n - 1)
                      /\ c <= n <=> c < next
  BY <1>1, Constants
<1>3. /\ ahead \in Carried /\ AllFit(ahead)
      /\ \A d \in Clip : d # n => ahead.clips[d] = acc.clips[d]
      /\ ahead.clips[n].playing = acc.clips[n].playing
      /\ ahead.clips[n].frame = acc.clips[n].frame
      /\ ahead.inStep = acc.inStep /\ ahead.heard = acc.heard
      /\ ahead.missed = acc.missed /\ ahead.first = acc.first /\ ahead.over = acc.over
      /\ NumReads >= 2 => ahead.overflow = acc.overflow
  BY <1>1, ReadsAhead
<1>4. v = IF acc.over \/ n < first THEN acc
          ELSE IF playHead + ReadAhead < Clips[n].start
               THEN [passed EXCEPT !.over = yes]
          ELSE RunClip(n, playHead, passed)
  BY DEF Visit
<1> HIDE DEF ahead, next, yes, v
<1>5. /\ passed \in Carried /\ passed.clips = ahead.clips /\ passed.heard = ahead.heard
      /\ passed.inStep = ahead.inStep /\ passed.missed = ahead.missed
      /\ passed.over = ahead.over /\ passed.overflow = ahead.overflow
      /\ passed.first = IF playHead > End(n) THEN next ELSE acc.first
  BY <1>1, <1>3 DEF Carried
<1> HIDE DEF passed
<1>6. /\ AllFit(passed) /\ passed.overflow = ahead.overflow
      /\ \A d \in Clip : d # n => passed.clips[d] = acc.clips[d]
      /\ passed.clips[n].playing = acc.clips[n].playing
      /\ passed.clips[n].frame = acc.clips[n].frame
      /\ passed.inStep = acc.inStep /\ passed.heard = acc.heard
      /\ passed.missed = acc.missed /\ passed.over = acc.over
      /\ passed.first \in Nat
      /\ NumReads >= 2 => passed.overflow = overflow
  BY <1>1, <1>3, <1>5 DEF AllFit, Walked
<1>7. Ahead(passed, n) /\ \A c \in Clip : c > n => Ahead(passed, c)
  <2>1. \A c \in Clip : c > n => c # n /\ c > n - 1
    BY <1>1, <1>2
  <2>2. ASSUME NEW c \in Clip, c >= n PROVE Ahead(passed, c)
    <3>1. Ahead(acc, c)
      BY <1>1, <1>2, <2>2
    <3> QED BY <1>6, <3>1 DEF Ahead
  <2> QED BY <1>1, <1>2, <2>2
<1>8. ASSUME ~(n < first) PROVE passed.first >= first
  BY <1>1, <1>2, <1>5, <1>8 DEF next
<1>9. ASSUME Keeping, ~(n < first), NEW c \in Clip, c < passed.first
       PROVE  End(c) <= playHead
  <2>1. CASE playHead > End(n)
    <3>1. c <= n
      BY <1>2, <1>5, <1>9, <2>1
    <3>2. c = n \/ c < n
      BY <1>1, <1>2, <3>1
    <3>3. End(c) <= End(n)
      BY <1>2, <1>9, <3>2 DEF Keeping, InOrder
    <3> QED BY <1>1, <1>2, <2>1, <3>3
  <2>2. CASE ~(playHead > End(n))
    BY <1>5, <1>9, <2>2 DEF Walked
  <2> QED BY <2>1, <2>2
<1>10. ASSUME Keeping, ~(n < first), NEW c \in Clip, c <= n, c # n
       PROVE  Behind(passed, c)
  <2>1. Behind(acc, c)
    BY <1>2, <1>10 DEF Walked
  <2>2. c >= passed.first => c >= acc.first
    BY <1>1, <1>2, <1>5, <1>10
  <2> QED BY <1>6, <1>10, <2>1, <2>2 DEF Behind
<1>11. CASE acc.over \/ n < first
  <2>1. v = acc
    BY <1>4, <1>11
  <2>2. \A c \in Clip : c > n => Ahead(acc, c)
    BY <1>1, <1>2
  <2>3. ASSUME Keeping PROVE Behind(acc, n)
    <3>1. n < first => End(n) <= playHead
      BY <2>3 DEF IInv, StepInv
    <3>2. acc.over => Beyond(n)
      BY <1>1, <2>3, OverIsBeyond
    <3>3. n < first => n < acc.first
      BY <1>1
    <3> QED BY <1>1, <1>11, <2>3, <3>1, <3>2, <3>3, LeftOut
  <2>4. ASSUME Keeping PROVE \A c \in Clip : c <= n => Behind(acc, c)
    <3>1. \A c \in Clip : c <= n /\ c # n => Behind(acc, c)
      BY <1>2, <2>4 DEF Walked
    <3> QED BY <2>3, <2>4, <3>1
  <2>5. ASSUME Keeping, acc.over PROVE \E d \in Clip : d <= n /\ Beyond(d)
    <3>1. PICK d \in Clip : d <= n - 1 /\ Beyond(d)
      BY <2>5 DEF Walked
    <3>2. d <= n
      BY <1>1, <1>2, <3>1
    <3> QED BY <3>1, <3>2
  <2> QED BY <1>0, <2>1, <2>2, <2>4, <2>5 DEF Walked, v
<1>12. CASE ~(acc.over \/ n < first) /\ playHead + ReadAhead < Clips[n].start
  <2> DEFINE w == [passed EXCEPT !.over = yes]
  <2>1. v = w
    BY <1>4, <1>12
  <2>2. /\ w \in Carried /\ w.clips = passed.clips /\ w.heard = passed.heard
        /\ w.inStep = passed.inStep /\ w.missed = passed.missed
        /\ w.first = passed.first /\ w.overflow = passed.overflow
    BY <1>1, <1>5 DEF Carried
  <2> HIDE DEF w
  <2>3. AllFit(w)
    BY <1>6, <2>2 DEF AllFit
  <2>4. Ahead(w, n) /\ \A c \in Clip : c > n => Ahead(w, c)
    BY <1>7, <2>2 DEF Ahead
  <2>5. ASSUME Keeping PROVE \A c \in Clip : c <= n => Behind(w, c)
    <3>1. \A c \in Clip : c <= n /\ c # n => Behind(w, c)
      BY <1>10, <1>12, <2>2, <2>5 DEF Behind
    <3>2. Beyond(n) /\ w.first >= first
      BY <1>8, <1>12, <2>2 DEF Beyond
    <3>3. Behind(w, n)
      BY <1>12, <2>2, <2>4, <2>5, <3>2, LeftOut
    <3> QED BY <3>1, <3>3
  <2>6. Beyond(n) /\ n <= n
    BY <1>1, <1>12 DEF Beyond
  <2>7. w.first >= first /\ (NumReads >= 2 => w.overflow = overflow)
    BY <1>6, <1>8, <1>12, <2>2
  <2>8. Keeping => \A c \in Clip : c < w.first => End(c) <= playHead
    BY <1>9, <1>12, <2>2
  <2> QED BY <1>0, <2>1, <2>2, <2>3, <2>4, <2>5, <2>6, <2>7, <2>8 DEF Walked, v
<1>13. CASE ~(acc.over \/ n < first) /\ ~(playHead + ReadAhead < Clips[n].start)
  <2> DEFINE w == RunClip(n, playHead, passed)
             timed == Keeping
  <2>1. v = w
    BY <1>4, <1>13
  <2>2. /\ \A i \in Frame : passed.heard[n][i] = None
        /\ timed /\ n \in passed.inStep /\ passed.clips[n].playing =>
             OnTime(n, playHead, passed.clips[n])
    <3>1. n >= first
      BY <1>1, <1>13
    <3>2. Keeping /\ n \in inStep /\ clips[n].playing => OnTime(n, playHead, clips[n])
      BY <3>1 DEF IInv, StepInv
    <3> QED BY <1>7, <3>2 DEF Ahead, OnTime
  <2>3. timed \in BOOLEAN
    BY DEF Keeping
  <2> HIDE DEF w, timed
  <2>4. /\ w \in Carried /\ AllFit(w)
        /\ \A d \in Clip : d # n => /\ w.clips[d] = passed.clips[d]
                                    /\ w.heard[d] = passed.heard[d]
                                    /\ d \in w.missed <=> d \in passed.missed
                                    /\ d \in w.inStep <=> d \in passed.inStep
        /\ w.overflow = passed.overflow /\ w.first = passed.first
        /\ w.over = passed.over
        /\ timed /\ n \in w.inStep =>
             /\ Right(n, playHead, w.heard[n], n \in w.missed)
             /\ w.clips[n].playing => OnTime(n, playHead + BufferSize, w.clips[n])
    <3>1. passed \in Carried /\ AllFit(passed) /\ playHead \in Nat
      BY <1>1, <1>5, <1>6
    <3> QED BY <2>2, <2>3, <3>1, RunClipIs DEF w
  <2>5. \A c \in Clip : c > n => Ahead(w, c)
    <3>1. \A c \in Clip : c > n => c # n
      BY <1>1, <1>2
    <3> QED BY <1>7, <2>4, <3>1 DEF Ahead
  <2>6. ASSUME Keeping, NEW c \in Clip, c <= n PROVE Behind(w, c)
    <3>1. CASE c = n
      BY <2>4, <2>6, <3>1 DEF Behind, timed
    <3>2. CASE c # n
      <4>1. Behind(passed, c)
        BY <1>10, <1>13, <2>6, <3>2
      <4>2. /\ w.clips[c] = passed.clips[c] /\ w.heard[c] = passed.heard[c]
            /\ c \in w.missed <=> c \in passed.missed
            /\ c \in w.inStep <=> c \in passed.inStep
            /\ w.first = passed.first
        BY <2>4, <3>2
      <4> QED BY <4>1, <4>2 DEF Behind, Right
    <3> QED BY <3>1, <3>2
  <2>7. w.first >= first /\ (NumReads >= 2 => w.overflow = overflow) /\ ~w.over
    BY <1>6, <1>8, <1>13, <2>4
  <2>8. Keeping => \A c \in Clip : c < w.first => End(c) <= playHead
    BY <1>9, <1>13, <2>4
  <2> QED BY <1>0, <2>1, <2>4, <2>5, <2>6, <2>7, <2>8 DEF Walked, v
<1> QED BY <1>11, <1>12, <1>13

\* The whole walk.
LEMMA MixedWalks == ASSUME IInv PROVE Mixed \in Walked(Len(Clips))
<1> DEFINE N == Len(Clips)
           G == [n \in 0 .. N |-> Walked(n)]
           step == [p \in Carried \X (1 .. N) |-> Visit(playHead, p[1], p[2])]
<1>1. N \in Nat /\ Clip = 1 .. N /\ \A n \in 1 .. N : n \in Clip /\ n - 1 \in 0 .. N
  BY Constants
<1>2. Acc \in G[0]
  <2> DEFINE yes == FALSE
             A == [clips |-> clips, free |-> free, starved |-> starved,
                   overflow |-> overflow, inStep |-> inStep, heard |-> Quiet,
                   missed |-> {}, first |-> first, over |-> yes]
  <2>1. A = Acc
    BY DEF Acc
  <2>2. Quiet \in [Clip -> [Frame -> Int \cup {None}]]
        /\ \A c \in Clip : \A i \in Frame : Quiet[c][i] = None
    BY DEF Quiet, Clip
  <2>3. yes \in BOOLEAN /\ ~yes
    OBVIOUS
  <2> HIDE DEF yes
  <2>4. /\ A \in Carried /\ A.clips = clips /\ A.inStep = inStep /\ A.heard = Quiet
        /\ A.first = first /\ A.overflow = overflow /\ A.over = yes
        /\ A.starved = starved
    BY <2>2, <2>3 DEF IInv, TypeInv, Carried
  <2> HIDE DEF A
  <2>5. AllFit(A) /\ A.first >= first
    BY <2>4 DEF AllFit, IInv, TypeInv
  <2>6. \A c \in Clip : Ahead(A, c)
    BY <2>2, <2>4 DEF Ahead
  <2>7. \A c \in Clip : ~(c <= 0)
    BY <1>1
  <2>8. Keeping => \A c \in Clip : c < A.first => End(c) <= playHead
    BY <2>4 DEF IInv, StepInv
  <2>9. Asks(A, 0)
    BY <2>4, <2>7 DEF Asks, IInv, TypeInv
  <2>10. A \in Walked(0)
    BY <2>3, <2>4, <2>5, <2>6, <2>7, <2>8, <2>9 DEF Walked
  <2> QED BY <1>1, <2>1, <2>10
<1>3. \A n \in 1 .. N : \A a \in Walked(n - 1) :
        a \in Carried /\ Visit(playHead, a, n) \in Walked(n)
  <2>1. ASSUME NEW n \in 1 .. N, NEW a \in Walked(n - 1)
        PROVE  Visit(playHead, a, n) \in Walked(n)
    BY <1>1, VisitWalks
  <2> QED BY <2>1 DEF Walked
<1>4. \A n \in 1 .. N : \A a \in G[n - 1] : step[<<a, n>>] \in G[n]
  <2>1. ASSUME NEW n \in 1 .. N, NEW a \in G[n - 1] PROVE step[<<a, n>>] \in G[n]
    <3>1. a \in Walked(n - 1) /\ a \in Carried
      BY <1>1, <1>3, <2>1
    <3>2. step[<<a, n>>] = Visit(playHead, a, n)
      BY <3>1
    <3> QED BY <1>1, <1>3, <3>1, <3>2
  <2> QED BY <2>1
<1>5. PICK f : GoesOn(f, N, Acc, step) /\ \A n \in 0 .. N : f[n] \in G[n]
  <2> HIDE DEF G, step, N
  <2> QED BY <1>1, <1>2, <1>4, RecursionIn
<1>6. \A n \in 0 .. N : f[n] \in Carried
  BY <1>5 DEF Walked
<1>7. f = [n \in 0 .. N |-> IF n = 0 THEN Acc ELSE Visit(playHead, f[n - 1], n)]
  <2>1. f = [n \in 0 .. N |-> IF n = 0 THEN Acc ELSE step[<<f[n - 1], n>>]]
    BY <1>5 DEF GoesOn
  <2>2. \A n \in 0 .. N : (IF n = 0 THEN Acc ELSE step[<<f[n - 1], n>>])
                            = IF n = 0 THEN Acc ELSE Visit(playHead, f[n - 1], n)
    <3>1. ASSUME NEW n \in 0 .. N, n # 0
          PROVE  step[<<f[n - 1], n>>] = Visit(playHead, f[n - 1], n)
      <4>1. n \in 1 .. N /\ f[n - 1] \in Carried
        BY <1>1, <1>6, <3>1
      <4> QED BY <4>1
    <3> HIDE DEF step
    <3> QED BY <3>1
  <2> HIDE DEF step
  <2>3. [n \in 0 .. N |-> IF n = 0 THEN Acc ELSE step[<<f[n - 1], n>>]]
          = [n \in 0 .. N |-> IF n = 0 THEN Acc ELSE Visit(playHead, f[n - 1], n)]
    BY <2>2, Zenon
  <2> QED BY <2>1, <2>3, Zenon
<1>8. PICK g : /\ g = [n \in 0 .. N |-> IF n = 0 THEN Acc ELSE Visit(playHead, g[n - 1], n)]
               /\ Mixed = g[N]
  BY <1>7, Zenon DEF Mixed
<1>9. \A n \in 0 .. N : g[n] = IF n = 0 THEN Acc ELSE Visit(playHead, g[n - 1], n)
  BY <1>8, Zenon
<1> DEFINE T == {n \in 0 .. N : g[n] \in Walked(n)}
<1>10. 0 \in T
  <2>1. 0 \in 0 .. N /\ g[0] = Acc
    BY <1>1, <1>9
  <2> QED BY <1>2, <2>1
<1>11. ASSUME NEW n \in 1 .. N, n - 1 \in T PROVE n \in T
  <2>1. n \in 0 .. N /\ n # 0 /\ g[n - 1] \in Walked(n - 1)
    BY <1>1, <1>11
  <2>2. g[n] = Visit(playHead, g[n - 1], n)
    BY <1>9, <2>1
  <2> QED BY <1>3, <2>1, <2>2
<1>12. \A n \in 0 .. N : n \in T
  <2> HIDE DEF T
  <2> QED BY <1>1, <1>10, <1>11, UpTo
<1> QED BY <1>1, <1>8, <1>12

-----------------------------------------------------------------------------
(* The engine.                                                             *)

\* Reads that differ in whether they are ready, or in age, are as apart.
Same(reads, others) ==
  \A s \in Slot :
    /\ others[s] # None <=> reads[s] # None
    /\ others[s] # None => /\ others[s].start = reads[s].start
                           /\ others[s].length = reads[s].length
                           /\ others[s].age <= Delay

LEMMA SameStretches ==
  ASSUME NEW c \in Clip, NEW reads \in Reads, NEW others \in Reads, Fit(c, reads),
         Same(reads, others)
  PROVE  /\ Fit(c, others)
         /\ \A head \in Int : Near(c, head, reads) => Near(c, head, others)
<1>1. \A s \in Slot : others[s] # None =>
        /\ reads[s] # None /\ others[s].start = reads[s].start
        /\ ReadEnd(others[s]) = ReadEnd(reads[s])
  BY DEF ReadEnd, Same
<1>2. \A s \in Slot : others[s] # None => Inside(c, others[s]) /\ others[s].age <= Delay
  BY <1>1 DEF Fit, Inside, Same
<1>3. \A s, t \in Slot : s # t /\ others[s] # None /\ others[t] # None =>
                           Apart(others[s], others[t])
  BY <1>1 DEF Fit, Apart
<1>4. Unbroken(others)
  <2> SUFFICES ASSUME NEW s \in Slot, NEW t \in Slot, NEW f \in Int,
                      others[s] # None, others[t] # None,
                      others[s].start <= f, f < ReadEnd(others[t])
               PROVE  \E u \in Slot : others[u] # None /\ Holds(others[u], f)
    BY DEF Unbroken
  <2>1. PICK u \in Slot : reads[u] # None /\ Holds(reads[u], f)
    BY <1>1 DEF Fit, Unbroken
  <2>2. others[u] # None
    BY <2>1 DEF Same
  <2> QED BY <1>1, <2>1, <2>2 DEF Holds
<1>5. \A head \in Int : Near(c, head, reads) => Near(c, head, others)
  BY <1>1 DEF Near
<1> QED BY <1>2, <1>3, <1>4, <1>5 DEF Fit

\* As they grow older, they cover what they covered.
LEMMA SameCovered ==
  ASSUME NEW reads \in Reads, NEW others \in Reads, Same(reads, others),
         NEW f \in Int, NEW k \in Nat, NEW m \in Nat,
         \A s \in Slot : others[s] # None /\ reads[s].age >= k => others[s].age >= m,
         Covered(reads, f, k)
  PROVE  Covered(others, f, m)
<1>1. \A s \in Slot : reads[s] # None =>
        /\ others[s] # None /\ others[s].start = reads[s].start
        /\ ReadEnd(others[s]) = ReadEnd(reads[s])
  BY DEF ReadEnd, Same
<1>2. CASE \E s \in Slot : reads[s] # None /\ Holds(reads[s], f) /\ reads[s].age >= k
  BY <1>1, <1>2 DEF Covered, Holds
<1>3. CASE /\ \E s \in Slot : reads[s] # None
           /\ \A s \in Slot : reads[s] # None => f < reads[s].start
  BY <1>1, <1>3 DEF Covered, Same
<1> QED BY <1>2, <1>3 DEF Covered

\* The play head moves on.
LEMMA NearLater ==
  ASSUME NEW c \in Clip, NEW head \in Nat, NEW later \in Nat, later >= head,
         NEW reads \in Reads, Near(c, head, reads)
  PROVE  Near(c, later, reads)
<1>1. /\ Clips[c].start \in Nat /\ Clips[c].fileStart \in Nat /\ ReadAhead \in Nat
  BY Constants
<1>2. FrameAt(c, head) \in Int /\ FrameAt(c, later) \in Int
      /\ FrameAt(c, head) <= FrameAt(c, later)
  BY <1>1 DEF FrameAt
<1>3. \A s \in Slot : reads[s] # None => reads[s].start \in Nat
  BY ReadIs
<1> QED BY <1>1, <1>2, <1>3 DEF Near

LEMMA WantedEarlier ==
  ASSUME NEW c \in Clip, NEW f \in Int, NEW k \in Nat, NEW head \in Nat,
         Wanted(c, f, k + 1, head + BufferSize)
  PROVE  Wanted(c, f, k, head)
<1> DEFINE m == k * BufferSize
           n == (k + 1) * BufferSize
<1>1. /\ Clips[c].start \in Nat /\ Clips[c].fileStart \in Nat /\ ReadAhead \in Nat
      /\ BufferSize \in Nat
  BY Constants
<1>2. m \in Nat /\ n = m + BufferSize
  BY <1>1
<1>3. f + n < FrameAt(c, head + BufferSize) + ReadAhead
  BY DEF Wanted
<1> HIDE DEF m, n
<1>4. FrameAt(c, head) \in Int /\ FrameAt(c, head + BufferSize) = FrameAt(c, head) + BufferSize
  BY <1>1 DEF FrameAt
<1>5. f + m < FrameAt(c, head) + ReadAhead
  BY <1>1, <1>2, <1>3, <1>4
<1>6. FrameAt(c, head) <= f
  BY <1>1, <1>4 DEF Wanted
<1> QED BY <1>5, <1>6 DEF Wanted, m

\* Where a command or a project has just prepared the playlist.
LEMMA PreparedInv ==
  ASSUME NEW acc0 \in Carried, AllFit(acc0), NEW head \in Nat, NEW start \in Nat,
         NumReads >= 2 => ~acc0.overflow
  PROVE  LET acc == PreparedFrom(head, acc0)
         IN  /\ acc.clips \in [Clip -> ClipState] /\ acc.free \in Nat
             /\ acc.first \in Nat /\ acc.starved \in BOOLEAN /\ acc.overflow \in BOOLEAN
             /\ \A c \in Clip : Fit(c, acc.clips[c].reads)
             /\ NumReads >= 2 => ~acc.overflow
             /\ \A c \in Clip : /\ ~acc.clips[c].playing
                               /\ Near(c, head, acc.clips[c].reads)
             /\ \A c \in Clip : c < acc.first => End(c) <= head
<1> DEFINE acc == PreparedFrom(head, acc0)
<1>1. /\ acc \in Carried /\ AllFit(acc)
      /\ NumReads >= 2 => acc.overflow = acc0.overflow
      /\ \A c \in Clip : /\ ~acc.clips[c].playing
                        /\ Near(c, head, acc.clips[c].reads)
      /\ \A c \in Clip : c < acc.first => End(c) <= head
  <2>1. head \in Int
    OBVIOUS
  <2> QED BY <2>1, PreparedIs
<1> HIDE DEF acc
<1>2. /\ acc.clips \in [Clip -> ClipState] /\ acc.free \in Nat
      /\ acc.first \in Nat /\ acc.starved \in BOOLEAN /\ acc.overflow \in BOOLEAN
  BY <1>1 DEF Carried
<1> QED BY <1>1, <1>2 DEF acc, AllFit

LEMMA InitInv == Init => IInv
<1> SUFFICES ASSUME Init PROVE IInv
  OBVIOUS
<1> DEFINE no == FALSE
           A == [clips |-> NewRead, free |-> PoolGoal, starved |-> no,
                 overflow |-> no, inStep |-> {}, heard |-> Quiet,
                 missed |-> {}, first |-> 1, over |-> no]
           acc == PreparedFrom(0, A)
<1>1. /\ clips = acc.clips /\ free = acc.free /\ first = acc.first
      /\ starved = acc.starved /\ overflow = acc.overflow
      /\ playHead = 0 /\ playStart = 0 /\ inStep = Clip
      /\ since = 0 /\ behind = no
  BY DEF Init, Clip
<1>2. /\ NewRead \in [Clip -> ClipState]
      /\ \A c \in Clip : \A s \in Slot : NewRead[c].reads[s] = None
  <2> DEFINE none == [s \in Slot |-> None]
             new == [playing |-> no, frame |-> 0, reads |-> none]
  <2>1. none \in Reads /\ \A s \in Slot : none[s] = None
    BY DEF Reads
  <2>2. no \in BOOLEAN /\ 0 \in Int
    OBVIOUS
  <2> HIDE DEF none, no
  <2>3. new \in ClipState /\ new.reads = none
    BY <2>1, <2>2 DEF ClipState
  <2>4. NewRead = [c \in Clip |-> new]
    BY DEF NewRead, Clip, none, no
  <2> HIDE DEF new
  <2> QED BY <2>1, <2>3, <2>4
<1>3. Quiet \in [Clip -> [Frame -> Int \cup {None}]]
  BY DEF Quiet, Clip
<1>4. no \in BOOLEAN /\ ~no /\ PoolGoal \in Nat /\ 1 \in Nat /\ 0 \in Nat
  BY Constants
<1> HIDE DEF no
<1>5. A \in Carried /\ A.clips = NewRead /\ A.overflow = no
  BY <1>2, <1>3, <1>4 DEF Carried
<1> HIDE DEF A
<1>6. AllFit(A)
  BY <1>2, <1>5 DEF AllFit, Fit, Unbroken
<1>7. /\ acc.clips \in [Clip -> ClipState] /\ acc.free \in Nat
      /\ acc.first \in Nat /\ acc.starved \in BOOLEAN /\ acc.overflow \in BOOLEAN
      /\ \A c \in Clip : Fit(c, acc.clips[c].reads)
      /\ NumReads >= 2 => ~acc.overflow
      /\ \A c \in Clip : ~acc.clips[c].playing /\ Near(c, 0, acc.clips[c].reads)
      /\ \A c \in Clip : c < acc.first => End(c) <= 0
  BY <1>4, <1>5, <1>6, PreparedInv
<1> HIDE DEF acc
<1>8. since \in 0 .. Delay /\ AskedInv
  BY <1>1, Constants DEF AskedInv
<1> QED BY <1>1, <1>4, <1>7, <1>8 DEF IInv, TypeInv, StepInv

\* A command leaves every clip stopped, and the first to play is not past.
LEMMA PrepareInv ==
  ASSUME IInv, PrepareToPlay, playHead' \in Nat, playStart' \in Nat
  PROVE  IInv'
<1> DEFINE A == [Acc EXCEPT !.starved = FALSE]
<1>1. PICK head \in Nat : head = playHead'
  OBVIOUS
<1>2. A \in Carried /\ AllFit(A) /\ (NumReads >= 2 => ~A.overflow)
  <2> DEFINE no == FALSE
             B == [clips |-> clips, free |-> free, starved |-> no,
                   overflow |-> overflow, inStep |-> inStep, heard |-> Quiet,
                   missed |-> {}, first |-> first, over |-> no]
             C == [clips |-> clips, free |-> free, starved |-> starved,
                   overflow |-> overflow, inStep |-> inStep, heard |-> Quiet,
                   missed |-> {}, first |-> first, over |-> no]
  <2>1. C = Acc
    BY DEF Acc
  <2>2. A = [C EXCEPT !.starved = no]
    BY <2>1
  <2>3. Quiet \in [Clip -> [Frame -> Int \cup {None}]] /\ no \in BOOLEAN
    BY DEF Quiet, Clip
  <2> HIDE DEF A, no
  <2>4. A = B
    BY <2>2
  <2>5. B \in Carried /\ B.clips = clips /\ B.overflow = overflow
    BY <2>3 DEF IInv, TypeInv, Carried
  <2> HIDE DEF B
  <2> QED BY <2>4, <2>5 DEF AllFit, IInv
<1>3. PICK acc0 \in Carried : acc0 = A /\ AllFit(acc0) /\ (NumReads >= 2 => ~acc0.overflow)
  <2> HIDE DEF A
  <2> QED BY <1>2
<1> DEFINE acc == PreparedFrom(head, acc0)
<1>4. /\ clips' = acc.clips /\ free' = acc.free /\ first' = acc.first
      /\ starved' = acc.starved /\ overflow' = acc.overflow /\ inStep' = Clip
      /\ since' = 0 /\ behind' = FALSE
  BY <1>1, <1>3 DEF PrepareToPlay, Clip
<1>5. /\ acc.clips \in [Clip -> ClipState] /\ acc.free \in Nat
      /\ acc.first \in Nat /\ acc.starved \in BOOLEAN /\ acc.overflow \in BOOLEAN
      /\ \A c \in Clip : Fit(c, acc.clips[c].reads)
      /\ NumReads >= 2 => ~acc.overflow
      /\ \A c \in Clip : ~acc.clips[c].playing /\ Near(c, head, acc.clips[c].reads)
      /\ \A c \in Clip : c < acc.first => End(c) <= head
  BY <1>3, PreparedInv
<1> HIDE DEF acc
<1>6. since' \in 0 .. Delay /\ behind' \in BOOLEAN /\ AskedInv'
  <2>1. 0 \in 0 .. Delay /\ \A k \in 1 .. 0 : FALSE
    BY Constants
  <2> QED BY <1>4, <2>1 DEF AskedInv
<1>7. \A c \in Clip : Near(c, playHead', clips'[c].reads)
  BY <1>1, <1>4, <1>5
<1>8. Keeping => StepInv'
  BY <1>1, <1>4, <1>5 DEF StepInv
<1>9. \A c \in Clip : Fit(c, clips'[c].reads)
  BY <1>4, <1>5
<1> QED BY <1>4, <1>5, <1>6, <1>7, <1>8, <1>9 DEF IInv, TypeInv

\* A turn of the playlist: the walk, and the reads grow older.
LEMMA RunInv ==
  ASSUME IInv, RunPlaylist, playHead' = playHead + BufferSize, playStart' = playStart
  PROVE  IInv'
<1> DEFINE N == Len(Clips)
           Older(r) == IF r = None \/ r.age = Delay THEN r ELSE [r EXCEPT !.age = @ + 1]
<1>1. PICK acc \in Walked(N) : acc = Mixed
  BY MixedWalks
<1>2. /\ acc \in Carried /\ AllFit(acc) /\ acc.clips \in [Clip -> ClipState]
      /\ acc.free \in Nat /\ acc.first \in Nat /\ acc.starved \in BOOLEAN
      /\ acc.overflow \in BOOLEAN /\ acc.inStep \in SUBSET Clip
  <2>1. acc \in Carried /\ AllFit(acc)
    BY DEF Walked
  <2> QED BY <2>1 DEF Carried
<1>3. /\ clips' = [c \in Clip |->
                     [acc.clips[c] EXCEPT
                        !.reads = [s \in Slot |-> Older(acc.clips[c].reads[s])]]]
      /\ free' = acc.free /\ first' = acc.first /\ starved' = acc.starved
      /\ overflow' = acc.overflow /\ inStep' = acc.inStep
      /\ since' = Min({Delay, since + 1}) /\ behind' = behind
  BY <1>1 DEF RunPlaylist, Clip
<1>4. ASSUME NEW c \in Clip
      PROVE  /\ clips'[c] \in ClipState
             /\ clips'[c].playing = acc.clips[c].playing
             /\ clips'[c].frame = acc.clips[c].frame
             /\ clips'[c].reads \in Reads /\ acc.clips[c].reads \in Reads
             /\ Fit(c, clips'[c].reads) /\ Same(acc.clips[c].reads, clips'[c].reads)
             /\ Near(c, playHead, clips'[c].reads)
             /\ \A s \in Slot : acc.clips[c].reads[s] # None =>
                  clips'[c].reads[s].age = IF acc.clips[c].reads[s].age = Delay THEN Delay
                                           ELSE acc.clips[c].reads[s].age + 1
  <2> DEFINE clip == acc.clips[c]
             older == [s \in Slot |-> Older(clip.reads[s])]
  <2>1. clip \in ClipState /\ clip.reads \in Reads /\ Fit(c, clip.reads)
    <3>1. clip \in ClipState
      BY <1>2
    <3> QED BY <1>2, <3>1 DEF ClipState, AllFit
  <2>2. \A r \in ReadOf : /\ Older(r) \in ReadOf
                          /\ Older(r).start = r.start /\ Older(r).length = r.length
                          /\ r.age \in Nat
                          /\ Older(r).age = IF r.age = Delay THEN Delay ELSE r.age + 1
    <3> SUFFICES ASSUME NEW r \in ReadOf
                 PROVE  /\ Older(r) \in ReadOf
                        /\ Older(r).start = r.start /\ Older(r).length = r.length
                        /\ r.age \in Nat
                        /\ Older(r).age = IF r.age = Delay THEN Delay ELSE r.age + 1
      BY Zenon
    <3>1. r # None /\ r.age \in Nat /\ r.age + 1 \in Nat
      BY Constants DEF ReadOf
    <3> DEFINE m == r.age + 1
               new == [r EXCEPT !.age = m]
    <3> HIDE DEF m
    <3>2. new \in ReadOf /\ new.start = r.start /\ new.length = r.length /\ new.age = m
      BY <3>1 DEF ReadOf, m
    <3>3. Older(r) = IF r.age = Delay THEN r ELSE new
      BY <3>1 DEF m
    <3> HIDE DEF Older, new
    <3> QED BY <3>1, <3>2, <3>3 DEF m
  <2>3. Older(None) = None
    OBVIOUS
  <2>4. clips'[c] = [clip EXCEPT !.reads = older]
    BY <1>3
  <2> HIDE DEF Older, clip
  <2>5. \A s \in Slot : older[s] = Older(clip.reads[s])
    OBVIOUS
  <2>6. older \in Reads
    <3>1. \A s \in Slot : Older(clip.reads[s]) \in ReadOf \cup {None}
      BY <2>1, <2>2, <2>3 DEF Reads
    <3> QED BY <3>1 DEF Reads
  <2> HIDE DEF older
  <2>7. /\ Same(clip.reads, older)
        /\ \A s \in Slot : clip.reads[s] # None =>
             older[s].age = IF clip.reads[s].age = Delay THEN Delay
                            ELSE clip.reads[s].age + 1
    <3>1. ASSUME NEW s \in Slot, clip.reads[s] = None PROVE older[s] = None
      BY <2>3, <2>5, <3>1
    <3>2. ASSUME NEW s \in Slot, clip.reads[s] # None
          PROVE  /\ older[s] # None
                 /\ older[s].start = clip.reads[s].start
                 /\ older[s].length = clip.reads[s].length
                 /\ older[s].age <= Delay
                 /\ older[s].age = IF clip.reads[s].age = Delay THEN Delay
                                   ELSE clip.reads[s].age + 1
      <4>1. clip.reads[s] \in ReadOf /\ clip.reads[s].age <= Delay
        BY <2>1, <3>2 DEF Fit, Reads
      <4>2. Delay \in Nat /\ None \notin ReadOf
        BY Constants
      <4> QED BY <2>2, <2>5, <4>1, <4>2
    <3> QED BY <3>1, <3>2 DEF Same
  <2>8. Fit(c, older) /\ Near(c, playHead, older)
    <3>1. Near(c, playHead, clip.reads) /\ playHead \in Int
      BY DEF Walked, Asks, IInv, TypeInv, clip
    <3> QED BY <2>1, <2>6, <2>7, <3>1, SameStretches
  <2>9. LET n == [clip EXCEPT !.reads = older]
        IN  /\ n \in ClipState /\ n.reads = older
            /\ n.playing = clip.playing /\ n.frame = clip.frame
    BY <2>1, <2>6 DEF ClipState
  <2> QED BY <2>1, <2>4, <2>6, <2>7, <2>8, <2>9 DEF clip
<1>5. clips' \in [Clip -> ClipState]
  <2>1. clips' = [c \in Clip |-> clips'[c]]
    BY <1>3
  <2> QED BY <1>4, <2>1
<1>6. /\ playHead' \in Nat /\ playStart' \in Nat /\ playHead \in Nat
      /\ playHead' >= playHead
  BY Constants DEF IInv, TypeInv
<1>7. NumReads >= 2 => ~overflow'
  BY <1>3 DEF Walked, IInv
<1>8. ASSUME Keeping PROVE StepInv'
  <2>1. ASSUME NEW c \in Clip, c \in inStep', clips'[c].playing, c >= first'
        PROVE  OnTime(c, playHead', clips'[c])
    <3>1. c <= N
      BY Constants
    <3>2. Behind(acc, c)
      BY <1>8, <3>1 DEF Walked
    <3>3. OnTime(c, playHead + BufferSize, acc.clips[c])
      BY <1>3, <1>4, <2>1, <3>2 DEF Behind
    <3> QED BY <1>4, <3>3 DEF OnTime
  <2>2. ASSUME NEW c \in Clip, c < first' PROVE End(c) <= playHead'
    <3>1. End(c) <= playHead /\ End(c) \in Nat
      BY <1>3, <1>8, <2>2, Constants DEF Walked
    <3> QED BY <1>6, <3>1
  <2> QED BY <2>1, <2>2 DEF StepInv
<1>9. /\ since' \in 0 .. Delay /\ since' <= since + 1 /\ since \in 0 .. Delay
      /\ behind' \in BOOLEAN /\ Delay \in Nat
  <2>1. since \in 0 .. Delay /\ behind \in BOOLEAN /\ Delay \in Nat
    BY Constants DEF IInv, TypeInv
  <2>2. since' = IF Delay <= since + 1 THEN Delay ELSE since + 1
    BY <1>3, <2>1, MinOfTwo
  <2> QED BY <1>3, <2>1, <2>2
<1>10. \A c \in Clip : Near(c, playHead', clips'[c].reads)
  BY <1>4, <1>6, NearLater
<1>11. ASSUME Reading PROVE AskedInv'
  <2> SUFFICES ASSUME ~starved', ~behind', NEW c \in Clip, NEW m \in 1 .. since',
                      NEW f \in Int, Wanted(c, f, m, playHead')
               PROVE  Covered(clips'[c].reads, f, m)
    BY DEF AskedInv
  <2> DEFINE k == m - 1
  <2>1. k \in 0 .. since /\ k \in Nat /\ m = k + 1 /\ m <= Delay /\ m \in Nat
    BY <1>9
  <2> HIDE DEF k
  <2>2. Wanted(c, f, k, playHead)
    BY <1>6, <2>1, WantedEarlier
  <2>3. Covered(acc.clips[c].reads, f, k)
    <3>1. c <= N
      BY Constants
    <3> QED BY <1>3, <1>11, <2>1, <2>2, <3>1 DEF Walked, Asks
  <2>4. ASSUME NEW s \in Slot, clips'[c].reads[s] # None, acc.clips[c].reads[s].age >= k
        PROVE  clips'[c].reads[s].age >= m
    <3>1. acc.clips[c].reads[s] # None
      BY <1>4, <2>4 DEF Same
    <3>2. acc.clips[c].reads[s].age \in Nat
      BY <1>4, <3>1, ReadIs
    <3>3. clips'[c].reads[s].age = IF acc.clips[c].reads[s].age = Delay THEN Delay
                                   ELSE acc.clips[c].reads[s].age + 1
      BY <1>4, <3>1
    <3> DEFINE old == acc.clips[c].reads[s].age
               new == clips'[c].reads[s].age
    <3>4. old \in Nat /\ old >= k /\ new = IF old = Delay THEN Delay ELSE old + 1
      BY <2>4, <3>2, <3>3
    <3> HIDE DEF old, new
    <3>5. new >= m
      BY <1>9, <2>1, <3>4
    <3> QED BY <3>5 DEF new
  <2> QED BY <1>4, <2>1, <2>3, <2>4, SameCovered
<1> QED BY <1>2, <1>3, <1>4, <1>5, <1>6, <1>7, <1>8, <1>9, <1>10, <1>11
           DEF IInv, TypeInv

\* A turn that leaves the playlist out.
LEMMA SkipInv ==
  ASSUME IInv, SkipPlaylist, playStart' = playStart,
         playHead' = IF playing THEN playHead + BufferSize ELSE playHead
  PROVE  IInv'
<1>1. /\ playHead' \in Nat /\ playHead \in Nat /\ playHead' >= playHead
      /\ playStart' \in Nat
  BY Constants DEF IInv, TypeInv
<1>2. /\ first' = first /\ clips' = clips /\ free' = free /\ starved' = starved
      /\ overflow' = overflow
      /\ inStep' = inStep \ {c \in Clip : clips[c].playing}
      /\ since' = since /\ behind' = (behind \/ playing)
  BY DEF SkipPlaylist, Clip
<1>3. ASSUME Keeping PROVE StepInv'
  <2>1. \A c \in Clip : c \in inStep' => ~clips'[c].playing
    BY <1>2
  <2>2. ASSUME NEW c \in Clip, c < first' PROVE End(c) <= playHead'
    <3>1. End(c) <= playHead /\ End(c) \in Nat
      BY <1>2, <1>3, <2>2, Constants DEF IInv, StepInv
    <3> QED BY <1>1, <3>1
  <2> QED BY <2>1, <2>2 DEF StepInv
<1>4. \A c \in Clip : Near(c, playHead', clips'[c].reads)
  <2>1. \A c \in Clip : clips[c].reads \in Reads /\ Near(c, playHead, clips[c].reads)
    BY DEF IInv, TypeInv, ClipState
  <2> QED BY <1>1, <1>2, <2>1, NearLater
<1>5. ASSUME Reading PROVE AskedInv'
  <2>1. CASE playing
    BY <1>2, <2>1 DEF AskedInv
  <2>2. CASE ~playing
    <3>1. playHead' = playHead /\ (behind \/ ~behind')
      BY <1>2, <2>2
    <3>2. AskedInv
      BY <1>5 DEF IInv
    <3> QED BY <1>2, <2>2, <3>1, <3>2 DEF AskedInv
  <2> QED BY <2>1, <2>2
<1>6. since' \in 0 .. Delay /\ behind' \in BOOLEAN
  BY <1>2 DEF IInv, TypeInv
<1> QED BY <1>1, <1>2, <1>3, <1>4, <1>5, <1>6 DEF IInv, TypeInv

\* A step that leaves the clips and the play head as they are.
LEMMA IdleInv ==
  ASSUME IInv, playHead' = playHead, playStart' = playStart, clips' = clips,
         first' = first, free' \in Nat, starved' = starved, overflow' = overflow,
         inStep' = inStep, since' = since, behind' = behind
  PROVE  IInv'
BY DEF IInv, TypeInv, StepInv, AskedInv

\* A read that becomes ready lies where it lay.
LEMMA CompletesInv ==
  ASSUME IInv, NEW c \in Clip, NEW s \in Slot, ReadCompletes(c, s)
  PROVE  IInv'
<1> DEFINE clip == clips[c]
           yes == TRUE
           read == [clip.reads[s] EXCEPT !.ready = yes]
           reads == [clip.reads EXCEPT ![s] = read]
           done == [clip EXCEPT !.reads = reads]
<1>1. /\ clips \in [Clip -> ClipState] /\ clip \in ClipState /\ clip.reads \in Reads
      /\ Fit(c, clip.reads) /\ clip.reads[s] # None
  <2>1. clips \in [Clip -> ClipState] /\ clip \in ClipState
    BY DEF IInv, TypeInv
  <2> QED BY <2>1 DEF IInv, ClipState, ReadCompletes
<1>2. clips' = [clips EXCEPT ![c] = done]
  BY <1>1 DEF ReadCompletes, ClipState, Reads
<1>3. yes \in BOOLEAN /\ clip.reads[s] \in ReadOf
  BY <1>1, ReadIs
<1> HIDE DEF yes, clip
<1>4. read \in ReadOf /\ read.start = clip.reads[s].start
      /\ read.length = clip.reads[s].length /\ read.age = clip.reads[s].age
  BY <1>3 DEF ReadOf
<1> HIDE DEF read
<1>5. reads \in Reads /\ \A t \in Slot : reads[t] = IF t = s THEN read ELSE clip.reads[t]
  BY <1>1, <1>4 DEF Reads
<1> HIDE DEF reads
<1>6. /\ Same(clip.reads, reads) /\ Fit(c, reads)
      /\ Near(c, playHead, reads)
      /\ \A t \in Slot : reads[t] # None => reads[t].age = clip.reads[t].age
  <2>1. Near(c, playHead, clip.reads) /\ playHead \in Int
    BY DEF IInv, TypeInv, clip
  <2>2. \A t \in Slot : clip.reads[t] # None => clip.reads[t].age <= Delay
    BY <1>1 DEF Fit
  <2>3. read # None
    BY <1>4, Constants
  <2>4. Same(clip.reads, reads)
    BY <1>1, <1>4, <1>5, <2>2, <2>3 DEF Same
  <2> QED BY <1>1, <1>4, <1>5, <2>1, <2>4, SameStretches
<1>7. /\ done \in ClipState /\ done.reads = reads /\ done.playing = clip.playing
      /\ done.frame = clip.frame
  BY <1>1, <1>5 DEF ClipState
<1> HIDE DEF done
<1>8. /\ clips' \in [Clip -> ClipState]
      /\ \A d \in Clip : clips'[d] = IF d = c THEN done ELSE clips[d]
  BY <1>1, <1>2, <1>7
<1>9. \A d \in Clip : Fit(d, clips'[d].reads) /\ Near(d, playHead, clips'[d].reads)
  BY <1>6, <1>7, <1>8 DEF IInv
<1>10. /\ playHead' = playHead /\ playStart' = playStart /\ first' = first
       /\ free' = free /\ starved' = starved /\ overflow' = overflow
       /\ inStep' = inStep /\ since' = since /\ behind' = behind
  BY DEF ReadCompletes, transportVars, turnVars
<1>11. ASSUME Keeping PROVE StepInv'
  <2>1. \A d \in Clip : /\ clips'[d].playing = clips[d].playing
                        /\ clips'[d].frame = clips[d].frame
    BY <1>7, <1>8 DEF clip
  <2> QED BY <1>10, <1>11, <2>1 DEF IInv, StepInv, OnTime
<1>12. ASSUME Reading PROVE AskedInv'
  <2> SUFFICES ASSUME ~starved, ~behind, NEW d \in Clip, NEW k \in 1 .. since,
                      NEW f \in Int, Wanted(d, f, k, playHead)
               PROVE  Covered(clips'[d].reads, f, k)
    BY <1>10 DEF AskedInv
  <2>1. Covered(clips[d].reads, f, k) /\ k \in Nat
    BY <1>12 DEF IInv, AskedInv
  <2>2. CASE d = c
    <3>1. \A t \in Slot : reads[t] # None /\ clip.reads[t].age >= k => reads[t].age >= k
      BY <1>6
    <3>2. Covered(clip.reads, f, k)
      BY <2>1, <2>2 DEF clip
    <3>3. Covered(reads, f, k)
      BY <1>1, <1>5, <1>6, <2>1, <3>1, <3>2, SameCovered
    <3> QED BY <1>7, <1>8, <2>2, <3>3
  <2>3. CASE d # c
    BY <1>8, <2>1, <2>3
  <2> QED BY <2>2, <2>3
<1> QED BY <1>8, <1>9, <1>10, <1>11, <1>12 DEF IInv, TypeInv

LEMMA NextInv == IInv /\ [Next]_vars => IInv'
<1> SUFFICES ASSUME IInv, [Next]_vars PROVE IInv'
  OBVIOUS
<1>1. /\ playHead \in Nat /\ playStart \in Nat /\ free \in Nat
      /\ Positions \cup {0} \subseteq Nat /\ Len(Clips) \in Nat
  BY Constants DEF IInv, TypeInv
<1>2. CASE Play
  BY <1>1, <1>2, IdleInv DEF Play, playlistVars, turnVars
<1>3. CASE Stop
  <2>1. playHead' \in Nat /\ playStart' \in Nat /\ PrepareToPlay
    BY <1>1, <1>3 DEF Stop
  <2> QED BY <2>1, PrepareInv
<1>4. CASE Pause
  <2>1. playHead' \in Nat /\ playStart' \in Nat /\ PrepareToPlay
    BY <1>1, <1>4 DEF Pause
  <2> QED BY <2>1, PrepareInv
<1>5. CASE StopPlay
  BY <1>2, <1>3, <1>5 DEF StopPlay
<1>6. CASE PausePlay
  BY <1>2, <1>4, <1>6 DEF PausePlay
<1>7. ASSUME NEW p \in Positions \cup {0}, Seek(p) PROVE IInv'
  <2>1. playHead' \in Nat /\ playStart' \in Nat /\ PrepareToPlay
    BY <1>1, <1>7 DEF Seek
  <2> QED BY <2>1, PrepareInv
<1>8. CASE StartRecording
  BY <1>1, <1>8, IdleInv DEF StartRecording, playlistVars, turnVars
<1>9. CASE SetArmed
  BY <1>1, <1>9, IdleInv DEF SetArmed, playlistVars, transportVars, turnVars
<1>10. ASSUME NEW buffers \in BOOLEAN, Turn(buffers) PROVE IInv'
  <2>1. /\ playStart' = playStart
        /\ playHead' = IF playing THEN playHead + BufferSize ELSE playHead
    BY <1>10 DEF Turn
  <2>2. CASE buffers /\ PlaylistRuns
    <3>1. RunPlaylist /\ playing
      BY <1>10, <2>2 DEF Turn, PlaylistRuns
    <3> QED BY <2>1, <3>1, RunInv
  <2>3. CASE ~(buffers /\ PlaylistRuns)
    <3>1. SkipPlaylist
      BY <1>10, <2>3 DEF Turn
    <3> QED BY <2>1, <3>1, SkipInv
  <2> QED BY <2>2, <2>3
<1>11. CASE Supplied
  <2>1. free' \in Nat
    BY <1>1, <1>11, Constants DEF Supplied
  <2> QED BY <1>11, <2>1, IdleInv DEF Supplied, transportVars, turnVars
<1>12. ASSUME NEW c \in Clip, NEW s \in Slot, ReadCompletes(c, s) PROVE IInv'
  BY <1>12, CompletesInv
<1>13. CASE UNCHANGED vars
  BY <1>1, <1>13, IdleInv DEF vars, transportVars, playlistVars, turnVars
<1> QED
  BY <1>2, <1>3, <1>4, <1>5, <1>6, <1>7, <1>8, <1>9, <1>10, <1>11, <1>12, <1>13
     DEF Next, Clip

-----------------------------------------------------------------------------
(* Theorems.                                                               *)

THEOREM Invariance == Spec => []IInv
BY InitInv, NextInv, PTL DEF Spec

\* Types: the play head and the first clip to play are never negative, and the
\* clips have the fields, the slots and the reads that Clip.h declares.
THEOREM TypeCorrect == Spec => []TypeInv
<1>1. IInv => TypeInv
  BY DEF IInv
<1> QED BY <1>1, Invariance, PTL

\* For any playlist, buffer size and read-ahead, and whatever the user does with
\* the transport: no stretch of a file is asked for twice, or beyond the clip
\* (Clip::read_ahead()).
THEOREM ReadsNeverOverlap == Spec => []ReadsDisjoint
<1>1. IInv => ReadsDisjoint
  <2> SUFFICES ASSUME IInv, NEW c \in Clip
               PROVE  /\ \A r \in Loaded(clips[c].reads) :
                           /\ r.length > 0
                           /\ Clips[c].fileStart <= r.start /\ ReadEnd(r) <= FileEnd(c)
                      /\ \A s, t \in Slot :
                           LET r == clips[c].reads[s]
                               q == clips[c].reads[t]
                           IN  s # t /\ r # None /\ q # None =>
                                 ReadEnd(r) <= q.start \/ ReadEnd(q) <= r.start
    BY DEF ReadsDisjoint, Clip
  <2>1. Fit(c, clips[c].reads)
    BY DEF IInv
  <2>2. \A r \in Loaded(clips[c].reads) :
          \E s \in Slot : r = clips[c].reads[s] /\ clips[c].reads[s] # None
    BY DEF Loaded
  <2> QED BY <2>1, <2>2 DEF Fit, Inside, Apart
<1> QED BY <1>1, Invariance, PTL

\* Two slots are enough for any playlist, buffer size and read-ahead: read_ahead()
\* never finds a stretch to ask for and no slot to put it (Clip::start_read()).
THEOREM TwoSlotsSuffice == NumReads >= 2 => (Spec => []SlotsSuffice)
<1>1. ASSUME NumReads >= 2 PROVE IInv => SlotsSuffice
  BY <1>1 DEF IInv, SlotsSuffice
<1>2. ASSUME NumReads >= 2 PROVE Spec => []SlotsSuffice
  <2>1. IInv => SlotsSuffice
    BY <1>1, <1>2
  <2> QED BY <2>1, Invariance, PTL
<1> QED BY <1>2

\* As long as no clip has missed a read in the middle of a buffer or a turn of its
\* playlist, what a playlist in order mixes into a buffer is, to the frame, what
\* the timeline calls for, or the silence of a read that is late, for any clips,
\* however they meet the buffers and the reads, and whatever the user does
\* (Clip::run(), Playlist::run()).  A clip that has missed one there is left out
\* until it is prepared again (inStep): Clip.cpp:166 sets it ahead, and nothing is
\* said of how it sounds.
THEOREM WhatIsHeardIsDue == Keeping => (Spec => []HeardInStep)
<1>1. ASSUME Keeping PROVE IInv => HeardInStep
  <2> SUFFICES ASSUME IInv PROVE HeardInStep
    OBVIOUS
  <2>1. Mixed \in Walked(Len(Clips))
    BY MixedWalks
  <2>2. Mixed \in Carried
    BY <2>1 DEF Walked
  <2>3. ASSUME NEW c \in Mixed.inStep, NEW i \in Frame
        PROVE  \/ Mixed.heard[c][i] = Due(c, playHead + i)
               \/ Mixed.heard[c][i] = None /\ c \in Mixed.missed
    <3>1. c \in Clip /\ c <= Len(Clips)
      BY <2>2, Constants DEF Carried
    <3>2. Behind(Mixed, c)
      BY <1>1, <2>1, <3>1 DEF Walked
    <3> QED BY <3>2 DEF Behind, Right
  <2> QED BY <2>3 DEF HeardInStep
<1>2. ASSUME Keeping PROVE Spec => []HeardInStep
  <2>1. IInv => HeardInStep
    BY <1>1, <1>2
  <2> QED BY <2>1, Invariance, PTL
<1> QED BY <1>2

\* The frame of the file that a clip gives moves with the time (Clip::play()).
LEMMA FrameAtLater ==
  ASSUME NEW c \in Clip, NEW head \in Nat, NEW i \in Nat
  PROVE  FrameAt(c, head + i) = FrameAt(c, head) + i /\ FrameAt(c, head) \in Int
<1>1. Clips[c].start \in Nat /\ Clips[c].fileStart \in Nat
  BY Constants
<1> DEFINE from == Clips[c].start
           file == Clips[c].fileStart
<1>2. FrameAt(c, head + i) = (head + i) - from + file /\ FrameAt(c, head) = head - from + file
  BY DEF FrameAt
<1>3. from \in Nat /\ file \in Nat
  BY <1>1
<1> HIDE DEF from, file
<1> QED BY <1>2, <1>3

\* With two slots and a read-ahead of one buffer more than the reads take turns, a
\* playlist in order has asked for every frame that is due, so many turns before,
\* whatever its clips are and whatever the user does (Clip::read_ahead()).
THEOREM WhatIsDueIsAskedFor == Reading => (Spec => []AskedForInTime)
<1>1. ASSUME Reading PROVE IInv => AskedForInTime
  <2> SUFFICES ASSUME IInv, since = Delay, ~behind, ~Mixed.starved,
                      NEW c \in Clip, NEW i \in Frame, Due(c, playHead + i) # None
               PROVE  LET frame == Due(c, playHead + i)
                          reads == Loaded(Mixed.clips[c].reads)
                      IN  \/ \E r \in reads : Holds(r, frame) /\ r.age = Delay
                          \/ reads # {} /\ \A r \in reads : frame < r.start
    BY DEF AskedForInTime, Clip
  <2> DEFINE frame == Due(c, playHead + i)
             reads == Mixed.clips[c].reads
  <2>1. Mixed \in Walked(Len(Clips))
    BY MixedWalks
  <2>2. c <= Len(Clips) /\ Delay \in 0 .. since /\ playHead \in Nat /\ Delay \in Nat
    BY Constants DEF IInv, TypeInv
  <2>3. frame \in Int /\ Wanted(c, frame, Delay, playHead)
    <3>1. /\ Clips[c].start \in Nat /\ Clips[c].fileStart \in Nat
          /\ Clips[c].length \in Nat /\ ReadAhead \in Nat /\ BufferSize \in Nat
          /\ i \in Nat /\ i < BufferSize
      BY Constants DEF Frame
    <3>2. /\ Clips[c].start <= playHead + i /\ playHead + i < End(c)
          /\ frame = FrameAt(c, playHead + i)
      BY DEF Due
    <3>3. /\ frame = FrameAt(c, playHead) + i /\ FrameAt(c, playHead) \in Int
          /\ Clips[c].fileStart <= frame /\ frame < FileEnd(c)
      <4>1. /\ FrameAt(c, playHead + i) = FrameAt(c, playHead) + i
            /\ FrameAt(c, playHead) \in Int
        BY <2>2, <3>1, FrameAtLater
      <4>2. /\ Clips[c].fileStart <= FrameAt(c, playHead + i)
            /\ FrameAt(c, playHead + i) < FileEnd(c)
        BY <2>2, <3>1, <3>2 DEF FrameAt, End, FileEnd
      <4> HIDE DEF frame
      <4> QED BY <3>2, <4>1, <4>2
    <3> DEFINE m == Delay * BufferSize
               n == (Delay + 1) * BufferSize
    <3>4. m \in Nat /\ n = m + BufferSize
      BY <2>2, <3>1
    <3>5. n <= ReadAhead
      BY <1>1 DEF Reading
    <3> HIDE DEF m, n, frame
    <3>6. frame + m < FrameAt(c, playHead) + ReadAhead /\ FrameAt(c, playHead) <= frame
      BY <3>1, <3>3, <3>4, <3>5
    <3> QED BY <3>1, <3>3, <3>6 DEF Wanted, m
  <2>4. reads \in Reads /\ Fit(c, reads)
    BY <2>1 DEF Walked, AllFit, Carried, ClipState
  <2> HIDE DEF frame
  <2>5. Covered(reads, frame, Delay)
    BY <1>1, <2>1, <2>2, <2>3 DEF Walked, Asks
  <2> HIDE DEF reads
  <2>6. CASE \E s \in Slot : reads[s] # None /\ Holds(reads[s], frame)
                             /\ reads[s].age >= Delay
    <3>1. PICK s \in Slot : reads[s] # None /\ Holds(reads[s], frame)
                             /\ reads[s].age >= Delay
      BY <2>6
    <3>2. reads[s].age = Delay
      BY <2>2, <2>4, <3>1, ReadIs DEF Fit
    <3>3. reads[s] \in Loaded(reads)
      BY <3>1 DEF Loaded
    <3> QED BY <3>1, <3>2, <3>3 DEF frame, reads
  <2>7. CASE /\ \E s \in Slot : reads[s] # None
             /\ \A s \in Slot : reads[s] # None => frame < reads[s].start
    <3>1. Loaded(reads) # {} /\ \A r \in Loaded(reads) : frame < r.start
      BY <2>7 DEF Loaded
    <3> QED BY <3>1 DEF frame, reads
  <2> QED BY <2>5, <2>6, <2>7 DEF Covered
<1>2. ASSUME Reading PROVE Spec => []AskedForInTime
  <2>1. IInv => AskedForInTime
    BY <1>1, <1>2
  <2> QED BY <2>1, Invariance, PTL
<1> QED BY <1>2
=============================================================================
