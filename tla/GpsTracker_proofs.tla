-------------------------- MODULE GpsTracker_proofs --------------------------
(***************************************************************************)
(* Proofs about GpsTracker, for any number of points, batch size and queue *)
(* limit.  The argument: whoever holds a copy of the queue, a tick or the  *)
(* flush, and the stored queue itself differ only in points that are       *)
(* settled: logged, or missing for a reason the history names.  So writing *)
(* a copy back loses nothing else.                                         *)
(***************************************************************************)
EXTENDS GpsTracker, SequenceTheorems, WellFoundedInduction, TLAPS

-----------------------------------------------------------------------------
(* Sequences.                                                              *)

\* A set of points has a latest one.
LEMMA LatestPoint ==
  ASSUME NEW S \in SUBSET Points, S # {}
  PROVE  Max(S) \in S /\ \A x \in S : x <= Max(S)
<1> DEFINE Less == {p \in Nat \X Nat : p[1] < p[2]}
           Gaps == {MaxPoints - x : x \in S}
<1>1. MaxPoints \in Nat
  BY SizesAssumption
<1>2. Gaps \in SUBSET Nat /\ Gaps # {}
  <2>1. \A x \in S : MaxPoints - x \in Nat
    BY <1>1 DEF Points
  <2> QED
    BY <2>1
<1>3. IsWellFoundedOn(Less, Nat)
  BY NatLessThanWellFounded DEF OpToRel
<1>4. \A x, y \in Nat : <<y, x>> \in Less <=> y < x
  OBVIOUS
<1> HIDE DEF Less, Gaps
<1>5. PICK g \in Gaps : \A h \in Gaps : ~ (h < g)
  <2>1. \E g \in Gaps : \A h \in Gaps : ~ (<<h, g>> \in Less)
    BY <1>2, <1>3, WFMin
  <2> QED
    BY <1>2, <1>4, <2>1
<1>6. PICK m \in S : g = MaxPoints - m
  BY DEF Gaps
<1>7. ASSUME NEW x \in S
      PROVE  m >= x
  <2>1. MaxPoints - x \in Gaps
    BY DEF Gaps
  <2>2. ~ (MaxPoints - x < MaxPoints - m)
    BY <1>5, <1>6, <2>1
  <2> QED
    BY <1>1, <2>2 DEF Points
<1> QED
  BY <1>6, <1>7 DEF Max

\* A pushed point joins the others.
LEMMA RangeOfAppend ==
  ASSUME NEW S, NEW s \in Seq(S), NEW e \in S
  PROVE  /\ Append(s, e) \in Seq(S)
         /\ Len(Append(s, e)) = Len(s) + 1
         /\ Range(Append(s, e)) = Range(s) \cup {e}
<1>1. <<e>> \in Seq(S) /\ Len(<<e>>) = 1 /\ <<e>>[1] = e
  OBVIOUS
<1>2. Range(<<e>>) = {e}
  <2>1. Range(<<e>>) = {<<e>>[i] : i \in 1..Len(<<e>>)}
    BY <1>1, RangeEquality
  <2>2. 1..Len(<<e>>) = {1}
    BY <1>1
  <2> QED
    BY <1>1, <2>1, <2>2
<1>3. Append(s, e) = s \o <<e>>
  BY AppendIsConcat
<1>4. Range(s \o <<e>>) = Range(s) \cup Range(<<e>>)
  BY <1>1, RangeConcatenation
<1>5. Append(s, e) \in Seq(S) /\ Len(Append(s, e)) = Len(s) + 1
  OBVIOUS
<1> QED
  BY <1>2, <1>3, <1>4, <1>5

\* A queue falls apart into its first n points and the rest.
LEMMA SliceParts ==
  ASSUME NEW S, NEW s \in Seq(S), NEW n \in 0..Len(s)
  PROVE  /\ SubSeq(s, 1, n) \in Seq(S) /\ Len(SubSeq(s, 1, n)) = n
         /\ SliceFrom(s, n) \in Seq(S) /\ Len(SliceFrom(s, n)) = Len(s) - n
         /\ Range(s) = Range(SubSeq(s, 1, n)) \cup Range(SliceFrom(s, n))
<1>1. Len(s) \in Nat /\ n \in Nat /\ n <= Len(s) /\ \A i \in 1..Len(s) : s[i] \in S
  BY LenProperties, ElementOfSeq
<1>2. SubSeq(s, 1, n) \in Seq(S) /\ Len(SubSeq(s, 1, n)) = n
  <2>1. \A i \in 1..n : s[i] \in S
    BY <1>1
  <2>2. 1 \in Int /\ n \in Int
    BY <1>1
  <2> QED
    BY <1>1, <2>1, <2>2, SubSeqProperties
<1>3. SliceFrom(s, n) \in Seq(S) /\ Len(SliceFrom(s, n)) = Len(s) - n
  <2>1. \A i \in (n + 1)..Len(s) : s[i] \in S
    BY <1>1
  <2>2. n + 1 \in Int /\ Len(s) \in Int
    BY <1>1
  <2>3. /\ SubSeq(s, n + 1, Len(s)) \in Seq(S)
        /\ Len(SubSeq(s, n + 1, Len(s)))
             = IF n + 1 <= Len(s) THEN Len(s) - (n + 1) + 1 ELSE 0
    BY <2>1, <2>2, SubSeqProperties
  <2> QED
    BY <1>1, <2>3 DEF SliceFrom
<1>4. SubSeq(s, 1, n) \o SliceFrom(s, n) = s
  <2>1. 1 \in 1..(Len(s) + 1) /\ n \in (1 - 1)..Len(s) /\ Len(s) \in n..Len(s)
    BY <1>1
  <2>2. SubSeq(s, 1, n) \o SubSeq(s, n + 1, Len(s)) = SubSeq(s, 1, Len(s))
    BY <2>1, ConcatAdjacentSubSeq
  <2> QED
    BY <2>2, SubSeqFull DEF SliceFrom
<1> QED
  BY ZenonT(40), <1>2, <1>3, <1>4, RangeConcatenation

-----------------------------------------------------------------------------
(* What each tick and each post is at.                                     *)

Ticks ==
  /\ \A p \in Points : tick[p] = "none" <=> p > captured
  /\ \A p \in Points : tick[p] = "flushing" <=> p = flusher
  /\ \A p \in Points : Len(copy[p]) <= MaxQueue
  /\ \A p \in Points : tick[p] = "flushing" => batch[p] = Slice(copy[p], BatchSize)
  /\ flusher # 0 => Reading \subseteq beside

Posts ==
  /\ \A p \in Points : post[p] # "none" => batch[p] # <<>>
  /\ \A p \in Points : post[p] \in {"logged", "saved"} =>
       \A x \in Range(batch[p]) : logged[x] > 0

Basic == TypeOK /\ Ticks /\ Posts

\* The batch is the front of the queue that was read, and not empty.
LEMMA BatchIsFront ==
  ASSUME NEW s \in Seq(Points)
  PROVE  /\ Slice(s, BatchSize) \in Seq(Points)
         /\ s # <<>> => Slice(s, BatchSize) # <<>>
         /\ SliceFrom(s, Len(Slice(s, BatchSize))) \in Seq(Points)
         /\ Len(SliceFrom(s, Len(Slice(s, BatchSize)))) <= Len(s)
         /\ Range(s) = Range(Slice(s, BatchSize))
                        \cup Range(SliceFrom(s, Len(Slice(s, BatchSize))))
<1> DEFINE n == IF Len(s) < BatchSize THEN Len(s) ELSE BatchSize
<1>1. BatchSize \in Nat /\ BatchSize > 0 /\ Len(s) \in Nat
  BY SizesAssumption
<1>2. n \in 0..Len(s)
  BY <1>1
<1>2a. Len(s) > 0 => n > 0
  BY <1>1
<1>3. Slice(s, BatchSize) = SubSeq(s, 1, n)
  BY DEF Slice
<1> HIDE DEF n
<1>4. /\ SubSeq(s, 1, n) \in Seq(Points) /\ Len(SubSeq(s, 1, n)) = n
      /\ SliceFrom(s, n) \in Seq(Points) /\ Len(SliceFrom(s, n)) = Len(s) - n
      /\ Range(s) = Range(SubSeq(s, 1, n)) \cup Range(SliceFrom(s, n))
  BY <1>2, SliceParts
<1>5. s # <<>> => Len(s) > 0
  OBVIOUS
<1>6. s # <<>> => SubSeq(s, 1, n) # <<>>
  BY <1>2, <1>2a, <1>4, <1>5
<1> QED
  BY <1>1, <1>2, <1>3, <1>4, <1>6

\* _enqueue stores at most MaxQueue points, and nothing that was not read or pushed.
LEMMA TrimmedQueue ==
  ASSUME NEW s \in Seq(Points)
  PROVE  /\ Trimmed(s) \in Seq(Points)
         /\ Len(Trimmed(s)) <= MaxQueue
         /\ Range(Trimmed(s)) \subseteq Range(s)
<1>1. MaxQueue \in Nat /\ Len(s) \in Nat
  BY SizesAssumption
<1>2. CASE Len(s) > MaxQueue
  <2>1. Len(s) - MaxQueue \in 0..Len(s)
    BY <1>1, <1>2
  <2> DEFINE n == Len(s) - MaxQueue
  <2> HIDE DEF n
  <2>2. /\ SliceFrom(s, n) \in Seq(Points) /\ Len(SliceFrom(s, n)) = Len(s) - n
        /\ Range(s) = Range(SubSeq(s, 1, n)) \cup Range(SliceFrom(s, n))
    BY <2>1, SliceParts DEF n
  <2> QED
    BY <1>1, <1>2, <2>2 DEF Trimmed, n
<1>3. CASE ~ (Len(s) > MaxQueue)
  BY <1>1, <1>3 DEF Trimmed
<1> QED
  BY <1>2, <1>3

\* Initially every tick and post is well-formed.
LEMMA InitBasic == Init => Basic
<1> SUFFICES ASSUME Init PROVE Basic
  OBVIOUS
<1>1. TypeOK
  <2>1. 0 \in 0..MaxPoints /\ <<>> \in Seq(Points) /\ Len(<<>>) = 0 /\ 0 <= MaxQueue
    BY SizesAssumption
  <2> QED
    BY <2>1 DEF Init, TypeOK
<1>2. Ticks
  BY SizesAssumption DEF Init, Ticks, Points
<1>3. Posts
  BY DEF Init, Posts
<1> QED
  BY <1>1, <1>2, <1>3 DEF Basic

\* A new tick gets the next number and a copy of a queue within its limit.
LEMMA OnTickBasic == Basic /\ OnTick => Basic'
<1> SUFFICES ASSUME Basic, OnTick PROVE Basic'
  OBVIOUS
<1> USE DEF Basic
<1> DEFINE p == captured + 1
<1>0. p \in Points /\ p \in 0..MaxPoints
  BY DEF OnTick, Points
<1>1. TypeOK'
  BY <1>0 DEF TypeOK, OnTick, Reading, serverVars
<1>2. Ticks'
  <2>1. \A q \in Points : q > captured' <=> q > captured /\ q # p
    BY SizesAssumption DEF TypeOK, OnTick, Points
  <2>2. \A q \in Points : q # p => tick'[q] = tick[q] /\ copy'[q] = copy[q]
    BY <1>0 DEF TypeOK, OnTick
  <2>3. tick[p] = "none" /\ tick'[p] = "reading" /\ copy'[p] = queue /\ p # flusher
    BY <1>0, SizesAssumption DEF TypeOK, OnTick, Ticks, Points
  <2>4. flusher' = flusher /\ batch' = batch /\ Reading' \subseteq Reading \cup {p}
    BY <2>2 DEF OnTick, Reading
  <2>5. flusher # 0 => Reading' \subseteq beside'
    BY <2>4 DEF OnTick, Ticks
  <2> HIDE DEF p
  <2>6. \A q \in Points : Len(copy'[q]) <= MaxQueue
    BY <2>2, <2>3 DEF Ticks, TypeOK
  <2> QED
    BY <1>0, <2>1, <2>2, <2>3, <2>4, <2>5, <2>6 DEF Ticks
<1>3. Posts'
  BY DEF OnTick, Posts, serverVars
<1> QED
  BY <1>1, <1>2, <1>3

\* What _enqueue stores is within the limit.
LEMMA EnqueueBasic == ASSUME NEW p \in Points PROVE Basic /\ Enqueue(p) => Basic'
<1> SUFFICES ASSUME Basic, Enqueue(p) PROVE Basic'
  OBVIOUS
<1> USE DEF Basic
<1>0. /\ Pushed(p) \in Seq(Points)
      /\ Range(Pushed(p)) = Range(copy[p]) \cup {p}
  BY RangeOfAppend DEF Pushed, TypeOK
<1>1. /\ Trimmed(Pushed(p)) \in Seq(Points)
      /\ Len(Trimmed(Pushed(p))) <= MaxQueue
  BY <1>0, TrimmedQueue
<1>2. Range(Pushed(p)) \subseteq Points
  BY <1>0, RangeOfSeq
<1>3. TypeOK'
  BY <1>1, <1>2 DEF TypeOK, Enqueue, Reading, serverVars
<1>4. Ticks'
  BY SizesAssumption DEF TypeOK, Enqueue, Ticks, Reading
<1>5. Posts'
  BY DEF Enqueue, Posts, serverVars
<1> QED
  BY <1>3, <1>4, <1>5

\* A flush posts the front of a queue that is not empty, beside the reading ticks.
LEMMA FlushBasic == ASSUME NEW p \in Points PROVE Basic /\ Flush(p) => Basic'
<1> SUFFICES ASSUME Basic, Flush(p) PROVE Basic'
  OBVIOUS
<1> USE DEF Basic
<1>1. Slice(queue, BatchSize) \in Seq(Points) /\ Slice(queue, BatchSize) # <<>>
  BY BatchIsFront DEF TypeOK, Flush
<1>2. Reading \subseteq Points
  BY DEF Reading
<1>3. TypeOK'
  <2>1. p \in 0..MaxPoints
    BY SizesAssumption DEF Points
  <2> QED
    BY <1>1, <1>2, <2>1 DEF TypeOK, Flush
<1>4. Ticks'
  BY SizesAssumption DEF TypeOK, Flush, Ticks, Reading, Points
<1>5. Posts'
  BY <1>1 DEF TypeOK, Flush, Posts
<1> QED
  BY <1>3, <1>4, <1>5

\* An answered flush stores the end of a queue within the limit.
LEMMA FlushAnsweredBasic ==
  ASSUME NEW p \in Points PROVE Basic /\ FlushAnswered(p) => Basic'
<1> SUFFICES ASSUME Basic, FlushAnswered(p) PROVE Basic'
  OBVIOUS
<1> USE DEF Basic
<1>1. Remaining(p) \in Seq(Points) /\ Len(Remaining(p)) <= Len(copy[p])
  BY BatchIsFront DEF TypeOK, FlushAnswered, Ticks, Remaining
<1>2. Range(batch[p]) \subseteq Points
  BY RangeOfSeq DEF TypeOK
<1>3. Len(Remaining(p)) <= MaxQueue
  BY <1>1, SizesAssumption DEF TypeOK, Ticks
<1>4. TypeOK'
  BY <1>1, <1>2, <1>3, SizesAssumption DEF TypeOK, FlushAnswered, serverVars
<1>5. Ticks'
  BY SMTT(30), SizesAssumption DEF TypeOK, FlushAnswered, Ticks, Reading, Points
<1>6. Posts'
  BY DEF FlushAnswered, Posts, serverVars
<1> QED
  BY <1>4, <1>5, <1>6

\* A failed flush leaves the queue as it is.
LEMMA FlushFailedBasic == ASSUME NEW p \in Points PROVE Basic /\ FlushFailed(p) => Basic'
<1> SUFFICES ASSUME Basic, FlushFailed(p) PROVE Basic'
  OBVIOUS
<1> USE DEF Basic
<1>1. Range(batch[p]) \subseteq Points
  BY RangeOfSeq DEF TypeOK
<1>2. TypeOK'
  BY <1>1, SizesAssumption DEF TypeOK, FlushFailed, Kept, serverVars
<1>3. Ticks'
  <2>1. copy'[p] = <<>> /\ Len(<<>>) <= MaxQueue
    BY SizesAssumption DEF TypeOK, FlushFailed
  <2>2. \A q \in Points : q # p => tick'[q] = tick[q] /\ copy'[q] = copy[q]
    BY DEF TypeOK, FlushFailed
  <2>3. tick'[p] = "done" /\ p = flusher /\ flusher' = 0 /\ 0 \notin Points
    BY DEF TypeOK, FlushFailed, Ticks, Points
  <2> QED
    BY <2>1, <2>2, <2>3 DEF FlushFailed, Ticks
<1>4. Posts'
  BY DEF FlushFailed, Posts, serverVars
<1> QED
  BY <1>2, <1>3, <1>4

\* A killed app leaves no tick under way.
LEMMA KillBasic == Basic /\ Kill => Basic'
<1> SUFFICES ASSUME Basic, Kill PROVE Basic'
  OBVIOUS
<1> USE DEF Basic
<1>1. flusher # 0 => Range(batch[flusher]) \subseteq Points
  <2>1. flusher # 0 => flusher \in Points
    BY DEF TypeOK, Points
  <2> QED
    BY <2>1, RangeOfSeq DEF TypeOK
<1>2. TypeOK'
  <2>1. 0 \in 0..MaxPoints /\ <<>> \in Seq(Points)
    BY SizesAssumption
  <2>2. Reading \subseteq Points
    BY DEF Reading
  <2> QED
    BY <1>1, <2>1, <2>2 DEF TypeOK, Kill, serverVars
<1>3. Ticks'
  BY SizesAssumption DEF TypeOK, Kill, Ticks, Reading, Points
<1>4. Posts'
  BY DEF Kill, Posts, serverVars
<1> QED
  BY <1>2, <1>3, <1>4

\* The server only logs the points of its batch, and its position is one of them.
LEMMA ServerBasic ==
  ASSUME NEW p \in Points PROVE Basic /\ (PostGps(p) \/ SaveLast(p)) => Basic'
<1> SUFFICES ASSUME Basic, PostGps(p) \/ SaveLast(p) PROVE Basic'
  OBVIOUS
<1> USE DEF Basic
<1>1. Range(batch[p]) \in SUBSET Points
  BY RangeOfSeq DEF TypeOK
<1>2. CASE PostGps(p)
  <2>1. \A q \in Points : logged'[q] \in Nat /\ logged'[q] >= logged[q]
    BY <1>2 DEF TypeOK, PostGps
  <2>2. TypeOK'
    BY <1>2, <2>1 DEF TypeOK, PostGps, phoneVars, history
  <2>3. Ticks'
    BY <1>2 DEF Ticks, PostGps, phoneVars, history, Reading
  <2>4. \A q \in Range(batch[p]) : logged'[q] > 0
    BY <1>1, <1>2 DEF TypeOK, PostGps
  <2>5. ASSUME NEW r \in Points, post'[r] \in {"logged", "saved"}, NEW x \in Range(batch[r])
        PROVE  logged'[x] > 0
    <3>1. CASE r = p
      BY <2>4, <2>5, <3>1
    <3>2. CASE r # p
      <4>1. post[r] \in {"logged", "saved"}
        BY <1>2, <2>5, <3>2 DEF TypeOK, PostGps
      <4>2. x \in Points
        BY RangeOfSeq DEF TypeOK
      <4> QED
        BY <2>1, <4>1, <4>2 DEF Posts, TypeOK
    <3> QED
      BY <3>1, <3>2
  <2>6. Posts'
    BY <1>2, <2>5 DEF TypeOK, Posts, PostGps, phoneVars
  <2> QED
    BY <2>2, <2>3, <2>6
<1>3. CASE SaveLast(p)
  <2>1. Range(batch[p]) # {}
    <3>1. batch[p] \in Seq(Points) /\ batch[p] # <<>>
      BY <1>3 DEF TypeOK, Posts, SaveLast
    <3>2. 1 \in 1..Len(batch[p])
      BY <3>1
    <3>3. Range(batch[p]) = {batch[p][i] : i \in 1..Len(batch[p])}
      BY <3>1, RangeEquality
    <3> QED
      BY <3>2, <3>3
  <2>2. Max(Range(batch[p])) \in Points
    BY <1>1, <2>1, LatestPoint
  <2>3. TypeOK'
    <3>1. Max(Range(batch[p])) \in 0..MaxPoints
      BY <2>2, SizesAssumption DEF Points
    <3> QED
      BY <1>3, <3>1 DEF TypeOK, SaveLast, phoneVars, history
  <2>4. Ticks'
    BY <1>3 DEF Ticks, SaveLast, phoneVars, history, Reading
  <2>5. Posts'
    BY <1>3 DEF TypeOK, Posts, SaveLast, phoneVars
  <2> QED
    BY <2>3, <2>4, <2>5
<1> QED
  BY <1>2, <1>3

\* Basic is inductive.
LEMMA BasicStep == Basic /\ [Next]_vars => Basic'
<1> SUFFICES ASSUME Basic, [Next]_vars PROVE Basic'
  OBVIOUS
<1>1. CASE StartOrStop
  BY <1>1 DEF Basic, TypeOK, Ticks, Posts, StartOrStop, serverVars, history, Reading
<1>2. ASSUME NEW p \in Points, SkipFlush(p) PROVE Basic'
  BY <1>2 DEF Basic, TypeOK, Ticks, Posts, SkipFlush, serverVars, history, Reading
<1>3. CASE UNCHANGED vars
  BY <1>3 DEF Basic, TypeOK, Ticks, Posts, vars, phoneVars, serverVars, history, Reading
<1> QED
  BY <1>1, <1>2, <1>3, OnTickBasic, EnqueueBasic, FlushBasic, FlushAnsweredBasic,
     FlushFailedBasic, KillBasic, ServerBasic DEF Next, Phone, Server
-----------------------------------------------------------------------------
(* What the copies of the queue hold.                                      *)

Settled(x) == logged[x] > 0 \/ x \in crowded \cup overtaken \cup dropped

\* Two ticks that read the queue at once are crowded.
CrowdedReaders == \A p, q \in Reading : p # q => p \in crowded

\* What a reading tick lacks of the queue is settled.
QueueInCopies ==
  \A p \in Reading : \A x \in Range(queue) : x \in Range(copy[p]) \/ Settled(x)

\* What the queue lacks of a copy that may be written back is settled.
CopiesInQueue ==
  \A p \in Points : tick[p] \in {"reading", "flushing"} =>
    \A x \in Range(copy[p]) : x \in Range(queue) \/ Settled(x)

\* What the flush lacks of the queue is settled, or was stored beside it.
FlushSees ==
  \A p \in Points : tick[p] = "flushing" =>
    \A x \in Range(queue) : x \in Range(copy[p]) \/ x \in beside \/ Settled(x)

Copies == CrowdedReaders /\ QueueInCopies /\ CopiesInQueue /\ FlushSees

Inv == Basic /\ Copies /\ NothingElseIsLost

\* Queues hold points.
LEMMA QueuesHoldPoints ==
  TypeOK => /\ Range(queue) \subseteq Points
            /\ \A p \in Points : Range(copy[p]) \subseteq Points
            /\ 1..captured \subseteq Points
<1> SUFFICES ASSUME TypeOK
             PROVE  /\ Range(queue) \subseteq Points
                    /\ \A p \in Points : Range(copy[p]) \subseteq Points
                    /\ 1..captured \subseteq Points
  OBVIOUS
<1>1. queue \in Seq(Points) /\ \A p \in Points : copy[p] \in Seq(Points)
  BY DEF TypeOK
<1>2. 1..captured \subseteq Points
  BY SizesAssumption DEF TypeOK, Points
<1> QED
  BY <1>1, <1>2, RangeOfSeq

\* What is settled stays settled.
LEMMA SettledStays == Basic /\ [Next]_vars => \A x \in Points : Settled(x) => Settled(x)'
<1> SUFFICES ASSUME Basic, [Next]_vars, NEW x \in Points, Settled(x)
             PROVE  Settled(x)'
  OBVIOUS
<1> USE DEF Settled
<1>1. CASE StartOrStop \/ UNCHANGED vars
  BY <1>1 DEF StartOrStop, vars, serverVars, history
<1>2. CASE OnTick
  BY <1>2 DEF OnTick, serverVars
<1>3. CASE Kill
  BY <1>3 DEF Kill, serverVars
<1>4. ASSUME NEW p \in Points,
             Enqueue(p) \/ SkipFlush(p) \/ Flush(p) \/ FlushAnswered(p) \/ FlushFailed(p)
      PROVE  Settled(x)'
  BY <1>4 DEF Enqueue, SkipFlush, Flush, FlushAnswered, FlushFailed, serverVars, history
<1>5. ASSUME NEW p \in Points, PostGps(p) \/ SaveLast(p)
      PROVE  Settled(x)'
  <2>1. logged[x] \in Nat /\ logged'[x] \in Nat /\ logged'[x] >= logged[x]
    <3>1. CASE PostGps(p)
      BY <3>1 DEF Basic, TypeOK, PostGps
    <3>2. CASE SaveLast(p)
      BY <3>2 DEF Basic, TypeOK, SaveLast
    <3> QED
      BY <1>5, <3>1, <3>2
  <2>2. UNCHANGED <<crowded, overtaken, dropped>>
    BY <1>5 DEF PostGps, SaveLast, history
  <2> QED
    BY <2>1, <2>2
<1> QED
  BY <1>1, <1>2, <1>3, <1>4, <1>5 DEF Next, Phone, Server

\* A step that leaves the queue and its copies alone changes nothing.
LEMMA QueueUntouched ==
  ASSUME Inv, [Next]_vars, UNCHANGED <<captured, queue, copy, flusher, beside>>,
         UNCHANGED crowded,
         \A p \in Points : \/ tick'[p] = tick[p]
                           \/ tick[p] = "stored" /\ tick'[p] = "done"
  PROVE  Copies' /\ NothingElseIsLost'
<1>1. \A x \in Points : Settled(x) => Settled(x)'
  BY SettledStays DEF Inv
<1>2. \A p \in Points : /\ tick'[p] = "reading" <=> tick[p] = "reading"
                        /\ tick'[p] = "flushing" <=> tick[p] = "flushing"
  OBVIOUS
<1>3. Reading' = Reading
  BY <1>2 DEF Reading
<1>4. /\ Range(queue) \subseteq Points
      /\ \A p \in Points : Range(copy[p]) \subseteq Points
      /\ 1..captured \subseteq Points
  BY QueuesHoldPoints DEF Inv, Basic
<1>5. CrowdedReaders' /\ QueueInCopies'
  BY <1>1, <1>3, <1>4 DEF Inv, Copies, CrowdedReaders, QueueInCopies
<1>6. CopiesInQueue' /\ FlushSees'
  BY <1>1, <1>2, <1>4 DEF Inv, Copies, CopiesInQueue, FlushSees
<1>7. NothingElseIsLost'
  <2>1. \A p \in Points : Queued(p) => Queued(p)'
    BY <1>2 DEF Queued
  <2>2. \A p \in 1..captured : Queued(p) \/ Settled(p)
    BY DEF Inv, NothingElseIsLost, Settled
  <2>3. \A p \in 1..captured : Queued(p)' \/ Settled(p)'
    BY <1>1, <1>4, <2>1, <2>2
  <2> QED
    BY <2>3 DEF NothingElseIsLost, Settled
<1> QED
  BY <1>5, <1>6, <1>7 DEF Copies

\* A tick that begins reads the queue as it is; with it, all readers are crowded.
LEMMA OnTickCopies == Inv /\ OnTick => Copies' /\ NothingElseIsLost'
<1> SUFFICES ASSUME Inv, OnTick PROVE Copies' /\ NothingElseIsLost'
  OBVIOUS
<1>0. PICK p \in Points : p = captured + 1
  BY DEF OnTick
<1>1. \A x \in Points : Settled(x) => Settled(x)'
  BY SettledStays DEF Inv, Next, Phone
<1>2. /\ Range(queue) \subseteq Points
      /\ \A q \in Points : Range(copy[q]) \subseteq Points
      /\ 1..captured \subseteq Points
  BY QueuesHoldPoints DEF Inv, Basic
<1>3. p \in Points /\ tick[p] = "none"
  BY <1>0, SizesAssumption DEF Inv, Basic, Ticks, TypeOK, Points
<1>4. /\ tick'[p] = "reading" /\ copy'[p] = queue /\ queue' = queue
      /\ \A q \in Points : q # p => tick'[q] = tick[q] /\ copy'[q] = copy[q]
      /\ beside \subseteq beside'
  BY <1>0, <1>3 DEF Inv, Basic, TypeOK, OnTick
<1>5. 1..captured' = 1..captured \cup {p}
  <2>1. captured' = p /\ captured \in Nat
    BY <1>0, SizesAssumption DEF Inv, Basic, TypeOK, OnTick
  <2> QED
    BY <1>0, <2>1
<1>6. Reading' = Reading \cup {p} /\ p \notin Reading
  BY <1>3, <1>4 DEF Reading
<1>7. Reading # {} => crowded' = crowded \cup Reading \cup {p}
  BY <1>0 DEF OnTick
<1>8. CrowdedReaders'
  BY <1>6, <1>7 DEF CrowdedReaders
<1>9. QueueInCopies'
  <2> SUFFICES ASSUME NEW q \in Reading', NEW x \in Range(queue')
               PROVE  x \in Range(copy'[q]) \/ Settled(x)'
    BY DEF QueueInCopies
  <2>1. CASE q = p
    BY <1>4, <2>1
  <2>2. CASE q # p
    <3>1. q \in Reading /\ q \in Points
      BY <1>6, <2>2 DEF Reading
    <3> QED
      BY <1>1, <1>2, <1>4, <2>2, <3>1 DEF Inv, Copies, QueueInCopies
  <2> QED
    BY <2>1, <2>2
<1>10. CopiesInQueue'
  <2> SUFFICES ASSUME NEW q \in Points, tick'[q] \in {"reading", "flushing"},
                      NEW x \in Range(copy'[q])
               PROVE  x \in Range(queue') \/ Settled(x)'
    BY DEF CopiesInQueue
  <2>1. CASE q = p
    BY <1>4, <2>1
  <2>2. CASE q # p
    BY <1>1, <1>2, <1>4, <2>2 DEF Inv, Copies, CopiesInQueue
  <2> QED
    BY <2>1, <2>2
<1>11. FlushSees'
  <2> SUFFICES ASSUME NEW q \in Points, tick'[q] = "flushing", NEW x \in Range(queue')
               PROVE  x \in Range(copy'[q]) \/ x \in beside' \/ Settled(x)'
    BY DEF FlushSees
  <2>1. q # p
    BY <1>4
  <2> QED
    BY <1>1, <1>2, <1>4, <2>1 DEF Inv, Copies, FlushSees
<1>12. NothingElseIsLost'
  <2>1. \A q \in 1..captured : Queued(q) \/ Settled(q)
    BY DEF Inv, NothingElseIsLost, Settled
  <2>2. \A q \in 1..captured : Queued(q) => Queued(q)'
    BY <1>2, <1>3, <1>4 DEF Queued
  <2>3. Queued(p)'
    BY <1>4 DEF Queued
  <2>4. \A q \in 1..captured' : Queued(q)' \/ Settled(q)'
    BY <1>1, <1>2, <1>5, <2>1, <2>2, <2>3
  <2> QED
    BY <2>4 DEF NothingElseIsLost, Settled
<1> QED
  BY <1>8, <1>9, <1>10, <1>11, <1>12 DEF Copies

\* A point stored by a tick: what the queue loses is settled, because the tick's copy
\* lacked it, or is dropped; what it gains was settled or comes with the point.
LEMMA EnqueueCopies ==
  ASSUME NEW p \in Points PROVE Inv /\ Enqueue(p) => Copies' /\ NothingElseIsLost'
<1> SUFFICES ASSUME Inv, Enqueue(p) PROVE Copies' /\ NothingElseIsLost'
  OBVIOUS
<1>1. \A x \in Points : Settled(x) => Settled(x)'
  BY SettledStays DEF Inv, Next, Phone
<1>2. /\ Range(queue) \subseteq Points
      /\ \A q \in Points : Range(copy[q]) \subseteq Points
      /\ 1..captured \subseteq Points
  BY QueuesHoldPoints DEF Inv, Basic
<1>3. /\ p \in Reading /\ tick[p] = "reading" /\ tick'[p] = "stored"
      /\ \A q \in Points : q # p => tick'[q] = tick[q] /\ copy'[q] = copy[q]
      /\ UNCHANGED <<captured, flusher, beside, crowded>>
  BY DEF Inv, Basic, TypeOK, Enqueue, Reading
<1>4. /\ Pushed(p) \in Seq(Points)
      /\ Range(Pushed(p)) = Range(copy[p]) \cup {p}
  BY RangeOfAppend DEF Pushed, Inv, Basic, TypeOK
<1>5. /\ Range(queue') \subseteq Range(copy[p]) \cup {p}
      /\ \A x \in Range(copy[p]) \cup {p} : x \in Range(queue') \/ Settled(x)'
  <2>1. queue' = Trimmed(Pushed(p))
    BY DEF Enqueue
  <2>2. Range(queue') \subseteq Range(Pushed(p))
    BY <1>4, <2>1, TrimmedQueue
  <2>3. Range(Pushed(p)) \ Range(queue') \subseteq dropped'
    BY <2>1 DEF Enqueue
  <2> QED
    BY <1>4, <2>2, <2>3 DEF Settled
<1>6. \A x \in Range(queue) : x \in Range(queue') \/ Settled(x)'
  BY <1>1, <1>2, <1>3, <1>5 DEF Inv, Copies, QueueInCopies
<1>7. \A x \in Range(copy[p]) : x \in Range(queue) \/ Settled(x)
  BY <1>3 DEF Inv, Copies, CopiesInQueue
<1>8. Reading' = Reading \ {p}
  BY <1>3 DEF Reading
<1>9. Reading' # {} => Settled(p) /\ Settled(p)'
  BY <1>1, <1>3, <1>8 DEF Inv, Copies, CrowdedReaders, Settled
<1>10. CrowdedReaders'
  BY <1>3, <1>8 DEF Inv, Copies, CrowdedReaders
<1>11. QueueInCopies'
  <2> SUFFICES ASSUME NEW q \in Reading', NEW x \in Range(queue')
               PROVE  x \in Range(copy'[q]) \/ Settled(x)'
    BY DEF QueueInCopies
  <2>1. q \in Reading /\ q \in Points /\ copy'[q] = copy[q]
    BY <1>3, <1>8 DEF Reading
  <2>2. CASE x = p
    BY <1>9, <2>2
  <2>3. CASE x \in Range(copy[p])
    <3>1. x \in Points
      BY <1>2, <2>3
    <3>2. x \in Range(queue) \/ Settled(x)
      BY <1>7, <2>3
    <3>3. x \in Range(queue) => x \in Range(copy[q]) \/ Settled(x)
      BY <2>1 DEF Inv, Copies, QueueInCopies
    <3> QED
      BY <1>1, <2>1, <3>1, <3>2, <3>3
  <2> QED
    BY <1>5, <2>2, <2>3
<1>12. CopiesInQueue'
  <2> SUFFICES ASSUME NEW q \in Points, tick'[q] \in {"reading", "flushing"},
                      NEW x \in Range(copy'[q])
               PROVE  x \in Range(queue') \/ Settled(x)'
    BY DEF CopiesInQueue
  <2>1. tick'[q] = tick[q] /\ copy'[q] = copy[q]
    BY <1>3
  <2>2. x \in Range(queue) \/ Settled(x)
    BY <2>1 DEF Inv, Copies, CopiesInQueue
  <2>3. x \in Points
    BY <1>2, <2>1
  <2> QED
    BY <1>1, <1>6, <2>2, <2>3
<1>13. FlushSees'
  <2> SUFFICES ASSUME NEW q \in Points, tick'[q] = "flushing", NEW x \in Range(queue')
               PROVE  x \in Range(copy'[q]) \/ x \in beside' \/ Settled(x)'
    BY DEF FlushSees
  <2>1. tick[q] = "flushing" /\ copy'[q] = copy[q]
    BY <1>3
  <2>2. CASE x = p
    <3>1. q = flusher /\ 0 \notin Points
      BY <2>1 DEF Inv, Basic, Ticks, Points
    <3>2. p \in beside
      BY <1>3, <3>1 DEF Inv, Basic, Ticks
    <3> QED
      BY <1>3, <2>2, <3>2
  <2>3. CASE x \in Range(copy[p])
    <3>1. x \in Range(queue) \/ Settled(x)
      BY <1>7, <2>3
    <3>2. x \in Range(queue) => x \in Range(copy[q]) \/ x \in beside \/ Settled(x)
      BY <2>1 DEF Inv, Copies, FlushSees
    <3> QED
      BY <1>1, <1>2, <1>3, <2>1, <2>3, <3>1, <3>2
  <2> QED
    BY <1>5, <2>2, <2>3
<1>14. NothingElseIsLost'
  <2> SUFFICES ASSUME NEW q \in 1..captured
               PROVE  Queued(q)' \/ Settled(q)'
    BY <1>3 DEF NothingElseIsLost, Settled
  <2>1. CASE q = p
    BY <1>5, <2>1 DEF Queued
  <2>2. CASE q # p
    <3>1. Queued(q) \/ Settled(q)
      BY DEF Inv, NothingElseIsLost, Settled
    <3>2. tick[q] = "reading" => Queued(q)'
      BY <1>2, <1>3, <2>2 DEF Queued
    <3>3. q \in Range(queue) => Queued(q)' \/ Settled(q)'
      BY <1>6 DEF Queued
    <3> QED
      BY <1>1, <1>2, <3>1, <3>2, <3>3 DEF Queued
  <2> QED
    BY <2>1, <2>2
<1> QED
  BY <1>10, <1>11, <1>12, <1>13, <1>14 DEF Copies

\* A flush that begins reads the queue as it is.
LEMMA FlushCopies ==
  ASSUME NEW p \in Points PROVE Inv /\ Flush(p) => Copies' /\ NothingElseIsLost'
<1> SUFFICES ASSUME Inv, Flush(p) PROVE Copies' /\ NothingElseIsLost'
  OBVIOUS
<1>1. \A x \in Points : Settled(x) => Settled(x)'
  BY SettledStays DEF Inv, Next, Phone
<1>2. /\ Range(queue) \subseteq Points
      /\ \A q \in Points : Range(copy[q]) \subseteq Points
      /\ 1..captured \subseteq Points
  BY QueuesHoldPoints DEF Inv, Basic
<1>3. /\ tick[p] = "stored" /\ tick'[p] = "flushing" /\ copy'[p] = queue
      /\ \A q \in Points : q # p => tick'[q] = tick[q] /\ copy'[q] = copy[q]
      /\ UNCHANGED <<captured, queue, crowded>>
  BY DEF Inv, Basic, TypeOK, Flush
<1>4. Reading' = Reading /\ p \notin Reading
  BY <1>3 DEF Reading
<1>5. \A q \in Points : q # p => tick'[q] # "flushing"
  BY <1>3 DEF Inv, Basic, Ticks, Flush, Points
<1>6. CrowdedReaders'
  BY <1>3, <1>4 DEF Inv, Copies, CrowdedReaders
<1>7. QueueInCopies'
  <2>1. \A q \in Reading : q \in Points /\ copy'[q] = copy[q]
    BY <1>3, <1>4 DEF Reading
  <2> QED
    BY <1>1, <1>2, <1>3, <1>4, <2>1 DEF Inv, Copies, QueueInCopies
<1>8. CopiesInQueue'
  <2> SUFFICES ASSUME NEW q \in Points, tick'[q] \in {"reading", "flushing"},
                      NEW x \in Range(copy'[q])
               PROVE  x \in Range(queue') \/ Settled(x)'
    BY DEF CopiesInQueue
  <2>1. CASE q = p
    BY <1>3, <2>1
  <2>2. CASE q # p
    BY <1>1, <1>2, <1>3, <2>2 DEF Inv, Copies, CopiesInQueue
  <2> QED
    BY <2>1, <2>2
<1>9. FlushSees'
  BY <1>3, <1>5 DEF FlushSees
<1>10. NothingElseIsLost'
  <2>1. \A q \in 1..captured : Queued(q) \/ Settled(q)
    BY DEF Inv, NothingElseIsLost, Settled
  <2>2. \A q \in 1..captured : Queued(q) => Queued(q)'
    BY <1>2, <1>3 DEF Queued
  <2>3. \A q \in 1..captured' : Queued(q)' \/ Settled(q)'
    BY <1>1, <1>2, <1>3, <2>1, <2>2
  <2> QED
    BY <2>3 DEF NothingElseIsLost, Settled
<1> QED
  BY <1>6, <1>7, <1>8, <1>9, <1>10 DEF Copies

\* An answered flush writes back its copy less the batch.  The batch is logged; what
\* the copy lacked was settled or stored beside the flush, and so overtaken.
LEMMA FlushAnsweredCopies ==
  ASSUME NEW p \in Points PROVE Inv /\ FlushAnswered(p) => Copies' /\ NothingElseIsLost'
<1> SUFFICES ASSUME Inv, FlushAnswered(p) PROVE Copies' /\ NothingElseIsLost'
  OBVIOUS
<1>1. \A x \in Points : Settled(x) => Settled(x)'
  BY SettledStays DEF Inv, Next, Phone
<1>2. /\ Range(queue) \subseteq Points
      /\ \A q \in Points : Range(copy[q]) \subseteq Points
      /\ 1..captured \subseteq Points
  BY QueuesHoldPoints DEF Inv, Basic
<1>3. /\ tick[p] = "flushing" /\ tick'[p] = "done" /\ queue' = Remaining(p)
      /\ \A q \in Points : q # p => tick'[q] = tick[q] /\ copy'[q] = copy[q]
      /\ UNCHANGED <<captured, crowded>>
  BY DEF Inv, Basic, TypeOK, FlushAnswered
<1>4. Reading' = Reading /\ p \notin Reading
  BY <1>3 DEF Reading
<1>5. \A q \in Points : tick'[q] # "flushing"
  BY <1>3 DEF Inv, Basic, Ticks
<1>6. /\ Range(queue') \subseteq Range(copy[p])
      /\ \A x \in Range(copy[p]) : x \in Range(queue') \/ Settled(x)'
  <2>1. copy[p] \in Seq(Points) /\ batch[p] = Slice(copy[p], BatchSize)
    BY <1>3 DEF Inv, Basic, TypeOK, Ticks
  <2>2. Range(copy[p]) = Range(batch[p]) \cup Range(queue')
    BY <1>3, <2>1, BatchIsFront DEF Remaining
  <2>3. \A x \in Range(batch[p]) : Settled(x)
    BY DEF Inv, Basic, Posts, FlushAnswered, Settled
  <2> QED
    BY <1>1, <1>2, <2>2, <2>3
<1>7. \A x \in Range(queue) : x \in Range(queue') \/ Settled(x)'
  <2> SUFFICES ASSUME NEW x \in Range(queue)
               PROVE  x \in Range(queue') \/ Settled(x)'
    OBVIOUS
  <2>1. x \in Range(copy[p]) \/ x \in beside \/ Settled(x)
    BY <1>3 DEF Inv, Copies, FlushSees
  <2>2. x \in beside => Settled(x)'
    BY DEF FlushAnswered, Settled
  <2> QED
    BY <1>1, <1>2, <1>6, <2>1, <2>2
<1>8. \A x \in Range(queue') : x \in Range(queue) \/ Settled(x)
  BY <1>3, <1>6 DEF Inv, Copies, CopiesInQueue
<1>9. CrowdedReaders'
  BY <1>3, <1>4 DEF Inv, Copies, CrowdedReaders
<1>10. QueueInCopies'
  <2> SUFFICES ASSUME NEW q \in Reading', NEW x \in Range(queue')
               PROVE  x \in Range(copy'[q]) \/ Settled(x)'
    BY DEF QueueInCopies
  <2>1. q \in Reading /\ copy'[q] = copy[q]
    BY <1>3, <1>4 DEF Reading
  <2>2. x \in Range(queue) => x \in Range(copy[q]) \/ Settled(x)
    BY <2>1 DEF Inv, Copies, QueueInCopies
  <2>3. x \in Points
    BY <1>2, <1>6
  <2> QED
    BY <1>1, <1>8, <2>1, <2>2, <2>3
<1>11. CopiesInQueue'
  <2> SUFFICES ASSUME NEW q \in Points, tick'[q] \in {"reading", "flushing"},
                      NEW x \in Range(copy'[q])
               PROVE  x \in Range(queue') \/ Settled(x)'
    BY DEF CopiesInQueue
  <2>1. tick'[q] = tick[q] /\ copy'[q] = copy[q]
    BY <1>3
  <2>2. x \in Range(queue) \/ Settled(x)
    BY <2>1 DEF Inv, Copies, CopiesInQueue
  <2> QED
    BY <1>1, <1>2, <1>7, <2>1, <2>2
<1>12. FlushSees'
  BY <1>5 DEF FlushSees
<1>13. NothingElseIsLost'
  <2> SUFFICES ASSUME NEW q \in 1..captured
               PROVE  Queued(q)' \/ Settled(q)'
    BY <1>3 DEF NothingElseIsLost, Settled
  <2>1. Queued(q) \/ Settled(q)
    BY DEF Inv, NothingElseIsLost, Settled
  <2>2. tick[q] = "reading" => Queued(q)'
    BY <1>2, <1>3 DEF Queued
  <2>3. q \in Range(queue) => Queued(q)' \/ Settled(q)'
    BY <1>7 DEF Queued
  <2> QED
    BY <1>1, <1>2, <2>1, <2>2, <2>3 DEF Queued
<1> QED
  BY <1>9, <1>10, <1>11, <1>12, <1>13 DEF Copies

\* A failed flush leaves the queue alone and gives its copy up.
LEMMA FlushFailedCopies ==
  ASSUME NEW p \in Points PROVE Inv /\ FlushFailed(p) => Copies' /\ NothingElseIsLost'
<1> SUFFICES ASSUME Inv, FlushFailed(p) PROVE Copies' /\ NothingElseIsLost'
  OBVIOUS
<1>1. \A x \in Points : Settled(x) => Settled(x)'
  BY SettledStays DEF Inv, Next, Phone
<1>2. /\ Range(queue) \subseteq Points
      /\ \A q \in Points : Range(copy[q]) \subseteq Points
      /\ 1..captured \subseteq Points
  BY QueuesHoldPoints DEF Inv, Basic
<1>3. /\ tick[p] = "flushing" /\ tick'[p] = "done"
      /\ \A q \in Points : q # p => tick'[q] = tick[q] /\ copy'[q] = copy[q]
      /\ UNCHANGED <<captured, queue, crowded>>
  BY DEF Inv, Basic, TypeOK, FlushFailed, Kept
<1>4. Reading' = Reading /\ p \notin Reading
  BY <1>3 DEF Reading
<1>5. \A q \in Points : tick'[q] # "flushing"
  BY <1>3 DEF Inv, Basic, Ticks
<1>6. CrowdedReaders'
  BY <1>3, <1>4 DEF Inv, Copies, CrowdedReaders
<1>7. QueueInCopies'
  <2>1. \A q \in Reading : q \in Points /\ copy'[q] = copy[q]
    BY <1>3, <1>4 DEF Reading
  <2> QED
    BY <1>1, <1>2, <1>3, <1>4, <2>1 DEF Inv, Copies, QueueInCopies
<1>8. CopiesInQueue'
  BY <1>1, <1>2, <1>3 DEF Inv, Copies, CopiesInQueue
<1>9. FlushSees'
  BY <1>5 DEF FlushSees
<1>10. NothingElseIsLost'
  <2>1. \A q \in 1..captured : Queued(q) \/ Settled(q)
    BY DEF Inv, NothingElseIsLost, Settled
  <2>2. \A q \in 1..captured : Queued(q) => Queued(q)'
    BY <1>2, <1>3 DEF Queued
  <2>3. \A q \in 1..captured' : Queued(q)' \/ Settled(q)'
    BY <1>1, <1>2, <1>3, <2>1, <2>2
  <2> QED
    BY <2>3 DEF NothingElseIsLost, Settled
<1> QED
  BY <1>6, <1>7, <1>8, <1>9, <1>10 DEF Copies

\* Killed, the app leaves the queue: only the points of reading ticks go, dropped.
LEMMA KillCopies == Inv /\ Kill => Copies' /\ NothingElseIsLost'
<1> SUFFICES ASSUME Inv, Kill PROVE Copies' /\ NothingElseIsLost'
  OBVIOUS
<1>1. \A x \in Points : Settled(x) => Settled(x)'
  BY SettledStays DEF Inv, Next, Phone
<1>2. 1..captured \subseteq Points
  BY QueuesHoldPoints DEF Inv, Basic
<1>3. \A p \in Points : tick'[p] \in {"none", "done"}
  BY DEF Kill
<1>4. Reading' = {}
  BY <1>3 DEF Reading
<1>5. Copies'
  BY <1>3, <1>4 DEF Copies, CrowdedReaders, QueueInCopies, CopiesInQueue, FlushSees
<1>6. NothingElseIsLost'
  <2>1. queue' = queue /\ captured' = captured /\ Reading \subseteq dropped'
    BY DEF Kill
  <2> SUFFICES ASSUME NEW q \in 1..captured
               PROVE  Queued(q)' \/ Settled(q)'
    BY <2>1 DEF NothingElseIsLost, Settled
  <2>2. Queued(q) \/ Settled(q)
    BY DEF Inv, NothingElseIsLost, Settled
  <2>3. tick[q] = "reading" => Settled(q)'
    BY <1>2, <2>1 DEF Reading, Settled
  <2> QED
    BY <1>1, <1>2, <2>1, <2>2, <2>3 DEF Queued
<1> QED
  BY <1>5, <1>6

\* Inv is inductive.
LEMMA InvStep == Inv /\ [Next]_vars => Inv'
<1> SUFFICES ASSUME Inv, [Next]_vars PROVE Copies' /\ NothingElseIsLost'
  BY BasicStep DEF Inv
<1>1. CASE StartOrStop
  BY <1>1, QueueUntouched DEF StartOrStop, history
<1>2. ASSUME NEW p \in Points, SkipFlush(p)
      PROVE  Copies' /\ NothingElseIsLost'
  <2>1. UNCHANGED <<captured, queue, copy, flusher, beside, crowded>>
    BY <1>2 DEF SkipFlush, history
  <2>2. \A q \in Points : \/ tick'[q] = tick[q]
                          \/ tick[q] = "stored" /\ tick'[q] = "done"
    BY <1>2 DEF SkipFlush, Inv, Basic, TypeOK
  <2> QED
    BY <2>1, <2>2, QueueUntouched
<1>3. ASSUME NEW p \in Points, PostGps(p) \/ SaveLast(p)
      PROVE  Copies' /\ NothingElseIsLost'
  BY <1>3, QueueUntouched DEF PostGps, SaveLast, phoneVars, history
<1>4. CASE UNCHANGED vars
  BY <1>4, QueueUntouched DEF vars, phoneVars, history
<1> QED
  BY <1>1, <1>2, <1>3, <1>4, OnTickCopies, EnqueueCopies, FlushCopies,
     FlushAnsweredCopies, FlushFailedCopies, KillCopies DEF Next, Phone, Server

\* Before the first tick there is nothing to lose.
LEMMA InitInv == Init => Inv
<1> SUFFICES ASSUME Init PROVE Copies /\ NothingElseIsLost
  BY InitBasic DEF Inv
<1>1. \A p \in Points : tick[p] = "none"
  BY DEF Init
<1>2. Reading = {}
  BY <1>1 DEF Reading
<1>3. Copies
  BY <1>1, <1>2 DEF Copies, CrowdedReaders, QueueInCopies, CopiesInQueue, FlushSees
<1>4. NothingElseIsLost
  BY DEF Init, NothingElseIsLost
<1> QED
  BY <1>3, <1>4

-----------------------------------------------------------------------------
(* No point twice.  A queue holds a point once, and a batch leaves the     *)
(* queue when it is answered.                                              *)

Distinct(s) == \A i, j \in 1..Len(s) : s[i] = s[j] => i = j

LEMMA Elements ==
  ASSUME NEW s \in Seq(Points)
  PROVE  \A x : x \in Range(s) <=> \E i \in 1..Len(s) : x = s[i]
  BY DEF Range

LEMMA SomeElement ==
  ASSUME NEW s \in Seq(Points), s # <<>>
  PROVE  Range(s) \in SUBSET Points /\ Range(s) # {}
<1>1. 1 \in 1..Len(s)
  OBVIOUS
<1>2. s[1] \in Range(s)
  BY <1>1, Elements
<1> QED
  BY <1>2, RangeOfSeq

LEMMA FrontElements ==
  ASSUME NEW s \in Seq(Points)
  PROVE  /\ Slice(s, BatchSize) \in Seq(Points)
         /\ Len(Slice(s, BatchSize)) = IF Len(s) < BatchSize THEN Len(s) ELSE BatchSize
         /\ \A i \in 1..Len(Slice(s, BatchSize)) : Slice(s, BatchSize)[i] = s[i]
<1> DEFINE n == IF Len(s) < BatchSize THEN Len(s) ELSE BatchSize
<1>1. Len(s) \in Nat /\ n \in 0..Len(s) /\ \A i \in 1..Len(s) : s[i] \in Points
  BY SizesAssumption, ElementOfSeq
<1>2. Slice(s, BatchSize) = SubSeq(s, 1, n)
  BY DEF Slice
<1> HIDE DEF n
<1>3. /\ SubSeq(s, 1, n) \in Seq(Points) /\ Len(SubSeq(s, 1, n)) = n
      /\ \A i \in 1..n : SubSeq(s, 1, n)[i] = s[i]
  <2>1. 1 \in Int /\ n \in Int /\ \A i \in 1..n : s[i] \in Points
    BY <1>1
  <2> QED
    BY <1>1, <2>1, SubSeqProperties
<1> QED
  BY <1>2, <1>3 DEF n

LEMMA RestElements ==
  ASSUME NEW s \in Seq(Points), NEW n \in 0..Len(s)
  PROVE  /\ SliceFrom(s, n) \in Seq(Points)
         /\ Len(SliceFrom(s, n)) = Len(s) - n
         /\ \A i \in 1..Len(SliceFrom(s, n)) : SliceFrom(s, n)[i] = s[i + n]
<1>1. Len(s) \in Nat /\ n \in Nat /\ n <= Len(s) /\ \A i \in 1..Len(s) : s[i] \in Points
  BY ElementOfSeq
<1>2. SliceFrom(s, n) \in Seq(Points) /\ Len(SliceFrom(s, n)) = Len(s) - n
  BY SliceParts
<1>3. ASSUME NEW i \in 1..(Len(s) - n) PROVE SubSeq(s, n + 1, Len(s))[i] = s[i + n]
  <2>1. n + 1 \in Int /\ Len(s) \in Int /\ \A j \in (n + 1)..Len(s) : s[j] \in Points
    BY <1>1
  <2>2. i \in 1..(Len(s) - (n + 1) + 1) /\ n + 1 <= Len(s) /\ (n + 1) + i - 1 = i + n
    BY <1>1
  <2> QED
    BY <2>1, <2>2, SubSeqProperties
<1> QED
  BY <1>2, <1>3 DEF SliceFrom

\* Pushing, trimming and posting keep a queue free of doubles.
LEMMA PushedDistinct ==
  ASSUME NEW s \in Seq(Points), NEW e \in Points, Distinct(s), e \notin Range(s)
  PROVE  Append(s, e) \in Seq(Points) /\ Distinct(Append(s, e))
<1>1. \A i \in 1..Len(s) : s[i] # e
  BY Elements
<1> QED
  BY <1>1 DEF Distinct

LEMMA RestDistinct ==
  ASSUME NEW s \in Seq(Points), NEW n \in 0..Len(s), Distinct(s)
  PROVE  Distinct(SliceFrom(s, n))
<1> DEFINE rest == SliceFrom(s, n)
<1>1. \A i \in 1..(Len(s) - n) : i + n \in 1..Len(s)
  BY LenProperties
<1>2. Len(rest) = Len(s) - n /\ \A i \in 1..Len(rest) : rest[i] = s[i + n]
  BY RestElements
<1> HIDE DEF rest
<1>3. ASSUME NEW i \in 1..Len(rest), NEW j \in 1..Len(rest), rest[i] = rest[j] PROVE i = j
  <2>1. i + n \in 1..Len(s) /\ j + n \in 1..Len(s) /\ s[i + n] = s[j + n]
    BY <1>1, <1>2, <1>3
  <2>2. i + n = j + n
    BY <2>1 DEF Distinct
  <2>3. i \in Int /\ j \in Int /\ n \in Int
    BY <1>3
  <2> QED
    BY <2>2, <2>3
<1>4. Distinct(rest)
  BY <1>3 DEF Distinct
<1> QED
  BY <1>4 DEF rest

LEMMA TrimmedDistinct ==
  ASSUME NEW s \in Seq(Points), Distinct(s)
  PROVE  Distinct(Trimmed(s))
<1>1. Len(s) > MaxQueue => Len(s) - MaxQueue \in 0..Len(s)
  BY SizesAssumption
<1> QED
  BY <1>1, RestDistinct DEF Trimmed

LEMMA FrontNotInRest ==
  ASSUME NEW s \in Seq(Points), Distinct(s)
  PROVE  \A x \in Range(Slice(s, BatchSize)) :
           x \notin Range(SliceFrom(s, Len(Slice(s, BatchSize))))
<1> DEFINE n == Len(Slice(s, BatchSize))
           rest == SliceFrom(s, n)
<1>1. n \in 0..Len(s) /\ Slice(s, BatchSize) \in Seq(Points)
  BY FrontElements, SizesAssumption
<1> SUFFICES ASSUME NEW x \in Range(Slice(s, BatchSize)), x \in Range(rest) PROVE FALSE
  OBVIOUS
<1>2. PICK i \in 1..n : x = s[i]
  <2>1. PICK i \in 1..n : x = Slice(s, BatchSize)[i]
    BY <1>1, Elements
  <2> QED
    BY <2>1, FrontElements
<1>3. rest \in Seq(Points) /\ Len(rest) = Len(s) - n
  BY <1>1, RestElements
<1>4. PICK j \in 1..Len(rest) : x = rest[j]
  BY <1>3, Elements
<1>5. x = s[j + n]
  BY <1>1, <1>4, RestElements
<1>6. i \in 1..Len(s) /\ j + n \in 1..Len(s) /\ i # j + n
  BY <1>1, <1>2, <1>3, <1>4
<1> QED
  BY <1>2, <1>5, <1>6 DEF Distinct

\* The points that _enqueue has stored at some time.
Stored == {x \in Points : tick[x] \notin {"none", "reading"}}

InStore ==
  /\ Range(queue) \subseteq Stored
  /\ \A p \in Points : Range(copy[p]) \subseteq Stored /\ Range(batch[p]) \subseteq Stored
  /\ Distinct(queue) /\ \A p \in Points : Distinct(copy[p])
  /\ \A p \in Points : tick[p] \in {"none", "reading", "stored"} => batch[p] = <<>> /\ post[p] = "none"
  /\ \A p \in Points : tick[p] \notin {"reading", "flushing"} => copy[p] = <<>>

\* A point whose posts were all answered in time is in one batch; when that flush is
\* over, nobody has the point any more.
PostedOnce(x) ==
  /\ \A p, q \in Points : x \in Range(batch[p]) /\ x \in Range(batch[q]) => p = q
  /\ \A p \in Points : x \in Range(batch[p]) /\ p # flusher =>
       x \notin Range(queue) /\ \A q \in Points : x \notin Range(copy[q])
  /\ logged[x] <= 1
  /\ logged[x] # 0 => \E p \in Points : post[p] \in {"logged", "saved"} /\ x \in Range(batch[p])

Once == InStore /\ \A x \in Points \ (unsure \cup restored) : PostedOnce(x)

LEMMA InitOnce == Init => Once
<1> SUFFICES ASSUME Init PROVE Once
  OBVIOUS
<1>1. Range(<<>>) = {} /\ Distinct(<<>>)
  BY DEF Range, Distinct
<1> QED
  BY <1>1 DEF Init, Once, InStore, PostedOnce

\* A step that touches no queue, batch or post.
LEMMA UntouchedOnce ==
  ASSUME Basic, Once, UNCHANGED <<queue, copy, batch, post, logged, flusher, unsure, restored>>,
         \A q \in Points : tick'[q] = tick[q] \/ (tick[q] = "stored" /\ tick'[q] = "done")
  PROVE  Once'
<1>1. Stored' = Stored
  BY DEF Stored
<1>2. InStore'
  BY <1>1 DEF Once, InStore
<1>3. \A x \in Points : PostedOnce(x) => PostedOnce(x)'
  BY DEF PostedOnce
<1> QED
  BY <1>2, <1>3 DEF Once

LEMMA OnTickOnce == Basic /\ Once /\ OnTick => Once'
<1> SUFFICES ASSUME Basic, Once, OnTick PROVE Once'
  OBVIOUS
<1> DEFINE p == captured + 1
<1>1. p \in Points /\ p > captured
  BY DEF OnTick, Basic, TypeOK
<1> HIDE DEF p
<1>2. tick[p] = "none" /\ tick'[p] = "reading" /\ copy'[p] = queue
  BY <1>1 DEF OnTick, Basic, TypeOK, Ticks, p
<1>3. \A q \in Points \ {p} : tick'[q] = tick[q] /\ copy'[q] = copy[q]
  BY <1>1 DEF OnTick, Basic, TypeOK, p
<1>4. UNCHANGED <<queue, batch, post, logged, flusher, unsure, restored>>
  BY DEF OnTick, serverVars
<1>5. Stored' = Stored
  BY <1>1, <1>2, <1>3 DEF Stored
<1>6. InStore'
  BY <1>1, <1>2, <1>3, <1>4, <1>5 DEF Once, InStore
<1>7. \A x \in Points : PostedOnce(x) => PostedOnce(x)'
  BY <1>2, <1>3, <1>4 DEF PostedOnce
<1> QED
  BY <1>4, <1>6, <1>7 DEF Once

\* The point being stored is in no queue, copy or batch yet.
LEMMA EnqueueOnce ==
  ASSUME NEW p \in Points PROVE Basic /\ Once /\ Enqueue(p) => Once'
<1> SUFFICES ASSUME Basic, Once, Enqueue(p) PROVE Once'
  OBVIOUS
<1>1. /\ tick[p] = "reading" /\ tick'[p] = "stored" /\ queue' = Trimmed(Pushed(p)) /\ copy'[p] = <<>>
      /\ \A q \in Points \ {p} : tick'[q] = tick[q] /\ copy'[q] = copy[q]
      /\ UNCHANGED <<batch, post, logged, flusher, unsure, restored>>
  BY DEF Enqueue, Reading, serverVars, Basic, TypeOK
<1>2. Stored' = Stored \cup {p} /\ p \notin Stored
  BY <1>1 DEF Stored
<1>3. copy[p] \in Seq(Points) /\ Distinct(copy[p]) /\ p \notin Range(copy[p])
  BY <1>2 DEF Basic, TypeOK, Once, InStore
<1>4. Pushed(p) \in Seq(Points) /\ Distinct(Pushed(p)) /\ Range(Pushed(p)) = Range(copy[p]) \cup {p}
  BY <1>3, PushedDistinct, RangeOfAppend DEF Pushed
<1>5. Distinct(queue') /\ Range(queue') \subseteq Range(copy[p]) \cup {p}
  BY <1>1, <1>4, TrimmedDistinct, TrimmedQueue
<1>6. InStore'
  <2>1. Range(<<>>) = {} /\ Distinct(<<>>)
    BY DEF Range, Distinct
  <2> QED
    BY <1>1, <1>2, <1>5, <2>1 DEF Once, InStore
<1>7. ASSUME NEW x \in Points, PostedOnce(x) PROVE PostedOnce(x)'
  <2>1. \A q \in Points : x \in Range(batch[q]) => x # p
    BY <1>2 DEF Once, InStore
  <2>2. Range(<<>>) = {}
    BY DEF Range
  <2> QED
    BY <1>1, <1>5, <1>7, <2>1, <2>2 DEF PostedOnce
<1> QED
  BY <1>1, <1>6, <1>7 DEF Once

\* What a flush posts was in the queue, so in no batch of a flush that is over.
LEMMA FlushOnce ==
  ASSUME NEW p \in Points PROVE Basic /\ Once /\ Flush(p) => Once'
<1> SUFFICES ASSUME Basic, Once, Flush(p) PROVE Once'
  OBVIOUS
<1>1. /\ tick[p] = "stored" /\ tick'[p] = "flushing" /\ copy'[p] = queue /\ flusher = 0 /\ flusher' = p
      /\ batch'[p] = Slice(queue, BatchSize) /\ post'[p] = "sent"
      /\ \A q \in Points \ {p} : /\ tick'[q] = tick[q] /\ copy'[q] = copy[q]
                                  /\ batch'[q] = batch[q] /\ post'[q] = post[q]
      /\ UNCHANGED <<queue, logged, unsure, restored>>
  BY DEF Flush, Basic, TypeOK
<1>2. Stored' = Stored /\ 0 \notin Points
  BY <1>1 DEF Stored, Points
<1>3. Range(Slice(queue, BatchSize)) \subseteq Range(queue)
  BY BatchIsFront DEF Basic, TypeOK
<1>4. batch[p] = <<>> /\ post[p] = "none" /\ Range(batch[p]) = {}
  BY <1>1 DEF Once, InStore, Range
<1>5. InStore'
  BY <1>1, <1>2, <1>3 DEF Once, InStore
<1>6. ASSUME NEW x \in Points, PostedOnce(x) PROVE PostedOnce(x)'
  <2>1. \A q \in Points : x \in Range(batch[q]) => x \notin Range(queue)
    BY <1>1, <1>2, <1>6 DEF PostedOnce
  <2>2. \A a, b \in Points : x \in Range(batch'[a]) /\ x \in Range(batch'[b]) => a = b
    BY <1>1, <1>3, <1>6, <2>1 DEF PostedOnce
  <2>3. \A a \in Points : x \in Range(batch'[a]) /\ a # flusher' =>
          x \notin Range(queue') /\ \A q \in Points : x \notin Range(copy'[q])
    BY <1>1, <1>2, <1>6, <2>1 DEF PostedOnce
  <2>4. /\ logged'[x] <= 1
        /\ logged'[x] # 0 => \E a \in Points : post'[a] \in {"logged", "saved"} /\ x \in Range(batch'[a])
    BY <1>1, <1>4, <1>6 DEF PostedOnce
  <2> QED
    BY <2>2, <2>3, <2>4 DEF PostedOnce
<1> QED
  BY <1>1, <1>5, <1>6 DEF Once

\* An answered flush takes its batch out of the queue it read, and no tick still
\* holds an older one, unless that restores the points.
LEMMA FlushAnsweredOnce ==
  ASSUME NEW p \in Points PROVE Basic /\ Once /\ FlushAnswered(p) => Once'
<1> SUFFICES ASSUME Basic, Once, FlushAnswered(p) PROVE Once'
  OBVIOUS
<1>1. /\ tick[p] = "flushing" /\ tick'[p] = "done" /\ flusher = p /\ flusher' = 0
      /\ copy'[p] = <<>> /\ queue' = Remaining(p)
      /\ \A q \in Points \ {p} : tick'[q] = tick[q] /\ copy'[q] = copy[q]
      /\ UNCHANGED <<batch, post, logged, unsure>>
      /\ restored' = IF Reading = {} THEN restored ELSE restored \cup Range(batch[p])
  BY DEF FlushAnswered, serverVars, Basic, TypeOK, Ticks
<1>2. Stored' = Stored
  BY <1>1 DEF Stored
<1>3. copy[p] \in Seq(Points) /\ Distinct(copy[p]) /\ batch[p] = Slice(copy[p], BatchSize)
  BY <1>1 DEF Basic, TypeOK, Ticks, Once, InStore
<1>4. /\ Range(queue') \subseteq Range(copy[p]) /\ Distinct(queue')
      /\ \A x \in Range(batch[p]) : x \notin Range(queue')
  <2>1. Len(batch[p]) \in 0..Len(copy[p])
    BY <1>3, FrontElements, SizesAssumption
  <2> QED
    BY <1>1, <1>3, <2>1, BatchIsFront, RestDistinct, FrontNotInRest DEF Remaining
<1>5. Range(<<>>) = {} /\ Distinct(<<>>)
  BY DEF Range, Distinct
<1>6. InStore'
  BY <1>1, <1>2, <1>4, <1>5 DEF Once, InStore
<1>7. ASSUME NEW x \in Points, PostedOnce(x), x \notin restored' PROVE PostedOnce(x)'
  <2>1. \A a \in Points : x \in Range(batch'[a]) =>
          x \notin Range(queue') /\ \A q \in Points : x \notin Range(copy'[q])
    <3> SUFFICES ASSUME NEW a \in Points, x \in Range(batch[a])
                 PROVE  x \notin Range(queue') /\ \A q \in Points : x \notin Range(copy'[q])
      BY <1>1
    <3>1. CASE a # p
      BY <1>1, <1>4, <1>5, <1>7, <3>1 DEF PostedOnce
    <3>2. CASE a = p
      <4>1. Reading = {} /\ x \notin Range(queue')
        BY <1>1, <1>4, <1>7, <3>2
      <4>2. \A q \in Points : copy'[q] = <<>>
        BY <1>1, <4>1 DEF Reading, Once, InStore, Basic, Ticks
      <4> QED
        BY <1>5, <4>1, <4>2
    <3> QED
      BY <3>1, <3>2
  <2> QED
    BY <1>1, <1>7, <2>1 DEF PostedOnce
<1> QED
  BY <1>1, <1>6, <1>7 DEF Once

\* A flush that fails leaves its points where they were, but unsure.
LEMMA FlushFailedOnce ==
  ASSUME NEW p \in Points PROVE Basic /\ Once /\ FlushFailed(p) => Once'
<1> SUFFICES ASSUME Basic, Once, FlushFailed(p) PROVE Once'
  OBVIOUS
<1>1. /\ tick[p] = "flushing" /\ tick'[p] = "done" /\ flusher = p
      /\ copy'[p] = <<>> /\ queue' = queue
      /\ \A q \in Points \ {p} : tick'[q] = tick[q] /\ copy'[q] = copy[q]
      /\ UNCHANGED <<batch, post, logged, restored>>
      /\ unsure' = unsure \cup Range(batch[p])
  BY DEF FlushFailed, Kept, serverVars, Basic, TypeOK, Ticks
<1>2. Stored' = Stored
  BY <1>1 DEF Stored
<1>3. Range(<<>>) = {} /\ Distinct(<<>>)
  BY DEF Range, Distinct
<1>4. InStore'
  BY <1>1, <1>2, <1>3 DEF Once, InStore
<1>5. ASSUME NEW x \in Points, PostedOnce(x), x \notin unsure' PROVE PostedOnce(x)'
  BY <1>1, <1>3, <1>5 DEF PostedOnce
<1> QED
  BY <1>1, <1>4, <1>5 DEF Once

LEMMA KillOnce == Basic /\ Once /\ Kill => Once'
<1> SUFFICES ASSUME Basic, Once, Kill PROVE Once'
  OBVIOUS
<1>1. /\ \A p \in Points : copy'[p] = <<>>
      /\ UNCHANGED <<queue, batch, post, logged, restored>>
      /\ unsure' = IF flusher = 0 THEN unsure ELSE unsure \cup Range(batch[flusher])
  BY DEF Kill, serverVars
<1>2. \A p \in Points : tick'[p] \in {"none", "done"} /\ (tick[p] = "none" <=> tick'[p] = "none")
  BY DEF Kill
<1>2a. Stored \subseteq Stored'
  BY <1>2 DEF Stored
<1>3. Range(<<>>) = {} /\ Distinct(<<>>)
  BY DEF Range, Distinct
<1>4. InStore'
  BY <1>1, <1>2, <1>2a, <1>3 DEF Once, InStore
<1>5. ASSUME NEW x \in Points, PostedOnce(x), x \notin unsure' PROVE PostedOnce(x)'
  <2>1. flusher # 0 => x \notin Range(batch[flusher])
    BY <1>1, <1>5
  <2>2. \A a \in Points : x \in Range(batch[a]) => a # flusher
    BY <2>1 DEF Points
  <2> QED
    BY <1>1, <1>3, <1>5, <2>2 DEF PostedOnce
<1> QED
  BY <1>1, <1>4, <1>5 DEF Once

\* postGps logs the points of a batch that was not served before.
LEMMA PostGpsOnce ==
  ASSUME NEW p \in Points PROVE Basic /\ Once /\ PostGps(p) => Once'
<1> SUFFICES ASSUME Basic, Once, PostGps(p) PROVE Once'
  OBVIOUS
<1>1. /\ post[p] = "sent" /\ post'[p] = "logged"
      /\ \A q \in Points \ {p} : post'[q] = post[q]
      /\ \A x \in Points : logged'[x] = logged[x] + (IF x \in Range(batch[p]) THEN 1 ELSE 0)
      /\ UNCHANGED <<tick, copy, queue, batch, flusher, unsure, restored>>
  BY DEF PostGps, phoneVars, history, Basic, TypeOK
<1>2. Stored' = Stored
  BY <1>1 DEF Stored
<1>3. InStore'
  BY <1>1, <1>2 DEF Once, InStore
<1>4. ASSUME NEW x \in Points, PostedOnce(x) PROVE PostedOnce(x)'
  <2>1. logged[x] \in Nat
    BY DEF Basic, TypeOK
  <2>2. CASE x \in Range(batch[p])
    <3>1. logged[x] = 0
      BY <1>1, <1>4, <2>2 DEF PostedOnce
    <3>2. logged'[x] = 1
      BY <1>1, <2>2, <3>1
    <3> QED
      BY <1>1, <1>4, <2>2, <3>2 DEF PostedOnce
  <2>3. CASE x \notin Range(batch[p])
    <3>1. logged'[x] = logged[x]
      BY <1>1, <2>1, <2>3
    <3> QED
      BY <1>1, <1>4, <2>3, <3>1 DEF PostedOnce
  <2> QED
    BY <2>2, <2>3
<1> QED
  BY <1>1, <1>3, <1>4 DEF Once

LEMMA SaveLastOnce ==
  ASSUME NEW p \in Points PROVE Basic /\ Once /\ SaveLast(p) => Once'
<1> SUFFICES ASSUME Basic, Once, SaveLast(p) PROVE Once'
  OBVIOUS
<1>1. /\ post[p] = "logged" /\ post'[p] = "saved"
      /\ \A q \in Points \ {p} : post'[q] = post[q]
      /\ UNCHANGED <<tick, copy, queue, batch, flusher, unsure, restored, logged>>
  BY DEF SaveLast, phoneVars, history, Basic, TypeOK
<1>2. Stored' = Stored
  BY <1>1 DEF Stored
<1>3. InStore'
  BY <1>1, <1>2 DEF Once, InStore
<1>4. ASSUME NEW x \in Points, PostedOnce(x) PROVE PostedOnce(x)'
  BY <1>1, <1>4 DEF PostedOnce
<1> QED
  BY <1>1, <1>3, <1>4 DEF Once

LEMMA OnceStep == Basic /\ Once /\ [Next]_vars => Once'
<1> SUFFICES ASSUME Basic, Once, [Next]_vars PROVE Once'
  OBVIOUS
<1>1. CASE StartOrStop \/ UNCHANGED vars
  BY <1>1, UntouchedOnce DEF StartOrStop, vars, phoneVars, serverVars, history
<1>2. ASSUME NEW p \in Points, SkipFlush(p) PROVE Once'
  <2>1. \A q \in Points : tick'[q] = tick[q] \/ (tick[q] = "stored" /\ tick'[q] = "done")
    BY <1>2 DEF SkipFlush, Basic, TypeOK
  <2> QED
    BY <1>2, <2>1, UntouchedOnce DEF SkipFlush, serverVars, history
<1> QED
  BY <1>1, <1>2, OnTickOnce, EnqueueOnce, FlushOnce, FlushAnsweredOnce, FlushFailedOnce, KillOnce,
     PostGpsOnce, SaveLastOnce DEF Next, Phone, Server

-----------------------------------------------------------------------------
(* The order of capture.  While no tick overlaps another and no older      *)
(* queue is put back, queues rise, and the next batch to be posted never   *)
(* ends before a point that was posted already.                            *)

Rising(s) == \A i, j \in 1..Len(s) : i < j => s[i] < s[j]

\* The first batch of a queue reaches x.
Reaches(s, x) == s # <<>> => \E y \in Range(Slice(s, BatchSize)) : x <= y

InOrder ==
  /\ \A q \in Reading : q = captured /\ copy[q] = queue
  /\ Rising(queue)
  /\ \A q \in Points : tick[q] = "flushing" => Rising(copy[q])
  /\ \A p \in Points : \A x \in Range(batch[p]) :
       /\ Reaches(queue, x)
       /\ \A q \in Points : tick[q] = "flushing" => Reaches(copy[q], x)
  /\ lastGps # 0 => \E p \in Points : lastGps \in Range(batch[p])

Orderly == crowded \cup restored = {}

Advances == Basic /\ Once /\ (Orderly => InOrder)

LEMMA FirstBatch ==
  ASSUME NEW s \in Seq(Points)
  PROVE  \A y : y \in Range(Slice(s, BatchSize)) <=> \E i \in 1..Len(s) : i <= BatchSize /\ y = s[i]
<1> DEFINE n == Len(Slice(s, BatchSize))
<1>1. Len(s) \in Nat /\ BatchSize \in Nat /\ n = IF Len(s) < BatchSize THEN Len(s) ELSE BatchSize
  BY FrontElements, SizesAssumption
<1>2. \A y : y \in Range(Slice(s, BatchSize)) <=> \E i \in 1..n : y = s[i]
  BY SMTT(30), FrontElements, Elements
<1> HIDE DEF n
<1>3. \A i : i \in 1..n <=> i \in 1..Len(s) /\ i <= BatchSize
  BY <1>1
<1> QED
  BY <1>2, <1>3

\* Pushing the latest point and trimming move the first batch on.
LEMMA PushedReaches ==
  ASSUME NEW s \in Seq(Points), Len(s) <= MaxQueue, NEW e \in Points,
         \A y \in Range(s) : y < e, Rising(s)
  PROVE  LET u == Trimmed(Append(s, e)) IN
         /\ Rising(u)
         /\ \A x \in Points : x < e /\ Reaches(s, x) => Reaches(u, x)
<1> DEFINE t == Append(s, e)
           u == Trimmed(t)
           k == IF Len(t) > MaxQueue THEN 1 ELSE 0
<1>1. /\ t \in Seq(Points) /\ Len(s) \in Nat /\ Len(t) = Len(s) + 1
      /\ \A i \in 1..Len(s) : t[i] = s[i]
      /\ t[Len(s) + 1] = e /\ MaxQueue \in Nat \ {0} /\ BatchSize \in Nat \ {0}
  BY SizesAssumption
<1>2. \A i \in 1..Len(s) : s[i] < e
  BY Elements
<1>3. Rising(t) /\ \A i \in 1..Len(t) : t[i] \in Points
  BY <1>1, <1>2 DEF Rising
<1> HIDE DEF t
<1>4. /\ u \in Seq(Points) /\ Len(u) = Len(t) - k /\ k \in 0..1 /\ k <= Len(s)
      /\ \A i \in 1..Len(u) : u[i] = t[i + k] /\ i + k \in 1..Len(t)
  <2>1. CASE Len(t) > MaxQueue
    <3>1. Len(t) - MaxQueue = 1 /\ 1 \in 0..Len(t) /\ 1 <= Len(s)
      BY <1>1, <2>1
    <3>2. u = SliceFrom(t, 1)
      BY <2>1, <3>1 DEF Trimmed
    <3> QED
      BY <1>1, <2>1, <3>1, <3>2, RestElements
  <2>2. CASE ~(Len(t) > MaxQueue)
    BY <1>1, <2>2 DEF Trimmed
  <2> QED
    BY <2>1, <2>2
<1> HIDE DEF u, k
<1>5. Rising(u)
  <2> SUFFICES ASSUME NEW i \in 1..Len(u), NEW j \in 1..Len(u), i < j PROVE u[i] < u[j]
    BY DEF Rising
  <2>1. i + k < j + k
    BY <1>4
  <2> QED
    BY <1>3, <1>4, <2>1 DEF Rising
<1>6. ASSUME NEW x \in Points, x < e, Reaches(s, x) PROVE Reaches(u, x)
  <2>1. PICK i \in 1..Len(u) : i <= BatchSize /\ x <= u[i]
    <3>1. CASE s = <<>>
      <4>1. Len(s) = 0 /\ Len(t) = 1 /\ k = 0
        BY <1>1, <1>4, <3>1
      <4>2. 1 \in 1..Len(u) /\ u[1] = e /\ 1 <= BatchSize
        BY <1>1, <1>4, <4>1
      <4> QED
        BY <1>6, <4>2 DEF Points
    <3>2. CASE s # <<>>
      <4>1. PICK y \in Range(Slice(s, BatchSize)) : x <= y
        BY <1>6, <3>2 DEF Reaches
      <4>2. PICK i \in 1..Len(s) : i <= BatchSize /\ y = s[i]
        BY FirstBatch
      <4>3. y = t[i]
        BY <1>1, <4>2
      <4>4. i \in 1..Len(u) /\ u[i] = t[i + k]
        BY <1>1, <1>4, <4>2, <4>3
      <4>5. t[i] <= t[i + k]
        <5>1. i \in 1..Len(t) /\ i + k \in 1..Len(t) /\ (i = i + k \/ i < i + k)
          BY <1>1, <1>4, <4>2, <4>3, <4>4
        <5> QED
          BY <1>3, <5>1 DEF Rising, Points
      <4>6. x \in Int /\ t[i] \in Int /\ t[i + k] \in Int
        BY <1>1, <1>3, <1>4, <4>2, <4>4 DEF Points
      <4>7. x <= t[i]
        BY <4>1, <4>2, <4>3
      <4>8. x <= u[i]
        BY <4>4, <4>5, <4>6, <4>7
      <4> QED
        BY <4>2, <4>4, <4>8
    <3> QED
      BY <3>1, <3>2
  <2>2. u[i] \in Range(Slice(u, BatchSize))
    BY <1>4, <2>1, FirstBatch
  <2> QED
    BY <2>1, <2>2 DEF Reaches
<1> QED
  BY <1>5, <1>6 DEF u, t

\* What is left of a queue lies behind the batch, and rises.
LEMMA RestFollows ==
  ASSUME NEW s \in Seq(Points), Rising(s)
  PROVE  LET rest == SliceFrom(s, Len(Slice(s, BatchSize))) IN
         /\ Rising(rest)
         /\ \A x, y \in Points : y \in Range(Slice(s, BatchSize)) /\ x <= y => Reaches(rest, x)
<1> DEFINE n == Len(Slice(s, BatchSize))
           rest == SliceFrom(s, n)
<1>1. /\ Len(s) \in Nat /\ n \in 0..Len(s) /\ BatchSize \in Nat \ {0}
      /\ \A i \in 1..Len(s) : s[i] \in Points
      /\ \A i \in 1..n : Slice(s, BatchSize)[i] = s[i]
      /\ Slice(s, BatchSize) \in Seq(Points)
  BY FrontElements, SizesAssumption
<1> HIDE DEF n
<1>2. /\ rest \in Seq(Points) /\ Len(rest) = Len(s) - n
      /\ \A i \in 1..Len(rest) : rest[i] = s[i + n] /\ i + n \in 1..Len(s)
  BY <1>1, RestElements
<1> HIDE DEF rest
<1>3. Rising(rest)
  <2> SUFFICES ASSUME NEW i \in 1..Len(rest), NEW j \in 1..Len(rest), i < j PROVE rest[i] < rest[j]
    BY DEF Rising
  <2>1. i + n < j + n
    BY <1>1, <1>2
  <2> QED
    BY <1>2, <2>1 DEF Rising
<1>4. ASSUME NEW x \in Points, NEW y \in Points, y \in Range(Slice(s, BatchSize)), x <= y,
             rest # <<>>
      PROVE  \E z \in Range(Slice(rest, BatchSize)) : x <= z
  <2>1. PICK i \in 1..n : y = s[i]
    BY <1>1, <1>4, Elements DEF n
  <2>2. Len(rest) \in Nat /\ Len(rest) # 0
    BY <1>2, <1>4
  <2>3. 1 \in 1..Len(rest) /\ 1 <= BatchSize
    BY <1>1, <2>2
  <2>4. rest[1] = s[1 + n] /\ i \in 1..Len(s) /\ 1 + n \in 1..Len(s) /\ i < 1 + n
    BY <1>1, <1>2, <2>1, <2>2
  <2>5. y < rest[1] /\ rest[1] \in Points
    BY <1>1, <2>1, <2>4 DEF Rising
  <2>6. rest[1] \in Range(Slice(rest, BatchSize))
    BY <1>2, <2>3, FirstBatch
  <2> QED
    BY <1>4, <2>5, <2>6 DEF Points
<1> QED
  BY <1>3, <1>4 DEF Reaches, rest, n

LEMMA InitInOrder == Init => InOrder
  BY DEF Init, InOrder, Reading, Rising, Range

\* Disorder is never forgotten.
LEMMA OrderlyWas == [Next]_vars /\ Orderly' => Orderly
  BY DEF Next, Phone, Server, StartOrStop, OnTick, Enqueue, SkipFlush, Flush, FlushAnswered, FlushFailed,
     Kill, PostGps, SaveLast, vars, history, Orderly

\* The points in queues, copies and batches were captured before the one being read.
LEMMA StoredBefore ==
  ASSUME Basic, Once, NEW r \in Points, tick[r] = "reading", r = captured
  PROVE  /\ \A x \in Range(queue) : x < r
         /\ \A p \in Points : \A x \in Range(batch[p]) : x \in Points /\ x < r
<1>1. \A x \in Stored : x <= captured /\ x # r
  BY DEF Stored, Basic, Ticks, TypeOK, Points
<1>2. \A x \in Stored : x \in Points /\ x < r
  BY <1>1 DEF Stored, Points
<1> QED
  BY <1>2 DEF Once, InStore

LEMMA OnTickInOrder == Basic /\ InOrder /\ OnTick /\ Orderly' => InOrder'
<1> SUFFICES ASSUME Basic, InOrder, OnTick, Orderly' PROVE InOrder'
  OBVIOUS
<1> DEFINE p == captured + 1
<1>1. p \in Points /\ captured' = p
  BY DEF OnTick, Basic, TypeOK
<1> HIDE DEF p
<1>2. Reading = {}
  BY DEF OnTick, Orderly
<1>3. tick'[p] = "reading" /\ copy'[p] = queue
  BY <1>1 DEF OnTick, Basic, TypeOK, p
<1>4. \A q \in Points \ {p} : tick'[q] = tick[q] /\ copy'[q] = copy[q]
  BY <1>1 DEF OnTick, Basic, TypeOK, p
<1>5. UNCHANGED <<queue, batch, lastGps>>
  BY DEF OnTick, serverVars
<1>6. Reading' \subseteq {p}
  BY <1>2, <1>4 DEF Reading
<1> QED
  BY <1>1, <1>3, <1>4, <1>5, <1>6 DEF InOrder, Reaches

LEMMA EnqueueInOrder ==
  ASSUME NEW p \in Points PROVE Basic /\ Once /\ InOrder /\ Enqueue(p) => InOrder'
<1> SUFFICES ASSUME Basic, Once, InOrder, Enqueue(p) PROVE InOrder'
  OBVIOUS
<1>1. /\ p \in Reading /\ tick'[p] = "stored" /\ queue' = Trimmed(Pushed(p))
      /\ \A q \in Points \ {p} : tick'[q] = tick[q] /\ copy'[q] = copy[q]
      /\ UNCHANGED <<captured, batch, lastGps>>
  BY DEF Enqueue, serverVars, Basic, TypeOK
<1>2. p = captured /\ queue' = Trimmed(Append(queue, p))
  BY <1>1 DEF InOrder, Pushed
<1>3. Reading' = {}
  BY <1>1, <1>2 DEF InOrder, Reading
<1>4. /\ \A x \in Range(queue) : x < p
      /\ \A q \in Points : \A x \in Range(batch[q]) : x \in Points /\ x < p
  BY <1>1, <1>2, StoredBefore DEF Reading
<1>5. /\ Rising(queue')
      /\ \A x \in Points : x < p /\ Reaches(queue, x) => Reaches(queue', x)
  <2>1. queue \in Seq(Points) /\ Len(queue) <= MaxQueue /\ Rising(queue)
    BY DEF Basic, TypeOK, InOrder
  <2>2. /\ Rising(Trimmed(Append(queue, p)))
        /\ \A x \in Points : x < p /\ Reaches(queue, x) => Reaches(Trimmed(Append(queue, p)), x)
    BY <1>4, <2>1, PushedReaches
  <2> QED
    BY <1>2, <2>2
<1>6. \A q \in Points : tick'[q] = "flushing" => tick[q] = "flushing" /\ copy'[q] = copy[q]
  BY <1>1
<1>7. \A q \in Points : \A x \in Range(batch'[q]) : Reaches(queue', x)
  BY <1>1, <1>4, <1>5 DEF InOrder
<1> QED
  BY <1>1, <1>3, <1>5, <1>6, <1>7 DEF InOrder, Reaches

LEMMA FlushInOrder ==
  ASSUME NEW p \in Points PROVE Basic /\ Once /\ InOrder /\ Flush(p) => InOrder'
<1> SUFFICES ASSUME Basic, Once, InOrder, Flush(p) PROVE InOrder'
  OBVIOUS
<1>1. /\ tick[p] = "stored" /\ tick'[p] = "flushing" /\ copy'[p] = queue /\ flusher = 0
      /\ batch'[p] = Slice(queue, BatchSize)
      /\ \A q \in Points \ {p} : /\ tick'[q] = tick[q] /\ copy'[q] = copy[q]
                                  /\ batch'[q] = batch[q]
      /\ UNCHANGED <<captured, queue, lastGps>>
  BY DEF Flush, Basic, TypeOK
<1>2. Reading' = Reading /\ p \notin Reading
  BY <1>1 DEF Reading
<1>3. \A q \in Points \ {p} : tick'[q] # "flushing"
  BY <1>1 DEF Basic, Ticks, Points
<1>4. \A x \in Range(batch'[p]) : Reaches(queue, x)
  <2>1. Range(Slice(queue, BatchSize)) \subseteq Points
    BY FrontElements, RangeOfSeq DEF Basic, TypeOK
  <2> QED
    BY <1>1, <2>1 DEF Reaches, Points
<1>5. \A a \in Points : \A x \in Range(batch'[a]) : Reaches(queue, x)
  BY <1>1, <1>4 DEF InOrder
<1>6. lastGps # 0 => \E a \in Points : lastGps \in Range(batch'[a])
  <2>1. Range(batch[p]) = {}
    BY <1>1 DEF Once, InStore, Range
  <2> QED
    BY <1>1, <2>1 DEF InOrder
<1>7. \A q \in Reading : copy'[q] = copy[q]
  BY <1>1, <1>2 DEF Reading
<1> QED
  BY <1>1, <1>2, <1>3, <1>5, <1>6, <1>7 DEF InOrder, Reaches

LEMMA FlushAnsweredInOrder ==
  ASSUME NEW p \in Points
  PROVE  Basic /\ Once /\ InOrder /\ FlushAnswered(p) /\ Orderly' => InOrder'
<1> SUFFICES ASSUME Basic, Once, InOrder, FlushAnswered(p), Orderly' PROVE InOrder'
  OBVIOUS
<1>1. /\ tick[p] = "flushing" /\ tick'[p] = "done" /\ post[p] = "saved" /\ queue' = Remaining(p)
      /\ \A q \in Points \ {p} : tick'[q] = tick[q] /\ copy'[q] = copy[q]
      /\ UNCHANGED <<captured, batch, lastGps>>
      /\ restored' = IF Reading = {} THEN restored ELSE restored \cup Range(batch[p])
  BY DEF FlushAnswered, serverVars, Basic, TypeOK
<1>2. /\ copy[p] \in Seq(Points) /\ Rising(copy[p]) /\ batch[p] = Slice(copy[p], BatchSize)
      /\ batch[p] \in Seq(Points) /\ batch[p] # <<>>
  BY <1>1 DEF InOrder, Basic, TypeOK, Ticks, Posts
<1>3. Range(batch[p]) # {}
  BY <1>2, SomeElement
<1>4. Reading = {} /\ Reading' = {}
  BY <1>1, <1>3 DEF Orderly, Reading
<1>5. \A q \in Points : tick'[q] # "flushing"
  BY <1>1 DEF Basic, Ticks
<1>6. /\ Rising(queue')
      /\ \A x, y \in Points : y \in Range(batch[p]) /\ x <= y => Reaches(queue', x)
  BY <1>1, <1>2, RestFollows DEF Remaining
<1>7. \A a \in Points : \A x \in Range(batch[a]) : Reaches(queue', x)
  <2> SUFFICES ASSUME NEW a \in Points, NEW x \in Range(batch[a]) PROVE Reaches(queue', x)
    OBVIOUS
  <2>1. x \in Points /\ Range(batch[p]) \subseteq Points
    BY RangeOfSeq DEF Basic, TypeOK
  <2>2. copy[p] # <<>>
    BY SMTT(30), <1>2, <1>3, BatchIsFront DEF Range
  <2>3. PICK y \in Range(batch[p]) : x <= y
    BY <1>1, <1>2, <2>2 DEF InOrder, Reaches
  <2> QED
    BY <1>6, <2>1, <2>3
<1> QED
  BY <1>1, <1>4, <1>5, <1>6, <1>7 DEF InOrder, Reaches

LEMMA FlushFailedInOrder ==
  ASSUME NEW p \in Points PROVE Basic /\ InOrder /\ FlushFailed(p) => InOrder'
<1> SUFFICES ASSUME Basic, InOrder, FlushFailed(p) PROVE InOrder'
  OBVIOUS
<1>1. /\ tick[p] = "flushing" /\ tick'[p] = "done"
      /\ \A q \in Points \ {p} : tick'[q] = tick[q] /\ copy'[q] = copy[q]
      /\ UNCHANGED <<captured, queue, batch, lastGps>>
  BY DEF FlushFailed, Kept, serverVars, Basic, TypeOK
<1>2. Reading' = Reading /\ p \notin Reading /\ \A q \in Reading : copy'[q] = copy[q]
  BY <1>1 DEF Reading
<1> QED
  BY <1>1, <1>2 DEF InOrder, Reaches

LEMMA KillInOrder == InOrder /\ Kill => InOrder'
<1> SUFFICES ASSUME InOrder, Kill PROVE InOrder'
  OBVIOUS
<1>1. \A p \in Points : tick'[p] \in {"none", "done"}
  BY DEF Kill
<1>2. Reading' = {} /\ UNCHANGED <<queue, batch, lastGps>>
  BY <1>1 DEF Kill, Reading, serverVars
<1> QED
  BY <1>1, <1>2 DEF InOrder, Reaches

LEMMA SaveLastInOrder ==
  ASSUME NEW p \in Points PROVE Basic /\ InOrder /\ SaveLast(p) => InOrder'
<1> SUFFICES ASSUME Basic, InOrder, SaveLast(p) PROVE InOrder'
  OBVIOUS
<1>1. batch[p] \in Seq(Points) /\ batch[p] # <<>>
  BY DEF SaveLast, Basic, Posts, TypeOK
<1>2. Range(batch[p]) \in SUBSET Points /\ Range(batch[p]) # {}
  BY <1>1, SomeElement
<1>3. lastGps' \in Range(batch[p])
  BY <1>2, LatestPoint DEF SaveLast
<1>4. UNCHANGED <<captured, tick, copy, queue, batch>>
  BY DEF SaveLast, phoneVars
<1> QED
  BY <1>3, <1>4 DEF InOrder, Reaches, Reading

LEMMA AdvancesStep == Advances /\ [Next]_vars => Advances'
<1> SUFFICES ASSUME Advances, [Next]_vars, Orderly' PROVE InOrder'
  BY BasicStep, OnceStep DEF Advances
<1>1. Basic /\ Once /\ InOrder
  BY OrderlyWas DEF Advances
<1>2. CASE StartOrStop \/ UNCHANGED vars
  BY <1>1, <1>2 DEF StartOrStop, vars, phoneVars, serverVars, InOrder, Reaches, Reading
<1>3. ASSUME NEW p \in Points, SkipFlush(p) PROVE InOrder'
  <2>1. /\ tick[p] = "stored" /\ tick'[p] = "done" /\ \A q \in Points \ {p} : tick'[q] = tick[q]
        /\ UNCHANGED <<captured, copy, queue, batch, lastGps>>
    BY <1>1, <1>3 DEF SkipFlush, serverVars, Basic, TypeOK
  <2>2. Reading' = Reading
    BY <2>1 DEF Reading
  <2> QED
    BY <1>1, <2>1, <2>2 DEF InOrder, Reaches
<1>4. ASSUME NEW p \in Points, PostGps(p) PROVE InOrder'
  BY <1>1, <1>4 DEF PostGps, phoneVars, InOrder, Reaches, Reading
<1> QED
  BY <1>1, <1>2, <1>3, <1>4, OnTickInOrder, EnqueueInOrder, FlushInOrder, FlushAnsweredInOrder,
     FlushFailedInOrder, KillInOrder, SaveLastInOrder DEF Next, Phone, Server

\* Only SaveLast moves the position; of a flush under way, it moves it on.
LEMMA PositionStep ==
  Advances /\ [Next]_vars =>
    (lastGps' < lastGps => \/ \E p \in Points : SaveLast(p) /\ p # flusher
                           \/ restored \cup crowded # {})
<1> SUFFICES ASSUME Advances, [Next]_vars, lastGps' < lastGps, Orderly,
                    ~\E p \in Points : SaveLast(p) /\ p # flusher
             PROVE  FALSE
  BY DEF Orderly
<1>1. Basic /\ InOrder /\ lastGps \in Nat
  BY DEF Advances, Basic, TypeOK
<1>2. lastGps' # lastGps
  BY <1>1
<1>3. PICK p \in Points : SaveLast(p)
  BY <1>2 DEF Next, Phone, Server, StartOrStop, OnTick, Enqueue, SkipFlush, Flush, FlushAnswered,
     FlushFailed, Kill, PostGps, vars, serverVars
<1>4. tick[p] = "flushing" /\ batch[p] = Slice(copy[p], BatchSize) /\ copy[p] \in Seq(Points)
  BY <1>1, <1>3 DEF Basic, Ticks, TypeOK
<1>5. batch[p] \in Seq(Points) /\ batch[p] # <<>>
  BY <1>1, <1>3 DEF SaveLast, Basic, Posts, TypeOK
<1>6. Range(batch[p]) \in SUBSET Points /\ Range(batch[p]) # {}
  BY <1>5, SomeElement
<1>7. lastGps' \in Points /\ \A x \in Range(batch[p]) : x <= lastGps'
  BY <1>3, <1>6, LatestPoint DEF SaveLast
<1>8. lastGps # 0
  BY <1>1, <1>7 DEF Points
<1>9. copy[p] # <<>>
  BY <1>4, <1>6, BatchIsFront DEF Range
<1>10. PICK y \in Range(batch[p]) : lastGps <= y
  BY <1>1, <1>4, <1>8, <1>9 DEF InOrder, Reaches
<1> QED
  BY <1>1, <1>6, <1>7, <1>10 DEF Points

-----------------------------------------------------------------------------
(* The theorems.                                                           *)

\* Every state of the tracker and its server is well-typed: in particular the stored
\* queue never exceeds MAX_QUEUE, whatever flushes write back.
THEOREM Types == Spec => []TypeOK
<1>1. Basic => TypeOK
  BY DEF Basic
<1> QED
  BY <1>1, InitBasic, BasicStep, PTL DEF Spec

\* A captured point is stored or logged, unless the queue was full, the app was killed
\* before storing it, or overlapping ticks or an answered flush wrote the queue while
\* it was being stored (_enqueue and flush, gpsTracker.js).
THEOREM Loss == Spec => []NothingElseIsLost
<1>1. Inv => NothingElseIsLost
  BY DEF Inv
<1> QED
  BY <1>1, InitInv, InvStep, PTL DEF Spec

\* postGps logs a point twice only if gpsTracker.js posted it without getting the
\* answer, or a tick put it back that had read the queue before the answer: flush takes
\* what was answered out of the queue, and one flush runs at a time.
THEOREM NoDoubleLog == Spec => []LoggedOnce
<1>1. Once => LoggedOnce
  BY DEF Once, PostedOnce, LoggedOnce
<1> QED
  BY <1>1, InitBasic, BasicStep, InitOnce, OnceStep, PTL DEF Spec

\* What postGps saves as the trip's position never goes back in time for a post that
\* gpsTracker.js still waits for, unless ticks overlapped or one put an older queue
\* back: queue, batches and retries keep the order of capture.
THEOREM PositionOrder == Spec => PositionAdvances
<1>1. Init => Advances
  BY InitBasic, InitOnce, InitInOrder DEF Advances
<1> QED
  BY <1>1, AdvancesStep, PositionStep, PTL DEF Spec, PositionAdvances
=============================================================================
