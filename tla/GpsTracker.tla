------------------------------ MODULE GpsTracker ------------------------------
(***************************************************************************)
(* The position points of one trip on their way from the driver's phone to *)
(* the server: gpsTracker.js on the phone, postGps on the server.          *)
(*                                                                         *)
(* A tick appends its point to a queue in the phone's storage (read, then  *)
(* write) and then flushes: read the queue, post its oldest points, write  *)
(* back the rest of what was read.  Ticks do not wait for one another and  *)
(* the next one comes before a slow post has answered; the post times out  *)
(* after 15 s but may still be served later, and the app may be killed at  *)
(* any moment.  Points are numbered in the order they are captured.        *)
(*                                                                         *)
(* External, from how gpsTracker.js uses it: AsyncStorage serves reads and *)
(* writes, and answers them, in the order they are issued; what is written *)
(* survives the app.  Failures of the storage itself are not modelled.     *)
(***************************************************************************)
EXTENDS Naturals, Sequences, FiniteSetsExt, Functions

CONSTANTS MaxPoints,  \* bound: points captured
          BatchSize,  \* BATCH_SIZE
          MaxQueue    \* MAX_QUEUE

ASSUME SizesAssumption ==
  /\ MaxPoints \in Nat
  /\ BatchSize \in Nat \ {0}
  /\ MaxQueue \in Nat \ {0}

Points == 1..MaxPoints

VARIABLES bound,     \* this.tripId is set
          captured,  \* points captured so far
          tick,      \* where the tick of each point is suspended
          copy,      \* the queue as the tick of each point read it
          queue,     \* the stored queue
          flusher,   \* the tick whose flush is under way (_flushing), or 0
          batch,     \* what the flush of each tick posted
          post,      \* how far the server is with it
          logged,    \* how often GpsLog has each point
          lastGps,   \* the point in Trip.LastLatitude, LastLongitude, LastGpsAt
          beside,    \* history: points that may be stored during this flush
          crowded,   \* history: points whose tick overlapped another tick
          overtaken, \* history: points stored beside a flush that was answered
          dropped,   \* history: points over MaxQueue, or in memory when killed
          unsure,    \* history: points posted without an answer
          restored   \* history: points answered while a tick held an older queue

phoneVars == <<bound, captured, tick, copy, queue, flusher, batch>>
serverVars == <<post, logged, lastGps>>
history == <<beside, crowded, overtaken, dropped, unsure, restored>>
vars == <<phoneVars, serverVars, history>>

TypeOK ==
  /\ bound \in BOOLEAN
  /\ captured \in 0..MaxPoints
  /\ tick \in [Points -> {"none", "reading", "stored", "flushing", "done"}]
  /\ copy \in [Points -> Seq(Points)]
  /\ queue \in Seq(Points) /\ Len(queue) <= MaxQueue
  /\ flusher \in 0..MaxPoints
  /\ batch \in [Points -> Seq(Points)]
  /\ post \in [Points -> {"none", "sent", "logged", "saved"}]
  /\ logged \in [Points -> Nat]
  /\ lastGps \in 0..MaxPoints
  /\ {beside, crowded, overtaken, dropped, unsure, restored} \subseteq SUBSET Points

\* slice(0, n) and slice(n) of a queue.
Slice(s, n) == SubSeq(s, 1, IF Len(s) < n THEN Len(s) ELSE n)
SliceFrom(s, n) == SubSeq(s, n + 1, Len(s))

Reading == {p \in Points : tick[p] = "reading"}

Init ==
  /\ bound = FALSE /\ captured = 0 /\ queue = <<>> /\ flusher = 0
  /\ tick = [p \in Points |-> "none"]
  /\ copy = [p \in Points |-> <<>>]
  /\ batch = [p \in Points |-> <<>>]
  /\ post = [p \in Points |-> "none"]
  /\ logged = [p \in Points |-> 0]
  /\ lastGps = 0
  /\ beside = {} /\ crowded = {} /\ overtaken = {}
  /\ dropped = {} /\ unsure = {} /\ restored = {}

-----------------------------------------------------------------------------
(* The phone.                                                              *)

\* start binds the trip once its awaits are through (a call made before a stop may
\* do so after it); stop unbinds it.
StartOrStop ==
  /\ bound' = ~ bound
  /\ UNCHANGED <<captured, tick, copy, queue, flusher, batch, serverVars, history>>

\* A position arrives and _enqueue reads the stored queue.
OnTick ==
  LET p == captured + 1 IN
  /\ bound
  /\ p \in Points
  /\ captured' = p
  /\ tick' = [tick EXCEPT ![p] = "reading"]
  /\ copy' = [copy EXCEPT ![p] = queue]
  /\ crowded' = IF Reading = {} THEN crowded ELSE crowded \cup Reading \cup {p}
  /\ beside' = IF flusher = 0 THEN beside ELSE beside \cup {p}
  /\ UNCHANGED <<bound, queue, flusher, batch, serverVars,
                 overtaken, dropped, unsure, restored>>

\* Mutant: the newest point goes first.
PushedInFront(p) == <<p>> \o copy[p]

\* The queue as read with the new point, and without the oldest over MaxQueue.
Pushed(p) == Append(copy[p], p)

\* Mutant: one point too many is kept.
TrimmedLate(s) == IF Len(s) > MaxQueue + 1 THEN SliceFrom(s, Len(s) - MaxQueue) ELSE s

Trimmed(s) == IF Len(s) > MaxQueue THEN SliceFrom(s, Len(s) - MaxQueue) ELSE s

\* _enqueue stores it.
Enqueue(p) ==
  /\ p \in Reading /\ \A q \in Reading : p <= q
  /\ queue' = Trimmed(Pushed(p))
  /\ tick' = [tick EXCEPT ![p] = "stored"]
  /\ copy' = [copy EXCEPT ![p] = <<>>]
  /\ dropped' = dropped \cup (Range(Pushed(p)) \ Range(Trimmed(Pushed(p))))
  /\ UNCHANGED <<bound, captured, flusher, batch, serverVars,
                 beside, crowded, overtaken, unsure, restored>>

\* flush returns at once if the tracker was stopped, another flush is under way or
\* nothing is queued.
SkipFlush(p) ==
  /\ tick[p] = "stored"
  /\ ~ bound \/ flusher # 0 \/ queue = <<>>
  /\ tick' = [tick EXCEPT ![p] = "done"]
  /\ UNCHANGED <<bound, captured, copy, queue, flusher, batch, serverVars, history>>

\* flush reads the queue and posts its oldest points.
Flush(p) ==
  /\ tick[p] = "stored"
  /\ bound /\ flusher = 0 /\ queue # <<>>
  /\ tick' = [tick EXCEPT ![p] = "flushing"]
  /\ copy' = [copy EXCEPT ![p] = queue]
  /\ flusher' = p
  /\ batch' = [batch EXCEPT ![p] = Slice(queue, BatchSize)]
  /\ post' = [post EXCEPT ![p] = "sent"]
  /\ beside' = Reading
  /\ UNCHANGED <<bound, captured, queue, logged, lastGps,
                 crowded, overtaken, dropped, unsure, restored>>

\* Mutant: the last point posted stays queued.
RemainingAndOne(p) == SliceFrom(copy[p], Len(batch[p]) - 1)

\* The post has answered: flush stores the rest of the queue it read before.
Remaining(p) == SliceFrom(copy[p], Len(batch[p]))

FlushAnswered(p) ==
  /\ tick[p] = "flushing"
  /\ post[p] = "saved"
  /\ queue' = Remaining(p)
  /\ flusher' = 0
  /\ tick' = [tick EXCEPT ![p] = "done"]
  /\ overtaken' = overtaken \cup beside
  /\ beside' = {}
  /\ restored' = IF Reading = {} THEN restored ELSE restored \cup Range(batch[p])
  /\ copy' = [copy EXCEPT ![p] = <<>>]
  /\ UNCHANGED <<bound, captured, batch, serverVars, crowded, dropped, unsure>>

\* Mutant: a failed post takes its points with it.
KeptLessBatch(p) == Remaining(p)

\* The post has failed or timed out, served or not: flush keeps the queue.
Kept(p) == queue

FlushFailed(p) ==
  /\ tick[p] = "flushing"
  /\ queue' = Kept(p)
  /\ flusher' = 0
  /\ tick' = [tick EXCEPT ![p] = "done"]
  /\ beside' = {}
  /\ unsure' = unsure \cup Range(batch[p])
  /\ copy' = [copy EXCEPT ![p] = <<>>]
  /\ UNCHANGED <<bound, captured, batch, serverVars,
                 crowded, overtaken, dropped, restored>>

\* The system kills the app: what is in memory is gone, the storage stays.
Kill ==
  /\ bound' = FALSE /\ flusher' = 0 /\ beside' = {}
  /\ tick' = [p \in Points |-> IF tick[p] = "none" THEN "none" ELSE "done"]
  /\ dropped' = dropped \cup Reading
  /\ unsure' = IF flusher = 0 THEN unsure ELSE unsure \cup Range(batch[flusher])
  /\ copy' = [p \in Points |-> <<>>]
  /\ UNCHANGED <<captured, queue, batch, serverVars, crowded, overtaken, restored>>

-----------------------------------------------------------------------------
(* The server.  It may serve a post after the phone has given up on it.    *)

\* postGps logs the points.  (A post that is lost, or refused because the trip has
\* ended, is one that is never served.)
PostGps(p) ==
  /\ post[p] = "sent"
  /\ logged' = [q \in Points |-> logged[q] + (IF q \in Range(batch[p]) THEN 1 ELSE 0)]
  /\ post' = [post EXCEPT ![p] = "logged"]
  /\ UNCHANGED <<phoneVars, lastGps, history>>

\* It then saves the latest of them as the trip's position, and answers.
SaveLast(p) ==
  /\ post[p] = "logged"
  /\ lastGps' = Max(Range(batch[p]))
  /\ post' = [post EXCEPT ![p] = "saved"]
  /\ UNCHANGED <<phoneVars, logged, history>>

-----------------------------------------------------------------------------
Phone == \/ StartOrStop \/ OnTick \/ Kill
         \/ \E p \in Points : \/ Enqueue(p) \/ SkipFlush(p) \/ Flush(p)
                              \/ FlushAnswered(p) \/ FlushFailed(p)
Server == \E p \in Points : PostGps(p) \/ SaveLast(p)
Next == Phone \/ Server
Spec == Init /\ [][Next]_vars

-----------------------------------------------------------------------------
(* Properties.                                                             *)

Queued(p) == p \in Range(queue) \/ tick[p] = "reading"

\* A captured point is stored or logged, whatever answers are lost and whenever
\* the app dies, unless the queue was full, the app died before storing it, or
\* another tick or an answered flush wrote the queue while it was being stored.
NothingElseIsLost ==
  \A p \in 1..captured :
    Queued(p) \/ logged[p] > 0 \/ p \in crowded \cup overtaken \cup dropped

\* A point is logged twice only if it was posted without an answer, or a tick put
\* it back that still held the queue from before the answer.
LoggedOnce == \A p \in Points \ (unsure \cup restored) : logged[p] <= 1

\* The position on the map goes back in time only when a post is served that the
\* phone has given up on, or after overlapping ticks or a late store put older
\* points back: otherwise the queue, the batches and the retries are in the order
\* of capture.
PositionAdvances ==
  [][lastGps' < lastGps =>
       \/ \E p \in Points : SaveLast(p) /\ p # flusher
       \/ restored \cup crowded # {}]_vars

\* _enqueue drops "the oldest point if over" MAX_QUEUE, flush says "keep the queue, do
\* not drop": even of ticks that do not overlap, only points over the limit, or in
\* memory when the app is killed, are lost.  Not kept: flush stores what was left of the
\* queue it read before the upload, and a point stored meanwhile is gone (README,
\* section 5; to see it, name this invariant in the cfg).
OnlyOverflowIsLost ==
  \A p \in 1..captured : Queued(p) \/ logged[p] > 0 \/ p \in crowded \cup dropped
=============================================================================
